------------------------------ MODULE CondVar -------------------------------
(***************************************************************************)
(* sys::cond_var (src/sys.Threading/ConditionVariable.h): a condition      *)
(* variable created lazily by its first wait or notification, and its      *)
(* clients, who change a predicate under a mutex and notify with or        *)
(* without it.  The once is taken at OnceSpec; the handle and the mutex    *)
(* below it are tinycthread's (external): a wait releases the mutex and    *)
(* falls asleep in one step, may wake spuriously, and takes the mutex      *)
(* again before it returns.                                                *)
(***************************************************************************)
EXTENDS Integers

CONSTANTS
  Threads,    \* the threads that share the condition variable
  NoThread,   \* the owner of a free mutex
  MaxFaults   \* bound: handle operations that fail

Assumption == NoThread \notin Threads /\ MaxFaults \in Nat

VARIABLES
  call, done, \* the once (OnceSpec)
  op,         \* op[t]: the operation t is in
  pc,         \* pc[t]: where in it
  owner,      \* the thread that holds the mutex
  handle,     \* the handle: "none", "live" or "destroyed"
  pred,       \* what wait_until waits for; the mutex guards it
  owed,       \* pred became true and not everybody has been notified since
  outcome,    \* outcome[t]: what t's last operation returned
  phase,      \* the condition variable: "alive" or "dead"
  faults      \* failures so far

vars == <<call, done, op, pc, owner, handle, pred, owed, outcome, phase, faults>>
onceVars == <<call, done>>

O == INSTANCE OnceSpec

Waits   == {"wait", "wait_until"}
Notices == {"notify_one", "notify_all"}

TypeOK ==
  /\ O!TypeOK
  /\ op \in [Threads -> Waits \cup Notices \cup {"none"}]
  /\ pc \in [Threads -> {"out", "test", "init", "handle", "asleep", "relock"}]
  /\ owner \in Threads \cup {NoThread}
  /\ handle \in {"none", "live", "destroyed"}
  /\ pred \in BOOLEAN
  /\ owed \in BOOLEAN
  /\ outcome \in [Threads -> {"ok", "init_failed", "operation_failed"}]
  /\ phase \in {"alive", "dead"}
  /\ faults \in Nat

Init ==
  /\ O!Init
  /\ op = [t \in Threads |-> "none"]
  /\ pc = [t \in Threads |-> "out"]
  /\ owner = NoThread
  /\ handle = "none"
  /\ pred = FALSE
  /\ owed = FALSE
  /\ outcome = [t \in Threads |-> "ok"]
  /\ phase = "alive"
  /\ faults = 0

Fault == faults < MaxFaults /\ faults' = faults + 1

Return(t, r) ==
  /\ op' = [op EXCEPT ![t] = "none"]
  /\ pc' = [pc EXCEPT ![t] = "out"]
  /\ outcome' = [outcome EXCEPT ![t] = r]

-----------------------------------------------------------------------------
(* Clients between operations: they lock, change the predicate under the   *)
(* mutex, and unlock.                                                      *)
Lock(t) ==
  /\ pc[t] = "out"
  /\ owner = NoThread
  /\ owner' = t
  /\ UNCHANGED <<onceVars, op, pc, handle, pred, owed, outcome, faults, phase>>

Unlock(t) ==
  /\ pc[t] = "out"
  /\ owner = t
  /\ owner' = NoThread
  /\ UNCHANGED <<onceVars, op, pc, handle, pred, owed, outcome, faults, phase>>

SetPred(t) ==
  /\ pc[t] = "out"
  /\ owner = t
  /\ pred' = ~pred
  /\ owed' = ~pred
  /\ UNCHANGED <<onceVars, op, pc, owner, handle, outcome, faults, phase>>

-----------------------------------------------------------------------------
(* The operations.  wait and wait_until need the mutex held.               *)

EnterInit(t) ==
  /\ O!Enter(t)
  /\ pc' = [pc EXCEPT ![t] = "init"]

Call(t, o) ==
  /\ pc[t] = "out"
  /\ op' = [op EXCEPT ![t] = o]
  /\ EnterInit(t)
  /\ UNCHANGED <<owner, handle, pred, owed, outcome, faults, phase>>

Wait(t) == owner = t /\ Call(t, "wait")

WaitUntil(t) ==
  /\ pc[t] = "out"
  /\ owner = t
  /\ op' = [op EXCEPT ![t] = "wait_until"]
  /\ pc' = [pc EXCEPT ![t] = "test"]
  /\ UNCHANGED <<onceVars, owner, handle, pred, owed, outcome, faults, phase>>

Notify(t) == \E o \in Notices : Call(t, o)

TestUnlocked(t) ==
  /\ pc[t] = "test"
  /\ \/ /\ pred
        /\ Return(t, "ok")
        /\ UNCHANGED <<onceVars, owner>>
     \/ /\ ~pred
        /\ EnterInit(t)
        /\ owner' = NoThread
        /\ UNCHANGED <<op, outcome>>
  /\ UNCHANGED <<handle, pred, owed, faults, phase>>

(* The head of wait_until's loop.                                          *)
Test(t) ==
  /\ pc[t] = "test"
  /\ \/ /\ pred
        /\ Return(t, "ok")
        /\ UNCHANGED onceVars
     \/ /\ ~pred
        /\ EnterInit(t)
        /\ UNCHANGED <<op, outcome>>
  /\ UNCHANGED <<owner, handle, pred, owed, faults, phase>>

TryInit(t) ==
  /\ O!Begin(t)
  /\ UNCHANGED <<op, pc, owner, handle, pred, owed, outcome, faults, phase>>

CreateForgotten(t) ==
  /\ call[t] = "run"
  /\ call' = [call EXCEPT ![t] = "in"]
  /\ handle' = "live"
  /\ UNCHANGED <<done, op, pc, owner, pred, owed, outcome, faults, phase>>

Create(t) ==
  /\ O!Succeed(t)
  /\ handle' = "live"
  /\ UNCHANGED <<op, pc, owner, pred, owed, outcome, faults, phase>>

CreateFailsUnchecked(t) ==
  /\ O!Fail(t)
  /\ Fault
  /\ pc' = [pc EXCEPT ![t] = "handle"]
  /\ UNCHANGED <<op, owner, handle, pred, owed, outcome, phase>>

CreateFails(t) ==
  /\ O!Fail(t)
  /\ Fault
  /\ Return(t, "init_failed")
  /\ UNCHANGED <<owner, handle, pred, owed, phase>>

InitReturns(t) ==
  /\ O!Return(t)
  /\ pc' = [pc EXCEPT ![t] = "handle"]
  /\ UNCHANGED <<op, owner, handle, pred, owed, outcome, faults, phase>>

(* cond.wait, up to falling asleep.                                        *)
Sleep(t) ==
  /\ pc[t] = "handle"
  /\ op[t] \in Waits
  /\ owner' = NoThread
  /\ pc' = [pc EXCEPT ![t] = "asleep"]
  /\ UNCHANGED <<onceVars, op, handle, pred, owed, outcome, faults, phase>>

(* cond.wait, signal or broadcast fails; a wait that fails never slept.    *)
HandleFails(t) ==
  /\ pc[t] = "handle"
  /\ Fault
  /\ Return(t, "operation_failed")
  /\ UNCHANGED <<onceVars, owner, handle, pred, owed, phase>>

Asleep == {t \in Threads : pc[t] = "asleep"}

Signal(t) ==
  /\ pc[t] = "handle"
  /\ op[t] = "notify_one"
  /\ \E W \in SUBSET Asleep :
       /\ IF Asleep = {} THEN W = {} ELSE \E w \in Asleep : W = {w}
       /\ pc' = [u \in Threads |-> IF u \in W THEN "relock"
                                   ELSE IF u = t THEN "out" ELSE pc[u]]
  /\ op' = [op EXCEPT ![t] = "none"]
  /\ outcome' = [outcome EXCEPT ![t] = "ok"]
  /\ UNCHANGED <<onceVars, owner, handle, pred, owed, faults, phase>>

Broadcast(t) ==
  /\ pc[t] = "handle"
  /\ op[t] = "notify_all"
  /\ pc' = [u \in Threads |-> IF u \in Asleep THEN "relock"
                              ELSE IF u = t THEN "out" ELSE pc[u]]
  /\ op' = [op EXCEPT ![t] = "none"]
  /\ outcome' = [outcome EXCEPT ![t] = "ok"]
  /\ owed' = FALSE
  /\ UNCHANGED <<onceVars, owner, handle, pred, faults, phase>>

SpuriousWake(t) ==
  /\ pc[t] = "asleep"
  /\ pc' = [pc EXCEPT ![t] = "relock"]
  /\ UNCHANGED <<onceVars, op, owner, handle, pred, owed, outcome, faults, phase>>

RelockReturns(t) ==
  /\ pc[t] = "relock"
  /\ owner = NoThread
  /\ owner' = t
  /\ Return(t, "ok")
  /\ UNCHANGED <<onceVars, handle, pred, owed, faults, phase>>

RelockSkipped(t) ==
  /\ pc[t] = "relock"
  /\ IF op[t] = "wait" THEN Return(t, "ok")
     ELSE pc' = [pc EXCEPT ![t] = "test"] /\ UNCHANGED <<op, outcome>>
  /\ UNCHANGED <<onceVars, owner, handle, pred, owed, faults, phase>>

(* The end of cond.wait: wait returns, wait_until asks the predicate again.*)
Relock(t) ==
  /\ pc[t] = "relock"
  /\ owner = NoThread
  /\ owner' = t
  /\ IF op[t] = "wait" THEN Return(t, "ok")
     ELSE pc' = [pc EXCEPT ![t] = "test"] /\ UNCHANGED <<op, outcome>>
  /\ UNCHANGED <<onceVars, handle, pred, owed, faults, phase>>

DestroyAlways ==
  /\ phase = "alive"
  /\ \A t \in Threads : pc[t] = "out"
  /\ phase' = "dead"
  /\ handle' = "destroyed"
  /\ UNCHANGED <<onceVars, op, pc, owner, pred, owed, outcome, faults>>

(* The destructor, which a client runs when nobody uses the variable.      *)
Destroy ==
  /\ phase = "alive"
  /\ \A t \in Threads : pc[t] = "out"
  /\ phase' = "dead"
  /\ handle' = IF done THEN "destroyed" ELSE handle
  /\ UNCHANGED <<onceVars, op, pc, owner, pred, owed, outcome, faults>>

Stopped == phase = "dead" /\ UNCHANGED vars

Advance(t) ==
  \/ Test(t) \/ TryInit(t) \/ Create(t) \/ CreateFails(t) \/ InitReturns(t)
  \/ Sleep(t) \/ HandleFails(t) \/ Signal(t) \/ Broadcast(t) \/ Relock(t)

Client(t) == Lock(t) \/ Unlock(t) \/ SetPred(t) \/ Wait(t) \/ WaitUntil(t) \/ Notify(t)

Next ==
  \/ phase = "alive" /\ \E t \in Threads : Client(t) \/ Advance(t) \/ SpuriousWake(t)
  \/ Destroy
  \/ Stopped

Spec == Init /\ [][Next]_vars

(* Operations run on; nobody has to notify, or to unlock the mutex.        *)
FairSpec == Spec /\ \A t \in Threads : WF_vars(Advance(t))

-----------------------------------------------------------------------------
(* Properties.                                                             *)

(* wait and wait_until return with the mutex held, also when they fail,    *)
(* and a wait_until that succeeds does so with the predicate true,         *)
(* whatever woke it (ConditionVariable.h:71-72, 88).                       *)
WaitsReturn(t) ==
  op[t] \in Waits /\ op'[t] = "none" =>
    /\ owner' = t
    /\ op[t] = "wait_until" /\ outcome'[t] = "ok" => pred'

WaitsHonest == [][\A t \in Threads : WaitsReturn(t)]_vars

(* No wake-up is lost between the test of the predicate and the sleep:     *)
(* when the predicate is true and notify_all has run since it became so,   *)
(* no wait_until is asleep.                                                *)
NoLostWakeup ==
  pred /\ ~owed => \A t \in Threads : pc[t] = "asleep" => op[t] # "wait_until"

(* Nothing uses the handle before its creation succeeded, and the          *)
(* destructor destroys exactly the handles that were created.              *)
HandleLives ==
  /\ \A t \in Threads : pc[t] \in {"handle", "asleep"} => handle = "live"
  /\ phase = "dead" => handle = IF done THEN "destroyed" ELSE "none"

(* Whoever sleeps does so at a handle that exists, and is not forgotten.   *)
SleepersSafe == NoLostWakeup /\ HandleLives

(* notify_one and notify_all return whatever the holder of the mutex and   *)
(* the sleepers do.                                                        *)
NotifiersReturn ==
  \A t \in Threads : op[t] \in Notices ~> op[t] = "none"

=============================================================================
