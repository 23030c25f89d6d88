------------------------------- MODULE Mutex --------------------------------
(***************************************************************************)
(* sys::ordinary_mutex (src/sys.Threading/Mutex.h) over a handle that is   *)
(* created lazily, under the once of the mutex, by whichever call comes    *)
(* first.  The once is taken at its promise, OnceSpec, which Once          *)
(* implements.  The handle is tinycthread's (external); creating, locking  *)
(* and unlocking it may fail, as the repository's fuzz tests have it fail. *)
(***************************************************************************)
EXTENDS Integers

CONSTANTS
  Threads,      \* the threads that share the mutex
  NoThread,     \* the owner of a handle nobody holds
  IsRecursive,  \* the template parameter: reentrant_mutex or mutex
  MaxDepth,     \* bound: acquisitions one thread holds at a time
  MaxFaults     \* bound: handle operations that fail

ASSUME MutexAssumption ==
  /\ NoThread \notin Threads
  /\ IsRecursive \in BOOLEAN
  /\ MaxDepth \in Nat \ {0}
  /\ MaxFaults \in Nat

VARIABLES
  call, done,   \* the once (OnceSpec)
  op,           \* op[t]: the operation t is in, "none" outside of any
  handle,       \* the handle: "none", "live" or "destroyed"
  owner, depth, \* what the live handle records
  guards,       \* guards[t]: live guards t got from lock and try_lock
  manual,       \* manual[t]: unreleased successes of acquire and try_acquire
  outcome,      \* outcome[t]: what t's last operation returned
  phase,        \* the mutex object: "alive", "dead", or "terminated"
  faults        \* failures so far

onceVars == <<call, done>>
vars == <<call, done, op, handle, owner, depth, guards, manual, outcome, phase,
          faults>>

O == INSTANCE OnceSpec

Blocking == {"lock", "acquire"}
Trying   == {"try_lock", "try_acquire"}
Guarded  == {"lock", "try_lock"}
Errors   == {"init_failed", "operation_failed", "busy"}

TypeOK ==
  /\ O!TypeOK
  /\ op \in [Threads -> Blocking \cup Trying \cup {"none"}]
  /\ handle \in {"none", "live", "destroyed"}
  /\ owner \in Threads \cup {NoThread}
  /\ depth \in Nat
  /\ guards \in [Threads -> Nat]
  /\ manual \in [Threads -> Nat]
  /\ outcome \in [Threads -> Errors \cup {"ok"}]
  /\ phase \in {"alive", "dead", "terminated"}
  /\ faults \in Nat

Init ==
  /\ O!Init
  /\ op = [t \in Threads |-> "none"]
  /\ handle = "none"
  /\ owner = NoThread
  /\ depth = 0
  /\ guards = [t \in Threads |-> 0]
  /\ manual = [t \in Threads |-> 0]
  /\ outcome = [t \in Threads |-> "ok"]
  /\ phase = "alive"
  /\ faults = 0

Holds(t) == guards[t] + manual[t]

Fault == faults < MaxFaults /\ faults' = faults + 1

Return(t, r) ==
  /\ op' = [op EXCEPT ![t] = "none"]
  /\ outcome' = [outcome EXCEPT ![t] = r]

-----------------------------------------------------------------------------
(* lock, try_lock, acquire and try_acquire: try_init first.  A mutex that  *)
(* is not reentrant must not be locked again by its holder (a stated       *)
(* precondition); trying to is harmless.                                   *)
Call(t, o) ==
  /\ phase = "alive"
  /\ op[t] = "none"
  /\ IF IsRecursive THEN Holds(t) < MaxDepth ELSE o \in Trying \/ Holds(t) = 0
  /\ O!Enter(t)
  /\ op' = [op EXCEPT ![t] = o]
  /\ UNCHANGED <<handle, owner, depth, guards, manual, outcome, phase, faults>>

TryInit(t) ==
  /\ O!Begin(t)
  /\ UNCHANGED <<op, handle, owner, depth, guards, manual, outcome, phase, faults>>

CreateForgotten(t) ==
  /\ call[t] = "run"
  /\ call' = [call EXCEPT ![t] = "in"]
  /\ handle' = "live"
  /\ UNCHANGED <<done, op, owner, depth, guards, manual, outcome, phase, faults>>

Create(t) ==
  /\ O!Succeed(t)
  /\ handle' = "live"
  /\ UNCHANGED <<op, owner, depth, guards, manual, outcome, phase, faults>>

CreateFails(t) ==
  /\ O!Fail(t)
  /\ Fault
  /\ Return(t, "init_failed")
  /\ UNCHANGED <<handle, owner, depth, guards, manual, phase>>

InitReturns(t) ==
  /\ O!Return(t)
  /\ UNCHANGED <<op, handle, owner, depth, guards, manual, outcome, phase, faults>>

AtHandle(t) == op[t] # "none" /\ call[t] = "out"

(* mtx_lock and mtx_trylock succeed on a free handle, or on one the same   *)
(* thread holds if it is recursive.                                        *)
AvailablePlain(t) == owner = NoThread

Available(t) == owner = NoThread \/ (IsRecursive /\ owner = t)

Grant(t) ==
  /\ IF op[t] \in Guarded
     THEN guards' = [guards EXCEPT ![t] = @ + 1] /\ UNCHANGED manual
     ELSE manual' = [manual EXCEPT ![t] = @ + 1] /\ UNCHANGED guards
  /\ Return(t, "ok")

Take(t) ==
  /\ AtHandle(t)
  /\ Available(t)
  /\ owner' = t
  /\ depth' = depth + 1
  /\ Grant(t)
  /\ UNCHANGED <<onceVars, handle, phase, faults>>

BusyRetries(t) ==
  /\ AtHandle(t)
  /\ op[t] \in Trying
  /\ ~Available(t)
  /\ UNCHANGED vars

Busy(t) ==
  /\ AtHandle(t)
  /\ op[t] \in Trying
  /\ ~Available(t)
  /\ Return(t, "busy")
  /\ UNCHANGED <<onceVars, handle, owner, depth, guards, manual, phase, faults>>

(* The handle operation fails, with any error but busy.                    *)
TakeFails(t) ==
  /\ AtHandle(t)
  /\ Fault
  /\ Return(t, "operation_failed")
  /\ UNCHANGED <<onceVars, handle, owner, depth, guards, manual, phase>>

-----------------------------------------------------------------------------
(* mtx_unlock by the owner.                                                *)
Unlock(t) ==
  /\ owner = t
  /\ depth' = depth - 1
  /\ owner' = IF depth = 1 THEN NoThread ELSE owner

(* The contract assertion of release holds for a caller that holds the     *)
(* mutex; when it does not, release is noexcept and the process ends.      *)
Release(t) ==
  /\ phase = "alive"
  /\ op[t] = "none"
  /\ manual[t] > 0
  /\ done
  /\ \/ /\ Unlock(t)
        /\ manual' = [manual EXCEPT ![t] = @ - 1]
        /\ Return(t, "ok")
        /\ UNCHANGED <<phase, faults>>
     \/ /\ Fault
        /\ Return(t, "operation_failed")
        /\ UNCHANGED <<owner, depth, manual, phase>>
  /\ UNCHANGED <<onceVars, handle, guards>>

DropGuardReleasesAll(t) ==
  /\ phase = "alive"
  /\ op[t] = "none"
  /\ guards[t] > 0
  /\ guards' = [guards EXCEPT ![t] = @ - 1]
  /\ owner' = NoThread
  /\ depth' = 0
  /\ UNCHANGED <<onceVars, op, handle, manual, outcome, phase, faults>>

(* A guard dies: release_guard asserts that release succeeded.             *)
DropGuard(t) ==
  /\ phase = "alive"
  /\ op[t] = "none"
  /\ guards[t] > 0
  /\ guards' = [guards EXCEPT ![t] = @ - 1]
  /\ \/ /\ done
        /\ Unlock(t)
        /\ UNCHANGED <<phase, faults>>
     \/ /\ Fault
        /\ phase' = "terminated"
        /\ UNCHANGED <<owner, depth>>
  /\ UNCHANGED <<onceVars, op, handle, manual, outcome>>

Quiet == \A t \in Threads : op[t] = "none" /\ Holds(t) = 0

Dying ==
  /\ phase = "alive"
  /\ Quiet
  /\ phase' = "dead"
  /\ UNCHANGED <<onceVars, op, owner, depth, guards, manual, outcome, faults>>

DestroyAlways == Dying /\ handle' = "destroyed"

(* The destructor, which callers run when nobody uses the mutex.           *)
Destroy == Dying /\ handle' = IF done THEN "destroyed" ELSE handle

Stopped == phase # "alive" /\ UNCHANGED vars

Advance(t) ==
  /\ phase = "alive"
  /\ \/ TryInit(t) \/ Create(t) \/ CreateFails(t) \/ InitReturns(t)
     \/ Take(t) \/ Busy(t) \/ TakeFails(t)

Step(t) ==
  \/ \E o \in Blocking \cup Trying : Call(t, o)
  \/ Advance(t)
  \/ Release(t)
  \/ DropGuard(t)

Next == (\E t \in Threads : Step(t)) \/ Destroy \/ Stopped

Spec == Init /\ [][Next]_vars

(* Threads inside an operation run; nobody has to call one, nor to unlock. *)
FairSpec == Spec /\ \A t \in Threads : WF_vars(Advance(t))

-----------------------------------------------------------------------------
(* Properties.                                                             *)

(* The acquisitions callers believe they hold are those the handle has     *)
(* recorded, whatever failed on the way: an error holds nothing, and two   *)
(* threads never both hold the mutex.                                      *)
HoldsAgree ==
  phase # "terminated" =>
    \A t \in Threads : Holds(t) = IF owner = t THEN depth ELSE 0

(* Nothing locks, unlocks or tries a handle before its creation succeeded  *)
(* or after its destruction, for all that creation is lazy and may fail,   *)
(* and the destructor destroys exactly the handles that were created.      *)
HandleUsable ==
  /\ \A t \in Threads : AtHandle(t) => handle = "live"
  /\ owner # NoThread => handle = "live"
  /\ phase = "dead" => handle = IF done THEN "destroyed" ELSE "none"

(* A call ends unless it blocks while another thread holds the mutex:      *)
(* tries return whoever holds it or creates its handle, the holder of a    *)
(* reentrant mutex is not blocked by its own hold, and a creation that     *)
(* failed is not remembered against the callers that wait for it.          *)
Blocked(t) == op[t] \in Blocking /\ owner # NoThread /\ ~(IsRecursive /\ owner = t)

CallsReturn ==
  \A t \in Threads :
    op[t] # "none" ~> (op[t] = "none" \/ phase # "alive" \/ Blocked(t))

=============================================================================
