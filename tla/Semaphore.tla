----------------------------- MODULE Semaphore ------------------------------
(***************************************************************************)
(* sys::ordinary_semaphore (src/sys.Threading/SemaphoreEx.h): a counter    *)
(* under a mutex, and a condition variable its acquirers wait on.  The     *)
(* mutex and the condition variable are taken at what Mutex and CondVar    *)
(* establish; any of their operations may fail.  A wait that fails has not *)
(* slept.                                                                  *)
(***************************************************************************)
EXTENDS Integers, FiniteSets

CONSTANTS
  Threads,    \* the threads that share the semaphore
  NoThread,   \* the owner of a free mutex
  Initial,    \* the initial count
  Highest,    \* the greatest value of the counter's type
  MaxHeld,    \* bound: permits one thread holds when it asks for another
  MaxFaults   \* bound: operations of the mutex and the cond_var that fail

ASSUME SemaphoreAssumption ==
  /\ NoThread \notin Threads
  /\ Highest \in Nat \ {0}
  /\ Initial \in 0 .. Highest
  /\ MaxHeld \in Nat
  /\ MaxFaults \in Nat

ASSUME FiniteThreads == IsFiniteSet(Threads)

VARIABLES
  owner,     \* the thread that holds the mutex
  counter,   \* the counter
  op,        \* op[t]: the operation t is in
  pc,        \* pc[t]: where in it
  ret,       \* ret[t]: what the operation under way is about to return
  manual,    \* manual[t]: successes of acquire t has not released
  guards,    \* guards[t]: live guards t got from access
  out,       \* grants callers have been told of, less releases
  unpaired,  \* somebody released what he had not acquired
  phase,     \* "alive", or "terminated" by a guard that failed
  faults     \* failures so far

vars == <<owner, counter, op, pc, ret, manual, guards, out, unpaired, phase, faults>>
clients == <<manual, guards, out, unpaired, phase>>

Acquires == {"acquire", "access"}
Releases == {"release", "drop"}

TypeOK ==
  /\ owner \in Threads \cup {NoThread}
  /\ counter \in 0 .. Highest
  /\ op \in [Threads -> Acquires \cup Releases \cup {"none"}]
  /\ pc \in [Threads -> {"out", "lock", "test", "asleep", "relock", "raise",
                         "notify", "unlock"}]
  /\ ret \in [Threads -> {"ok", "error", "overflow"}]
  /\ manual \in [Threads -> Nat]
  /\ guards \in [Threads -> Nat]
  /\ out \in Int
  /\ unpaired \in BOOLEAN
  /\ phase \in {"alive", "terminated"}
  /\ faults \in Nat

Init ==
  /\ owner = NoThread
  /\ counter = Initial
  /\ op = [t \in Threads |-> "none"]
  /\ pc = [t \in Threads |-> "out"]
  /\ ret = [t \in Threads |-> "ok"]
  /\ manual = [t \in Threads |-> 0]
  /\ guards = [t \in Threads |-> 0]
  /\ out = 0
  /\ unpaired = FALSE
  /\ phase = "alive"
  /\ faults = 0

Fault == faults < MaxFaults /\ faults' = faults + 1

Goto(t, place) == pc' = [pc EXCEPT ![t] = place]

Finish(t, r) ==
  /\ ret' = [ret EXCEPT ![t] = r]
  /\ Goto(t, "unlock")

-----------------------------------------------------------------------------
Call(t, o) ==
  /\ op[t] = "none"
  /\ o = "drop" => guards[t] > 0
  /\ o \in Acquires => manual[t] + guards[t] <= MaxHeld
  /\ op' = [op EXCEPT ![t] = o]
  /\ unpaired' = (unpaired \/ (o = "release" /\ manual[t] = 0))
  /\ Goto(t, "lock")
  /\ UNCHANGED <<owner, counter, ret, manual, guards, out, phase, faults>>

(* mut.lock(), the guard living to the end of the operation.               *)
Lock(t) ==
  /\ pc[t] = "lock"
  /\ owner = NoThread
  /\ owner' = t
  /\ Goto(t, IF op[t] \in Acquires THEN "test" ELSE "raise")
  /\ UNCHANGED <<counter, op, ret, faults, clients>>

(* release_guard asserts that release succeeded, in a noexcept function.   *)
Leave(t, r) ==
  /\ op' = [op EXCEPT ![t] = "none"]
  /\ ret' = [ret EXCEPT ![t] = "ok"]
  /\ Goto(t, "out")
  /\ phase' = IF op[t] = "drop" /\ r # "ok" THEN "terminated" ELSE phase
  /\ guards' = [guards EXCEPT ![t] = CASE op[t] = "access" /\ r = "ok" -> @ + 1
                                       [] op[t] = "drop" -> @ - 1
                                       [] OTHER -> @]
  /\ manual' = [manual EXCEPT ![t] =
                  CASE op[t] = "acquire" /\ r = "ok" -> @ + 1
                    [] op[t] = "release" /\ r = "ok" /\ @ > 0 -> @ - 1
                    [] OTHER -> @]
  /\ out' = CASE op[t] \in Acquires /\ r = "ok" -> out + 1
              [] op[t] \in Releases /\ r = "ok" -> out - 1
              [] OTHER -> out
  /\ UNCHANGED unpaired

LockFails(t) ==
  /\ pc[t] = "lock"
  /\ Fault
  /\ Leave(t, "error")
  /\ UNCHANGED <<owner, counter>>

TestForgets(t) ==
  /\ pc[t] = "test"
  /\ counter > 0
  /\ Finish(t, "ok")
  /\ UNCHANGED <<owner, counter, op, faults, clients>>

(* wait_until: a permit is taken, or the acquirer sleeps, mutex released.  *)
Test(t) ==
  /\ pc[t] = "test"
  /\ \/ /\ counter > 0
        /\ counter' = counter - 1
        /\ Finish(t, "ok")
        /\ UNCHANGED owner
     \/ /\ counter = 0
        /\ owner' = NoThread
        /\ Goto(t, "asleep")
        /\ UNCHANGED <<counter, ret>>
  /\ UNCHANGED <<op, faults, clients>>

(* The cond_var cannot be created or waited on: the error is passed on.    *)
WaitFails(t) ==
  /\ pc[t] = "test"
  /\ counter = 0
  /\ Fault
  /\ Finish(t, "error")
  /\ UNCHANGED <<owner, counter, op, clients>>

SpuriousWake(t) ==
  /\ pc[t] = "asleep"
  /\ Goto(t, "relock")
  /\ UNCHANGED <<owner, counter, op, ret, faults, clients>>

Relock(t) ==
  /\ pc[t] = "relock"
  /\ owner = NoThread
  /\ owner' = t
  /\ Goto(t, "test")
  /\ UNCHANGED <<counter, op, ret, faults, clients>>

RaiseWraps(t) ==
  /\ pc[t] = "raise"
  /\ counter' = (counter + 1) % (Highest + 1)
  /\ Goto(t, "notify")
  /\ UNCHANGED <<owner, op, ret, faults, clients>>

Raise(t) ==
  /\ pc[t] = "raise"
  /\ \/ /\ counter = Highest
        /\ Finish(t, "overflow")
        /\ UNCHANGED counter
     \/ /\ counter # Highest
        /\ counter' = counter + 1
        /\ Goto(t, "notify")
        /\ UNCHANGED ret
  /\ UNCHANGED <<owner, op, faults, clients>>

Asleep == {t \in Threads : pc[t] = "asleep"}

NotifySkipped(t) ==
  /\ pc[t] = "notify"
  /\ Finish(t, "ok")
  /\ UNCHANGED <<owner, counter, op, faults, clients>>

(* notify_one succeeds: it wakes a sleeper if there is one.                *)
NotifyOne(t) ==
  /\ pc[t] = "notify"
  /\ ret' = [ret EXCEPT ![t] = "ok"]
  /\ \/ /\ Asleep = {}
        /\ Goto(t, "unlock")
     \/ \E w \in Asleep : pc' = [pc EXCEPT ![t] = "unlock", ![w] = "relock"]
  /\ UNCHANGED <<owner, counter, op, faults, clients>>

NotifyFailsKeeping(t) ==
  /\ pc[t] = "notify"
  /\ Fault
  /\ Finish(t, "error")
  /\ UNCHANGED <<owner, counter, op, clients>>

(* notify_one fails: the permit is taken back and the error passed on.     *)
NotifyFails(t) ==
  /\ pc[t] = "notify"
  /\ Fault
  /\ counter' = counter - 1
  /\ Finish(t, "error")
  /\ UNCHANGED <<owner, op, clients>>

(* The mutex's guard dies and the operation returns.                       *)
Unlock(t) ==
  /\ pc[t] = "unlock"
  /\ owner' = NoThread
  /\ Leave(t, ret[t])
  /\ UNCHANGED <<counter, faults>>

(* The mutex's own release_guard terminates the process.                   *)
UnlockFails(t) ==
  /\ pc[t] = "unlock"
  /\ Fault
  /\ phase' = "terminated"
  /\ UNCHANGED <<owner, counter, op, pc, ret, manual, guards, out, unpaired>>

Advance(t) ==
  \/ Lock(t) \/ LockFails(t) \/ Test(t) \/ WaitFails(t) \/ Relock(t)
  \/ Raise(t) \/ NotifyOne(t) \/ NotifyFails(t) \/ Unlock(t) \/ UnlockFails(t)

Step(t) ==
  \/ \E o \in Acquires \cup Releases : Call(t, o)
  \/ Advance(t)
  \/ SpuriousWake(t)

Stopped == phase = "terminated" /\ UNCHANGED vars

Next == (phase = "alive" /\ \E t \in Threads : Step(t)) \/ Stopped

Spec == Init /\ [][Next]_vars

(* Operations run on.  Nobody has to release, and no mutex is fair.        *)
FairSpec == Spec /\ \A t \in Threads : WF_vars(phase = "alive" /\ Advance(t))

-----------------------------------------------------------------------------
(* Properties.                                                             *)

(* No permit is made or lost on any path: whenever the mutex is free, the  *)
(* counter and what callers have been told add up.                         *)
Conservation ==
  phase = "alive" /\ owner = NoThread => counter + out = Initial

(* A semaphore used as its comments ask, with nothing failing below it,    *)
(* never terminates the process in a guard.                                *)
GuardsSafe == phase = "terminated" => faults > 0 \/ unpaired

(* No permit is stranded: if somebody sleeps while permits are left, as    *)
(* many threads are awake and on their way to take them.                   *)
NoStrandedPermit ==
  owner = NoThread /\ Asleep # {} /\ phase = "alive" =>
    counter <= Cardinality({t \in Threads : pc[t] = "relock"})

(* Acquirers do not all wait while permits are left, unless others keep    *)
(* taking the mutex to release: it owes nobody a turn.                     *)
PermitsMove ==
  (counter > 0 /\ \E t \in Threads : op[t] \in Acquires) ~>
    \/ counter = 0
    \/ phase = "terminated"
    \/ \A t \in Threads : op[t] \notin Acquires
    \/ \E t \in Threads : op[t] \in Releases

(* Callers see a semaphore of Initial permits, with no mutex in sight.     *)
Permits == INSTANCE SemaphoreSpec

ImplementsPermits == Permits!Spec

=============================================================================
