-------------------------------- MODULE Once --------------------------------
(***************************************************************************)
(* sys::once (src/sys.Threading/Once.h), at the level of its two atomic    *)
(* flags and the memory order of every access to them.                     *)
(*                                                                         *)
(* What a thread may read and what it may rely on is modelled with views.  *)
(* An event is a run of a caller's function (numbered from 1) or the store *)
(* that sets the flag initialized (STORE).  hb[t] is the set of events     *)
(* that happen before the next step of thread t.  A release operation      *)
(* attaches the writer's hb to the flag it writes; an acquire operation    *)
(* that reads the flag adds what is attached to the reader's hb; a relaxed *)
(* one adds nothing.  A store to initialized reaches each thread some time *)
(* later (Propagate), or at once if it is in the thread's hb (coherence).  *)
(* A read-modify-write reads the latest value, as busy's test_and_set      *)
(* does, and continues the release sequence it reads from.                 *)
(***************************************************************************)
EXTENDS Integers, FiniteSets

CONSTANTS
  Threads,      \* the threads that share the once
  MaxFailures   \* bound: functions that fail, by an error result or a throw

ASSUME OnceAssumption == MaxFailures \in Nat

VARIABLES
  pc,           \* where each thread is; "idle" when it is in no call
  ret,          \* ret[t]: what t's call is about to return
  run,          \* run[t]: number of the function t runs or last ran
  busy,         \* the flag busy
  busyView,     \* events attached to the latest write of busy
  stored,       \* the flag initialized, latest value
  initView,     \* events attached to the store that set initialized
  initialized,  \* initialized[t]: what a load of the flag by t returns
  hb,           \* hb[t]: events that happen before t's next step
  runs,         \* functions started so far
  succeeded,    \* numbers of the functions that returned success
  told          \* told[t]: a call has told t that the once is complete

vars == <<pc, ret, run, busy, busyView, stored, initView, initialized, hb,
          runs, succeeded, told>>

STORE == 0

Places == {"idle", "check", "spin", "recheck", "run", "set", "clear", "wait"}

TypeOK ==
  /\ pc \in [Threads -> Places]
  /\ ret \in [Threads -> {"none", "done", "failed"}]
  /\ run \in [Threads -> Nat]
  /\ busy \in BOOLEAN
  /\ busyView \in SUBSET Nat
  /\ stored \in BOOLEAN
  /\ initView \in SUBSET Nat
  /\ initialized \in [Threads -> BOOLEAN]
  /\ hb \in [Threads -> SUBSET Nat]
  /\ runs \in Nat
  /\ succeeded \in SUBSET Nat
  /\ told \in [Threads -> BOOLEAN]

Init ==
  /\ pc = [t \in Threads |-> "idle"]
  /\ ret = [t \in Threads |-> "none"]
  /\ run = [t \in Threads |-> 0]
  /\ busy = FALSE
  /\ busyView = {}
  /\ stored = FALSE
  /\ initView = {}
  /\ initialized = [t \in Threads |-> FALSE]
  /\ hb = [t \in Threads |-> {}]
  /\ runs = 0
  /\ succeeded = {}
  /\ told = [t \in Threads |-> FALSE]

-----------------------------------------------------------------------------
(* A call of call_once: already_consumed, then the function, then the      *)
(* store and the deferred clear of busy.                                   *)

CallOnce(t) ==
  /\ pc[t] = "idle"
  /\ pc' = [pc EXCEPT ![t] = "check"]
  /\ ret' = [ret EXCEPT ![t] = "none"]
  /\ UNCHANGED <<run, busy, busyView, stored, initView, initialized, hb, runs,
                 succeeded, told>>

(* A load that acquires what was attached to the store of initialized.     *)
SeeCompleted(t) ==
  /\ initialized[t]
  /\ hb' = [hb EXCEPT ![t] = @ \cup initView]
  /\ told' = [told EXCEPT ![t] = TRUE]

CheckRelaxed(t) ==
  /\ pc[t] = "check"
  /\ \/ /\ initialized[t]
        /\ pc' = [pc EXCEPT ![t] = "idle"]
        /\ told' = [told EXCEPT ![t] = TRUE]
     \/ /\ ~initialized[t]
        /\ pc' = [pc EXCEPT ![t] = "spin"]
        /\ UNCHANGED told
  /\ UNCHANGED <<ret, run, busy, busyView, stored, initView, initialized, hb,
                 runs, succeeded>>

(* is_completed, asked first and without taking busy.                      *)
Check(t) ==
  /\ pc[t] = "check"
  /\ \/ /\ SeeCompleted(t)
        /\ pc' = [pc EXCEPT ![t] = "idle"]
     \/ /\ ~initialized[t]
        /\ pc' = [pc EXCEPT ![t] = "spin"]
        /\ UNCHANGED <<hb, told>>
  /\ UNCHANGED <<ret, run, busy, busyView, stored, initView, initialized, runs,
                 succeeded>>

(* Acquiring read-modify-write of busy by t: busy keeps what is attached.  *)
AcquireBusy(t) ==
  /\ busy' = TRUE
  /\ hb' = [hb EXCEPT ![t] = @ \cup busyView]
  /\ initialized' = [initialized EXCEPT ![t] = @ \/ STORE \in busyView]

(* One turn of the spin loop, the yield included.                          *)
TestAndSet(t) ==
  /\ pc[t] = "spin"
  /\ AcquireBusy(t)
  /\ pc' = IF busy THEN pc ELSE [pc EXCEPT ![t] = "recheck"]
  /\ UNCHANGED <<ret, run, busyView, stored, initView, runs, succeeded, told>>

BeginRun(t) ==
  /\ pc' = [pc EXCEPT ![t] = "run"]
  /\ runs' = runs + 1
  /\ run' = [run EXCEPT ![t] = runs + 1]
  /\ UNCHANGED ret

RecheckSkipped(t) ==
  /\ pc[t] = "recheck"
  /\ BeginRun(t)
  /\ UNCHANGED <<busy, busyView, stored, initView, initialized, hb, succeeded,
                 told>>

(* The relaxed test under busy: another caller may have succeeded since    *)
(* Check.                                                                  *)
Recheck(t) ==
  /\ pc[t] = "recheck"
  /\ \/ /\ initialized[t]
        /\ pc' = [pc EXCEPT ![t] = "clear"]
        /\ ret' = [ret EXCEPT ![t] = "done"]
        /\ UNCHANGED <<runs, run>>
     \/ /\ ~initialized[t]
        /\ BeginRun(t)
  /\ UNCHANGED <<busy, busyView, stored, initView, initialized, hb, succeeded,
                 told>>

(* The function returns, or returns a result that is not an error.         *)
Succeed(t) ==
  /\ pc[t] = "run"
  /\ pc' = [pc EXCEPT ![t] = "set"]
  /\ hb' = [hb EXCEPT ![t] = @ \cup {run[t]}]
  /\ succeeded' = succeeded \cup {run[t]}
  /\ UNCHANGED <<ret, run, busy, busyView, stored, initView, initialized, runs,
                 told>>

Failing(t) ==
  /\ pc[t] = "run"
  /\ runs <= MaxFailures
  /\ hb' = [hb EXCEPT ![t] = @ \cup {run[t]}]
  /\ UNCHANGED <<run, busy, busyView, stored, initView, initialized, runs,
                 succeeded, told>>

(* The function throws or returns an error: whatever it wrote stays        *)
(* written, and only the deferred clear of busy is left to run.            *)
Fail(t) ==
  /\ Failing(t)
  /\ pc' = [pc EXCEPT ![t] = "clear"]
  /\ ret' = [ret EXCEPT ![t] = "failed"]

(* initialized.test_and_set(release).                                      *)
Set(t) ==
  /\ pc[t] = "set"
  /\ pc' = [pc EXCEPT ![t] = "clear"]
  /\ ret' = [ret EXCEPT ![t] = "done"]
  /\ stored' = TRUE
  /\ initialized' = [initialized EXCEPT ![t] = TRUE]
  /\ hb' = [hb EXCEPT ![t] = @ \cup {STORE}]
  /\ initView' = hb'[t]
  /\ UNCHANGED <<run, busy, busyView, runs, succeeded, told>>

ReturnFrom(t) ==
  /\ pc[t] = "clear"
  /\ pc' = [pc EXCEPT ![t] = "idle"]
  /\ busy' = FALSE
  /\ told' = [told EXCEPT ![t] = @ \/ ret[t] = "done"]
  /\ UNCHANGED <<ret, run, stored, initView, initialized, hb, runs, succeeded>>

ClearRelaxed(t) == ReturnFrom(t) /\ busyView' = {}

(* busy.clear(release), on every path out of the locked region.            *)
Clear(t) == ReturnFrom(t) /\ busyView' = hb[t]

-----------------------------------------------------------------------------
(* The other two operations, and the store reaching a thread.              *)

IsCompleted(t) ==
  /\ pc[t] = "idle"
  /\ SeeCompleted(t)
  /\ UNCHANGED <<pc, ret, run, busy, busyView, stored, initView, initialized,
                 runs, succeeded>>

Wait(t) ==
  /\ pc[t] = "idle"
  /\ pc' = [pc EXCEPT ![t] = "wait"]
  /\ UNCHANGED <<ret, run, busy, busyView, stored, initView, initialized, hb,
                 runs, succeeded, told>>

WaitSleeps(t) ==
  /\ pc[t] = "wait"
  /\ ~initialized[t]
  /\ UNCHANGED vars

(* One turn of wait's loop.                                                *)
WaitLoad(t) ==
  /\ pc[t] = "wait"
  /\ \/ /\ SeeCompleted(t)
        /\ pc' = [pc EXCEPT ![t] = "idle"]
     \/ /\ ~initialized[t]
        /\ UNCHANGED <<pc, hb, told>>
  /\ UNCHANGED <<ret, run, busy, busyView, stored, initView, initialized, runs,
                 succeeded>>

(* The C++ memory model lets a load lag behind the store, and asks that    *)
(* the store become visible in finite time.                                *)
Propagate(t) ==
  /\ stored
  /\ ~initialized[t]
  /\ initialized' = [initialized EXCEPT ![t] = TRUE]
  /\ UNCHANGED <<pc, ret, run, busy, busyView, stored, initView, hb, runs,
                 succeeded, told>>

Advance(t) ==
  \/ Check(t) \/ TestAndSet(t) \/ Recheck(t) \/ Succeed(t) \/ Fail(t)
  \/ Set(t) \/ Clear(t) \/ WaitLoad(t)

Step(t) == CallOnce(t) \/ Wait(t) \/ IsCompleted(t) \/ Advance(t) \/ Propagate(t)

Next == \E t \in Threads : Step(t)

Spec == Init /\ [][Next]_vars

(* A thread inside a call keeps taking steps (its function terminates),    *)
(* and stores become visible.  No thread is obliged to make a call.        *)
Fairness == \A t \in Threads : WF_vars(Advance(t)) /\ WF_vars(Propagate(t))

FairSpec == Spec /\ Fairness

-----------------------------------------------------------------------------
(* Properties.                                                             *)

Running(t) == pc[t] \in {"run", "set"}

(* No two callers' functions run at once (the reason for busy).            *)
RunsExclusive == \A t, u \in Threads : Running(t) /\ Running(u) => t = u

(* A function is never started after one has succeeded: callers that read  *)
(* initialized as clear before the store must find it set under busy, even *)
(* with the relaxed load (Once.h:41).                                      *)
NoRunAfterSuccess == [][succeeded # {} => runs' = runs]_vars

(* A thread told that the once is complete, by call_once, wait or          *)
(* is_completed, sees everything every function wrote, failed ones too:    *)
(* there is no data race on what the function initialised.                 *)
CompletionPublishes ==
  \A t \in Threads : told[t] => /\ succeeded # {}
                                /\ 1 .. runs \subseteq hb[t]

(* A function retried after failures sees what every earlier one left.     *)
RetrySeesFailures ==
  \A t \in Threads : Running(t) => 1 .. (run[t] - 1) \subseteq hb[t]

(* If functions do not fail for ever, every call of call_once returns, so  *)
(* no path out of the locked region leaves busy set; and once a function   *)
(* has succeeded, no thread stays in wait.                                 *)
CallsReturn ==
  \A t \in Threads :
    pc[t] # "idle" /\ (pc[t] = "wait" => succeeded # {}) ~> pc[t] = "idle"

(* The code implements what it promises.  A failing caller counts as       *)
(* running until it has cleared busy.                                      *)
CallStatus(t) ==
  IF pc[t] = "idle" THEN "out"
  ELSE IF Running(t) \/ (pc[t] = "clear" /\ ret[t] = "failed") THEN "run"
  ELSE "in"

Promise == INSTANCE OnceSpec WITH
  done <- stored,
  call <- [t \in Threads |-> CallStatus(t)]

ImplementsPromise == Promise!Spec

=============================================================================
