----------------------------- MODULE OnceProofs -----------------------------
(***************************************************************************)
(* Proofs about sys::once for any set of threads and any number of         *)
(* failures: type correctness, the safety properties MCOnce checks, and    *)
(* that every step of the code is a step of OnceSpec or a stutter.         *)
(***************************************************************************)
EXTENDS Once, TLAPS

(* The region between a successful test_and_set of busy and its clear.     *)
Locked(t) == pc[t] \in {"recheck", "run", "set", "clear"}

(* busy is the lock of that region.                                        *)
LockInv ==
  /\ \A t \in Threads : Locked(t) => busy
  /\ \A t, u \in Threads : Locked(t) /\ Locked(u) => t = u

(* Where the store of initialized stands against the success it records:   *)
(* between the two, the successful caller holds the lock at "set".         *)
StoreInv ==
  /\ stored => succeeded # {}
  /\ ~busy /\ succeeded # {} => stored
  /\ STORE \in busyView => stored
  /\ \A t \in Threads :
       /\ STORE \in hb[t] => stored
       /\ Locked(t) /\ pc[t] # "set" /\ succeeded # {} => stored
       /\ pc[t] \in {"run", "set"} => ~stored
       /\ pc[t] = "set" => succeeded # {}
       /\ pc[t] = "clear" => ret[t] = "failed" \/ (ret[t] = "done" /\ stored)
       /\ initialized[t] => stored
       /\ told[t] => stored

(* The lock hands on what happened under it: its holder, or busy itself    *)
(* when it is free, carries every run so far and the store.                *)
ViewInv ==
  /\ ~busy => 1 .. runs \subseteq busyView
  /\ ~busy /\ stored => STORE \in busyView
  /\ stored => 1 .. runs \subseteq initView
  /\ \A t \in Threads :
       /\ pc[t] \in {"recheck", "set", "clear"} => 1 .. runs \subseteq hb[t]
       /\ pc[t] = "run" => 1 .. (runs - 1) \subseteq hb[t]
       /\ Running(t) => run[t] = runs /\ runs > 0
       /\ Locked(t) /\ stored => STORE \in hb[t] /\ initialized[t]
       /\ told[t] => 1 .. runs \subseteq hb[t]

IInv == TypeOK /\ LockInv /\ StoreInv /\ ViewInv

-----------------------------------------------------------------------------
LEMMA InitTypeOK == Init => TypeOK
<1> SUFFICES ASSUME Init PROVE TypeOK
  OBVIOUS
<1> USE DEF Init
<1>1. pc \in [Threads -> Places] /\ ret \in [Threads -> {"none", "done", "failed"}]
  BY DEF Places
<1>2. run \in [Threads -> Nat] /\ busy \in BOOLEAN /\ busyView \in SUBSET Nat
  OBVIOUS
<1>3. stored \in BOOLEAN /\ initView \in SUBSET Nat
  OBVIOUS
<1>4. initialized \in [Threads -> BOOLEAN]
  OBVIOUS
<1>5. hb \in [Threads -> SUBSET Nat]
  OBVIOUS
<1>6. runs \in Nat /\ succeeded \in SUBSET Nat /\ told \in [Threads -> BOOLEAN]
  OBVIOUS
<1> QED
  BY <1>1, <1>2, <1>3, <1>4, <1>5, <1>6 DEF TypeOK

LEMMA NextTypeOK == TypeOK /\ [Next]_vars => TypeOK'
<1> SUFFICES ASSUME TypeOK, [Next]_vars PROVE TypeOK'
  OBVIOUS
<1> USE DEF TypeOK, Places
<1>1. CASE UNCHANGED vars
  BY <1>1 DEF vars
<1>2. ASSUME NEW t \in Threads, CallOnce(t) PROVE TypeOK'
  BY <1>2 DEF CallOnce
<1>3. ASSUME NEW t \in Threads, Wait(t) PROVE TypeOK'
  BY <1>3 DEF Wait
<1>4. ASSUME NEW t \in Threads, IsCompleted(t) PROVE TypeOK'
  BY <1>4 DEF IsCompleted, SeeCompleted
<1>5. ASSUME NEW t \in Threads, Check(t) PROVE TypeOK'
  BY <1>5 DEF Check, SeeCompleted
<1>6. ASSUME NEW t \in Threads, TestAndSet(t) PROVE TypeOK'
  BY <1>6 DEF TestAndSet, AcquireBusy
<1>7. ASSUME NEW t \in Threads, Recheck(t) PROVE TypeOK'
  BY <1>7 DEF Recheck, BeginRun
<1>8. ASSUME NEW t \in Threads, Succeed(t) PROVE TypeOK'
  BY <1>8 DEF Succeed
<1>9. ASSUME NEW t \in Threads, Fail(t) PROVE TypeOK'
  BY <1>9 DEF Fail, Failing
<1>10. ASSUME NEW t \in Threads, Set(t) PROVE TypeOK'
  BY <1>10 DEF Set, STORE
<1>11. ASSUME NEW t \in Threads, Clear(t) PROVE TypeOK'
  BY <1>11 DEF Clear, ReturnFrom
<1>12. ASSUME NEW t \in Threads, WaitLoad(t) PROVE TypeOK'
  BY <1>12 DEF WaitLoad, SeeCompleted
<1>13. ASSUME NEW t \in Threads, Propagate(t) PROVE TypeOK'
  BY <1>13 DEF Propagate
<1> QED
  BY <1>1, <1>2, <1>3, <1>4, <1>5, <1>6, <1>7, <1>8, <1>9, <1>10, <1>11,
     <1>12, <1>13 DEF Next, Step, Advance

(* Every variable keeps its type (Once.h:30-31).                           *)
THEOREM TypeCorrect == Spec => []TypeOK
  BY InitTypeOK, NextTypeOK, PTL DEF Spec

-----------------------------------------------------------------------------
LEMMA InitIInv == Init => IInv
<1> SUFFICES ASSUME Init PROVE IInv
  OBVIOUS
<1>1. LockInv /\ StoreInv
  BY DEF Init, LockInv, StoreInv, Locked, STORE
<1>2. 1 .. runs = {}
  BY DEF Init
<1>3. ViewInv
  BY <1>2 DEF Init, ViewInv, Locked, Running
<1> QED
  BY <1>1, <1>3, InitTypeOK DEF IInv

LEMMA CallOnceIInv ==
  ASSUME IInv, NEW t \in Threads, CallOnce(t)  PROVE LockInv' /\ StoreInv' /\ ViewInv'
<1> USE DEF IInv, TypeOK, CallOnce
<1>1. LockInv'
  BY DEF LockInv, Locked
<1>2. StoreInv'
  BY DEF LockInv, StoreInv, ViewInv, Locked, Running, STORE
<1>3. ViewInv'
  BY DEF LockInv, StoreInv, ViewInv, Locked, Running, STORE
<1> QED
  BY <1>1, <1>2, <1>3

LEMMA WaitIInv ==
  ASSUME IInv, NEW t \in Threads, Wait(t)  PROVE LockInv' /\ StoreInv' /\ ViewInv'
<1> USE DEF IInv, TypeOK, Wait
<1>1. LockInv'
  BY DEF LockInv, Locked
<1>2. StoreInv'
  BY DEF LockInv, StoreInv, ViewInv, Locked, Running, STORE
<1>3. ViewInv'
  BY DEF LockInv, StoreInv, ViewInv, Locked, Running, STORE
<1> QED
  BY <1>1, <1>2, <1>3

LEMMA IsCompletedIInv ==
  ASSUME IInv, NEW t \in Threads, IsCompleted(t)  PROVE LockInv' /\ StoreInv' /\ ViewInv'
<1> USE DEF IInv, TypeOK, IsCompleted, SeeCompleted
<1>1. LockInv'
  BY DEF LockInv, Locked
<1>2. StoreInv'
  BY DEF LockInv, StoreInv, ViewInv, Locked, Running, STORE
<1>3. ViewInv'
  BY DEF LockInv, StoreInv, ViewInv, Locked, Running, STORE
<1> QED
  BY <1>1, <1>2, <1>3

LEMMA CheckIInv ==
  ASSUME IInv, NEW t \in Threads, Check(t)  PROVE LockInv' /\ StoreInv' /\ ViewInv'
<1> USE DEF IInv, TypeOK, Check, SeeCompleted
<1>1. LockInv'
  BY DEF LockInv, Locked
<1>2. StoreInv'
  BY DEF LockInv, StoreInv, ViewInv, Locked, Running, STORE
<1>3. ViewInv'
  BY DEF LockInv, StoreInv, ViewInv, Locked, Running, STORE
<1> QED
  BY <1>1, <1>2, <1>3

LEMMA TestAndSetIInv ==
  ASSUME IInv, NEW t \in Threads, TestAndSet(t)  PROVE LockInv' /\ StoreInv' /\ ViewInv'
<1> USE DEF IInv, TypeOK, TestAndSet, AcquireBusy
<1>1. LockInv'
  BY DEF LockInv, Locked
<1>2. StoreInv'
  BY DEF LockInv, StoreInv, ViewInv, Locked, Running, STORE
<1>3. ViewInv'
  <2>1. CASE busy
    BY <2>1 DEF ViewInv, Locked, Running
  <2>2. CASE ~busy
    <3>1. 1 .. runs \subseteq hb'[t]
      BY <2>2 DEF ViewInv
    <3>2. stored => STORE \in hb'[t] /\ initialized'[t]
      BY <2>2 DEF ViewInv
    <3>3. \A u \in Threads : Locked(u)' => u = t
      BY <2>2 DEF LockInv, Locked
    <3> QED
      BY <2>2, <3>1, <3>2, <3>3 DEF ViewInv, Locked, Running
  <2> QED
    BY <2>1, <2>2
<1> QED
  BY <1>1, <1>2, <1>3

LEMMA RecheckIInv ==
  ASSUME IInv, NEW t \in Threads, Recheck(t)  PROVE LockInv' /\ StoreInv' /\ ViewInv'
<1> USE DEF IInv, TypeOK, Recheck, BeginRun
<1>1. LockInv'
  BY DEF LockInv, Locked
<1>2. StoreInv'
  BY DEF LockInv, StoreInv, ViewInv, Locked, Running, STORE
<1>3. ViewInv'
  BY DEF LockInv, StoreInv, ViewInv, Locked, Running, STORE
<1> QED
  BY <1>1, <1>2, <1>3

LEMMA SucceedIInv ==
  ASSUME IInv, NEW t \in Threads, Succeed(t)  PROVE LockInv' /\ StoreInv' /\ ViewInv'
<1> USE DEF IInv, TypeOK, Succeed
<1>1. LockInv'
  BY DEF LockInv, Locked
<1>2. StoreInv'
  BY DEF LockInv, StoreInv, ViewInv, Locked, Running, STORE
<1>3. ViewInv'
  BY DEF LockInv, StoreInv, ViewInv, Locked, Running, STORE
<1> QED
  BY <1>1, <1>2, <1>3

LEMMA FailIInv ==
  ASSUME IInv, NEW t \in Threads, Fail(t)  PROVE LockInv' /\ StoreInv' /\ ViewInv'
<1> USE DEF IInv, TypeOK, Fail, Failing
<1>1. LockInv'
  BY DEF LockInv, Locked
<1>2. StoreInv'
  BY DEF LockInv, StoreInv, ViewInv, Locked, Running, STORE
<1>3. ViewInv'
  BY DEF LockInv, StoreInv, ViewInv, Locked, Running, STORE
<1> QED
  BY <1>1, <1>2, <1>3

LEMMA SetIInv ==
  ASSUME IInv, NEW t \in Threads, Set(t)  PROVE LockInv' /\ StoreInv' /\ ViewInv'
<1> USE DEF IInv, TypeOK, Set, STORE
<1>1. LockInv'
  BY DEF LockInv, Locked
<1>2. StoreInv'
  BY DEF LockInv, StoreInv, ViewInv, Locked, Running, STORE
<1>3. ViewInv'
  BY DEF LockInv, StoreInv, ViewInv, Locked, Running, STORE
<1> QED
  BY <1>1, <1>2, <1>3

LEMMA ClearIInv ==
  ASSUME IInv, NEW t \in Threads, Clear(t)  PROVE LockInv' /\ StoreInv' /\ ViewInv'
<1> USE DEF IInv, TypeOK, Clear, ReturnFrom
<1>1. LockInv'
  BY DEF LockInv, Locked
<1>2. StoreInv'
  BY DEF LockInv, StoreInv, ViewInv, Locked, Running, STORE
<1>3. ViewInv'
  BY DEF LockInv, StoreInv, ViewInv, Locked, Running, STORE
<1> QED
  BY <1>1, <1>2, <1>3

LEMMA WaitLoadIInv ==
  ASSUME IInv, NEW t \in Threads, WaitLoad(t)  PROVE LockInv' /\ StoreInv' /\ ViewInv'
<1> USE DEF IInv, TypeOK, WaitLoad, SeeCompleted
<1>1. LockInv'
  BY DEF LockInv, Locked
<1>2. StoreInv'
  BY DEF LockInv, StoreInv, ViewInv, Locked, Running, STORE
<1>3. ViewInv'
  BY DEF LockInv, StoreInv, ViewInv, Locked, Running, STORE
<1> QED
  BY <1>1, <1>2, <1>3

LEMMA PropagateIInv ==
  ASSUME IInv, NEW t \in Threads, Propagate(t)  PROVE LockInv' /\ StoreInv' /\ ViewInv'
<1> USE DEF IInv, TypeOK, Propagate
<1>1. LockInv'
  BY DEF LockInv, Locked
<1>2. StoreInv'
  BY DEF LockInv, StoreInv, ViewInv, Locked, Running, STORE
<1>3. ViewInv'
  BY DEF LockInv, StoreInv, ViewInv, Locked, Running, STORE
<1> QED
  BY <1>1, <1>2, <1>3

LEMMA NextIInv == IInv /\ [Next]_vars => IInv'
<1> SUFFICES ASSUME IInv, [Next]_vars PROVE LockInv' /\ StoreInv' /\ ViewInv'
  BY NextTypeOK DEF IInv
<1>1. CASE UNCHANGED vars
  BY <1>1 DEF IInv, LockInv, StoreInv, ViewInv, Locked, Running, vars
<1>2. CASE Next
  BY <1>2, CallOnceIInv, WaitIInv, IsCompletedIInv, CheckIInv, TestAndSetIInv,
     RecheckIInv, SucceedIInv, FailIInv, SetIInv, ClearIInv, WaitLoadIInv,
     PropagateIInv DEF Next, Step, Advance
<1> QED
  BY <1>1, <1>2

THEOREM Invariance == Spec => []IInv
  BY InitIInv, NextIInv, PTL DEF Spec

-----------------------------------------------------------------------------
(* Two callers' functions never run at once (busy, Once.h:38 and 80).      *)
THEOREM Exclusion == Spec => []RunsExclusive
<1>1. IInv => RunsExclusive
  BY DEF IInv, LockInv, Locked, RunsExclusive, Running
<1> QED
  BY <1>1, Invariance, PTL

(* Whoever is told of completion sees all that every function wrote: the   *)
(* acquire loads and the release store pair up (Once.h:59, 64 and 83).     *)
THEOREM Publication == Spec => []CompletionPublishes
<1>1. IInv => CompletionPublishes
  BY DEF IInv, StoreInv, ViewInv, CompletionPublishes
<1> QED
  BY <1>1, Invariance, PTL

(* A retried function sees what the failed ones left (Once.h:38 and 101).  *)
THEOREM RetryVisibility == Spec => []RetrySeesFailures
<1>1. IInv => RetrySeesFailures
  <2> SUFFICES ASSUME IInv, NEW t \in Threads, Running(t)
               PROVE  1 .. (run[t] - 1) \subseteq hb[t]
    BY DEF RetrySeesFailures
  <2>1. run[t] = runs /\ runs \in Nat
    BY DEF IInv, ViewInv, TypeOK
  <2>2. 1 .. (runs - 1) \subseteq 1 .. runs
    BY <2>1
  <2> QED
    BY <2>1, <2>2 DEF IInv, ViewInv, Running
<1> QED
  BY <1>1, Invariance, PTL

(* No function is started once one has succeeded: the test of initialized  *)
(* under busy may be relaxed, for busy hands on the store (Once.h:41).     *)
THEOREM AtMostOnce == Spec => NoRunAfterSuccess
<1>1. IInv /\ [Next]_vars => [succeeded # {} => runs' = runs]_vars
  <2> SUFFICES ASSUME IInv, Next, succeeded # {} PROVE runs' = runs
    OBVIOUS
  <2>1. ASSUME NEW t \in Threads, Recheck(t) PROVE runs' = runs
    BY <2>1 DEF Recheck, IInv, StoreInv, ViewInv, Locked
  <2> QED
    BY <2>1 DEF Next, Step, CallOnce, Wait, IsCompleted, Advance, Check, TestAndSet,
       Succeed, Fail, Failing, Set, Clear, ReturnFrom, WaitLoad, Propagate
<1> QED
  BY <1>1, Invariance, PTL DEF Spec, NoRunAfterSuccess

(* The detailed once implements its promise: each step is a step of        *)
(* OnceSpec or leaves it unchanged.                                        *)
THEOREM Refinement == Spec => Promise!Init /\ [][Promise!Next]_Promise!vars
<1> USE DEF Promise!Init, Promise!Next, Promise!vars, Promise!Enter, Promise!Begin,
            Promise!Fail, Promise!Succeed, Promise!Return
<1>1. Init => Promise!Init
  BY DEF Init, CallStatus
<1>2. IInv /\ [Next]_vars => [Promise!Next]_Promise!vars
  <2> DEFINE call == [t \in Threads |-> CallStatus(t)]
  <2> SUFFICES ASSUME IInv, [Next]_vars PROVE [Promise!Next]_Promise!vars
    OBVIOUS
  <2> USE DEF IInv, TypeOK
  <2>1. CASE UNCHANGED vars
    BY <2>1 DEF vars, CallStatus, Running
  <2>2. ASSUME NEW t \in Threads, CallOnce(t) \/ Wait(t) PROVE Promise!Enter(t)
    BY <2>2 DEF CallOnce, Wait, CallStatus, Running
  <2>3. ASSUME NEW t \in Threads, IsCompleted(t) \/ Propagate(t) \/ TestAndSet(t)
        PROVE  call' = call /\ stored' = stored
    BY <2>3 DEF IsCompleted, Propagate, TestAndSet, AcquireBusy, CallStatus, Running
  <2>4. ASSUME NEW t \in Threads, Check(t) \/ WaitLoad(t)
        PROVE  Promise!Return(t) \/ (call' = call /\ stored' = stored)
    BY <2>4 DEF Check, WaitLoad, SeeCompleted, StoreInv, CallStatus, Running
  <2>5. ASSUME NEW t \in Threads, Recheck(t)
        PROVE  Promise!Begin(t) \/ (call' = call /\ stored' = stored)
    BY <2>5 DEF Recheck, BeginRun, LockInv, ViewInv, Locked, CallStatus, Running
  <2>6. ASSUME NEW t \in Threads, Succeed(t) \/ Fail(t)
        PROVE  call' = call /\ stored' = stored
    BY <2>6 DEF Succeed, Fail, Failing, CallStatus, Running
  <2>7. ASSUME NEW t \in Threads, Set(t) PROVE Promise!Succeed(t)
    BY <2>7 DEF Set, CallStatus, Running
  <2>8. ASSUME NEW t \in Threads, Clear(t) PROVE Promise!Fail(t) \/ Promise!Return(t)
    <3>1. CASE ret[t] = "failed"
      BY <2>8, <3>1 DEF Clear, ReturnFrom, CallStatus, Running
    <3>2. CASE ret[t] = "done" /\ stored
      BY <2>8, <3>2 DEF Clear, ReturnFrom, CallStatus, Running
    <3> QED
      BY <2>8, <3>1, <3>2 DEF Clear, ReturnFrom, StoreInv
  <2> QED
    BY <2>1, <2>2, <2>3, <2>4, <2>5, <2>6, <2>7, <2>8 DEF Next, Step, Advance
<1> QED
  BY <1>1, <1>2, Invariance, PTL DEF Spec

=============================================================================
