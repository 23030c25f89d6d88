---------------------------- MODULE MutexProofs -----------------------------
(***************************************************************************)
(* Proofs about sys::ordinary_mutex, reentrant or not, for any threads and *)
(* any number of failing handle operations.                                *)
(***************************************************************************)
EXTENDS Mutex, TLAPS

(* While the mutex is alive its handle exists exactly when its once is     *)
(* done, whoever is past try_init knows it is, and the handle is held by   *)
(* the thread whose acquisitions it counts.                                *)
LifeInv ==
  /\ phase # "dead" => handle = IF done THEN "live" ELSE "none"
  /\ phase = "dead" => /\ handle = IF done THEN "destroyed" ELSE "none"
                       /\ owner = NoThread
                       /\ \A t \in Threads : op[t] = "none"
  /\ owner # NoThread => done
  /\ \A t \in Threads : AtHandle(t) => done

HoldInv ==
  /\ depth = 0 <=> owner = NoThread
  /\ HoldsAgree

IInv == TypeOK /\ LifeInv /\ HoldInv

-----------------------------------------------------------------------------
LEMMA InitIInv == Init => IInv
<1> SUFFICES ASSUME Init PROVE IInv
  OBVIOUS
<1>1. TypeOK
  BY DEF Init, TypeOK, O!Init, O!TypeOK, Errors
<1>2. LifeInv
  BY DEF Init, LifeInv, O!Init, AtHandle
<1>3. HoldInv
  BY MutexAssumption DEF Init, HoldInv, HoldsAgree, Holds
<1> QED
  BY <1>1, <1>2, <1>3 DEF IInv

LEMMA CallIInv ==
  ASSUME IInv, phase = "alive", NEW t \in Threads, NEW o \in Blocking \cup Trying, Call(t, o)  PROVE IInv'
<1> USE MutexAssumption DEF IInv, Call, O!Enter
<1>1. TypeOK'
  BY DEF TypeOK, O!TypeOK, Blocking, Trying, Guarded, Errors
<1>2. LifeInv'
  BY DEF TypeOK, O!TypeOK, LifeInv, HoldInv, HoldsAgree, Holds, AtHandle
<1>3. HoldInv'
  BY DEF TypeOK, O!TypeOK, LifeInv, HoldInv, HoldsAgree, Holds
<1> QED
  BY <1>1, <1>2, <1>3

LEMMA TryInitIInv ==
  ASSUME IInv, phase = "alive", NEW t \in Threads, TryInit(t)  PROVE IInv'
<1> USE MutexAssumption DEF IInv, TryInit, O!Begin
<1>1. TypeOK'
  BY DEF TypeOK, O!TypeOK, Blocking, Trying, Guarded, Errors
<1>2. LifeInv'
  BY DEF TypeOK, O!TypeOK, LifeInv, HoldInv, HoldsAgree, Holds, AtHandle
<1>3. HoldInv'
  BY DEF TypeOK, O!TypeOK, LifeInv, HoldInv, HoldsAgree, Holds
<1> QED
  BY <1>1, <1>2, <1>3

LEMMA CreateIInv ==
  ASSUME IInv, phase = "alive", NEW t \in Threads, Create(t)  PROVE IInv'
<1> USE MutexAssumption DEF IInv, Create, O!Succeed
<1>1. TypeOK'
  BY DEF TypeOK, O!TypeOK, Blocking, Trying, Guarded, Errors
<1>2. LifeInv'
  BY DEF TypeOK, O!TypeOK, LifeInv, HoldInv, HoldsAgree, Holds, AtHandle
<1>3. HoldInv'
  BY DEF TypeOK, O!TypeOK, LifeInv, HoldInv, HoldsAgree, Holds
<1> QED
  BY <1>1, <1>2, <1>3

LEMMA CreateFailsIInv ==
  ASSUME IInv, phase = "alive", NEW t \in Threads, CreateFails(t)  PROVE IInv'
<1> USE MutexAssumption DEF IInv, CreateFails, O!Fail, Fault, Return
<1>1. TypeOK'
  BY DEF TypeOK, O!TypeOK, Blocking, Trying, Guarded, Errors
<1>2. LifeInv'
  BY DEF TypeOK, O!TypeOK, LifeInv, HoldInv, HoldsAgree, Holds, AtHandle
<1>3. HoldInv'
  BY DEF TypeOK, O!TypeOK, LifeInv, HoldInv, HoldsAgree, Holds
<1> QED
  BY <1>1, <1>2, <1>3

LEMMA InitReturnsIInv ==
  ASSUME IInv, phase = "alive", NEW t \in Threads, InitReturns(t)  PROVE IInv'
<1> USE MutexAssumption DEF IInv, InitReturns, O!Return
<1>1. TypeOK'
  BY DEF TypeOK, O!TypeOK, Blocking, Trying, Guarded, Errors
<1>2. LifeInv'
  BY DEF TypeOK, O!TypeOK, LifeInv, HoldInv, HoldsAgree, Holds, AtHandle
<1>3. HoldInv'
  BY DEF TypeOK, O!TypeOK, LifeInv, HoldInv, HoldsAgree, Holds
<1> QED
  BY <1>1, <1>2, <1>3

LEMMA TakeIInv ==
  ASSUME IInv, phase = "alive", NEW t \in Threads, Take(t)  PROVE IInv'
<1> USE MutexAssumption DEF IInv, Take, Available, Grant, Return, onceVars
<1>1. TypeOK'
  BY DEF TypeOK, O!TypeOK, Blocking, Trying, Guarded, Errors
<1>2. LifeInv'
  BY DEF TypeOK, O!TypeOK, LifeInv, HoldInv, HoldsAgree, Holds, AtHandle
<1>3. HoldInv'
  BY DEF TypeOK, O!TypeOK, LifeInv, HoldInv, HoldsAgree, Holds
<1> QED
  BY <1>1, <1>2, <1>3

LEMMA BusyIInv ==
  ASSUME IInv, phase = "alive", NEW t \in Threads, Busy(t)  PROVE IInv'
<1> USE MutexAssumption DEF IInv, Busy, Return, onceVars
<1>1. TypeOK'
  BY DEF TypeOK, O!TypeOK, Blocking, Trying, Guarded, Errors
<1>2. LifeInv'
  BY DEF TypeOK, O!TypeOK, LifeInv, HoldInv, HoldsAgree, Holds, AtHandle
<1>3. HoldInv'
  BY DEF TypeOK, O!TypeOK, LifeInv, HoldInv, HoldsAgree, Holds
<1> QED
  BY <1>1, <1>2, <1>3

LEMMA TakeFailsIInv ==
  ASSUME IInv, phase = "alive", NEW t \in Threads, TakeFails(t)  PROVE IInv'
<1> USE MutexAssumption DEF IInv, TakeFails, Fault, Return, onceVars
<1>1. TypeOK'
  BY DEF TypeOK, O!TypeOK, Blocking, Trying, Guarded, Errors
<1>2. LifeInv'
  BY DEF TypeOK, O!TypeOK, LifeInv, HoldInv, HoldsAgree, Holds, AtHandle
<1>3. HoldInv'
  BY DEF TypeOK, O!TypeOK, LifeInv, HoldInv, HoldsAgree, Holds
<1> QED
  BY <1>1, <1>2, <1>3

LEMMA ReleaseIInv ==
  ASSUME IInv, phase = "alive", NEW t \in Threads, Release(t)  PROVE IInv'
<1> USE MutexAssumption DEF IInv, Release, Unlock, Fault, Return, onceVars
<1>1. TypeOK'
  BY DEF TypeOK, O!TypeOK, Blocking, Trying, Guarded, Errors, HoldInv
<1>2. LifeInv'
  BY DEF TypeOK, O!TypeOK, LifeInv, HoldInv, HoldsAgree, Holds, AtHandle
<1>3. HoldInv'
  BY DEF TypeOK, O!TypeOK, LifeInv, HoldInv, HoldsAgree, Holds
<1> QED
  BY <1>1, <1>2, <1>3

LEMMA DropGuardIInv ==
  ASSUME IInv, phase = "alive", NEW t \in Threads, DropGuard(t)  PROVE IInv'
<1> USE MutexAssumption DEF IInv, DropGuard, Unlock, Fault, onceVars
<1>1. TypeOK'
  BY DEF TypeOK, O!TypeOK, Blocking, Trying, Guarded, Errors, HoldInv
<1>2. LifeInv'
  BY DEF TypeOK, O!TypeOK, LifeInv, HoldInv, HoldsAgree, Holds, AtHandle
<1>3. HoldInv'
  BY DEF TypeOK, O!TypeOK, LifeInv, HoldInv, HoldsAgree, Holds
<1> QED
  BY <1>1, <1>2, <1>3

LEMMA DestroyIInv == ASSUME IInv, Destroy PROVE IInv'
<1> USE MutexAssumption DEF IInv, Destroy, Dying, Quiet, onceVars
<1>1. TypeOK'
  BY DEF TypeOK, O!TypeOK
<1>2. HoldInv'
  BY DEF TypeOK, HoldInv, HoldsAgree, Holds
<1>3. owner = NoThread
  BY DEF TypeOK, HoldInv, HoldsAgree
<1>4. LifeInv'
  BY <1>3 DEF TypeOK, LifeInv, AtHandle
<1> QED
  BY <1>1, <1>2, <1>4

LEMMA NextIInv == IInv /\ [Next]_vars => IInv'
<1> SUFFICES ASSUME IInv, [Next]_vars PROVE IInv'
  OBVIOUS
<1>1. CASE UNCHANGED vars
  BY <1>1 DEF vars, IInv, TypeOK, O!TypeOK, LifeInv, HoldInv, HoldsAgree, Holds, AtHandle
<1>2. CASE Destroy
  BY <1>2, DestroyIInv
<1>3. ASSUME NEW t \in Threads, Step(t) PROVE IInv'
  BY <1>3, CallIInv, TryInitIInv, CreateIInv, CreateFailsIInv, InitReturnsIInv,
     TakeIInv, BusyIInv, TakeFailsIInv, ReleaseIInv, DropGuardIInv
  DEF Step, Advance, Call, Release, DropGuard
<1> QED
  BY <1>1, <1>2, <1>3 DEF Next, Stopped

THEOREM Invariance == Spec => []IInv
  BY InitIInv, NextIInv, PTL DEF Spec

-----------------------------------------------------------------------------
(* Every variable keeps its type (Mutex.h:28-29).                          *)
THEOREM TypeCorrect == Spec => []TypeOK
<1>1. IInv => TypeOK
  BY DEF IInv
<1> QED
  BY <1>1, Invariance, PTL

(* What callers hold is what the handle records (Mutex.h:73-165).          *)
THEOREM Agreement == Spec => []HoldsAgree
<1>1. IInv => HoldsAgree
  BY DEF IInv, HoldInv
<1> QED
  BY <1>1, Invariance, PTL

(* Two threads never both hold the mutex, whatever fails, short of the     *)
(* process ending in a guard that could not unlock (Mutex.h:136).          *)
THEOREM MutualExclusion ==
  Spec => [](phase # "terminated" =>
               \A t, u \in Threads : Holds(t) > 0 /\ Holds(u) > 0 => t = u)
<1>1. IInv => (phase # "terminated" =>
                 \A t, u \in Threads : Holds(t) > 0 /\ Holds(u) > 0 => t = u)
  BY DEF IInv, HoldInv, HoldsAgree
<1> QED
  BY <1>1, Invariance, PTL

(* The lazily created handle is only used while it exists (Mutex.h:31-38), *)
(* and is destroyed iff it was created (Mutex.h:54-55).                    *)
THEOREM Usability == Spec => []HandleUsable
<1>1. IInv => HandleUsable
  BY DEF IInv, LifeInv, HandleUsable, AtHandle
<1> QED
  BY <1>1, Invariance, PTL

=============================================================================
