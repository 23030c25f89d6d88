-------------------------- MODULE SemaphoreProofs ---------------------------
(***************************************************************************)
(* Proofs about sys::ordinary_semaphore for any threads, initial count,    *)
(* counter width and number of failures.                                   *)
(***************************************************************************)
EXTENDS Semaphore, FiniteSetTheorems, TLAPS

Inside(t) == pc[t] \in {"test", "raise", "notify", "unlock"}

(* The mutex's owner is the thread inside the operation's locked part, on  *)
(* the path of its kind of operation.                                      *)
OwnerInv ==
  \A t \in Threads :
    /\ Inside(t) <=> owner = t
    /\ pc[t] \in {"test", "asleep", "relock"} => op[t] \in Acquires
    /\ pc[t] \in {"raise", "notify"} => op[t] \in Releases
    /\ pc[t] # "out" => op[t] # "none"
    /\ op[t] = "drop" => guards[t] > 0

(* What the owner has done to the counter and not yet told his caller.     *)
Untold ==
  IF owner = NoThread THEN 0
  ELSE IF pc[owner] = "notify" THEN 1
  ELSE IF pc[owner] = "unlock" /\ ret[owner] = "ok"
       THEN IF op[owner] \in Acquires THEN -1 ELSE 1
  ELSE 0

CountInv ==
  /\ counter + out = Initial + Untold
  /\ \A t \in Threads : pc[t] = "notify" => counter > 0

IInv == TypeOK /\ OwnerInv /\ CountInv

-----------------------------------------------------------------------------
LEMMA InitIInv == Init => IInv
<1> SUFFICES ASSUME Init PROVE IInv
  OBVIOUS
<1> USE SemaphoreAssumption DEF Init
<1>1. TypeOK
  <2>1. op \in [Threads -> Acquires \cup Releases \cup {"none"}]
    OBVIOUS
  <2>2. /\ pc \in [Threads -> {"out", "lock", "test", "asleep", "relock", "raise",
                              "notify", "unlock"}]
        /\ ret \in [Threads -> {"ok", "error", "overflow"}]
    OBVIOUS
  <2>3. manual \in [Threads -> Nat] /\ guards \in [Threads -> Nat]
    OBVIOUS
  <2>4. owner \in Threads \cup {NoThread} /\ counter \in 0 .. Highest /\ out \in Int
    OBVIOUS
  <2>5. unpaired \in BOOLEAN /\ phase \in {"alive", "terminated"} /\ faults \in Nat
    OBVIOUS
  <2> HIDE DEF Init
  <2> QED
    BY <2>1, <2>2, <2>3, <2>4, <2>5 DEF TypeOK
<1>2. OwnerInv
  BY DEF OwnerInv, Inside
<1>3. CountInv
  BY DEF CountInv, Untold
<1> QED
  BY <1>1, <1>2, <1>3 DEF IInv

LEMMA CallIInv ==
  ASSUME IInv, NEW t \in Threads, NEW o \in Acquires \cup Releases, Call(t, o)  PROVE IInv'
<1> USE SemaphoreAssumption DEF IInv, TypeOK, Call, Goto, Acquires, Releases, clients
<1>1. TypeOK'
  BY DEF OwnerInv, CountInv, Inside
<1>2. OwnerInv'
  BY DEF OwnerInv, Inside
<1>3. CountInv'
  BY DEF OwnerInv, CountInv, Inside, Untold
<1> QED
  BY <1>1, <1>2, <1>3

LEMMA LockIInv ==
  ASSUME IInv, NEW t \in Threads, Lock(t)  PROVE IInv'
<1> USE SemaphoreAssumption DEF IInv, TypeOK, Lock, Goto, Acquires, Releases, clients
<1>1. TypeOK'
  BY DEF OwnerInv, CountInv, Inside
<1>2. OwnerInv'
  BY DEF OwnerInv, Inside
<1>3. CountInv'
  BY DEF OwnerInv, CountInv, Inside, Untold
<1> QED
  BY <1>1, <1>2, <1>3

LEMMA LockFailsIInv ==
  ASSUME IInv, NEW t \in Threads, LockFails(t)  PROVE IInv'
<1> USE SemaphoreAssumption DEF IInv, TypeOK, LockFails, Leave, Goto, Fault, Acquires, Releases, clients
<1>1. TypeOK'
  BY DEF OwnerInv, CountInv, Inside
<1>2. OwnerInv'
  BY DEF OwnerInv, Inside
<1>3. CountInv'
  BY DEF OwnerInv, CountInv, Inside, Untold
<1> QED
  BY <1>1, <1>2, <1>3

LEMMA TestIInv ==
  ASSUME IInv, NEW t \in Threads, Test(t)  PROVE IInv'
<1> USE SemaphoreAssumption DEF IInv, TypeOK, Test, Finish, Goto, Acquires, Releases, clients
<1>1. TypeOK'
  BY DEF OwnerInv, CountInv, Inside
<1>2. OwnerInv'
  BY DEF OwnerInv, Inside
<1>3. CountInv'
  BY DEF OwnerInv, CountInv, Inside, Untold
<1> QED
  BY <1>1, <1>2, <1>3

LEMMA WaitFailsIInv ==
  ASSUME IInv, NEW t \in Threads, WaitFails(t)  PROVE IInv'
<1> USE SemaphoreAssumption DEF IInv, TypeOK, WaitFails, Finish, Goto, Fault, Acquires, Releases, clients
<1>1. TypeOK'
  BY DEF OwnerInv, CountInv, Inside
<1>2. OwnerInv'
  BY DEF OwnerInv, Inside
<1>3. CountInv'
  BY DEF OwnerInv, CountInv, Inside, Untold
<1> QED
  BY <1>1, <1>2, <1>3

LEMMA SpuriousWakeIInv ==
  ASSUME IInv, NEW t \in Threads, SpuriousWake(t)  PROVE IInv'
<1> USE SemaphoreAssumption DEF IInv, TypeOK, SpuriousWake, Goto, Acquires, Releases, clients
<1>1. TypeOK'
  BY DEF OwnerInv, CountInv, Inside
<1>2. OwnerInv'
  BY DEF OwnerInv, Inside
<1>3. CountInv'
  BY DEF OwnerInv, CountInv, Inside, Untold
<1> QED
  BY <1>1, <1>2, <1>3

LEMMA RelockIInv ==
  ASSUME IInv, NEW t \in Threads, Relock(t)  PROVE IInv'
<1> USE SemaphoreAssumption DEF IInv, TypeOK, Relock, Goto, Acquires, Releases, clients
<1>1. TypeOK'
  BY DEF OwnerInv, CountInv, Inside
<1>2. OwnerInv'
  BY DEF OwnerInv, Inside
<1>3. CountInv'
  BY DEF OwnerInv, CountInv, Inside, Untold
<1> QED
  BY <1>1, <1>2, <1>3

LEMMA RaiseIInv ==
  ASSUME IInv, NEW t \in Threads, Raise(t)  PROVE IInv'
<1> USE SemaphoreAssumption DEF IInv, TypeOK, Raise, Finish, Goto, Acquires, Releases, clients
<1>1. TypeOK'
  BY DEF OwnerInv, CountInv, Inside
<1>2. OwnerInv'
  BY DEF OwnerInv, Inside
<1>3. CountInv'
  BY DEF OwnerInv, CountInv, Inside, Untold
<1> QED
  BY <1>1, <1>2, <1>3

LEMMA NotifyOneIInv ==
  ASSUME IInv, NEW t \in Threads, NotifyOne(t)  PROVE IInv'
<1> USE SemaphoreAssumption DEF IInv, TypeOK, NotifyOne, Goto, Asleep, Acquires, Releases, clients
<1>1. TypeOK'
  BY DEF OwnerInv, CountInv, Inside
<1>2. OwnerInv'
  BY DEF OwnerInv, Inside
<1>3. CountInv'
  BY DEF OwnerInv, CountInv, Inside, Untold
<1> QED
  BY <1>1, <1>2, <1>3

LEMMA NotifyFailsIInv ==
  ASSUME IInv, NEW t \in Threads, NotifyFails(t)  PROVE IInv'
<1> USE SemaphoreAssumption DEF IInv, TypeOK, NotifyFails, Finish, Goto, Fault, Acquires, Releases, clients
<1>1. TypeOK'
  BY DEF OwnerInv, CountInv, Inside
<1>2. OwnerInv'
  BY DEF OwnerInv, Inside
<1>3. CountInv'
  BY DEF OwnerInv, CountInv, Inside, Untold
<1> QED
  BY <1>1, <1>2, <1>3

LEMMA UnlockIInv ==
  ASSUME IInv, NEW t \in Threads, Unlock(t)  PROVE IInv'
<1> USE SemaphoreAssumption DEF IInv, TypeOK, Unlock, Leave, Goto, Acquires, Releases, clients
<1>1. TypeOK'
  BY DEF OwnerInv, CountInv, Inside
<1>2. OwnerInv'
  BY DEF OwnerInv, Inside
<1>3. CountInv'
  BY DEF OwnerInv, CountInv, Inside, Untold
<1> QED
  BY <1>1, <1>2, <1>3

LEMMA UnlockFailsIInv ==
  ASSUME IInv, NEW t \in Threads, UnlockFails(t)  PROVE IInv'
<1> USE SemaphoreAssumption DEF IInv, TypeOK, UnlockFails, Fault, Acquires, Releases, clients
<1>1. TypeOK'
  BY DEF OwnerInv, CountInv, Inside
<1>2. OwnerInv'
  BY DEF OwnerInv, Inside
<1>3. CountInv'
  BY DEF OwnerInv, CountInv, Inside, Untold
<1> QED
  BY <1>1, <1>2, <1>3

LEMMA NextIInv == IInv /\ [Next]_vars => IInv'
<1> SUFFICES ASSUME IInv, [Next]_vars PROVE IInv'
  OBVIOUS
<1>1. CASE UNCHANGED vars
  BY <1>1 DEF vars, IInv, TypeOK, OwnerInv, CountInv, Inside, Untold
<1>2. ASSUME NEW t \in Threads, Step(t) PROVE IInv'
  BY <1>2, CallIInv, LockIInv, LockFailsIInv, TestIInv, WaitFailsIInv, SpuriousWakeIInv,
     RelockIInv, RaiseIInv, NotifyOneIInv, NotifyFailsIInv, UnlockIInv, UnlockFailsIInv
  DEF Step, Advance
<1> QED
  BY <1>1, <1>2 DEF Next, Stopped

THEOREM Invariance == Spec => []IInv
  BY InitIInv, NextIInv, PTL DEF Spec

-----------------------------------------------------------------------------
(* Every variable keeps its type: the counter never leaves its type's      *)
(* range (SemaphoreEx.h:33, 83).                                           *)
THEOREM TypeCorrect == Spec => []TypeOK
<1>1. IInv => TypeOK
  BY DEF IInv
<1> QED
  BY <1>1, Invariance, PTL

(* No permit is made or lost on any path (SemaphoreEx.h:65-93).            *)
THEOREM PermitsConserved == Spec => []Conservation
<1>1. IInv => Conservation
  BY SemaphoreAssumption DEF IInv, TypeOK, CountInv, Untold, Conservation
<1> QED
  BY <1>1, Invariance, PTL

(* The semaphore implements SemaphoreSpec.                                 *)
THEOREM Refinement == Spec => ImplementsPermits
<1> USE SemaphoreAssumption DEF Permits!Next, Permits!Grant, Permits!GiveBack
<1>1. Init => Permits!Init
  BY DEF Init, Permits!Init
<1>2. IInv /\ [Next]_vars => [Permits!Next]_out
  <2> SUFFICES ASSUME IInv, [Next]_vars PROVE [Permits!Next]_out
    OBVIOUS
  <2>1. CASE UNCHANGED vars
    BY <2>1 DEF vars
  <2>2. ASSUME NEW t \in Threads, Unlock(t) PROVE [Permits!Next]_out
    BY <2>2 DEF Unlock, Leave, Goto, IInv, TypeOK, OwnerInv, Inside, CountInv, Untold,
       Acquires, Releases
  <2>3. ASSUME NEW t \in Threads, LockFails(t) PROVE out' = out
    BY <2>3 DEF LockFails, Leave
  <2>4. ASSUME NEW t \in Threads, Step(t), ~Unlock(t), ~LockFails(t) PROVE out' = out
    BY <2>4 DEF Step, Advance, Call, Lock, Test, WaitFails, SpuriousWake, Relock, Raise,
       NotifyOne, NotifyFails, UnlockFails, clients
  <2> QED
    BY <2>1, <2>2, <2>3, <2>4 DEF Next, Stopped
<1> QED
  BY <1>1, <1>2, Invariance, PTL DEF Spec, ImplementsPermits, Permits!Spec

-----------------------------------------------------------------------------
(* Guards.  One element of Slots(f) stands for each of the f[t] permits    *)
(* that thread t holds, so that permits are counted without a sum.         *)

Slots(f) == {p \in Threads \X Nat : p[2] < f[p[1]]}

LEMMA SlotGained ==
  ASSUME NEW f \in [Threads -> Nat], IsFiniteSet(Slots(f)), NEW t \in Threads,
         NEW g, g = [f EXCEPT ![t] = @ + 1]
  PROVE  IsFiniteSet(Slots(g)) /\ Cardinality(Slots(g)) = Cardinality(Slots(f)) + 1
<1>1. Slots(g) = Slots(f) \cup {<<t, f[t]>>}
  BY DEF Slots
<1>2. <<t, f[t]>> \notin Slots(f)
  BY DEF Slots
<1> HIDE DEF Slots
<1>3. /\ IsFiniteSet(Slots(f) \cup {<<t, f[t]>>})
      /\ Cardinality(Slots(f) \cup {<<t, f[t]>>}) = Cardinality(Slots(f)) + 1
  BY <1>2, FS_AddElement, Zenon
<1> QED
  BY <1>1, <1>3

LEMMA SlotLost ==
  ASSUME NEW f \in [Threads -> Nat], IsFiniteSet(Slots(f)), NEW t \in Threads, f[t] > 0,
         NEW g, g = [f EXCEPT ![t] = @ - 1]
  PROVE  IsFiniteSet(Slots(g)) /\ Cardinality(Slots(g)) = Cardinality(Slots(f)) - 1
<1>1. Slots(g) = Slots(f) \ {<<t, f[t] - 1>>}
  BY DEF Slots
<1>2. <<t, f[t] - 1>> \in Slots(f)
  BY DEF Slots
<1> QED
  BY <1>1, <1>2, FS_RemoveElement

LEMMA SlotThere ==
  ASSUME NEW f \in [Threads -> Nat], IsFiniteSet(Slots(f)), NEW t \in Threads, f[t] > 0
  PROVE  Cardinality(Slots(f)) > 0
<1>1. <<t, 0>> \in Slots(f)
  BY DEF Slots
<1>2. Cardinality(Slots(f)) \in Nat /\ Cardinality(Slots(f)) # 0
  BY <1>1, FS_EmptySet, FS_CardinalityType
<1> QED
  BY <1>2

(* As long as everybody releases what he has acquired, the permits that    *)
(* callers know of are those that they hold.                               *)
GrantsInv ==
  /\ IsFiniteSet(Slots(manual)) /\ IsFiniteSet(Slots(guards))
  /\ phase = "alive" /\ ~unpaired =>
       out = Cardinality(Slots(manual)) + Cardinality(Slots(guards))
  /\ ~unpaired => \A t \in Threads : op[t] = "release" => manual[t] > 0

(* What an operation is about to report has its reason.                    *)
ReportInv ==
  \A t \in Threads : pc[t] = "unlock" =>
    /\ ret[t] = "error" => faults > 0
    /\ ret[t] = "overflow" /\ op[t] = "drop" => unpaired

SafeInv == IInv /\ GrantsInv /\ ReportInv /\ GuardsSafe

LEMMA LeaveGrants ==
  ASSUME IInv, GrantsInv, NEW t \in Threads, NEW r, Leave(t, r), op[t] # "none"
  PROVE  GrantsInv'
<1>0. /\ op \in [Threads -> Acquires \cup Releases \cup {"none"}]
      /\ manual \in [Threads -> Nat] /\ guards \in [Threads -> Nat]
      /\ out \in Int
      /\ op[t] = "drop" => guards[t] > 0
  BY DEF IInv, TypeOK, OwnerInv
<1>1. op' = [op EXCEPT ![t] = "none"] /\ unpaired' = unpaired
  BY DEF Leave
<1>2. phase' = IF op[t] = "drop" /\ r # "ok" THEN "terminated" ELSE phase
  BY DEF Leave
<1>3. guards' = IF op[t] = "access" /\ r = "ok" THEN [guards EXCEPT ![t] = @ + 1]
                ELSE IF op[t] = "drop" THEN [guards EXCEPT ![t] = @ - 1]
                ELSE guards
  BY <1>0 DEF Leave
<1>4. manual' = IF op[t] = "acquire" /\ r = "ok" THEN [manual EXCEPT ![t] = @ + 1]
                ELSE IF op[t] = "release" /\ r = "ok" /\ manual[t] > 0
                     THEN [manual EXCEPT ![t] = @ - 1]
                ELSE manual
  BY <1>0 DEF Leave
<1>5. out' = IF op[t] \in Acquires /\ r = "ok" THEN out + 1
             ELSE IF op[t] \in Releases /\ r = "ok" THEN out - 1
             ELSE out
  BY DEF Leave, Acquires, Releases
<1> DEFINE held == Cardinality(Slots(manual))
           guarded == Cardinality(Slots(guards))
<1>6. /\ IsFiniteSet(Slots(manual)) /\ IsFiniteSet(Slots(guards))
      /\ held \in Nat /\ guarded \in Nat
  BY FS_CardinalityType DEF GrantsInv
<1>7. /\ IsFiniteSet(Slots(manual'))
      /\ Cardinality(Slots(manual')) =
           IF op[t] = "acquire" /\ r = "ok" THEN held + 1
           ELSE IF op[t] = "release" /\ r = "ok" /\ manual[t] > 0 THEN held - 1
           ELSE held
  <2>1. CASE op[t] = "acquire" /\ r = "ok"
    BY <1>0, <1>4, <1>6, <2>1, SlotGained
  <2>2. CASE op[t] = "release" /\ r = "ok" /\ manual[t] > 0
    BY <1>0, <1>4, <1>6, <2>2, SlotLost
  <2> QED
    BY <1>4, <1>6, <2>1, <2>2
<1>8. /\ IsFiniteSet(Slots(guards'))
      /\ Cardinality(Slots(guards')) =
           IF op[t] = "access" /\ r = "ok" THEN guarded + 1
           ELSE IF op[t] = "drop" THEN guarded - 1
           ELSE guarded
  <2>1. CASE op[t] = "access" /\ r = "ok"
    BY <1>0, <1>3, <1>6, <2>1, SlotGained
  <2>2. CASE op[t] = "drop"
    BY <1>0, <1>3, <1>6, <2>2, SlotLost
  <2> QED
    BY <1>3, <1>6, <2>1, <2>2
<1>9. phase' = "alive" /\ ~unpaired' =>
        out' = Cardinality(Slots(manual')) + Cardinality(Slots(guards'))
  <2> SUFFICES ASSUME phase' = "alive", ~unpaired
               PROVE out' = Cardinality(Slots(manual')) + Cardinality(Slots(guards'))
    BY <1>1
  <2>1. phase = "alive" /\ out = held + guarded
    BY <1>2 DEF GrantsInv
  <2>2. op[t] = "release" => manual[t] > 0
    BY DEF GrantsInv
  <2> HIDE DEF held, guarded
  <2> QED
    BY <1>0, <1>2, <1>5, <1>6, <1>7, <1>8, <2>1, <2>2 DEF Acquires, Releases
<1>10. ~unpaired' => \A u \in Threads : op'[u] = "release" => manual'[u] > 0
  BY <1>0, <1>1, <1>4 DEF GrantsInv
<1> QED
  BY <1>7, <1>8, <1>9, <1>10 DEF GrantsInv

(* Steps that no caller hears of.                                          *)
LEMMA SilentGrants ==
  ASSUME GrantsInv, UNCHANGED <<op, manual, guards, out, unpaired>>,
         phase' = "alive" => phase = "alive"
  PROVE  GrantsInv'
BY DEF GrantsInv

LEMMA CallGrants ==
  ASSUME IInv, GrantsInv, NEW t \in Threads, NEW o \in Acquires \cup Releases, Call(t, o)
  PROVE  GrantsInv'
<1>1. /\ UNCHANGED <<manual, guards, out, phase>>
      /\ op' = [op EXCEPT ![t] = o]
      /\ unpaired' = (unpaired \/ (o = "release" /\ manual[t] = 0))
  BY DEF Call
<1>2. /\ op \in [Threads -> Acquires \cup Releases \cup {"none"}]
      /\ manual \in [Threads -> Nat]
      /\ unpaired \in BOOLEAN
  BY DEF IInv, TypeOK
<1>3. ASSUME ~unpaired', NEW u \in Threads, op'[u] = "release" PROVE ~unpaired /\ manual[u] > 0
  <2>1. ~unpaired /\ ~(o = "release" /\ manual[t] = 0)
    BY <1>1, <1>3
  <2>2. CASE u = t
    BY <1>1, <1>2, <1>3, <2>1, <2>2
  <2>3. CASE u # t
    BY <1>1, <1>2, <1>3, <2>1, <2>3 DEF GrantsInv
  <2> QED
    BY <2>1, <2>2, <2>3
<1>4. ~unpaired' => ~unpaired
  BY <1>1
<1> QED
  BY <1>1, <1>3, <1>4 DEF GrantsInv

LEMMA GrantsNext == IInv /\ GrantsInv /\ [Next]_vars => GrantsInv'
<1> SUFFICES ASSUME IInv, GrantsInv, [Next]_vars PROVE GrantsInv'
  OBVIOUS
<1>1. CASE UNCHANGED vars
  BY <1>1, SilentGrants DEF vars
<1>2. ASSUME NEW t \in Threads, phase = "alive", Step(t) PROVE GrantsInv'
  <2>1. CASE \E o \in Acquires \cup Releases : Call(t, o)
    BY <2>1, CallGrants
  <2>2. CASE LockFails(t) \/ Unlock(t)
    <3>1. op[t] # "none"
      BY <2>2 DEF IInv, TypeOK, OwnerInv, LockFails, Unlock
    <3> QED
      BY <2>2, <3>1, LeaveGrants DEF LockFails, Unlock
  <2>3. CASE Lock(t) \/ Test(t) \/ WaitFails(t) \/ Relock(t) \/ Raise(t) \/ NotifyOne(t)
             \/ NotifyFails(t) \/ UnlockFails(t) \/ SpuriousWake(t)
    BY <1>2, <2>3, SilentGrants
    DEF Lock, Test, WaitFails, Relock, Raise, NotifyOne, NotifyFails, UnlockFails,
        SpuriousWake, clients
  <2> QED
    BY <1>2, <2>1, <2>2, <2>3 DEF Step, Advance
<1> QED
  BY <1>1, <1>2 DEF Next, Stopped

(* A guard that gives a permit back never finds the counter full.          *)
LEMMA DropFits ==
  ASSUME IInv, GrantsInv, phase = "alive", ~unpaired,
         NEW t \in Threads, pc[t] = "raise", op[t] = "drop"
  PROVE  counter # Highest
<1>1. guards[t] > 0 /\ owner = t /\ t # NoThread
  BY SemaphoreAssumption DEF IInv, OwnerInv, Inside
<1>2. counter + out = Initial
  BY <1>1, SemaphoreAssumption DEF IInv, TypeOK, CountInv, Untold
<1>3. Cardinality(Slots(manual)) \in Nat /\ Cardinality(Slots(guards)) \in Nat
  BY FS_CardinalityType DEF GrantsInv
<1>4. Cardinality(Slots(guards)) > 0
  BY <1>1, SlotThere DEF IInv, TypeOK, GrantsInv
<1>5. out = Cardinality(Slots(manual)) + Cardinality(Slots(guards))
  BY DEF GrantsInv
<1>6. out \in Int /\ out > 0
  BY <1>3, <1>4, <1>5
<1> QED
  BY <1>2, <1>6, SemaphoreAssumption DEF IInv, TypeOK

LEMMA ReportNext == SafeInv /\ [Next]_vars => ReportInv' /\ GuardsSafe'
<1> SUFFICES ASSUME SafeInv, [Next]_vars PROVE ReportInv' /\ GuardsSafe'
  OBVIOUS
<1> USE DEF SafeInv, IInv, TypeOK, ReportInv, GuardsSafe
<1>1. CASE UNCHANGED vars
  BY <1>1 DEF vars
<1>2. ASSUME NEW t \in Threads, phase = "alive", Step(t) PROVE ReportInv' /\ GuardsSafe'
  <2>1. CASE \E o \in Acquires \cup Releases : Call(t, o)
    BY <1>2, <2>1 DEF Call, Goto
  <2>2. CASE LockFails(t)
    BY <1>2, <2>2 DEF LockFails, Fault, Leave, Goto
  <2>3. CASE Unlock(t)
    BY <1>2, <2>3 DEF Unlock, Leave, Goto
  <2>4. CASE Raise(t)
    BY <1>2, <2>4, DropFits DEF Raise, Finish, Goto, clients
  <2>5. CASE Test(t) \/ WaitFails(t) \/ NotifyFails(t) \/ UnlockFails(t)
    BY <1>2, <2>5 DEF Test, WaitFails, NotifyFails, UnlockFails, Finish, Fault, Goto,
       clients, OwnerInv, Acquires, Releases
  <2>6. CASE Lock(t) \/ Relock(t) \/ SpuriousWake(t)
    BY <1>2, <2>6 DEF Lock, Relock, SpuriousWake, Goto, clients
  <2>7. CASE NotifyOne(t)
    BY <1>2, <2>7 DEF NotifyOne, Goto, Asleep, clients
  <2> QED
    BY <1>2, <2>1, <2>2, <2>3, <2>4, <2>5, <2>6, <2>7 DEF Step, Advance
<1> QED
  BY <1>1, <1>2 DEF Next, Stopped

LEMMA SafeInvariance == Spec => []SafeInv
<1>1. Init => GrantsInv /\ ReportInv /\ GuardsSafe
  <2> SUFFICES ASSUME Init PROVE GrantsInv /\ ReportInv /\ GuardsSafe
    OBVIOUS
  <2>1. Slots(manual) = {} /\ Slots(guards) = {}
    BY DEF Init, Slots
  <2> QED
    BY <2>1, FS_EmptySet DEF Init, GrantsInv, ReportInv, GuardsSafe
<1>2. SafeInv /\ [Next]_vars => SafeInv'
  BY NextIInv, GrantsNext, ReportNext DEF SafeInv
<1>3. Init => SafeInv
  BY <1>1, InitIInv DEF SafeInv
<1> QED
  BY <1>2, <1>3, PTL DEF Spec

(* A guard of access terminates the process only if an operation below it  *)
(* failed, or somebody released what he had not acquired: with the         *)
(* permits of live guards out, the counter has room for them               *)
(* (SemaphoreEx.h:30-36, 79-93).                                           *)
THEOREM GuardsAreSafe == Spec => []GuardsSafe
<1>1. SafeInv => GuardsSafe
  BY DEF SafeInv
<1> QED
  BY <1>1, SafeInvariance, PTL

-----------------------------------------------------------------------------
(* Stranded permits.                                                       *)

Relockers == {t \in Threads : pc[t] = "relock"}

(* The owner of the mutex is about to take a permit himself, or has not    *)
(* notified of his own yet.                                                *)
Extra == IF owner # NoThread /\ pc[owner] \in {"test", "notify"} THEN 1 ELSE 0

(* While somebody sleeps, there are at most as many permits as threads on  *)
(* their way to take them, and the owner's.                                *)
WakeInv == Asleep # {} => counter <= Cardinality(Relockers) + Extra

LEMMA RelockersFinite == IsFiniteSet(Relockers) /\ Cardinality(Relockers) \in Nat
<1>1. Relockers \subseteq Threads
  BY DEF Relockers
<1> QED
  BY <1>1, FiniteThreads, FS_Subset, FS_CardinalityType

(* Steps after which the threads on their way, and perhaps one more, have  *)
(* no more permits to take.                                                *)
LEMMA SameWay ==
  ASSUME WakeInv, counter \in Nat, counter' \in Nat,
         Relockers' = Relockers, Asleep' \subseteq Asleep, counter' - Extra' <= counter - Extra
  PROVE  WakeInv'
<1> DEFINE n == Cardinality(Relockers)
           next == counter'
           rest == Extra'
<1>1. Extra \in Int /\ Extra' \in Int
  BY DEF Extra
<1>2. Cardinality(Relockers') = n /\ n \in Int
  BY RelockersFinite
<1>3. SUFFICES ASSUME Asleep # {} PROVE next <= n + rest
  BY <1>2 DEF WakeInv
<1>4. counter <= n + Extra
  BY <1>3 DEF WakeInv
<1>5. next - rest <= counter - Extra
  BY Zenon
<1>6. next \in Int /\ rest \in Int /\ counter \in Int
  BY <1>1
<1> HIDE DEF n, next, rest
<1> QED
  BY <1>1, <1>2, <1>4, <1>5, <1>6

LEMMA OneMore ==
  ASSUME WakeInv, counter \in Nat, counter' \in Nat,
         NEW t, t \notin Relockers, Relockers' = Relockers \cup {t}, Asleep # {},
         counter' - Extra' <= counter - Extra + 1
  PROVE  WakeInv'
<1> DEFINE n == Cardinality(Relockers)
           next == counter'
           rest == Extra'
<1>1. Extra \in Int /\ Extra' \in Int
  BY DEF Extra
<1>2. Cardinality(Relockers') = n + 1 /\ n \in Int
  BY RelockersFinite, FS_AddElement
<1>3. SUFFICES ASSUME Asleep # {} PROVE next <= n + 1 + rest
  BY <1>2 DEF WakeInv
<1>4. counter <= n + Extra
  BY <1>3 DEF WakeInv
<1>5. next - rest <= counter - Extra + 1
  BY Zenon
<1>6. next \in Int /\ rest \in Int /\ counter \in Int
  BY <1>1
<1> HIDE DEF n, next, rest
<1> QED
  BY <1>1, <1>2, <1>4, <1>5, <1>6

LEMMA OneLess ==
  ASSUME WakeInv, counter \in Nat, counter' \in Nat,
         NEW t, t \in Relockers, Relockers' = Relockers \ {t}, Asleep' \subseteq Asleep,
         counter' - Extra' <= counter - Extra - 1
  PROVE  WakeInv'
<1> DEFINE n == Cardinality(Relockers)
           next == counter'
           rest == Extra'
<1>1. Extra \in Int /\ Extra' \in Int
  BY DEF Extra
<1>2. Cardinality(Relockers') = n - 1 /\ n \in Int
  BY RelockersFinite, FS_RemoveElement
<1>3. SUFFICES ASSUME Asleep # {} PROVE next <= n - 1 + rest
  BY <1>2 DEF WakeInv
<1>4. counter <= n + Extra
  BY <1>3 DEF WakeInv
<1>5. next - rest <= counter - Extra - 1
  BY Zenon
<1>6. next \in Int /\ rest \in Int /\ counter \in Int
  BY <1>1
<1> HIDE DEF n, next, rest
<1> QED
  BY <1>1, <1>2, <1>4, <1>5, <1>6

LEMMA NothingLeft ==
  ASSUME counter' = 0, Relockers' = Relockers
  PROVE  WakeInv'
<1>1. Extra' \in {0, 1}
  BY DEF Extra
<1> QED
  BY <1>1, RelockersFinite DEF WakeInv

LEMMA WakeNext == IInv /\ WakeInv /\ [Next]_vars => WakeInv'
<1> SUFFICES ASSUME IInv, WakeInv, [Next]_vars PROVE WakeInv'
  OBVIOUS
<1>1. CASE UNCHANGED vars
  BY <1>1 DEF vars, WakeInv, Relockers, Asleep, Extra
<1>2. ASSUME NEW t \in Threads, Step(t) PROVE WakeInv'
  <2>0. /\ t # NoThread /\ counter \in Nat /\ counter' \in Nat
        /\ pc \in [Threads -> {"out", "lock", "test", "asleep", "relock", "raise",
                               "notify", "unlock"}]
    BY <1>2, SemaphoreAssumption, NextIInv DEF IInv, TypeOK
  <2> USE <2>0 DEF Relockers, Asleep, Extra, Goto, Finish
  <2>1. CASE \E o \in Acquires \cup Releases : Call(t, o)
    <3>1. pc[t] = "out" /\ owner # t
      BY <2>1 DEF Call, IInv, TypeOK, OwnerInv, Inside
    <3> QED
      BY <2>1, <3>1, SameWay DEF Call
  <2>2. CASE Lock(t)
    BY <2>2, SameWay DEF Lock, clients
  <2>3. CASE LockFails(t)
    BY <2>3, SameWay DEF LockFails, Leave, IInv, OwnerInv, Inside
  <2>4. CASE Test(t)
    <3>1. CASE counter = 0
      BY <2>4, <3>1, NothingLeft DEF Test
    <3>2. CASE counter > 0
      <4>1. owner = t /\ Extra = 1 /\ counter' = counter - 1
        BY <2>4, <3>2 DEF Test, IInv, OwnerInv, Inside
      <4>2. Extra' = 0
        BY <2>4, <3>2, <4>1 DEF Test
      <4>3. Relockers' = Relockers /\ Asleep' = Asleep
        BY <2>4, <3>2 DEF Test
      <4> HIDE DEF Extra, Relockers, Asleep
      <4> QED
        BY <4>1, <4>2, <4>3, SameWay
    <3> QED
      BY <3>1, <3>2
  <2>5. CASE WaitFails(t)
    BY <2>5, NothingLeft DEF WaitFails
  <2>6. CASE Relock(t)
    BY <2>6, OneLess DEF Relock
  <2>7. CASE Raise(t)
    <3>1. owner = t /\ Extra = 0 /\ Relockers' = Relockers /\ Asleep' = Asleep
      BY <2>7 DEF Raise, IInv, OwnerInv, Inside
    <3>2. \/ counter' = counter /\ Extra' = 0
          \/ counter' = counter + 1 /\ Extra' = 1
      BY <2>7, <3>1 DEF Raise
    <3> HIDE DEF Extra, Relockers, Asleep
    <3>3. counter' - Extra' <= counter - Extra
      BY <3>1, <3>2
    <3> QED
      BY <3>1, <3>3, SameWay
  <2>8. CASE NotifyOne(t)
    <3>1. owner = t /\ Extra = 1 /\ counter' = counter /\ owner' = owner
      BY <2>8 DEF NotifyOne, IInv, OwnerInv, Inside
    <3>2. CASE Asleep = {}
      <4>1. Asleep' = {}
        BY <2>8, <3>2 DEF NotifyOne
      <4> QED
        BY <4>1 DEF WakeInv
    <3>3. CASE \E w \in Asleep : pc' = [pc EXCEPT ![t] = "unlock", ![w] = "relock"]
      <4>1. PICK w \in Asleep : pc' = [pc EXCEPT ![t] = "unlock", ![w] = "relock"]
        BY <3>3
      <4>2. pc[t] = "notify" /\ w # t /\ w \notin Relockers /\ Asleep # {}
        BY <2>8, <4>1 DEF NotifyOne
      <4>3. Relockers' = Relockers \cup {w}
        BY <4>1, <4>2
      <4>4. Extra' = 0
        BY <3>1, <4>1, <4>2
      <4> HIDE DEF Extra, Relockers, Asleep
      <4> QED
        BY <3>1, <4>2, <4>3, <4>4, OneMore
    <3> QED
      BY <2>8, <3>2, <3>3 DEF NotifyOne
  <2>9. CASE NotifyFails(t)
    BY <2>9, SameWay DEF NotifyFails, IInv, OwnerInv, Inside
  <2>10. CASE Unlock(t)
    BY <2>10, SameWay DEF Unlock, Leave, IInv, OwnerInv, Inside
  <2>11. CASE UnlockFails(t)
    BY <2>11, SameWay DEF UnlockFails
  <2>12. CASE SpuriousWake(t)
    BY <2>12, OneMore DEF SpuriousWake
  <2> QED
    BY <1>2, <2>1, <2>2, <2>3, <2>4, <2>5, <2>6, <2>7, <2>8, <2>9, <2>10, <2>11, <2>12
    DEF Step, Advance
<1> QED
  BY <1>1, <1>2 DEF Next, Stopped

(* No permit is stranded, whatever fails and however threads are woken: if *)
(* somebody sleeps while the mutex is free and permits are left, as many   *)
(* threads are awake and on their way to take them                         *)
(* (SemaphoreEx.h:65-93).                                                  *)
THEOREM NoPermitStranded == Spec => []NoStrandedPermit
<1>1. Init => WakeInv
  BY DEF Init, WakeInv, Asleep
<1>2. IInv /\ WakeInv /\ [Next]_vars => WakeInv'
  BY WakeNext
<1>3. WakeInv => NoStrandedPermit
  BY RelockersFinite DEF WakeInv, NoStrandedPermit, Relockers, Extra
<1> QED
  BY <1>1, <1>2, <1>3, Invariance, PTL DEF Spec

=============================================================================
