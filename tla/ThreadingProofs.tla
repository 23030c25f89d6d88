-------------------------- MODULE ThreadingProofs ---------------------------
(***************************************************************************)
(* Proofs about sys::managed_thread and sys::cond_var, for any threads,    *)
(* variables and number of failures: about every behaviour of Threading,   *)
(* so of either alone.                                                     *)
(***************************************************************************)
EXTENDS Threading, TLAPS

-----------------------------------------------------------------------------
(* Managed threads.                                                        *)

Operations ==
  [what : {"idle", "assign", "join", "destroy"}, var : Vars \cup {Null},
   on : Workers \cup {Null}]

TypeInv == TypeOK /\ doing \in [Threads -> Operations]

Busy(a) == doing[a].what # "idle"
Assigning(a) == doing[a].what = "assign"
Joining(a) == doing[a].what \in {"join", "destroy"}

(* A thread in the middle of an operation has its variable to itself: an   *)
(* empty one that is about to own a new thread, or one that owns the       *)
(* thread, not its user, that is waited for.                               *)
DoingInv ==
  /\ \A a \in Threads : ~Busy(a) => doing[a] = Idle
  /\ \A a \in Threads : Busy(a) => doing[a].var \in Vars /\ doing[a].on \in Workers
  /\ \A a \in Threads : Assigning(a) => th[doing[a].var] = Null
  /\ \A a \in Threads : Joining(a) => th[doing[a].var] = doing[a].on /\ doing[a].on # a
  /\ \A a, b \in Threads : Busy(a) /\ Busy(b) /\ doing[a].var = doing[b].var => a = b

(* A handle that a variable has, or is about to be given, is open, and no  *)
(* other has it; an open one is had, unless it was left behind.            *)
OwnInv ==
  /\ \A v \in Vars : th[v] \in Workers => handle[th[v]] = "open"
  /\ \A u, v \in Vars : th[u] \in Workers /\ th[u] = th[v] => u = v
  /\ \A a \in Threads : Assigning(a) =>
       handle[doing[a].on] = "open" /\ \A v \in Vars : th[v] # doing[a].on
  /\ \A a, b \in Threads : Assigning(a) /\ Assigning(b) /\ doing[a].on = doing[b].on => a = b
  /\ \A w \in Workers : handle[w] = "open" =>
       \/ w \in excused
       \/ \E v \in Vars : th[v] = w
       \/ \E a \in Threads : Assigning(a) /\ doing[a].on = w

(* Handles are there from birth.                                           *)
EndInv ==
  /\ \A w \in Workers : handle[w] = "none" <=> os[w] = "unborn"
  /\ EndsOnce

ThreadInv == TypeInv /\ DoingInv /\ OwnInv /\ EndInv

(* What becomes of the counts of a functor.                                *)
LEMMA FunctorSteps ==
  ASSUME NEW f \in Functors
  PROVE  /\ New(f) \in Functors /\ New(f).built = f.built + 1
         /\ New(f).destroyed = f.destroyed /\ New(f).freed = f.freed
         /\ Release(f) \in Functors /\ Release(f).built = f.built
         /\ Release(f).destroyed = f.destroyed /\ Release(f).freed = f.freed + 1
         /\ Delete(f) \in Functors /\ Delete(f).built = f.built
         /\ Delete(f).destroyed = f.destroyed + 1 /\ Delete(f).freed = f.freed + 1
         /\ f.built \in Nat /\ f.destroyed \in Nat /\ f.freed \in Nat
<1> f.built \in Nat /\ f.destroyed \in Nat /\ f.freed \in Nat
  BY DEF Functors
<1>1. New(f) = [built |-> f.built + 1, destroyed |-> f.destroyed, freed |-> f.freed]
  BY DEF Functors, New
<1>2. Release(f) = [built |-> f.built, destroyed |-> f.destroyed, freed |-> f.freed + 1]
  BY DEF Functors, Release
<1>3. Delete(f) = [built |-> f.built, destroyed |-> f.destroyed + 1, freed |-> f.freed + 1]
  <2> DEFINE g == [built |-> f.built, destroyed |-> f.destroyed + 1, freed |-> f.freed]
  <2>1. [f EXCEPT !.destroyed = @ + 1] = g
    BY DEF Functors
  <2>2. Release(g) = [built |-> f.built, destroyed |-> f.destroyed + 1, freed |-> f.freed + 1]
    BY DEF Release
  <2> HIDE DEF g
  <2> QED
    BY <2>1, <2>2, Zenon DEF Delete
<1> QED
  BY <1>1, <1>2, <1>3 DEF Functors

LEMMA FunctorKept ==
  ASSUME ThreadInv, UNCHANGED <<functor, os>>, faults' \in {faults, faults + 1} PROVE FunctorOnce'
<1>1. /\ faults \in Nat /\ FunctorOnce
      /\ \A w \in Workers : functor[w].freed \in Nat /\ functor[w].destroyed \in Nat
  BY DEF ThreadInv, TypeInv, TypeOK, Functors, EndInv, EndsOnce
<1>2. UNCHANGED <<functor, os>> /\ faults <= faults'
  BY <1>1
<1> QED
  BY <1>1, <1>2 DEF FunctorOnce

(* One functor that changes, with its thread.                              *)
LEMMA FunctorMoved ==
  ASSUME ThreadInv, NEW w \in Workers, NEW f \in Functors, faults' \in {faults, faults + 1},
         functor' = [functor EXCEPT ![w] = f],
         \A x \in Workers \ {w} : os'[x] = os[x],
         f.destroyed = IF os'[w] = "exited" THEN 1 ELSE 0,
         f.built - f.freed = IF os'[w] = "running" THEN 1 ELSE 0,
         f.freed - f.destroyed <= faults'
  PROVE  functor' \in [Workers -> Functors] /\ FunctorOnce'
<1>1. /\ faults \in Nat /\ FunctorOnce /\ functor \in [Workers -> Functors]
      /\ \A x \in Workers : functor[x].freed \in Nat /\ functor[x].destroyed \in Nat
  BY DEF ThreadInv, TypeInv, TypeOK, Functors, EndInv, EndsOnce
<1>2. functor'[w] = f /\ \A x \in Workers \ {w} : functor'[x] = functor[x]
  BY <1>1
<1>3. faults <= faults'
  BY <1>1
<1> QED
  BY <1>1, <1>2, <1>3 DEF FunctorOnce

LEMMA ThreadInit == Init => ThreadInv
<1> SUFFICES ASSUME Init PROVE ThreadInv
  OBVIOUS
<1> USE ManagedThreadAssumption DEF Init, Idle, Threads
<1>1. TypeInv
  BY DEF TypeInv, TypeOK, Operations, Codes, Functors
<1>2. DoingInv
  BY DEF DoingInv, Busy, Assigning, Joining
<1>3. OwnInv
  BY DEF OwnInv, Assigning
<1>4. EndInv
  BY DEF EndInv, EndsOnce, FunctorOnce, JoinAfterExit
<1> QED
  BY <1>1, <1>2, <1>3, <1>4 DEF ThreadInv

LEMMA CtorInv ==
  ASSUME ThreadInv, NEW a \in Threads, NEW v \in Vars, NEW w \in Workers, Ctor(a, v, w) PROVE ThreadInv'
<1>0. functor' \in [Workers -> Functors] /\ FunctorOnce'
  <2> DEFINE f == New(functor[w])
  <2>1. functor[w] \in Functors /\ os[w] = "unborn" /\ faults \in Nat /\ os \in [Workers -> {"unborn", "running", "exited"}]
    BY DEF ThreadInv, TypeInv, TypeOK, Ctor
  <2>2. /\ functor[w].destroyed = 0 /\ functor[w].freed - functor[w].destroyed <= faults
        /\ functor[w].built - functor[w].freed = IF os[w] = "running" THEN 1 ELSE 0
    BY <2>1 DEF ThreadInv, EndInv, EndsOnce, FunctorOnce
  <2>3. /\ functor' = [functor EXCEPT ![w] = f] /\ os'[w] = "running"
        /\ \A x \in Workers \ {w} : os'[x] = os[x]
        /\ faults' = faults
    BY <2>1 DEF Ctor, Do
  <2>4. /\ f \in Functors
        /\ f.built = functor[w].built + 1 /\ f.destroyed = functor[w].destroyed
        /\ f.freed = functor[w].freed
        /\ functor[w].built \in Nat /\ functor[w].destroyed \in Nat /\ functor[w].freed \in Nat
    BY <2>1, FunctorSteps
  <2> HIDE DEF f
  <2> QED
    <3>1. /\ f.destroyed = IF os'[w] = "exited" THEN 1 ELSE 0
          /\ f.built - f.freed = IF os'[w] = "running" THEN 1 ELSE 0
          /\ f.freed - f.destroyed <= faults' /\ faults' \in {faults, faults + 1}
      BY <2>1, <2>2, <2>3, <2>4
    <3> QED
      BY <2>3, <2>4, <3>1, FunctorMoved
<1> USE ManagedThreadAssumption DEF ThreadInv, TypeInv, TypeOK, Operations, Ctor, Begin, Ready, Free, Do
<1>1. TypeInv'
  BY <1>0 DEF DoingInv, OwnInv, EndInv, EndsOnce, Busy, Assigning, Joining, Codes, Threads, Idle
<1>2. DoingInv'
  BY DEF DoingInv, OwnInv, EndInv, Busy, Assigning, Joining, Idle
<1>3. OwnInv'
  BY DEF DoingInv, OwnInv, EndInv, Busy, Assigning, Joining, Idle
<1>4. FunctorOnce'
  BY <1>0
<1>5. EndInv'
  BY <1>4 DEF DoingInv, OwnInv, EndInv, EndsOnce, JoinAfterExit, Busy, Assigning, Joining
<1> QED
  BY <1>1, <1>2, <1>3, <1>5

LEMMA OutOfMemoryInv ==
  ASSUME ThreadInv, NEW a \in Threads, NEW v \in Vars, OutOfMemory(a, v) PROVE ThreadInv'
<1> USE ManagedThreadAssumption DEF ThreadInv, TypeInv, TypeOK, Operations, OutOfMemory, Fault
<1>1. TypeInv'
  BY DEF DoingInv, OwnInv, EndInv, EndsOnce, Busy, Assigning, Joining, Codes, Threads, Idle
<1>2. DoingInv'
  BY DEF DoingInv, OwnInv, EndInv, Busy, Assigning, Joining, Idle
<1>3. OwnInv'
  BY DEF DoingInv, OwnInv, EndInv, Busy, Assigning, Joining, Idle
<1>4. FunctorOnce'
  BY FunctorKept
<1>5. EndInv'
  BY <1>4 DEF DoingInv, OwnInv, EndInv, EndsOnce, JoinAfterExit, Busy, Assigning, Joining
<1> QED
  BY <1>1, <1>2, <1>3, <1>5

LEMMA InitFailsInv ==
  ASSUME ThreadInv, NEW a \in Threads, NEW v \in Vars, NEW w \in Workers, InitFails(a, v, w) PROVE ThreadInv'
<1>0. functor' \in [Workers -> Functors] /\ FunctorOnce'
  <2> DEFINE f == Release(New(functor[w]))
  <2>1. functor[w] \in Functors /\ os[w] = "unborn" /\ faults \in Nat /\ os \in [Workers -> {"unborn", "running", "exited"}]
    BY DEF ThreadInv, TypeInv, TypeOK, InitFails
  <2>2. /\ functor[w].destroyed = 0 /\ functor[w].freed - functor[w].destroyed <= faults
        /\ functor[w].built - functor[w].freed = IF os[w] = "running" THEN 1 ELSE 0
    BY <2>1 DEF ThreadInv, EndInv, EndsOnce, FunctorOnce
  <2>3. /\ functor' = [functor EXCEPT ![w] = f] /\ os'[w] = "unborn"
        /\ \A x \in Workers \ {w} : os'[x] = os[x]
        /\ faults' = faults + 1
    BY <2>1 DEF InitFails, Fault
  <2>4. /\ f \in Functors
        /\ f.built = functor[w].built + 1 /\ f.destroyed = functor[w].destroyed
        /\ f.freed = functor[w].freed + 1
        /\ functor[w].built \in Nat /\ functor[w].destroyed \in Nat /\ functor[w].freed \in Nat
    BY <2>1, FunctorSteps
  <2> HIDE DEF f
  <2> QED
    <3>1. /\ f.destroyed = IF os'[w] = "exited" THEN 1 ELSE 0
          /\ f.built - f.freed = IF os'[w] = "running" THEN 1 ELSE 0
          /\ f.freed - f.destroyed <= faults' /\ faults' \in {faults, faults + 1}
      BY <2>1, <2>2, <2>3, <2>4
    <3> QED
      BY <2>3, <2>4, <3>1, FunctorMoved
<1> USE ManagedThreadAssumption DEF ThreadInv, TypeInv, TypeOK, Operations, InitFails, Fault
<1>1. TypeInv'
  BY <1>0 DEF DoingInv, OwnInv, EndInv, EndsOnce, Busy, Assigning, Joining, Codes, Threads, Idle
<1>2. DoingInv'
  BY DEF DoingInv, OwnInv, EndInv, Busy, Assigning, Joining, Idle
<1>3. OwnInv'
  BY DEF DoingInv, OwnInv, EndInv, Busy, Assigning, Joining, Idle
<1>4. FunctorOnce'
  BY <1>0
<1>5. EndInv'
  BY <1>4 DEF DoingInv, OwnInv, EndInv, EndsOnce, JoinAfterExit, Busy, Assigning, Joining
<1> QED
  BY <1>1, <1>2, <1>3, <1>5

LEMMA AssignInv ==
  ASSUME ThreadInv, NEW a \in Threads, Assign(a) PROVE ThreadInv'
<1> USE ManagedThreadAssumption DEF ThreadInv, TypeInv, TypeOK, Operations, Assign, Done
<1>1. TypeInv'
  BY DEF DoingInv, OwnInv, EndInv, EndsOnce, Busy, Assigning, Joining, Codes, Threads, Idle
<1>2. DoingInv'
  BY DEF DoingInv, OwnInv, EndInv, Busy, Assigning, Joining, Idle
<1>3. OwnInv'
  BY DEF DoingInv, OwnInv, EndInv, Busy, Assigning, Joining, Idle
<1>4. FunctorOnce'
  BY FunctorKept
<1>5. EndInv'
  BY <1>4 DEF DoingInv, OwnInv, EndInv, EndsOnce, JoinAfterExit, Busy, Assigning, Joining
<1> QED
  BY <1>1, <1>2, <1>3, <1>5

LEMMA ExitInv ==
  ASSUME ThreadInv, NEW w \in Workers, NEW r \in Returns, Exit(w, r) PROVE ThreadInv'
<1>0. functor' \in [Workers -> Functors] /\ FunctorOnce'
  <2> DEFINE f == Delete(functor[w])
  <2>1. functor[w] \in Functors /\ os[w] = "running" /\ faults \in Nat /\ os \in [Workers -> {"unborn", "running", "exited"}]
    BY DEF ThreadInv, TypeInv, TypeOK, Exit
  <2>2. /\ functor[w].destroyed = 0 /\ functor[w].freed - functor[w].destroyed <= faults
        /\ functor[w].built - functor[w].freed = IF os[w] = "running" THEN 1 ELSE 0
    BY <2>1 DEF ThreadInv, EndInv, EndsOnce, FunctorOnce
  <2>3. /\ functor' = [functor EXCEPT ![w] = f] /\ os'[w] = "exited"
        /\ \A x \in Workers \ {w} : os'[x] = os[x]
        /\ faults' = faults
    BY <2>1 DEF Exit
  <2>4. /\ f \in Functors
        /\ f.built = functor[w].built /\ f.destroyed = functor[w].destroyed + 1
        /\ f.freed = functor[w].freed + 1
        /\ functor[w].built \in Nat /\ functor[w].destroyed \in Nat /\ functor[w].freed \in Nat
    BY <2>1, FunctorSteps
  <2> HIDE DEF f
  <2> QED
    <3>1. /\ f.destroyed = IF os'[w] = "exited" THEN 1 ELSE 0
          /\ f.built - f.freed = IF os'[w] = "running" THEN 1 ELSE 0
          /\ f.freed - f.destroyed <= faults' /\ faults' \in {faults, faults + 1}
      BY <2>1, <2>2, <2>3, <2>4
    <3> QED
      BY <2>3, <2>4, <3>1, FunctorMoved
<1> USE ManagedThreadAssumption DEF ThreadInv, TypeInv, TypeOK, Operations, Exit, ExitCode, Returns
<1>1. TypeInv'
  BY <1>0 DEF DoingInv, OwnInv, EndInv, EndsOnce, Busy, Assigning, Joining, Codes, Threads, Idle
<1>2. DoingInv'
  BY DEF DoingInv, OwnInv, EndInv, Busy, Assigning, Joining, Idle
<1>3. OwnInv'
  BY DEF DoingInv, OwnInv, EndInv, Busy, Assigning, Joining, Idle
<1>4. FunctorOnce'
  BY <1>0
<1>5. EndInv'
  BY <1>4 DEF DoingInv, OwnInv, EndInv, EndsOnce, JoinAfterExit, Busy, Assigning, Joining
<1> QED
  BY <1>1, <1>2, <1>3, <1>5

LEMMA StartJoinInv ==
  ASSUME ThreadInv, NEW a \in Threads, NEW v \in Vars, StartJoin(a, v) PROVE ThreadInv'
<1> USE ManagedThreadAssumption DEF ThreadInv, TypeInv, TypeOK, Operations, StartJoin, Begin, Ready, Free, Joinable, Do
<1>1. TypeInv'
  BY DEF DoingInv, OwnInv, EndInv, EndsOnce, Busy, Assigning, Joining, Codes, Threads, Idle
<1>2. DoingInv'
  BY DEF DoingInv, OwnInv, EndInv, Busy, Assigning, Joining, Idle
<1>3. OwnInv'
  BY DEF DoingInv, OwnInv, EndInv, Busy, Assigning, Joining, Idle
<1>4. FunctorOnce'
  BY FunctorKept
<1>5. EndInv'
  BY <1>4 DEF DoingInv, OwnInv, EndInv, EndsOnce, JoinAfterExit, Busy, Assigning, Joining
<1> QED
  BY <1>1, <1>2, <1>3, <1>5

LEMMA JoinInv ==
  ASSUME ThreadInv, NEW a \in Threads, Join(a) PROVE ThreadInv'
<1> USE ManagedThreadAssumption DEF ThreadInv, TypeInv, TypeOK, Operations, Join, Done
<1>1. TypeInv'
  BY DEF DoingInv, OwnInv, EndInv, EndsOnce, Busy, Assigning, Joining, Codes, Threads, Idle
<1>2. DoingInv'
  BY DEF DoingInv, OwnInv, EndInv, Busy, Assigning, Joining, Idle
<1>3. OwnInv'
  BY DEF DoingInv, OwnInv, EndInv, Busy, Assigning, Joining, Idle
<1>4. FunctorOnce'
  BY FunctorKept
<1>5. EndInv'
  BY <1>4 DEF DoingInv, OwnInv, EndInv, EndsOnce, JoinAfterExit, Busy, Assigning, Joining
<1> QED
  BY <1>1, <1>2, <1>3, <1>5

LEMMA JoinFailsInv ==
  ASSUME ThreadInv, NEW a \in Threads, JoinFails(a) PROVE ThreadInv'
<1> USE ManagedThreadAssumption DEF ThreadInv, TypeInv, TypeOK, Operations, JoinFails, Fault, Done
<1>1. TypeInv'
  BY DEF DoingInv, OwnInv, EndInv, EndsOnce, Busy, Assigning, Joining, Codes, Threads, Idle
<1>2. DoingInv'
  BY DEF DoingInv, OwnInv, EndInv, Busy, Assigning, Joining, Idle
<1>3. OwnInv'
  BY DEF DoingInv, OwnInv, EndInv, Busy, Assigning, Joining, Idle
<1>4. FunctorOnce'
  BY FunctorKept
<1>5. EndInv'
  BY <1>4 DEF DoingInv, OwnInv, EndInv, EndsOnce, JoinAfterExit, Busy, Assigning, Joining
<1> QED
  BY <1>1, <1>2, <1>3, <1>5

LEMMA DestroyUnjoinedInv ==
  ASSUME ThreadInv, NEW a \in Threads, NEW v \in Vars, DestroyUnjoined(a, v) PROVE ThreadInv'
<1> USE ManagedThreadAssumption DEF ThreadInv, TypeInv, TypeOK, Operations, DestroyUnjoined, Begin, Ready, Free, Joinable
<1>1. TypeInv'
  BY DEF DoingInv, OwnInv, EndInv, EndsOnce, Busy, Assigning, Joining, Codes, Threads, Idle
<1>2. DoingInv'
  BY DEF DoingInv, OwnInv, EndInv, Busy, Assigning, Joining, Idle
<1>3. OwnInv'
  BY DEF DoingInv, OwnInv, EndInv, Busy, Assigning, Joining, Idle
<1>4. FunctorOnce'
  BY FunctorKept
<1>5. EndInv'
  BY <1>4 DEF DoingInv, OwnInv, EndInv, EndsOnce, JoinAfterExit, Busy, Assigning, Joining
<1> QED
  BY <1>1, <1>2, <1>3, <1>5

LEMMA DetachInv ==
  ASSUME ThreadInv, NEW a \in Threads, NEW v \in Vars, Detach(a, v) PROVE ThreadInv'
<1> USE ManagedThreadAssumption DEF ThreadInv, TypeInv, TypeOK, Operations, Detach, Begin, Ready, Free, Joinable, Fault
<1>1. TypeInv'
  <2>1. UNCHANGED <<os, functor, code, doing, seen, phase>> /\ th[v] \in Workers
    OBVIOUS
  <2>2. th' \in [Vars -> Workers \cup {Null, Gone}]
    OBVIOUS
  <2>3. /\ handle' \in [Workers -> {"none", "open", "joined", "detached"}]
        /\ excused' \subseteq Workers /\ faults' \in Nat
    BY <2>1
  <2> QED
    BY <2>1, <2>2, <2>3 DEF Codes
<1>2. DoingInv'
  BY DEF DoingInv, OwnInv, EndInv, Busy, Assigning, Joining, Idle
<1>3. OwnInv'
  BY DEF DoingInv, OwnInv, EndInv, Busy, Assigning, Joining, Idle
<1>4. FunctorOnce'
  BY FunctorKept
<1>5. EndInv'
  BY <1>4 DEF DoingInv, OwnInv, EndInv, EndsOnce, JoinAfterExit, Busy, Assigning, Joining
<1> QED
  BY <1>1, <1>2, <1>3, <1>5

LEMMA SwapInv ==
  ASSUME ThreadInv, NEW a \in Threads, NEW u \in Vars, NEW v \in Vars, Swap(a, u, v) PROVE ThreadInv'
<1> USE ManagedThreadAssumption DEF ThreadInv, TypeInv, TypeOK, Operations, Swap, Begin, Ready, Free
<1>1. TypeInv'
  BY DEF DoingInv, OwnInv, EndInv, EndsOnce, Busy, Assigning, Joining, Codes, Threads, Idle
<1>2. DoingInv'
  BY DEF DoingInv, OwnInv, EndInv, Busy, Assigning, Joining, Idle
<1>3. OwnInv'
  <2> DEFINE old(x) == IF x = u THEN v ELSE IF x = v THEN u ELSE x
  <2>1. \A x \in Vars : th'[x] = th[old(x)] /\ old(x) \in Vars
    OBVIOUS
  <2>2. \A x, y \in Vars : old(x) = old(y) => x = y
    OBVIOUS
  <2>3. \A x \in Vars : old(x) \in Vars /\ th'[old(x)] = th[x]
    OBVIOUS
  <2> HIDE DEF old
  <2>4. UNCHANGED <<handle, doing, excused>>
    OBVIOUS
  <2>5. \A x \in Vars : th'[x] \in Workers => handle'[th'[x]] = "open"
    BY <2>1, <2>4 DEF OwnInv
  <2>6. \A x, y \in Vars : th'[x] \in Workers /\ th'[x] = th'[y] => x = y
    BY <2>1, <2>2 DEF OwnInv
  <2>7. \A b \in Threads : Assigning(b)' =>
          handle'[doing'[b].on] = "open" /\ \A x \in Vars : th'[x] # doing'[b].on
    BY <2>1, <2>4 DEF OwnInv, Assigning
  <2>8. \A b, c \in Threads :
          Assigning(b)' /\ Assigning(c)' /\ doing'[b].on = doing'[c].on => b = c
    BY <2>4 DEF OwnInv, Assigning
  <2>9. \A w \in Workers : handle'[w] = "open" =>
          \/ w \in excused'
          \/ \E x \in Vars : th'[x] = w
          \/ \E b \in Threads : Assigning(b)' /\ doing'[b].on = w
    <3> SUFFICES ASSUME NEW w \in Workers, handle[w] = "open"
                 PROVE \/ w \in excused
                       \/ \E x \in Vars : th'[x] = w
                       \/ \E b \in Threads : Assigning(b) /\ doing[b].on = w
      BY <2>4 DEF Assigning
    <3> QED
      BY <2>3 DEF OwnInv
  <2> QED
    BY <2>5, <2>6, <2>7, <2>8, <2>9 DEF OwnInv
<1>4. FunctorOnce'
  BY FunctorKept
<1>5. EndInv'
  BY <1>4 DEF DoingInv, OwnInv, EndInv, EndsOnce, JoinAfterExit, Busy, Assigning, Joining
<1> QED
  BY <1>1, <1>2, <1>3, <1>5

LEMMA NextInv ==
  ASSUME ThreadInv, Next PROVE ThreadInv'
<1>1. CASE \E a \in Threads : Act(a)
  <2>1. PICK a \in Threads : Act(a)
    BY <1>1
  <2>2. CASE Assign(a) \/ Join(a) \/ JoinFails(a)
    BY <2>2, AssignInv, JoinInv, JoinFailsInv
  <2>3. CASE \E v \in Vars, w \in Workers : Ctor(a, v, w) \/ InitFails(a, v, w)
    BY <2>3, CtorInv, InitFailsInv
  <2>4. CASE \E v \in Vars :
               OutOfMemory(a, v) \/ StartJoin(a, v) \/ DestroyUnjoined(a, v) \/ Detach(a, v)
    BY <2>4, OutOfMemoryInv, StartJoinInv, DestroyUnjoinedInv, DetachInv
  <2>5. CASE \E u, v \in Vars : Swap(a, u, v)
    BY <2>5, SwapInv
  <2> QED
    BY <2>1, <2>2, <2>3, <2>4, <2>5 DEF Act
<1>2. CASE \E w \in Workers, r \in Returns : Exit(w, r)
  BY <1>2, ExitInv
<1> QED
  BY <1>1, <1>2 DEF Next

LEMMA StutterInv ==
  ASSUME ThreadInv, UNCHANGED vars PROVE ThreadInv'
<1> USE DEF vars
<1>1. TypeInv'
  BY DEF ThreadInv, TypeInv, TypeOK, Operations
<1>2. DoingInv'
  BY DEF ThreadInv, DoingInv, Busy, Assigning, Joining
<1>3. OwnInv'
  BY DEF ThreadInv, OwnInv, Assigning
<1>4. EndInv'
  BY DEF ThreadInv, EndInv, EndsOnce, FunctorOnce, JoinAfterExit
<1> QED
  BY <1>1, <1>2, <1>3, <1>4 DEF ThreadInv

LEMMA ThreadInvariant == AllSpec => []ThreadInv
<1>1. AllInit => ThreadInv
  BY ThreadInit DEF AllInit
<1>2. ThreadInv /\ [AllNext]_allVars => ThreadInv'
  BY NextInv, StutterInv DEF AllNext, ThreadStep, CondStep, allVars
<1> QED
  BY <1>1, <1>2, PTL DEF AllSpec

(* Through any moves, swaps, joins, detaches and failures, and wherever    *)
(* another thread runs in between, every open thread handle is owned by    *)
(* one variable, or is about to be, or was left behind by a failed detach  *)
(* or by its own thread; no closed handle is owned (ThreadEx.h:157-258).   *)
THEOREM ThreadHandlesOwned == AllSpec => []HandlesOwned
<1>1. ThreadInv => HandlesOwned
  <2> SUFFICES ASSUME ThreadInv, NEW w \in Workers
               PROVE  /\ \A u, v \in Owners(w) : u = v
                      /\ handle[w] # "open" => Owners(w) = {}
                      /\ handle[w] = "open" /\ Owners(w) = {} => w \in excused
    BY DEF HandlesOwned, OneOwner, NoHandleLost
  <2>1. \A v \in Vars : v \in Owners(w) <=>
          \/ th[v] = w
          \/ \E a \in Threads : Assigning(a) /\ doing[a].var = v /\ doing[a].on = w
    BY DEF Owners, Assigning, ThreadInv, TypeInv, Operations
  <2>2. Owners(w) \subseteq Vars
    BY DEF Owners
  <2>3. ASSUME NEW a \in Threads, Assigning(a) PROVE doing[a].var \in Vars
    BY <2>3 DEF ThreadInv, DoingInv, Assigning, Busy
  <2> QED
    BY <2>1, <2>2, <2>3 DEF ThreadInv, OwnInv
<1> QED
  BY <1>1, ThreadInvariant, PTL

(* Whatever is joined, detached or destroyed, whatever fails, and whenever *)
(* a thread ends, the functor it has run is destroyed once, at the end of  *)
(* its run; storage is freed once, and not while a thread runs what is in  *)
(* it; a functor that is freed without having been destroyed is one whose  *)
(* thread could not be created; and a join that succeeds has seen the end  *)
(* of the run, with its code (ThreadEx.h:187-249).                         *)
THEOREM ThreadEndsOnce == AllSpec => []EndsOnce
<1>1. ThreadInv => EndsOnce
  BY DEF ThreadInv, EndInv
<1> QED
  BY <1>1, ThreadInvariant, PTL

-----------------------------------------------------------------------------
(* The condition variable.                                                 *)

(* Where a thread is says what it does, whether it holds the mutex, and    *)
(* what it has learnt about the predicate.                                 *)
PlaceInv ==
  \A t \in Waiters :
    /\ op[t] = "none" <=> pc[t] = "out"
    /\ pc[t] = "init" <=> call[t] # "out"
    /\ pc[t] \in {"asleep", "relock"} => op[t] \in Cond!Waits
    /\ pc[t] = "test" => op[t] = "wait_until" /\ owner = t
    /\ pc[t] \in {"init", "handle"} /\ op[t] \in Cond!Waits => owner = t
    /\ pc[t] \in {"init", "handle"} /\ op[t] = "wait_until" => ~pred
    /\ pc[t] \in {"handle", "asleep"} => done

(* One thread at a time creates the handle, and none once it is there; the *)
(* destructor meets nobody.                                                *)
CreationInv ==
  /\ \A t \in Waiters : call[t] = "run" => ~done
  /\ \A t, u \in Waiters : call[t] = "run" /\ call[u] = "run" => t = u
  /\ cphase = "alive" => chandle = IF done THEN "live" ELSE "none"
  /\ cphase = "dead" => /\ \A t \in Waiters : pc[t] = "out"
                        /\ chandle = IF done THEN "destroyed" ELSE "none"

CondInv == Cond!TypeOK /\ PlaceInv /\ CreationInv /\ Cond!NoLostWakeup

LEMMA CondInit == Cond!Init => CondInv
<1> SUFFICES ASSUME Cond!Init PROVE CondInv
  OBVIOUS
<1> USE ThreadingAssumption DEF Cond!Assumption, Cond!Init, Cond!O!Init
<1>1. Cond!TypeOK
  BY DEF Cond!TypeOK, Cond!O!TypeOK, Cond!Waits
<1>2. PlaceInv /\ CreationInv
  BY DEF PlaceInv, CreationInv, Cond!Waits
<1>3. Cond!NoLostWakeup
  BY DEF Cond!NoLostWakeup
<1> QED
  BY <1>1, <1>2, <1>3 DEF CondInv

LEMMA LockInv ==
  ASSUME CondInv, cphase = "alive", NEW t \in Waiters, Cond!Lock(t)
  PROVE  CondInv' /\ \A u \in Waiters : Cond!WaitsReturn(u)
<1> USE ThreadingAssumption
    DEF CondInv, Cond!Assumption, Cond!TypeOK, Cond!O!TypeOK, Cond!Lock, Cond!Waits, Cond!onceVars
<1>1. Cond!TypeOK'
  BY DEF Cond!Notices
<1>2. PlaceInv'
  BY DEF PlaceInv, CreationInv
<1>3. CreationInv'
  BY DEF PlaceInv, CreationInv
<1>4. Cond!NoLostWakeup'
  BY DEF PlaceInv, Cond!NoLostWakeup
<1>5. \A u \in Waiters : Cond!WaitsReturn(u)
  BY DEF PlaceInv, Cond!WaitsReturn
<1> QED
  BY <1>1, <1>2, <1>3, <1>4, <1>5

LEMMA UnlockInv ==
  ASSUME CondInv, cphase = "alive", NEW t \in Waiters, Cond!Unlock(t)
  PROVE  CondInv' /\ \A u \in Waiters : Cond!WaitsReturn(u)
<1> USE ThreadingAssumption
    DEF CondInv, Cond!Assumption, Cond!TypeOK, Cond!O!TypeOK, Cond!Unlock, Cond!Waits, Cond!onceVars
<1>1. Cond!TypeOK'
  BY DEF Cond!Notices
<1>2. PlaceInv'
  BY DEF PlaceInv, CreationInv
<1>3. CreationInv'
  BY DEF PlaceInv, CreationInv
<1>4. Cond!NoLostWakeup'
  BY DEF PlaceInv, Cond!NoLostWakeup
<1>5. \A u \in Waiters : Cond!WaitsReturn(u)
  BY DEF PlaceInv, Cond!WaitsReturn
<1> QED
  BY <1>1, <1>2, <1>3, <1>4, <1>5

LEMMA SetPredInv ==
  ASSUME CondInv, cphase = "alive", NEW t \in Waiters, Cond!SetPred(t)
  PROVE  CondInv' /\ \A u \in Waiters : Cond!WaitsReturn(u)
<1> USE ThreadingAssumption
    DEF CondInv, Cond!Assumption, Cond!TypeOK, Cond!O!TypeOK, Cond!SetPred, Cond!Waits, Cond!onceVars
<1>1. Cond!TypeOK'
  BY DEF Cond!Notices
<1>2. PlaceInv'
  BY DEF PlaceInv, CreationInv
<1>3. CreationInv'
  BY DEF PlaceInv, CreationInv
<1>4. Cond!NoLostWakeup'
  BY DEF PlaceInv, Cond!NoLostWakeup
<1>5. \A u \in Waiters : Cond!WaitsReturn(u)
  BY DEF PlaceInv, Cond!WaitsReturn
<1> QED
  BY <1>1, <1>2, <1>3, <1>4, <1>5

LEMMA WaitInv ==
  ASSUME CondInv, cphase = "alive", NEW t \in Waiters, Cond!Wait(t)
  PROVE  CondInv' /\ \A u \in Waiters : Cond!WaitsReturn(u)
<1> USE ThreadingAssumption
    DEF CondInv, Cond!Assumption, Cond!TypeOK, Cond!O!TypeOK, Cond!Wait, Cond!Call, Cond!EnterInit, Cond!O!Enter, Cond!Waits, Cond!onceVars
<1>1. Cond!TypeOK'
  BY DEF Cond!Notices
<1>2. PlaceInv'
  BY DEF PlaceInv, CreationInv
<1>3. CreationInv'
  BY DEF PlaceInv, CreationInv
<1>4. Cond!NoLostWakeup'
  BY DEF PlaceInv, Cond!NoLostWakeup
<1>5. \A u \in Waiters : Cond!WaitsReturn(u)
  BY DEF PlaceInv, Cond!WaitsReturn
<1> QED
  BY <1>1, <1>2, <1>3, <1>4, <1>5

LEMMA WaitUntilInv ==
  ASSUME CondInv, cphase = "alive", NEW t \in Waiters, Cond!WaitUntil(t)
  PROVE  CondInv' /\ \A u \in Waiters : Cond!WaitsReturn(u)
<1> USE ThreadingAssumption
    DEF CondInv, Cond!Assumption, Cond!TypeOK, Cond!O!TypeOK, Cond!WaitUntil, Cond!Waits, Cond!onceVars
<1>1. Cond!TypeOK'
  BY DEF Cond!Notices
<1>2. PlaceInv'
  BY DEF PlaceInv, CreationInv
<1>3. CreationInv'
  BY DEF PlaceInv, CreationInv
<1>4. Cond!NoLostWakeup'
  BY DEF PlaceInv, Cond!NoLostWakeup
<1>5. \A u \in Waiters : Cond!WaitsReturn(u)
  BY DEF PlaceInv, Cond!WaitsReturn
<1> QED
  BY <1>1, <1>2, <1>3, <1>4, <1>5

LEMMA NotifyInv ==
  ASSUME CondInv, cphase = "alive", NEW t \in Waiters, Cond!Notify(t)
  PROVE  CondInv' /\ \A u \in Waiters : Cond!WaitsReturn(u)
<1> USE ThreadingAssumption
    DEF CondInv, Cond!Assumption, Cond!TypeOK, Cond!O!TypeOK, Cond!Notify, Cond!Call, Cond!EnterInit, Cond!O!Enter, Cond!Notices, Cond!Waits, Cond!onceVars
<1>1. Cond!TypeOK'
  BY DEF Cond!Notices
<1>2. PlaceInv'
  BY DEF PlaceInv, CreationInv
<1>3. CreationInv'
  BY DEF PlaceInv, CreationInv
<1>4. Cond!NoLostWakeup'
  BY DEF PlaceInv, Cond!NoLostWakeup
<1>5. \A u \in Waiters : Cond!WaitsReturn(u)
  BY DEF PlaceInv, Cond!WaitsReturn
<1> QED
  BY <1>1, <1>2, <1>3, <1>4, <1>5

LEMMA TestInv ==
  ASSUME CondInv, cphase = "alive", NEW t \in Waiters, Cond!Test(t)
  PROVE  CondInv' /\ \A u \in Waiters : Cond!WaitsReturn(u)
<1> USE ThreadingAssumption
    DEF CondInv, Cond!Assumption, Cond!TypeOK, Cond!O!TypeOK, Cond!Test, Cond!Return, Cond!EnterInit, Cond!O!Enter, Cond!Waits, Cond!onceVars
<1>1. Cond!TypeOK'
  BY DEF Cond!Notices
<1>2. PlaceInv'
  BY DEF PlaceInv, CreationInv
<1>3. CreationInv'
  BY DEF PlaceInv, CreationInv
<1>4. Cond!NoLostWakeup'
  BY DEF PlaceInv, Cond!NoLostWakeup
<1>5. \A u \in Waiters : Cond!WaitsReturn(u)
  BY DEF PlaceInv, Cond!WaitsReturn
<1> QED
  BY <1>1, <1>2, <1>3, <1>4, <1>5

LEMMA TryInitInv ==
  ASSUME CondInv, cphase = "alive", NEW t \in Waiters, Cond!TryInit(t)
  PROVE  CondInv' /\ \A u \in Waiters : Cond!WaitsReturn(u)
<1> USE ThreadingAssumption
    DEF CondInv, Cond!Assumption, Cond!TypeOK, Cond!O!TypeOK, Cond!TryInit, Cond!O!Begin, Cond!Waits, Cond!onceVars
<1>1. Cond!TypeOK'
  BY DEF Cond!Notices
<1>2. PlaceInv'
  BY DEF PlaceInv, CreationInv
<1>3. CreationInv'
  BY DEF PlaceInv, CreationInv
<1>4. Cond!NoLostWakeup'
  BY DEF PlaceInv, Cond!NoLostWakeup
<1>5. \A u \in Waiters : Cond!WaitsReturn(u)
  BY DEF PlaceInv, Cond!WaitsReturn
<1> QED
  BY <1>1, <1>2, <1>3, <1>4, <1>5

LEMMA CreateInv ==
  ASSUME CondInv, cphase = "alive", NEW t \in Waiters, Cond!Create(t)
  PROVE  CondInv' /\ \A u \in Waiters : Cond!WaitsReturn(u)
<1> USE ThreadingAssumption
    DEF CondInv, Cond!Assumption, Cond!TypeOK, Cond!O!TypeOK, Cond!Create, Cond!O!Succeed, Cond!Waits, Cond!onceVars
<1>1. Cond!TypeOK'
  BY DEF Cond!Notices
<1>2. PlaceInv'
  BY DEF PlaceInv, CreationInv
<1>3. CreationInv'
  BY DEF PlaceInv, CreationInv
<1>4. Cond!NoLostWakeup'
  BY DEF PlaceInv, Cond!NoLostWakeup
<1>5. \A u \in Waiters : Cond!WaitsReturn(u)
  BY DEF PlaceInv, Cond!WaitsReturn
<1> QED
  BY <1>1, <1>2, <1>3, <1>4, <1>5

LEMMA CreateFailsInv ==
  ASSUME CondInv, cphase = "alive", NEW t \in Waiters, Cond!CreateFails(t)
  PROVE  CondInv' /\ \A u \in Waiters : Cond!WaitsReturn(u)
<1> USE ThreadingAssumption
    DEF CondInv, Cond!Assumption, Cond!TypeOK, Cond!O!TypeOK, Cond!CreateFails, Cond!O!Fail, Cond!Fault, Cond!Return, Cond!Waits, Cond!onceVars
<1>1. Cond!TypeOK'
  BY DEF Cond!Notices
<1>2. PlaceInv'
  BY DEF PlaceInv, CreationInv
<1>3. CreationInv'
  BY DEF PlaceInv, CreationInv
<1>4. Cond!NoLostWakeup'
  BY DEF PlaceInv, Cond!NoLostWakeup
<1>5. \A u \in Waiters : Cond!WaitsReturn(u)
  BY DEF PlaceInv, Cond!WaitsReturn
<1> QED
  BY <1>1, <1>2, <1>3, <1>4, <1>5

LEMMA InitReturnsInv ==
  ASSUME CondInv, cphase = "alive", NEW t \in Waiters, Cond!InitReturns(t)
  PROVE  CondInv' /\ \A u \in Waiters : Cond!WaitsReturn(u)
<1> USE ThreadingAssumption
    DEF CondInv, Cond!Assumption, Cond!TypeOK, Cond!O!TypeOK, Cond!InitReturns, Cond!O!Return, Cond!Waits, Cond!onceVars
<1>1. Cond!TypeOK'
  BY DEF Cond!Notices
<1>2. PlaceInv'
  BY DEF PlaceInv, CreationInv
<1>3. CreationInv'
  BY DEF PlaceInv, CreationInv
<1>4. Cond!NoLostWakeup'
  BY DEF PlaceInv, Cond!NoLostWakeup
<1>5. \A u \in Waiters : Cond!WaitsReturn(u)
  BY DEF PlaceInv, Cond!WaitsReturn
<1> QED
  BY <1>1, <1>2, <1>3, <1>4, <1>5

LEMMA SleepInv ==
  ASSUME CondInv, cphase = "alive", NEW t \in Waiters, Cond!Sleep(t)
  PROVE  CondInv' /\ \A u \in Waiters : Cond!WaitsReturn(u)
<1> USE ThreadingAssumption
    DEF CondInv, Cond!Assumption, Cond!TypeOK, Cond!O!TypeOK, Cond!Sleep, Cond!Waits, Cond!onceVars
<1>1. Cond!TypeOK'
  BY DEF Cond!Notices
<1>2. PlaceInv'
  BY DEF PlaceInv, CreationInv
<1>3. CreationInv'
  BY DEF PlaceInv, CreationInv
<1>4. Cond!NoLostWakeup'
  BY DEF PlaceInv, Cond!NoLostWakeup
<1>5. \A u \in Waiters : Cond!WaitsReturn(u)
  BY DEF PlaceInv, Cond!WaitsReturn
<1> QED
  BY <1>1, <1>2, <1>3, <1>4, <1>5

LEMMA HandleFailsInv ==
  ASSUME CondInv, cphase = "alive", NEW t \in Waiters, Cond!HandleFails(t)
  PROVE  CondInv' /\ \A u \in Waiters : Cond!WaitsReturn(u)
<1> USE ThreadingAssumption
    DEF CondInv, Cond!Assumption, Cond!TypeOK, Cond!O!TypeOK, Cond!HandleFails, Cond!Fault, Cond!Return, Cond!Waits, Cond!onceVars
<1>1. Cond!TypeOK'
  BY DEF Cond!Notices
<1>2. PlaceInv'
  BY DEF PlaceInv, CreationInv
<1>3. CreationInv'
  BY DEF PlaceInv, CreationInv
<1>4. Cond!NoLostWakeup'
  BY DEF PlaceInv, Cond!NoLostWakeup
<1>5. \A u \in Waiters : Cond!WaitsReturn(u)
  BY DEF PlaceInv, Cond!WaitsReturn
<1> QED
  BY <1>1, <1>2, <1>3, <1>4, <1>5

LEMMA SignalInv ==
  ASSUME CondInv, cphase = "alive", NEW t \in Waiters, Cond!Signal(t)
  PROVE  CondInv' /\ \A u \in Waiters : Cond!WaitsReturn(u)
<1> USE ThreadingAssumption
    DEF CondInv, Cond!Assumption, Cond!TypeOK, Cond!O!TypeOK, Cond!Signal, Cond!Asleep, Cond!Waits, Cond!onceVars
<1>1. Cond!TypeOK'
  BY DEF Cond!Notices
<1>2. PlaceInv'
  BY DEF PlaceInv, CreationInv
<1>3. CreationInv'
  BY DEF PlaceInv, CreationInv
<1>4. Cond!NoLostWakeup'
  BY DEF PlaceInv, Cond!NoLostWakeup
<1>5. \A u \in Waiters : Cond!WaitsReturn(u)
  BY DEF PlaceInv, Cond!WaitsReturn
<1> QED
  BY <1>1, <1>2, <1>3, <1>4, <1>5

LEMMA BroadcastInv ==
  ASSUME CondInv, cphase = "alive", NEW t \in Waiters, Cond!Broadcast(t)
  PROVE  CondInv' /\ \A u \in Waiters : Cond!WaitsReturn(u)
<1> USE ThreadingAssumption
    DEF CondInv, Cond!Assumption, Cond!TypeOK, Cond!O!TypeOK, Cond!Broadcast, Cond!Asleep, Cond!Waits, Cond!onceVars
<1>1. Cond!TypeOK'
  BY DEF Cond!Notices
<1>2. PlaceInv'
  BY DEF PlaceInv, CreationInv
<1>3. CreationInv'
  BY DEF PlaceInv, CreationInv
<1>4. Cond!NoLostWakeup'
  BY DEF PlaceInv, Cond!NoLostWakeup
<1>5. \A u \in Waiters : Cond!WaitsReturn(u)
  BY DEF PlaceInv, Cond!WaitsReturn
<1> QED
  BY <1>1, <1>2, <1>3, <1>4, <1>5

LEMMA SpuriousWakeInv ==
  ASSUME CondInv, cphase = "alive", NEW t \in Waiters, Cond!SpuriousWake(t)
  PROVE  CondInv' /\ \A u \in Waiters : Cond!WaitsReturn(u)
<1> USE ThreadingAssumption
    DEF CondInv, Cond!Assumption, Cond!TypeOK, Cond!O!TypeOK, Cond!SpuriousWake, Cond!Waits, Cond!onceVars
<1>1. Cond!TypeOK'
  BY DEF Cond!Notices
<1>2. PlaceInv'
  BY DEF PlaceInv, CreationInv
<1>3. CreationInv'
  BY DEF PlaceInv, CreationInv
<1>4. Cond!NoLostWakeup'
  BY DEF PlaceInv, Cond!NoLostWakeup
<1>5. \A u \in Waiters : Cond!WaitsReturn(u)
  BY DEF PlaceInv, Cond!WaitsReturn
<1> QED
  BY <1>1, <1>2, <1>3, <1>4, <1>5

LEMMA RelockInv ==
  ASSUME CondInv, cphase = "alive", NEW t \in Waiters, Cond!Relock(t)
  PROVE  CondInv' /\ \A u \in Waiters : Cond!WaitsReturn(u)
<1> USE ThreadingAssumption
    DEF CondInv, Cond!Assumption, Cond!TypeOK, Cond!O!TypeOK, Cond!Relock, Cond!Return, Cond!Waits, Cond!onceVars
<1>1. Cond!TypeOK'
  BY DEF Cond!Notices
<1>2. PlaceInv'
  BY DEF PlaceInv, CreationInv
<1>3. CreationInv'
  BY DEF PlaceInv, CreationInv
<1>4. Cond!NoLostWakeup'
  BY DEF PlaceInv, Cond!NoLostWakeup
<1>5. \A u \in Waiters : Cond!WaitsReturn(u)
  BY DEF PlaceInv, Cond!WaitsReturn
<1> QED
  BY <1>1, <1>2, <1>3, <1>4, <1>5

LEMMA DestroyInv ==
  ASSUME CondInv, Cond!Destroy PROVE CondInv'
<1> USE DEF CondInv, Cond!TypeOK, Cond!O!TypeOK, Cond!Destroy, Cond!onceVars, Cond!Waits
<1>1. Cond!TypeOK'
  OBVIOUS
<1>2. PlaceInv' /\ CreationInv'
  BY DEF PlaceInv, CreationInv
<1>3. Cond!NoLostWakeup'
  BY DEF Cond!NoLostWakeup
<1> QED
  BY <1>1, <1>2, <1>3

LEMMA CondStutter ==
  ASSUME CondInv, UNCHANGED Cond!vars
  PROVE  CondInv'
BY DEF CondInv, Cond!vars, Cond!TypeOK, Cond!O!TypeOK, PlaceInv, CreationInv, Cond!NoLostWakeup

(* What a step of the condition variable does.                             *)
LEMMA CondNext ==
  ASSUME CondInv, Cond!Next
  PROVE  CondInv' /\ (UNCHANGED Cond!vars \/ \A u \in Waiters : Cond!WaitsReturn(u))
<1>1. CASE cphase = "alive" /\ \E t \in Waiters :
             Cond!Client(t) \/ Cond!Advance(t) \/ Cond!SpuriousWake(t)
  <2>1. PICK t \in Waiters : Cond!Client(t) \/ Cond!Advance(t) \/ Cond!SpuriousWake(t)
    BY <1>1
  <2>2. CASE Cond!Client(t)
    BY <1>1, <2>2, LockInv, UnlockInv, SetPredInv, WaitInv, WaitUntilInv, NotifyInv
    DEF Cond!Client
  <2>3. CASE Cond!Advance(t)
    BY <1>1, <2>3, TestInv, TryInitInv, CreateInv, CreateFailsInv, InitReturnsInv, SleepInv,
       HandleFailsInv, SignalInv, BroadcastInv, RelockInv
    DEF Cond!Advance
  <2>4. CASE Cond!SpuriousWake(t)
    BY <1>1, <2>4, SpuriousWakeInv
  <2> QED
    BY <2>1, <2>2, <2>3, <2>4
<1>2. CASE Cond!Destroy
  <2>1. op' = op
    BY <1>2 DEF Cond!Destroy
  <2> QED
    BY <1>2, <2>1, DestroyInv DEF Cond!WaitsReturn, Cond!Waits
<1>3. CASE Cond!Stopped
  BY <1>3, CondStutter DEF Cond!Stopped
<1> QED
  BY <1>1, <1>2, <1>3 DEF Cond!Next

LEMMA CondInvariant == AllSpec => []CondInv
<1>1. AllInit => CondInv
  BY CondInit DEF AllInit
<1>2. CondInv /\ [AllNext]_allVars => CondInv'
  BY CondNext, CondStutter DEF AllNext, ThreadStep, CondStep, allVars, condVars, Cond!vars
<1> QED
  BY <1>1, <1>2, PTL DEF AllSpec

(* Whoever sleeps does so at a handle that was created, and no wake-up is  *)
(* lost: once the predicate is true and everybody has been notified of it, *)
(* no wait_until is asleep; and the destructor destroys the handle iff it  *)
(* exists (ConditionVariable.h:40-112).                                    *)
THEOREM SleepersAreSafe == AllSpec => []SleepersSafe
<1>1. CondInv => SleepersSafe
  BY DEF SleepersSafe, Cond!SleepersSafe, Cond!HandleLives, CondInv, PlaceInv, CreationInv,
         Cond!TypeOK
<1> QED
  BY <1>1, CondInvariant, PTL

(* wait and wait_until return with the mutex held, whether they succeed or *)
(* fail and at whichever step, and a wait_until that succeeds does so with *)
(* the predicate true, whatever woke it (ConditionVariable.h:66-96).       *)
THEOREM WaitsAreHonest == AllSpec => WaitsHonest
<1>1. CondInv /\ [AllNext]_allVars => [\A t \in Waiters : Cond!WaitsReturn(t)]_Cond!vars
  BY CondNext DEF AllNext, ThreadStep, CondStep, allVars, condVars, Cond!vars
<1> QED
  BY <1>1, CondInvariant, PTL DEF AllSpec, WaitsHonest, Cond!WaitsHonest

=============================================================================
