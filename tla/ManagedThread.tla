--------------------------- MODULE ManagedThread ----------------------------
(***************************************************************************)
(* sys::managed_thread (src/sys.Threading/ThreadEx.h): variables that own  *)
(* an operating-system thread each, or none, and the functor every thread  *)
(* runs on the heap.  Variables are used by the main thread and by the     *)
(* threads themselves, one user at a time, as C++ requires of objects that *)
(* are not synchronised.  Allocation, creation, join and detach may fail.  *)
(***************************************************************************)
EXTENDS Integers

CONSTANTS
  Main,        \* the thread that was there first
  Workers,     \* the threads managed_thread::ctor may create
  Actors,      \* the workers that use variables themselves
  Vars,        \* the managed_thread variables
  Null, Gone,  \* an empty variable, and one that has been destroyed
  MaxFaults    \* bound: operations that fail

ASSUME ManagedThreadAssumption ==
  /\ Main \notin Workers
  /\ Actors \subseteq Workers
  /\ {Null, Gone} \cap (Workers \cup {Main}) = {}
  /\ Null # Gone
  /\ MaxFaults \in Nat

VARIABLES
  th,       \* th[v]: the thread variable v owns, Null or Gone
  os,       \* os[w]: "unborn", "running" or "exited"
  handle,   \* handle[w]: the OS handle: "none", "open", "joined", "detached"
  functor,  \* functor[w]: how many functors for w were built on the heap, how many
            \* of them destroyed, and how many had their storage freed
  code,     \* code[w]: what w's functor made of its run
  doing,    \* doing[a]: the operation thread a is in the middle of
  seen,     \* seen[w]: what the join of w produced
  excused,  \* threads left behind by a failed detach or their own destructor
  phase,    \* "alive" or "terminated"
  faults    \* failures so far

vars == <<th, os, handle, functor, code, doing, seen, excused, phase, faults>>

Threads == Workers \cup {Main}
Idle == [what |-> "idle", var |-> Null, on |-> Null]
Codes == {"none", "value", "zero", "sentinel"}
Functors == [built : Nat, destroyed : Nat, freed : Nat]

TypeOK ==
  /\ th \in [Vars -> Workers \cup {Null, Gone}]
  /\ os \in [Workers -> {"unborn", "running", "exited"}]
  /\ handle \in [Workers -> {"none", "open", "joined", "detached"}]
  /\ functor \in [Workers -> Functors]
  /\ code \in [Workers -> Codes]
  /\ \A a \in Threads : doing[a] \in
       [what : {"idle", "assign", "join", "destroy"}, var : Vars \cup {Null},
        on : Workers \cup {Null}]
  /\ seen \in [Workers -> Codes]
  /\ excused \subseteq Workers
  /\ phase \in {"alive", "terminated"}
  /\ faults \in Nat

Init ==
  /\ th = [v \in Vars |-> Null]
  /\ os = [w \in Workers |-> "unborn"]
  /\ handle = [w \in Workers |-> "none"]
  /\ functor = [w \in Workers |-> [built |-> 0, destroyed |-> 0, freed |-> 0]]
  /\ code = [w \in Workers |-> "none"]
  /\ doing = [a \in Threads |-> Idle]
  /\ seen = [w \in Workers |-> "none"]
  /\ excused = {}
  /\ phase = "alive"
  /\ faults = 0

Fault == faults < MaxFaults /\ faults' = faults + 1

(* Thread a may run an operation on v: a runs, v exists and nobody uses it.*)
Free(v) == th[v] # Gone /\ \A a \in Threads : doing[a].var # v

Ready(a) ==
  /\ doing[a] = Idle
  /\ a = Main \/ (a \in Actors /\ os[a] = "running")

Begin(a, v) == Ready(a) /\ Free(v)

Do(a, what, v, w) == doing' = [doing EXCEPT ![a] = [what |-> what, var |-> v, on |-> w]]

Done(a) == doing' = [doing EXCEPT ![a] = Idle]

-----------------------------------------------------------------------------
(* The functor: new, ::operator delete without a destructor, and delete.   *)
New(f) == [f EXCEPT !.built = @ + 1]
Release(f) == [f EXCEPT !.freed = @ + 1]
Delete(f) == Release([f EXCEPT !.destroyed = @ + 1])

(* ctor: the functor is copied to the heap and the thread created; it may  *)
(* run, and end, before its creator assigns the result to v.               *)
Ctor(a, v, w) ==
  /\ Begin(a, v)
  /\ th[v] = Null
  /\ os[w] = "unborn"
  /\ os' = [os EXCEPT ![w] = "running"]
  /\ handle' = [handle EXCEPT ![w] = "open"]
  /\ functor' = [functor EXCEPT ![w] = New(@)]
  /\ Do(a, "assign", v, w)
  /\ UNCHANGED <<th, code, seen, excused, phase, faults>>

(* oom: there is no storage, and no functor in it.                         *)
OutOfMemory(a, v) ==
  /\ Begin(a, v)
  /\ th[v] = Null
  /\ Fault
  /\ UNCHANGED <<th, os, handle, functor, code, doing, seen, excused, phase>>

InitFailsKeeping(a, v, w) ==
  /\ Begin(a, v)
  /\ th[v] = Null
  /\ os[w] = "unborn"
  /\ Fault
  /\ functor' = [functor EXCEPT ![w] = New(@)]
  /\ UNCHANGED <<th, os, handle, code, doing, seen, excused, phase>>

(* init_failed: the functor has been built, but there is no thread for it. *)
(* onFail frees its storage and does not destroy it.                       *)
InitFails(a, v, w) ==
  /\ Begin(a, v)
  /\ th[v] = Null
  /\ os[w] = "unborn"
  /\ Fault
  /\ functor' = [functor EXCEPT ![w] = Release(New(@))]
  /\ UNCHANGED <<th, os, handle, code, doing, seen, excused, phase>>

AssignFreeing(a) ==
  /\ doing[a].what = "assign"
  /\ th' = [th EXCEPT ![doing[a].var] = doing[a].on]
  /\ functor' = [functor EXCEPT ![doing[a].on] = Release(@)]
  /\ Done(a)
  /\ UNCHANGED <<os, handle, code, seen, excused, phase, faults>>

(* onFail is cleared, and the temporary swapped into v.                    *)
Assign(a) ==
  /\ doing[a].what = "assign"
  /\ th' = [th EXCEPT ![doing[a].var] = doing[a].on]
  /\ Done(a)
  /\ UNCHANGED <<os, handle, functor, code, seen, excused, phase, faults>>

(* The trampoline: the functor returns an int, something convertible to    *)
(* int, or nothing, or it throws; it is deleted, and the thread exits.     *)
(* The comment on ctor (ThreadEx.h:189) has the second give 0 like the     *)
(* third; the code keeps its value.                                        *)
Returns == {"int", "convertible", "void", "throw"}

ExitCode(r) ==
  CASE r \in {"int", "convertible"} -> "value"
    [] r = "void" -> "zero"
    [] r = "throw" -> "sentinel"

Exit(w, r) ==
  /\ os[w] = "running"
  /\ doing[w] = Idle
  /\ code' = [code EXCEPT ![w] = ExitCode(r)]
  /\ functor' = [functor EXCEPT ![w] = Delete(@)]
  /\ os' = [os EXCEPT ![w] = "exited"]
  /\ UNCHANGED <<th, handle, doing, seen, excused, phase, faults>>

-----------------------------------------------------------------------------
JoinableAny(a, v) == th[v] \in Workers

Joinable(a, v) == th[v] \in Workers /\ th[v] # a

(* join and the destructor of a joinable variable wait for the thread.     *)
StartJoin(a, v) ==
  /\ Begin(a, v)
  /\ Joinable(a, v)
  /\ \E what \in {"join", "destroy"} : Do(a, what, v, th[v])
  /\ UNCHANGED <<th, os, handle, functor, code, seen, excused, phase, faults>>

JoinEarly(a) ==
  /\ doing[a].what \in {"join", "destroy"}
  /\ handle' = [handle EXCEPT ![doing[a].on] = "joined"]
  /\ seen' = [seen EXCEPT ![doing[a].on] = code[doing[a].on]]
  /\ th' = [th EXCEPT ![doing[a].var] = IF doing[a].what = "join" THEN Null ELSE Gone]
  /\ Done(a)
  /\ UNCHANGED <<os, functor, code, excused, phase, faults>>

JoinKeeps(a) ==
  /\ doing[a].what \in {"join", "destroy"}
  /\ os[doing[a].on] = "exited"
  /\ handle' = [handle EXCEPT ![doing[a].on] = "joined"]
  /\ seen' = [seen EXCEPT ![doing[a].on] = code[doing[a].on]]
  /\ Done(a)
  /\ UNCHANGED <<th, os, functor, code, excused, phase, faults>>

Join(a) ==
  /\ doing[a].what \in {"join", "destroy"}
  /\ os[doing[a].on] = "exited"
  /\ handle' = [handle EXCEPT ![doing[a].on] = "joined"]
  /\ seen' = [seen EXCEPT ![doing[a].on] = code[doing[a].on]]
  /\ th' = [th EXCEPT ![doing[a].var] = IF doing[a].what = "join" THEN Null ELSE Gone]
  /\ Done(a)
  /\ UNCHANGED <<os, functor, code, excused, phase, faults>>

(* A join that fails leaves the variable as it was, to be tried again; in  *)
(* the destructor it terminates the process.                               *)
JoinFails(a) ==
  /\ doing[a].what \in {"join", "destroy"}
  /\ Fault
  /\ phase' = IF doing[a].what = "destroy" THEN "terminated" ELSE phase
  /\ Done(a)
  /\ UNCHANGED <<th, os, handle, functor, code, seen, excused>>

(* The destructor of a variable that owns nothing, or the very thread that *)
(* destroys it: nothing is joined.                                         *)
DestroyUnjoined(a, v) ==
  /\ Begin(a, v)
  /\ ~Joinable(a, v)
  /\ th' = [th EXCEPT ![v] = Gone]
  /\ excused' = excused \cup (Workers \cap {th[v]})
  /\ UNCHANGED <<os, handle, functor, code, doing, seen, phase, faults>>

(* detach forgets the thread whether or not the primitive could detach it. *)
Detach(a, v) ==
  /\ Begin(a, v)
  /\ Joinable(a, v)
  /\ th' = [th EXCEPT ![v] = Null]
  /\ \/ /\ handle' = [handle EXCEPT ![th[v]] = "detached"]
        /\ UNCHANGED <<excused, faults>>
     \/ /\ Fault
        /\ excused' = excused \cup {th[v]}
        /\ UNCHANGED handle
  /\ UNCHANGED <<os, functor, code, doing, seen, phase>>

MoveDropping(a, u, v) ==
  /\ Begin(a, u)
  /\ Free(v)
  /\ u # v
  /\ th' = [th EXCEPT ![u] = th[v], ![v] = Null]
  /\ UNCHANGED <<os, handle, functor, code, doing, seen, excused, phase, faults>>

(* Move construction, move assignment and swap all swap.                   *)
Swap(a, u, v) ==
  /\ Begin(a, u)
  /\ Free(v)
  /\ u # v
  /\ th' = [th EXCEPT ![u] = th[v], ![v] = th[u]]
  /\ UNCHANGED <<os, handle, functor, code, doing, seen, excused, phase, faults>>

Act(a) ==
  \/ \E v \in Vars : \/ \E w \in Workers : Ctor(a, v, w) \/ InitFails(a, v, w)
                     \/ OutOfMemory(a, v)
                     \/ StartJoin(a, v)
                     \/ DestroyUnjoined(a, v)
                     \/ Detach(a, v)
                     \/ \E u \in Vars : Swap(a, u, v)
  \/ Assign(a)
  \/ Join(a)
  \/ JoinFails(a)

Next ==
  /\ phase = "alive"
  /\ \/ \E a \in Threads : Act(a)
     \/ \E w \in Workers, r \in Returns : Exit(w, r)

Spec == Init /\ [][Next]_vars

(* Functors end, and operations under way go on.                           *)
FairSpec ==
  /\ Spec
  /\ \A a \in Threads : WF_vars(phase = "alive" /\ (Assign(a) \/ Join(a)))
  /\ \A w \in Workers : WF_vars(phase = "alive" /\ \E r \in Returns : Exit(w, r))

-----------------------------------------------------------------------------
(* Properties.                                                             *)

Owners(w) == {v \in Vars : th[v] = w} \cup
             {v \in Vars : \E a \in Threads : doing[a] = [what |-> "assign", var |-> v, on |-> w]}

(* Every open thread handle has one owner, a closed one none: nothing is   *)
(* joined twice, or detached and joined, through any moves and failures.   *)
OneOwner ==
  \A w \in Workers :
    /\ \A u, v \in Owners(w) : u = v
    /\ handle[w] # "open" => Owners(w) = {}

(* A thread handle is only left behind by a failed detach, or by a thread  *)
(* that destroys its own variable.                                         *)
NoHandleLost ==
  \A w \in Workers : handle[w] = "open" /\ Owners(w) = {} => w \in excused

(* A functor is destroyed by the thread that has run it and by nobody      *)
(* else, and storage is freed once: not while a thread runs what is in it, *)
(* and not later than that ends.  Functors that are freed without having   *)
(* been destroyed, so that what they hold leaks, were never run, and there *)
(* is a failed creation for each.                                          *)
FunctorOnce ==
  \A w \in Workers :
    LET f == functor[w]
    IN /\ f.destroyed = IF os[w] = "exited" THEN 1 ELSE 0
       /\ f.built - f.freed = IF os[w] = "running" THEN 1 ELSE 0
       /\ f.freed - f.destroyed <= faults

(* A join that succeeds does so after the exit, with the code of the run.  *)
JoinAfterExit ==
  \A w \in Workers : handle[w] = "joined" => os[w] = "exited" /\ seen[w] = code[w]

(* Through all moves and failures, every open thread handle is owned once, *)
(* or left behind by a failed detach or by its own thread.                 *)
HandlesOwned == OneOwner /\ NoHandleLost

(* What a thread leaves behind, its functor and its code, is dealt with    *)
(* once: not before it has ended, and not twice.  What a thread that could *)
(* not be created leaves behind is a functor that nobody destroys.         *)
EndsOnce == FunctorOnce /\ JoinAfterExit

(* Threads that wait for others in a circle, or for such threads.          *)
Entangled(a) ==
  \E S \in SUBSET Threads :
    a \in S /\ \A b \in S : /\ doing[b].what \in {"join", "destroy"}
                           /\ doing[b].on \in S \ {b}

(* Joins and destructors return, unless threads join each other in a       *)
(* circle, which nothing detects; no thread waits for itself.              *)
JoinsReturn ==
  \A a \in Threads :
    doing[a] # Idle ~> (doing[a] = Idle \/ phase = "terminated" \/ Entangled(a))

=============================================================================
