------------------------------- MODULE Guards -------------------------------
(***************************************************************************)
(* What undoes things on the way out of a scope: sys::resource_guard       *)
(* (src/sys/ResourceGuard.h), sys::destructor and sys::optional_destructor *)
(* (src/sys/Destructor.h).  A guard that is armed with a cleanup runs it   *)
(* when it dies; guards are moved around in the meantime, and scopes end   *)
(* in any order as guards are returned and stored.                         *)
(***************************************************************************)
EXTENDS Integers, FiniteSets

CONSTANTS
  Guards,    \* the guard variables of the caller
  Cleanups,  \* cleanups: a function with what it captured, or a resource
  NoCleanup

VARIABLES
  flavour,  \* which of the three classes the guards are
  alive,    \* the guards that exist
  func,     \* func[g]: the cleanup in g; a pointer to the resource
  execute,  \* execute[g]: g is armed; for resource_guard, not null
  made,     \* the cleanups callers have handed to a guard
  ran,      \* ran[c]: how often c ran
  last      \* the last operation: [op, on, from]

vars == <<flavour, alive, func, execute, made, ran, last>>

Flavours == {"resource_guard", "destructor", "optional_destructor"}

TypeOK ==
  /\ flavour \in Flavours
  /\ alive \subseteq Guards
  /\ func \in [Guards -> Cleanups \cup {NoCleanup}]
  /\ execute \in [Guards -> BOOLEAN]
  /\ made \subseteq Cleanups
  /\ ran \in [Cleanups -> Nat]

Init ==
  /\ flavour \in Flavours
  /\ alive = {}
  /\ func = [g \in Guards |-> NoCleanup]
  /\ execute = [g \in Guards |-> FALSE]
  /\ made = {}
  /\ ran = [c \in Cleanups |-> 0]
  /\ last = [op |-> "none"]

Did(op, g, other) == last' = [op |-> op, on |-> g, from |-> other]

Born(g) == g \notin alive /\ alive' = alive \cup {g}

(* A guard of a cleanup that is not guarded yet.                           *)
Construct(g, c) ==
  /\ Born(g)
  /\ c \notin made
  /\ made' = made \cup {c}
  /\ func' = [func EXCEPT ![g] = c]
  /\ execute' = [execute EXCEPT ![g] = TRUE]
  /\ Did("construct", g, g)
  /\ UNCHANGED <<flavour, ran>>

ConstructNull(g) ==
  /\ flavour = "resource_guard"
  /\ Born(g)
  /\ func' = [func EXCEPT ![g] = NoCleanup]
  /\ execute' = [execute EXCEPT ![g] = FALSE]
  /\ Did("construct", g, g)
  /\ UNCHANGED <<flavour, made, ran>>

(* resource_guard: exchange the pointers.                                  *)
Exchange(g, other) ==
  /\ func' = [func EXCEPT ![g] = func[other], ![other] = func[g]]
  /\ execute' = [execute EXCEPT ![g] = execute[other], ![other] = execute[g]]

(* optional_destructor: take the function over, which leaves its captures  *)
(* behind as they are, and disarm the source, in that order.               *)
TakeOverArmed(g, other) ==
  /\ func' = [func EXCEPT ![g] = func[other]]
  /\ execute' = [execute EXCEPT ![g] = execute[other]]

TakeOver(g, other) ==
  /\ func' = [func EXCEPT ![g] = func[other]]
  /\ execute' = [execute EXCEPT ![g] = execute[other], ![other] = FALSE]

(* A guard without pointer is born and exchanges with other, or one is     *)
(* born in other's place.                                                  *)
MoveConstruct(g, other) ==
  /\ Born(g)
  /\ other \in alive
  /\ \/ /\ flavour = "resource_guard"
        /\ func' = [func EXCEPT ![g] = func[other], ![other] = NoCleanup]
        /\ execute' = [execute EXCEPT ![g] = execute[other], ![other] = FALSE]
     \/ flavour = "optional_destructor" /\ TakeOver(g, other)
  /\ Did("move", g, other)
  /\ UNCHANGED <<flavour, made, ran>>

AssignUnguarded(g, other) ==
  /\ {g, other} \subseteq alive
  /\ \/ flavour = "resource_guard" /\ Exchange(g, other)
     \/ flavour = "optional_destructor" /\ TakeOver(g, other)
  /\ Did("assign", g, other)
  /\ UNCHANGED <<flavour, alive, made, ran>>

(* Assignment exchanges resources, so that the source releases what the    *)
(* target held; it overwrites a function, which will then never run.       *)
Assign(g, other) ==
  /\ {g, other} \subseteq alive
  /\ \/ flavour = "resource_guard" /\ Exchange(g, other)
     \/ /\ flavour = "optional_destructor"
        /\ IF g = other THEN UNCHANGED <<func, execute>> ELSE TakeOver(g, other)
  /\ Did("assign", g, other)
  /\ UNCHANGED <<flavour, alive, made, ran>>

Swap(g, other) ==
  /\ flavour = "resource_guard"
  /\ {g, other} \subseteq alive
  /\ Exchange(g, other)
  /\ Did("swap", g, other)
  /\ UNCHANGED <<flavour, alive, made, ran>>

Clear(g) ==
  /\ flavour = "optional_destructor"
  /\ g \in alive
  /\ execute' = [execute EXCEPT ![g] = FALSE]
  /\ Did("clear", g, g)
  /\ UNCHANGED <<flavour, alive, func, made, ran>>

(* The destructors.                                                        *)
Die(g) ==
  /\ g \in alive
  /\ alive' = alive \ {g}
  /\ ran' = IF execute[g] THEN [ran EXCEPT ![func[g]] = @ + 1] ELSE ran
  /\ func' = [func EXCEPT ![g] = NoCleanup]
  /\ execute' = [execute EXCEPT ![g] = FALSE]
  /\ Did("die", g, g)
  /\ UNCHANGED <<flavour, made>>

Next ==
  \/ \E g \in Guards : ConstructNull(g) \/ Clear(g) \/ Die(g)
  \/ \E g \in Guards, c \in Cleanups : Construct(g, c)
  \/ \E g, other \in Guards :
       MoveConstruct(g, other) \/ Assign(g, other) \/ Swap(g, other)

Spec == Init /\ [][Next]_vars

-----------------------------------------------------------------------------
(* Properties.                                                             *)

Armed(c) == {g \in alive : execute[g] /\ func[g] = c}

(* How often c has run, or will have when the guards have died.            *)
Due(c) == ran[c] + Cardinality(Armed(c))

(* However guards are moved, assigned, to themselves too, swapped and      *)
(* ended, a cleanup runs at most once, and it runs by the time all guards  *)
(* are gone, unless its own guard was cleared or, as only an               *)
(* optional_destructor lets it, assigned another's.                        *)
CleanupsRunOnce ==
  /\ [](\A c \in Cleanups : Due(c) <= 1)
  /\ [][\A c \in Cleanups :
          Due(c) = 1 /\ Due(c)' # 1 =>
            /\ flavour = "optional_destructor"
            /\ Armed(c) = {last'.on}
            /\ last'.op = "clear" \/ (last'.op = "assign" /\ last'.from # last'.on)]_vars

=============================================================================
