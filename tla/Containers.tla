----------------------------- MODULE Containers -----------------------------
(***************************************************************************)
(* The inplace containers, results and guards side by side: a behaviour    *)
(* picks one of them and uses only that.  The atomic set is shared by      *)
(* threads, the others have one user, as they are not synchronised.        *)
(***************************************************************************)
EXTENDS QueueIterator

CONSTANTS Threads, MaxCalls, Results, Tmp, Failure

ASSUME ContainersAssumption ==
  /\ MaxCalls \in Nat
  /\ Tmp \notin Results
  /\ Failure \notin Items \cup {Junk}
  /\ \A k \in {"ok", "error"}, i \in Items : [kind |-> k, token |-> i] # Junk

VARIABLES
  active,
  cell, vsize, vret,
  sdata, ssize, sret,
  adata, call, calls, gained, alone,
  res, rsize, last,
  form, born, content, taken, bdid,
  flavour, alive, func, execute, made, ran, gdid

vectorVars == <<cell, vsize, vret>>
setVars == <<sdata, ssize, sret>>
sharedVars == <<adata, call, calls, gained, alone>>
resultVars == <<res, rsize, last>>
bareVars == <<form, born, content, taken, bdid>>
guardVars == <<flavour, alive, func, execute, made, ran, gdid>>
allVars ==
  <<vars, active, vectorVars, setVars, sharedVars, resultVars, bareVars, guardVars>>

Vector == INSTANCE InplaceVector WITH size <- vsize, ret <- vret, Raw <- Junk
Set == INSTANCE InplaceSet WITH data <- sdata, size <- ssize, ret <- sret
Shared == INSTANCE InplaceAtomicSet WITH
  data <- adata, Values <- Items \cup {Junk}, First <- Junk
Result == INSTANCE Result WITH
  Vars <- Results, Tokens <- Items, Raw <- Junk, size <- rsize,
  Sizes <- {"smaller", "equal", "larger"}
Bare == INSTANCE BareResult WITH
  Vars <- Results, Tokens <- Items, Nothing <- Junk, did <- bdid
Guard == INSTANCE Guards WITH
  Guards <- Results, Cleanups <- Items, NoCleanup <- Junk, last <- gdid

(* What is not picked rests in one of its initial states.                  *)
AllInit ==
  /\ active \in {"queue", "vector", "set", "shared", "result", "bare", "guard"}
  /\ Init
  /\ Vector!Init
  /\ Set!Init
  /\ Shared!Init
  /\ Result!Init
  /\ Bare!Init
  /\ Guard!Init
  /\ active # "result" => rsize = "equal"
  /\ active # "bare" => form = "void"
  /\ active # "guard" => flavour = "destructor"

AllNext ==
  /\ UNCHANGED active
  /\ \/ active = "queue" /\ Next
     \/ active # "queue" /\ UNCHANGED vars
  /\ \/ active = "vector" /\ Vector!Next
     \/ active # "vector" /\ UNCHANGED vectorVars
  /\ \/ active = "set" /\ Set!Next
     \/ active # "set" /\ UNCHANGED setVars
  /\ \/ active = "shared" /\ Shared!Next
     \/ active # "shared" /\ UNCHANGED sharedVars
  /\ \/ active = "result" /\ Result!Next
     \/ active # "result" /\ UNCHANGED resultVars
  /\ \/ active = "bare" /\ Bare!Next
     \/ active # "bare" /\ UNCHANGED bareVars
  /\ \/ active = "guard" /\ Guard!Next
     \/ active # "guard" /\ UNCHANGED guardVars

AllSpec == AllInit /\ [][AllNext]_allVars

(* Vector and set: callers see a bounded stack with a find, and a bounded  *)
(* bag.                                                                    *)
StackAndBag == Vector!ActsAsStack /\ Set!ActsAsBag

(* Results: objects live and die with the status, whatever throws.         *)
ResultLifetimes == Result!Lifetimes

(* Results of every kind: moves hand over, swaps exchange.                 *)
ResultMovesExact == Result!MovesExact /\ Bare!MovesExact

(* Guards: a cleanup runs once, wherever guards were moved.                *)
CleanupsRunOnce == Guard!CleanupsRunOnce

(* Atomic set: interleaved exchanges neither duplicate nor lose values.    *)
SharedBalance == Shared!Balance

(* Atomic set: an undisturbed strong exchange finds what is there.         *)
SharedAloneIsExact == Shared!AloneIsExact

(* Vector: what the comment on pop_back says it destroys                   *)
(* (InplaceVector.h:51).                                                   *)
VectorPopDestroysLast == Vector!PopDestroysLast

=============================================================================
