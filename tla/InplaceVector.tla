--------------------------- MODULE InplaceVector ----------------------------
(***************************************************************************)
(* sys::inplace_vector (src/sys.Containers/InplaceVector.h): raw storage   *)
(* for Capacity objects, constructed and destroyed in place.  A cell is    *)
(* Raw, or holds a live object; the cell after the array is modelled too,  *)
(* for pop_back reaches it.                                                *)
(***************************************************************************)
EXTENDS Integers, Sequences

CONSTANTS Items, Capacity, Raw

VARIABLES
  cell,  \* cell[i]: the object alive in data[i], or Raw
  size,
  ret    \* what the last call returned: <<push_back, BOOLEAN>>, ...

vars == <<cell, size, ret>>

Cells == 0 .. Capacity

TypeOK ==
  /\ cell \in [Cells -> Items \cup {Raw}]
  /\ size \in Cells

Init ==
  /\ cell = [i \in Cells |-> Raw]
  /\ size = 0
  /\ ret = <<"none">>

PushBack(v) ==
  \/ /\ size >= Capacity
     /\ ret' = <<"push", FALSE>>
     /\ UNCHANGED <<cell, size>>
  \/ /\ size < Capacity
     /\ cell' = [cell EXCEPT ![size] = v]
     /\ size' = size + 1
     /\ ret' = <<"push", TRUE>>

(* The index is decremented after it is used: the object destroyed is not  *)
(* the last one but whatever is in the cell after it.                      *)
PopBack ==
  /\ ret' = <<"pop">>
  /\ \/ size = 0 /\ UNCHANGED <<cell, size>>
     \/ /\ size > 0
        /\ cell' = [cell EXCEPT ![size] = Raw]
        /\ size' = size - 1

Clear ==
  /\ cell' = [i \in Cells |-> IF i < size THEN Raw ELSE cell[i]]
  /\ size' = 0
  /\ ret' = <<"clear">>

(* The first cell that equals v, if any.                                   *)
FindAnywhere(v) ==
  /\ \/ \E i \in 0 .. Capacity - 1 :
          /\ cell[i] = v
          /\ \A j \in 0 .. i - 1 : cell[j] # v
          /\ ret' = <<"find", v, i>>
     \/ /\ \A i \in 0 .. Capacity - 1 : cell[i] # v
        /\ ret' = <<"find", v>>
  /\ UNCHANGED <<cell, size>>

Find(v) ==
  /\ \/ \E i \in 0 .. size - 1 :
          /\ cell[i] = v
          /\ \A j \in 0 .. i - 1 : cell[j] # v
          /\ ret' = <<"find", v, i>>
     \/ /\ \A i \in 0 .. size - 1 : cell[i] # v
        /\ ret' = <<"find", v>>
  /\ UNCHANGED <<cell, size>>

Next ==
  \/ \E v \in Items : PushBack(v) \/ Find(v)
  \/ PopBack
  \/ Clear

Spec == Init /\ [][Next]_vars

-----------------------------------------------------------------------------
(* Properties.                                                             *)

(* Whatever pop_back destroys, the size first cells hold live objects, and *)
(* every access through the vector reads one.                              *)
ElementsAlive == \A i \in 0 .. size - 1 : cell[i] \in Items

Contents == [i \in 1 .. size |-> cell[i - 1]]

(* Callers see a stack: pushes append or are refused at the capacity, pops *)
(* remove the last, and find gives the first match among the elements and  *)
(* never a leftover.                                                       *)
StackStep ==
  LET c == Contents  d == Contents' IN
    CASE ret'[1] = "push" -> IF ret'[2] THEN \E v \in Items : d = Append(c, v)
                             ELSE d = c /\ Len(c) = Capacity
      [] ret'[1] = "pop" -> IF c = <<>> THEN d = c ELSE d = SubSeq(c, 1, Len(c) - 1)
      [] ret'[1] = "clear" -> d = <<>>
      [] ret'[1] = "none" -> d = c
      [] ret'[1] = "find" ->
           /\ d = c
           /\ LET at == {i \in 1 .. Len(c) : c[i] = ret'[2]} IN
                IF Len(ret') = 2 THEN at = {}
                ELSE ret'[3] + 1 \in at /\ \A i \in at : ret'[3] < i

ActsAsStack == [][StackStep]_vars

(* What the comment on pop_back says (InplaceVector.h:51): the last        *)
(* element is popped, and so its object destroyed.                         *)
PopDestroysLast ==
  [][PopBack /\ size > 0 => cell'[size - 1] = Raw]_vars

=============================================================================
