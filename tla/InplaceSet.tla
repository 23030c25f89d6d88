----------------------------- MODULE InplaceSet -----------------------------
(***************************************************************************)
(* sys::inplace_set (src/sys.Containers/InplaceSet.h): an array of which   *)
(* the first size slots count.  Inserting never looks for an equal value,  *)
(* so it is a bag rather than a set; erasing moves the last value into the *)
(* hole.                                                                   *)
(***************************************************************************)
EXTENDS Integers, FiniteSets

CONSTANTS Items, Capacity, Junk

VARIABLES data, size, ret

vars == <<data, size, ret>>

Slots == 0 .. Capacity - 1

TypeOK ==
  /\ data \in [Slots -> Items \cup {Junk}]
  /\ size \in 0 .. Capacity

Init ==
  /\ data = [i \in Slots |-> Junk]
  /\ size = 0
  /\ ret = <<"none", Junk, FALSE>>

TryInsert(v) ==
  \/ /\ size = Capacity
     /\ ret' = <<"insert", v, FALSE>>
     /\ UNCHANGED <<data, size>>
  \/ /\ size # Capacity
     /\ data' = [data EXCEPT ![size] = v]
     /\ size' = size + 1
     /\ ret' = <<"insert", v, TRUE>>

(* v is first found in slot i.                                             *)
FoundAt(v, i) == data[i] = v /\ \A j \in 0 .. i - 1 : data[j] # v

Missing(v) == \A i \in 0 .. size - 1 : data[i] # v

(* The hole is filled from the slot size used to name, one too far.        *)
TryEraseOffByOne(v) ==
  \/ \E i \in 0 .. size - 1 :
       /\ FoundAt(v, i)
       /\ data' = [data EXCEPT ![i] = IF size = Capacity THEN Junk ELSE data[size]]
       /\ size' = size - 1
       /\ ret' = <<"erase", v, TRUE>>
  \/ Missing(v) /\ ret' = <<"erase", v, FALSE>> /\ UNCHANGED <<data, size>>

(* The last value is moved into the hole; its own slot keeps Junk.         *)
TryErase(v) ==
  \/ \E i \in 0 .. size - 1 :
       /\ FoundAt(v, i)
       /\ data' = [data EXCEPT ![i] = data[size - 1], ![size - 1] = Junk]
       /\ size' = size - 1
       /\ ret' = <<"erase", v, TRUE>>
  \/ Missing(v) /\ ret' = <<"erase", v, FALSE>> /\ UNCHANGED <<data, size>>

Contains(v) ==
  /\ ret' = <<"contains", v, ~Missing(v)>>
  /\ UNCHANGED <<data, size>>

Next == \E v \in Items : TryInsert(v) \/ TryErase(v) \/ Contains(v)

Spec == Init /\ [][Next]_vars

-----------------------------------------------------------------------------
(* Properties.                                                             *)

Count(v) == Cardinality({i \in 0 .. size - 1 : data[i] = v})

(* No slot that counts is ever left with a value nobody inserted.          *)
NoJunk == \A i \in 0 .. size - 1 : data[i] \in Items

(* Callers see a bag: an insertion adds one v unless the capacity is       *)
(* reached, an erasure takes one v if there is any and nothing else,       *)
(* contains looks, and every other value keeps its count.                  *)
BagStep(v) ==
  LET yes == ret'[3] IN
    /\ \A w \in Items \ {v} : Count(w)' = Count(w)
    /\ CASE ret'[1] = "insert" -> /\ Count(v)' = Count(v) + (IF yes THEN 1 ELSE 0)
                                  /\ yes <=> size < Capacity
         [] ret'[1] = "erase" -> /\ Count(v)' = Count(v) - (IF yes THEN 1 ELSE 0)
                                 /\ yes <=> Count(v) > 0
         [] ret'[1] = "contains" -> Count(v)' = Count(v) /\ (yes <=> Count(v) > 0)

ActsAsBag == [][\A v \in Items : ret'[2] = v => BagStep(v)]_vars

=============================================================================
