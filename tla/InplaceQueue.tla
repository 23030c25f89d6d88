---------------------------- MODULE InplaceQueue ----------------------------
(***************************************************************************)
(* sys::inplace_queue (src/sys.Containers/InplaceQueue.h): a ring of       *)
(* Capacity slots, where begin = end is either empty or full and a flag    *)
(* says which.  Slots that hold nothing hold Junk: what a slot is left     *)
(* with when it was never assigned, or was moved from.                     *)
(***************************************************************************)
EXTENDS Integers, Sequences

CONSTANTS Items, Capacity, Junk

ASSUME QueueAssumption == Capacity \in Nat \ {0} /\ Junk \notin Items

VARIABLES
  data, begin, end, full,
  answer  \* what the last call returned, and the item it gave

vars == <<data, begin, end, full, answer>>

Slots == 0 .. Capacity - 1

TypeOK ==
  /\ data \in [Slots -> Items \cup {Junk}]
  /\ begin \in Slots
  /\ end \in Slots
  /\ full \in BOOLEAN

Init ==
  /\ data = [i \in Slots |-> Junk]
  /\ begin = 0
  /\ end = 0
  /\ full = FALSE
  /\ answer = <<"none">>

size == IF full THEN Capacity
        ELSE IF end >= begin THEN end - begin
        ELSE Capacity - begin + end

(* The slot k places after begin(): begin() + k, and ++ k times over.      *)
Offset(k) == (begin + k) % Capacity

Enqueue(v) ==
  \/ /\ full
     /\ answer' = <<"put", FALSE>>
     /\ UNCHANGED <<data, begin, end, full>>
  \/ /\ ~full
     /\ data' = [data EXCEPT ![end] = v]
     /\ end' = (end + 1) % Capacity
     /\ full' = (full \/ end' = begin)
     /\ answer' = <<"put", TRUE>>
     /\ UNCHANGED begin

DequeueKeepsFull ==
  \/ /\ ~full /\ begin = end
     /\ answer' = <<"take", FALSE>>
     /\ UNCHANGED <<data, begin, end, full>>
  \/ /\ full \/ begin # end
     /\ begin' = (begin + 1) % Capacity
     /\ answer' = <<"take", TRUE, data[begin]>>
     /\ data' = [data EXCEPT ![begin] = Junk]
     /\ UNCHANGED <<end, full>>

Dequeue ==
  \/ /\ ~full /\ begin = end
     /\ answer' = <<"take", FALSE>>
     /\ UNCHANGED <<data, begin, end, full>>
  \/ /\ full \/ begin # end
     /\ begin' = (begin + 1) % Capacity
     /\ full' = FALSE
     /\ answer' = <<"take", TRUE, data[begin]>>
     /\ data' = [data EXCEPT ![begin] = Junk]
     /\ UNCHANGED end

Next == Dequeue \/ \E v \in Items : Enqueue(v)

Spec == Init /\ [][Next]_vars

-----------------------------------------------------------------------------
(* Properties.                                                             *)

(* The full flag is right, and items occupy exactly the size slots from    *)
(* begin on, across the end of the array: junk is never given to a caller. *)
SlotsOccupied ==
  /\ full => begin = end
  /\ \A k \in Slots : data[Offset(k)] \in Items <=> k < size

(* The ring implements a bounded FIFO queue whose contents are the slots   *)
(* from begin() on.                                                        *)
Fifo == INSTANCE BoundedFifo WITH
  contents <- [k \in 1 .. size |-> data[Offset(k - 1)]]

ImplementsFifo == Fifo!Spec

=============================================================================
