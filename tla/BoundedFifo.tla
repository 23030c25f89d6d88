---------------------------- MODULE BoundedFifo -----------------------------
(***************************************************************************)
(* What sys::inplace_queue promises: a first-in, first-out queue of at     *)
(* most Capacity items, which refuses an item when it is full and has none *)
(* to give when it is empty.                                               *)
(***************************************************************************)
EXTENDS Integers, Sequences

CONSTANTS Items, Capacity

VARIABLES
  contents,  \* the items, oldest first
  answer     \* what the last call returned, and the item it gave

Init == contents = <<>> /\ answer = <<"none">>

Put(v) ==
  \/ /\ Len(contents) < Capacity
     /\ contents' = Append(contents, v)
     /\ answer' = <<"put", TRUE>>
  \/ /\ Len(contents) = Capacity
     /\ contents' = contents
     /\ answer' = <<"put", FALSE>>

Take ==
  \/ /\ contents # <<>>
     /\ contents' = Tail(contents)
     /\ answer' = <<"take", TRUE, Head(contents)>>
  \/ /\ contents = <<>>
     /\ contents' = contents
     /\ answer' = <<"take", FALSE>>

Next == Take \/ \E v \in Items : Put(v)

Spec == Init /\ [][Next]_<<contents, answer>>

=============================================================================
