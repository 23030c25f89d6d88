---------------------------- MODULE QueueIterator ---------------------------
(***************************************************************************)
(* The iterators of sys::inplace_queue (src/sys.Containers/InplaceQueue.h):*)
(* an index into the ring of one queue.  Offsets are signed, indices are   *)
(* of type size_t, so that their sum wraps before it is reduced to a slot. *)
(***************************************************************************)
EXTENDS InplaceQueue

CONSTANT Width  \* the bits of size_t

ASSUME WidthAssumption == Width \in Nat /\ 2 * Capacity < 2 ^ Width

SizeT(n) == n % (2 ^ Width)

Increment(i) == (i + 1) % Capacity

DecrementUnbiased(i) == SizeT(i - 1) % Capacity

Decrement(i) == (i + Capacity - 1) % Capacity

MinusUnbiased(i, b) == SizeT(i - b) % Capacity

(* operator+ and operator+=, operator- and operator-=.                     *)
Plus(i, b) == SizeT(i + b) % Capacity

Minus(i, b) == SizeT(i + Capacity - b) % Capacity

Difference(i, j) == IF i > j THEN i - j ELSE -(j - i)

(* b times ++, or -b times --.                                             *)
Steps(i, b) ==
  LET ahead[n \in 0 .. 2 * Capacity] == IF n = 0 THEN i ELSE Increment(ahead[n - 1])
      back[n \in 0 .. 2 * Capacity] == IF n = 0 THEN i ELSE Decrement(back[n - 1])
  IN IF b >= 0 THEN ahead[b] ELSE back[-b]

(* From begin(), ++ visits the items in the order they will be dequeued    *)
(* and comes to end() after the last, across the end of the array; in a    *)
(* full queue that is where it began.  -- goes the same way back.  An      *)
(* offset leads where as many steps do, unless it takes the index below    *)
(* slot 0 (+) or more than once around below it (-), or above what size_t  *)
(* can hold; and a difference of iterators is their distance unless the    *)
(* items between them wrap.                                                *)
IteratorsExact ==
  /\ Steps(begin, size) = end
  /\ \A k \in 0 .. size - 1 :
       /\ Steps(begin, k) = Offset(k)
       /\ Steps(end, k - size) = Offset(k)
       /\ Difference(Offset(k), begin) = k - (IF begin + k < Capacity THEN 0 ELSE Capacity)
  /\ \A i \in Slots, b \in -2 * Capacity .. 2 * Capacity :
       /\ i + b \in 0 .. 2 ^ Width - 1 => Plus(i, b) = Steps(i, b)
       /\ i + Capacity - b \in 0 .. 2 ^ Width - 1 => Minus(i, b) = Steps(i, -b)

=============================================================================
