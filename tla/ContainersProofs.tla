-------------------------- MODULE ContainersProofs --------------------------
(***************************************************************************)
(* What the run checks of the containers, results and guards, for any      *)
(* capacity, items, threads, calls, results, objects, guards and width:    *)
(*   - the queue, which is a bounded first-in, first-out one;              *)
(*   - the vector and the set, their sizes, the life of their elements and *)
(*     what their callers see;                                             *)
(*   - the atomic set, its balance and an exchange that is alone;          *)
(*   - guards, whose cleanups run once;                                    *)
(*   - results, the lifetimes of their objects and what moves hand over;   *)
(*   - the iterators of the queue, with the indices that wrap;             *)
(*   - all of these side by side.                                          *)
(***************************************************************************)
EXTENDS Containers, SequenceTheorems, FiniteSetTheorems, WellFoundedInduction, TLAPS

-----------------------------------------------------------------------------
(* The queue, for every capacity and every set of items.  The only         *)
(* arithmetic is that an index one turn past the ring wraps once.          *)

Wrap(n) == IF n < Capacity THEN n ELSE n - Capacity

(* % Capacity of anything less than two turns round the ring.              *)
LEMMA ModWraps ==
  ASSUME NEW n \in Nat, n < 2 * Capacity
  PROVE  n % Capacity = Wrap(n)
<1>1. CASE n < Capacity
  BY <1>1, QueueAssumption DEF Wrap
<1>2. CASE n >= Capacity
  <2> DEFINE q == n \div Capacity
             r == n % Capacity
  <2>1. q \in Int /\ r \in 0 .. Capacity - 1 /\ n = (Capacity * q) + r
    BY QueueAssumption
  <2> HIDE DEF q, r
  <2>2. q >= 1
    <3> SUFFICES ASSUME q <= 0 PROVE FALSE  BY <2>1
    <3>1. Capacity * q <= 0  BY <2>1, QueueAssumption
    <3> QED  BY <1>2, <2>1, <3>1, QueueAssumption
  <2>3. q <= 1
    <3> SUFFICES ASSUME q >= 2 PROVE FALSE  BY <2>1
    <3>1. Capacity * q >= 2 * Capacity  BY <2>1, QueueAssumption
    <3> QED  BY <2>1, <3>1, QueueAssumption
  <2>4. q = 1  BY <2>1, <2>2, <2>3
  <2> QED  BY <1>2, <2>1, <2>4, QueueAssumption DEF r, Wrap
<1> QED  BY <1>1, <1>2, QueueAssumption

LEMMA OffsetWraps ==
  ASSUME TypeOK, NEW k \in 0 .. Capacity
  PROVE  Offset(k) = Wrap(begin + k)
BY ModWraps, QueueAssumption DEF TypeOK, Slots, Offset

LEMMA NextWraps ==
  ASSUME NEW i \in Slots
  PROVE  (i + 1) % Capacity = Wrap(i + 1) /\ Wrap(i + 1) \in Slots
BY ModWraps, QueueAssumption DEF Slots, Wrap

(* The inductive invariant: the properties of the run.                     *)
IInv == TypeOK /\ SlotsOccupied

(* size counts the slots from begin to end.                                *)
LEMMA SizeFits ==
  ASSUME IInv
  PROVE  /\ size \in 0 .. Capacity
         /\ full <=> size = Capacity
         /\ size = 0 <=> ~full /\ begin = end
         /\ ~full => Wrap(begin + size) = end
BY QueueAssumption DEF IInv, TypeOK, SlotsOccupied, Slots, size, Wrap

(* The occupied slots are distinct.                                        *)
LEMMA OffsetsDiffer ==
  ASSUME TypeOK, NEW j \in Slots, NEW k \in Slots
  PROVE  /\ Offset(j) \in Slots
         /\ j # k => Offset(j) # Offset(k)
<1>1. Offset(j) = Wrap(begin + j) /\ Offset(k) = Wrap(begin + k)
  BY OffsetWraps, QueueAssumption DEF Slots
<1> QED  BY <1>1, QueueAssumption DEF TypeOK, Slots, Wrap

LEMMA InitEstablishes == Init => IInv
<1> SUFFICES ASSUME Init PROVE IInv  OBVIOUS
<1>1. TypeOK
  <2>1. 0 \in Slots  BY QueueAssumption DEF Slots
  <2> QED  BY <2>1 DEF Init, TypeOK
<1>2. size = 0  BY QueueAssumption DEF Init, size
<1>3. \A k \in Slots : Offset(k) \in Slots  BY <1>1, OffsetsDiffer
<1> QED  BY <1>1, <1>2, <1>3, QueueAssumption DEF Init, IInv, SlotsOccupied, Slots

(* What a successful enqueue does to sizes and slots.                      *)
LEMMA EnqueueGrows ==
  ASSUME IInv, NEW v \in Items, ~full, Enqueue(v)
  PROVE  /\ TypeOK'
         /\ size' = size + 1
         /\ \A k \in Slots : Offset(k)' = Offset(k)
         /\ Offset(size) = end
         /\ data' = [data EXCEPT ![Offset(size)] = v]
         /\ full' => begin' = end'
<1>1. TypeOK /\ size \in 0 .. Capacity - 1 /\ Wrap(begin + size) = end
  BY SizeFits, QueueAssumption DEF IInv
<1>2. end' = Wrap(end + 1) /\ end' \in Slots
  BY <1>1, NextWraps DEF Enqueue, TypeOK
<1>3. TypeOK'
  BY <1>1, <1>2 DEF TypeOK, Enqueue
<1>4. full' <=> end' = begin
  BY DEF Enqueue
<1>5. begin' = begin  BY DEF Enqueue
<1>6. size' = size + 1
  BY <1>1, <1>2, <1>4, <1>5, QueueAssumption DEF size, Wrap, TypeOK, Slots
<1>7. Offset(size) = end
  BY <1>1, OffsetWraps, QueueAssumption
<1> QED  BY <1>3, <1>4, <1>5, <1>6, <1>7 DEF Enqueue, Offset

(* What a successful dequeue does.                                         *)
LEMMA DequeueShrinks ==
  ASSUME IInv, full \/ begin # end, Dequeue
  PROVE  /\ TypeOK'
         /\ size \in 1 .. Capacity
         /\ size' = size - 1
         /\ Offset(0) = begin
         /\ \A k \in 0 .. Capacity - 2 : Offset(k)' = Offset(k + 1)
         /\ Offset(Capacity - 1)' = Offset(0)
         /\ data' = [data EXCEPT ![Offset(0)] = Junk]
         /\ ~full'
<1>1. TypeOK /\ size \in 1 .. Capacity
  BY SizeFits, QueueAssumption DEF IInv
<1>2. begin' = Wrap(begin + 1) /\ begin' \in Slots
  BY <1>1, NextWraps DEF Dequeue, TypeOK
<1>3. TypeOK'
  BY <1>1, <1>2 DEF TypeOK, Dequeue
<1>4. ~full' /\ end' = end  BY DEF Dequeue
<1>5. size' = size - 1
  BY <1>1, <1>2, <1>4, QueueAssumption DEF IInv, SlotsOccupied, size, Wrap, TypeOK, Slots
<1>6. Offset(0) = begin
  BY <1>1, OffsetWraps, QueueAssumption DEF Wrap, TypeOK, Slots
<1>7. \A k \in 0 .. Capacity - 1 : Offset(k)' = Wrap(begin' + k)
  BY <1>2, ModWraps, QueueAssumption DEF Offset, Slots
<1>8. \A k \in 0 .. Capacity - 2 : Offset(k + 1) = Wrap(begin + k + 1)
  BY <1>1, OffsetWraps, QueueAssumption DEF TypeOK, Slots
<1>9. \A k \in 0 .. Capacity - 2 : Offset(k)' = Offset(k + 1)
  BY <1>1, <1>2, <1>7, <1>8, QueueAssumption DEF Wrap, TypeOK, Slots
<1>10. Offset(Capacity - 1)' = Offset(0)
  BY <1>1, <1>2, <1>6, <1>7, QueueAssumption DEF Wrap, TypeOK, Slots
<1> QED  BY <1>1, <1>3, <1>4, <1>5, <1>6, <1>9, <1>10 DEF Dequeue

LEMMA StepPreserves == IInv /\ [Next]_vars => IInv'
<1> SUFFICES ASSUME IInv, [Next]_vars PROVE IInv'  OBVIOUS
<1>0. TypeOK /\ SlotsOccupied  BY DEF IInv
<1>1. ASSUME UNCHANGED <<data, begin, end, full>> PROVE IInv'
  BY <1>0, <1>1 DEF IInv, TypeOK, SlotsOccupied, size, Offset
<1>2. ASSUME NEW v \in Items, ~full, Enqueue(v) PROVE IInv'
  <2>1. TypeOK' /\ (full' => begin' = end')  BY <1>2, EnqueueGrows
  <2>2. ASSUME NEW k \in Slots PROVE data'[Offset(k)'] \in Items <=> k < size'
    <3>1. Offset(k)' = Offset(k) /\ size' = size + 1 /\ size \in Slots
      BY <1>2, EnqueueGrows, SizeFits, QueueAssumption DEF Slots
    <3>2. Offset(k) \in Slots /\ (k # size => Offset(k) # Offset(size))
      BY <1>0, <3>1, OffsetsDiffer
    <3>3. data'[Offset(k)] = IF k = size THEN v ELSE data[Offset(k)]
      BY <1>0, <1>2, <3>1, <3>2, EnqueueGrows DEF TypeOK
    <3> QED  BY <1>0, <3>1, <3>3 DEF SlotsOccupied, Slots
  <2> QED  BY <2>1, <2>2 DEF IInv, SlotsOccupied, Slots
<1>3. ASSUME full \/ begin # end, Dequeue PROVE IInv'
  <2>1. TypeOK' /\ ~full'  BY <1>3, DequeueShrinks
  <2>2. ASSUME NEW k \in Slots PROVE data'[Offset(k)'] \in Items <=> k < size'
    <3> DEFINE from == IF k = Capacity - 1 THEN 0 ELSE k + 1
    <3>1. Offset(k)' = Offset(from) /\ from \in Slots /\ 0 \in Slots
      BY <1>3, DequeueShrinks, QueueAssumption DEF Slots
    <3>2. Offset(from) \in Slots /\ Offset(0) \in Slots /\ (from # 0 => Offset(from) # Offset(0))
      BY <1>0, <3>1, OffsetsDiffer
    <3>3. data'[Offset(from)] = IF from = 0 THEN Junk ELSE data[Offset(from)]
      BY <1>0, <1>3, <3>2, DequeueShrinks DEF TypeOK
    <3>4. size' = size - 1 /\ size \in 1 .. Capacity
      BY <1>3, DequeueShrinks
    <3> QED  BY <1>0, <3>1, <3>3, <3>4, QueueAssumption DEF SlotsOccupied, Slots
  <2> QED  BY <2>1, <2>2 DEF IInv, SlotsOccupied, Slots
<1> QED  BY <1>1, <1>2, <1>3 DEF Next, vars, Enqueue, Dequeue

(* Every index stays on the ring and every slot holds an item or junk.     *)
THEOREM TypeCorrect == Spec => []TypeOK
BY InitEstablishes, StepPreserves, PTL DEF Spec, IInv

(* Items occupy exactly the size slots from begin on; junk is never given  *)
(* to a caller (InplaceQueue.h:125-152).                                   *)
THEOREM Occupation == Spec => []SlotsOccupied
BY InitEstablishes, StepPreserves, PTL DEF Spec, IInv

LEMMA SeqIsFunction ==
  ASSUME NEW S, NEW s \in Seq(S), NEW n, Len(s) = n
  PROVE  s = [k \in 1 .. n |-> s[k]]
<1>1. s \in [1 .. Len(s) -> S]  BY LenProperties
<1> QED  BY <1>1

(* The sequence of the mapping.                                            *)
Ring == [k \in 1 .. size |-> data[Offset(k - 1)]]

LEMMA RingIsSeq ==
  ASSUME IInv
  PROVE  Ring \in Seq(Items) /\ Len(Ring) = size
<1>1. size \in 0 .. Capacity  BY SizeFits
<1>2. \A k \in 1 .. size : data[Offset(k - 1)] \in Items
  BY <1>1, QueueAssumption DEF IInv, SlotsOccupied, Slots
<1> QED  BY <1>1, <1>2 DEF Ring

LEMMA EnqueueAppends ==
  ASSUME IInv, NEW v \in Items, ~full, Enqueue(v)
  PROVE  Len(Ring) < Capacity /\ Ring' = Append(Ring, v)
<1>1. size' = size + 1 /\ size \in Slots
  BY EnqueueGrows, SizeFits, QueueAssumption DEF Slots
<1>2. Ring \in Seq(Items) /\ Len(Ring) = size
  BY RingIsSeq
<1>3. ASSUME NEW k \in 1 .. size + 1
      PROVE  data'[Offset(k - 1)'] = Append(Ring, v)[k]
  <2>1. k - 1 \in Slots  BY <1>1, QueueAssumption DEF Slots
  <2>2. Offset(k - 1)' = Offset(k - 1)  BY <2>1, EnqueueGrows
  <2>3. /\ Offset(k - 1) \in Slots
        /\ k - 1 # size => Offset(k - 1) # Offset(size)
    BY <1>1, <2>1, OffsetsDiffer DEF IInv
  <2>4. data'[Offset(k - 1)] = IF k - 1 = size THEN v ELSE data[Offset(k - 1)]
    BY <2>3, EnqueueGrows DEF IInv, TypeOK
  <2>5. Append(Ring, v)[k] = IF k = size + 1 THEN v ELSE Ring[k]
    BY <1>1, <1>2 DEF Slots
  <2>6. k <= size => Ring[k] = data[Offset(k - 1)]
    BY <1>1 DEF Ring, Slots
  <2> QED  BY <1>1, <2>2, <2>4, <2>5, <2>6 DEF Slots
<1>4. Ring' = [k \in 1 .. size + 1 |-> data'[Offset(k - 1)']]
  BY <1>1 DEF Ring
<1>5. /\ Append(Ring, v) \in Seq(Items) /\ Len(Append(Ring, v)) = size + 1
  BY <1>2
<1>6. Append(Ring, v) = [k \in 1 .. size + 1 |-> Append(Ring, v)[k]]
  BY <1>5, SeqIsFunction
<1>7. Len(Ring) < Capacity  BY <1>1, <1>2, QueueAssumption DEF Slots
<1> QED  BY <1>3, <1>4, <1>6, <1>7

LEMMA DequeueTakes ==
  ASSUME IInv, full \/ begin # end, Dequeue
  PROVE  /\ Ring # <<>>
         /\ Ring' = Tail(Ring)
         /\ Head(Ring) = data[begin]
<1>1. size' = size - 1 /\ size \in 1 .. Capacity /\ Offset(0) = begin
  BY DequeueShrinks
<1>2. Ring \in Seq(Items) /\ Len(Ring) = size
  BY RingIsSeq
<1>3. ASSUME NEW k \in 1 .. size - 1
      PROVE  data'[Offset(k - 1)'] = Tail(Ring)[k]
  <2>1. k \in Slots /\ 0 \in Slots /\ k # 0 /\ k - 1 \in 0 .. Capacity - 2
    BY <1>1, QueueAssumption DEF Slots
  <2>2. Offset(k - 1)' = Offset(k)  BY <2>1, DequeueShrinks
  <2>3. Offset(k) \in Slots /\ Offset(k) # Offset(0)
    BY <2>1, OffsetsDiffer DEF IInv
  <2>4. data'[Offset(k)] = data[Offset(k)]
    BY <2>3, DequeueShrinks DEF IInv, TypeOK
  <2>5. Tail(Ring)[k] = Ring[k + 1]
    BY <1>1, <1>2
  <2>6. Ring[k + 1] = data[Offset(k)]
    BY <1>1 DEF Ring
  <2> QED  BY <2>2, <2>4, <2>5, <2>6
<1>4. Ring' = [k \in 1 .. size - 1 |-> data'[Offset(k - 1)']]
  BY <1>1 DEF Ring
<1>5. Ring # <<>>  BY <1>1, <1>2
<1>6. Tail(Ring) \in Seq(Items) /\ Len(Tail(Ring)) = size - 1
  BY <1>1, <1>2, <1>5
<1>7. Tail(Ring) = [k \in 1 .. size - 1 |-> Tail(Ring)[k]]
  BY <1>6, SeqIsFunction
<1>8. Head(Ring) = data[begin]
  BY <1>1, <1>2 DEF Ring
<1> QED  BY <1>3, <1>4, <1>5, <1>7, <1>8

LEMMA InitRefines == Init => Fifo!Init
<1> SUFFICES ASSUME Init PROVE Fifo!Init  OBVIOUS
<1>1. IInv /\ size = 0  BY InitEstablishes DEF Init, size
<1>2. Ring = <<>>  BY <1>1, RingIsSeq
<1> QED  BY <1>2 DEF Fifo!Init, Init, Ring

LEMMA StepRefines ==
  IInv /\ [Next]_vars => [Fifo!Next]_<<Ring, answer>>
<1> SUFFICES ASSUME IInv, [Next]_vars PROVE [Fifo!Next]_<<Ring, answer>>  OBVIOUS
<1>0. Len(Ring) = size /\ Ring \in Seq(Items)  BY RingIsSeq
<1>1. ASSUME UNCHANGED <<data, begin, end, full>> PROVE Ring' = Ring
  BY <1>1 DEF Ring, size, Offset
<1>2. ASSUME NEW v \in Items, Enqueue(v) PROVE Fifo!Put(v)
  <2>1. CASE ~full
    BY <1>2, <2>1, EnqueueAppends DEF Enqueue, Fifo!Put, Ring
  <2>2. CASE full
    <3>1. Len(Ring) = Capacity  BY <1>0, <2>2, SizeFits
    <3> QED  BY <1>1, <1>2, <2>2, <3>1 DEF Enqueue, Fifo!Put, Ring
  <2> QED  BY <2>1, <2>2 DEF IInv, TypeOK
<1>3. ASSUME Dequeue PROVE Fifo!Take
  <2>1. CASE full \/ begin # end
    BY <1>3, <2>1, DequeueTakes DEF Dequeue, Fifo!Take, Ring
  <2>2. CASE ~full /\ begin = end
    <3>1. Ring = <<>>  BY <1>0, <2>2, SizeFits
    <3> QED  BY <1>1, <1>3, <2>2, <3>1 DEF Dequeue, Fifo!Take, Ring
  <2> QED  BY <2>1, <2>2
<1> QED  BY <1>1, <1>2, <1>3 DEF Next, vars, Fifo!Next

(* The ring is a first-in, first-out queue for its callers, through every  *)
(* wrap of its indices and at both limits (InplaceQueue.h:110-152).        *)
THEOREM Refinement == Spec => ImplementsFifo
<1>1. Spec => []IInv
  BY InitEstablishes, StepPreserves, PTL DEF Spec
<1> QED
  BY <1>1, InitRefines, StepRefines, PTL DEF Spec, ImplementsFifo, Fifo!Spec, Ring


-----------------------------------------------------------------------------
VectorInv == Vector!TypeOK /\ Vector!ElementsAlive

LEMMA VectorInit == Vector!Init => VectorInv
  BY QueueAssumption
     DEF Vector!Init, VectorInv, Vector!TypeOK, Vector!ElementsAlive, Vector!Cells

LEMMA VectorStep == VectorInv /\ [Vector!Next]_Vector!vars => VectorInv'
  <1> SUFFICES ASSUME VectorInv, [Vector!Next]_Vector!vars PROVE VectorInv'
    OBVIOUS
  <1> USE QueueAssumption
      DEF VectorInv, Vector!TypeOK, Vector!ElementsAlive, Vector!Cells
  <1>1. ASSUME NEW v \in Items, Vector!PushBack(v) PROVE VectorInv'
    <2>1. CASE UNCHANGED <<cell, vsize>>
      BY <2>1
    <2>2. CASE /\ vsize < Capacity
               /\ cell' = [cell EXCEPT ![vsize] = v]
               /\ vsize' = vsize + 1
      <3>1. vsize' \in 0 .. Capacity /\ cell' \in [0 .. Capacity -> Items \cup {Junk}]
        BY <2>2
      <3>2. \A i \in 0 .. vsize' - 1 : cell'[i] = IF i = vsize THEN v ELSE cell[i]
        BY <2>2
      <3> QED
        BY <2>2, <3>1, <3>2
    <2> QED
      BY <1>1, <2>1, <2>2 DEF Vector!PushBack
  <1>2. ASSUME NEW v \in Items, Vector!Find(v) PROVE VectorInv'
    BY <1>2 DEF Vector!Find
  <1>3. CASE Vector!PopBack
    BY <1>3 DEF Vector!PopBack
  <1>4. CASE Vector!Clear
    BY <1>4 DEF Vector!Clear
  <1>5. CASE UNCHANGED Vector!vars
    BY <1>5 DEF Vector!vars
  <1> QED
    BY <1>1, <1>2, <1>3, <1>4, <1>5 DEF Vector!Next

(* Although pop_back destroys the wrong object, the elements of a vector   *)
(* are always alive (InplaceVector.h:44-63).                               *)
THEOREM VectorAlive == Vector!Spec => [](Vector!TypeOK /\ Vector!ElementsAlive)
  BY VectorInit, VectorStep, PTL DEF Vector!Spec, VectorInv

(* The contents are the cells below the size, as a sequence.               *)
LEMMA ContentsIs ==
  ASSUME VectorInv
  PROVE  /\ Vector!Contents \in Seq(Items) /\ Len(Vector!Contents) = vsize
         /\ \A i \in 1 .. vsize : Vector!Contents[i] = cell[i - 1]
  BY DEF VectorInv, Vector!TypeOK, Vector!Cells, Vector!ElementsAlive, Vector!Contents

LEMMA PushedOrPopped ==
  ASSUME VectorInv, Vector!Next
  PROVE  Vector!StackStep
  <1> USE QueueAssumption
  <1> DEFINE c == Vector!Contents
             d == Vector!Contents'
  <1>1. /\ c \in Seq(Items) /\ Len(c) = vsize
        /\ \A i \in 1 .. vsize : c[i] = cell[i - 1]
    BY ContentsIs
  <1>2. VectorInv'
    BY VectorStep
  <1>3. /\ d \in Seq(Items) /\ Len(d) = vsize'
        /\ \A i \in 1 .. vsize' : d[i] = cell'[i - 1]
    <2>1. VectorInv => /\ Vector!Contents \in Seq(Items) /\ Len(Vector!Contents) = vsize
                       /\ \A i \in 1 .. vsize : Vector!Contents[i] = cell[i - 1]
      BY ContentsIs
    <2>2. VectorInv' => (/\ Vector!Contents \in Seq(Items) /\ Len(Vector!Contents) = vsize
                         /\ \A i \in 1 .. vsize : Vector!Contents[i] = cell[i - 1])'
      BY ContentsIs, PTL
    <2> QED
      BY <1>2, <2>2
  <1>4. /\ vsize \in 0 .. Capacity /\ vsize' \in 0 .. Capacity
        /\ cell \in [0 .. Capacity -> Items \cup {Junk}]
    BY <1>2 DEF VectorInv, Vector!TypeOK, Vector!Cells
  <1>5. Vector!StackStep =
          CASE vret'[1] = "push" -> IF vret'[2] THEN \E v \in Items : d = Append(c, v)
                                    ELSE d = c /\ Len(c) = Capacity
            [] vret'[1] = "pop" -> IF c = <<>> THEN d = c ELSE d = SubSeq(c, 1, Len(c) - 1)
            [] vret'[1] = "clear" -> d = <<>>
            [] vret'[1] = "none" -> d = c
            [] vret'[1] = "find" ->
                 /\ d = c
                 /\ LET at == {i \in 1 .. Len(c) : c[i] = vret'[2]} IN
                      IF Len(vret') = 2 THEN at = {}
                      ELSE vret'[3] + 1 \in at /\ \A i \in at : vret'[3] < i
    BY DEF Vector!StackStep
  <1> HIDE DEF c, d
  <1>6. UNCHANGED <<cell, vsize>> => d = c
    BY <1>1, <1>3
  <1>7. ASSUME NEW v \in Items, Vector!PushBack(v) PROVE Vector!StackStep
    <2>1. CASE vsize >= Capacity /\ vret' = <<"push", FALSE>> /\ UNCHANGED <<cell, vsize>>
      <3>1. d = c /\ Len(c) = Capacity
        BY <1>1, <1>4, <1>6, <2>1
      <3> QED
        BY <1>5, <2>1, <3>1
    <2>2. CASE /\ vsize < Capacity /\ cell' = [cell EXCEPT ![vsize] = v]
               /\ vsize' = vsize + 1 /\ vret' = <<"push", TRUE>>
      <3>1. \A i \in 1 .. vsize + 1 : d[i] = IF i <= vsize THEN c[i] ELSE v
        BY <1>1, <1>3, <1>4, <2>2
      <3>2. d = Append(c, v)
        BY <1>1, <1>3, <1>4, <2>2, <3>1
      <3> QED
        BY <1>5, <2>2, <3>2
    <2> QED
      BY <1>7, <2>1, <2>2 DEF Vector!PushBack
  <1>8. CASE Vector!PopBack
    <2>1. vret' = <<"pop">>
      BY <1>8 DEF Vector!PopBack
    <2>2. CASE vsize = 0
      <3>1. c = <<>> /\ d = c
        BY <1>1, <1>6, <1>8, <2>2 DEF Vector!PopBack
      <3> QED
        BY <1>5, <2>1, <3>1
    <2>3. CASE vsize > 0
      <3>1. vsize' = vsize - 1 /\ cell' = [cell EXCEPT ![vsize] = Junk]
        BY <1>8, <2>3 DEF Vector!PopBack
      <3>2. \A i \in 1 .. vsize - 1 : d[i] = c[i]
        BY <1>1, <1>3, <1>4, <3>1
      <3>3. d = SubSeq(c, 1, vsize - 1) /\ c # <<>>
        BY <1>1, <1>3, <1>4, <2>3, <3>1, <3>2
      <3> QED
        BY <1>1, <1>5, <2>1, <3>3
    <2> QED
      BY <1>4, <2>2, <2>3
  <1>9. CASE Vector!Clear
    <2>1. vret' = <<"clear">> /\ d = <<>>
      BY <1>3, <1>9 DEF Vector!Clear
    <2> QED
      BY <1>5, <2>1
  <1>10. ASSUME NEW v \in Items, Vector!Find(v) PROVE Vector!StackStep
    <2>1. d = c
      BY <1>6, <1>10 DEF Vector!Find
    <2>2. ASSUME NEW k \in 0 .. vsize - 1, cell[k] = v, \A j \in 0 .. k - 1 : cell[j] # v,
                 vret' = <<"find", v, k>>
          PROVE  Vector!StackStep
      <3>1. k + 1 \in {i \in 1 .. Len(c) : c[i] = v}
        BY <1>1, <1>4, <2>2
      <3>2. ASSUME NEW i \in 1 .. Len(c), c[i] = v PROVE k < i
        <4>1. i - 1 \in 0 .. vsize - 1 /\ cell[i - 1] = v
          BY <1>1, <1>4, <3>2
        <4>2. ~(i - 1 \in 0 .. k - 1)
          BY <2>2, <4>1
        <4> QED
          BY <1>4, <4>1, <4>2
      <3>3. vret'[1] = "find" /\ vret'[2] = v /\ vret'[3] = k /\ Len(vret') = 3
        BY <2>2
      <3> QED
        BY <1>5, <2>1, <3>1, <3>2, <3>3
    <2>3. ASSUME \A k \in 0 .. vsize - 1 : cell[k] # v, vret' = <<"find", v>>
          PROVE  Vector!StackStep
      <3>1. {i \in 1 .. Len(c) : c[i] = v} = {}
        BY <1>1, <1>4, <2>3
      <3>2. vret'[1] = "find" /\ vret'[2] = v /\ Len(vret') = 2
        BY <2>3
      <3> QED
        BY <1>5, <2>1, <3>1, <3>2
    <2> QED
      BY <1>10, <2>2, <2>3 DEF Vector!Find
  <1> QED
    BY <1>7, <1>8, <1>9, <1>10 DEF Vector!Next

-----------------------------------------------------------------------------
SetInv == Set!TypeOK /\ Set!NoJunk

LEMMA SetInit == Set!Init => SetInv
  BY QueueAssumption DEF Set!Init, SetInv, Set!TypeOK, Set!NoJunk, Set!Slots

LEMMA SetStep == SetInv /\ [Set!Next]_Set!vars => SetInv'
  <1> SUFFICES ASSUME SetInv, [Set!Next]_Set!vars PROVE SetInv'
    OBVIOUS
  <1> USE QueueAssumption DEF SetInv, Set!TypeOK, Set!NoJunk, Set!Slots
  <1>1. ASSUME NEW v \in Items, Set!TryInsert(v) PROVE SetInv'
    <2>1. CASE UNCHANGED <<sdata, ssize>>
      BY <2>1
    <2>2. CASE /\ ssize # Capacity
               /\ sdata' = [sdata EXCEPT ![ssize] = v]
               /\ ssize' = ssize + 1
      <3>1. ssize' \in 0 .. Capacity /\ sdata' \in [0 .. Capacity - 1 -> Items \cup {Junk}]
        BY <2>2
      <3>2. \A i \in 0 .. ssize' - 1 : sdata'[i] = IF i = ssize THEN v ELSE sdata[i]
        BY <2>2
      <3> QED
        BY <2>2, <3>1, <3>2
    <2> QED
      BY <1>1, <2>1, <2>2 DEF Set!TryInsert
  <1>2. ASSUME NEW v \in Items, Set!TryErase(v) PROVE SetInv'
    <2>1. CASE UNCHANGED <<sdata, ssize>>
      BY <2>1
    <2>2. ASSUME NEW i \in 0 .. ssize - 1,
                 sdata' = [sdata EXCEPT ![i] = sdata[ssize - 1], ![ssize - 1] = Junk],
                 ssize' = ssize - 1
          PROVE SetInv'
      <3>1. /\ ssize' \in 0 .. Capacity
            /\ i \in 0 .. Capacity - 1 /\ ssize - 1 \in 0 .. Capacity - 1
            /\ sdata[ssize - 1] \in Items
        BY <2>2
      <3>2. sdata' \in [0 .. Capacity - 1 -> Items \cup {Junk}]
        BY <2>2, <3>1
      <3>3. \A j \in 0 .. ssize' - 1 :
              sdata'[j] = IF j = i THEN sdata[ssize - 1] ELSE sdata[j]
        BY <2>2, <3>1
      <3> QED
        BY <2>2, <3>1, <3>2, <3>3
    <2> QED
      BY <1>2, <2>1, <2>2 DEF Set!TryErase
  <1>3. ASSUME NEW v \in Items, Set!Contains(v) PROVE SetInv'
    BY <1>3 DEF Set!Contains
  <1>4. CASE UNCHANGED Set!vars
    BY <1>4 DEF Set!vars
  <1> QED
    BY <1>1, <1>2, <1>3, <1>4 DEF Set!Next

(* A set never holds what nobody inserted: an erasure leaves no hole       *)
(* (InplaceSet.h:26-47).                                                   *)
THEOREM SetHoldsItems == Set!Spec => [](Set!TypeOK /\ Set!NoJunk)
  BY SetInit, SetStep, PTL DEF Set!Spec, SetInv

(* The slots that count and hold v.                                        *)
Holding(v) == {i \in 0 .. ssize - 1 : sdata[i] = v}

LEMMA SetCountIs == \A v : Set!Count(v) = Cardinality(Holding(v))
  <1>1. \A S : Set!Cardinality(S) = Cardinality(S)
    BY DEF Set!Cardinality, Cardinality, Set!IsFiniteSet, IsFiniteSet
  <1> QED
    BY <1>1 DEF Set!Count, Holding

LEMMA HoldingFinite ==
  ASSUME SetInv, NEW v
  PROVE  IsFiniteSet(Holding(v)) /\ Cardinality(Holding(v)) \in Nat
  <1>1. IsFiniteSet(0 .. ssize - 1)
    BY FS_Interval, QueueAssumption DEF SetInv, Set!TypeOK
  <1>2. Holding(v) \subseteq 0 .. ssize - 1
    BY DEF Holding
  <1> QED
    BY <1>1, <1>2, FS_Subset, FS_CardinalityType

(* The counts before and after a step, by the slots that hold a value.     *)
SetGains(v, w) == \E i : i \notin Holding(w) /\ Holding(w)' = Holding(w) \cup {i} /\ w = v
SetLoses(v, w) == \E i \in Holding(w) : Holding(w)' = Holding(w) \ {i} /\ w = v
SetMoves(w) ==
  \/ Holding(w)' = Holding(w)
  \/ \E i \in Holding(w) : \E j :
       j \notin Holding(w) /\ Holding(w)' = (Holding(w) \ {i}) \cup {j}

LEMMA CountsAre ==
  ASSUME SetInv, NEW v
  PROVE  /\ SetMoves(v) => Set!Count(v)' = Set!Count(v)
         /\ SetGains(v, v) => Set!Count(v)' = Set!Count(v) + 1
         /\ SetLoses(v, v) => Set!Count(v)' = Set!Count(v) - 1 /\ Set!Count(v) > 0
  <1>1. Set!Count(v) = Cardinality(Holding(v))
    BY SetCountIs
  <1>2. Set!Count(v)' = Cardinality(Holding(v)')
    <2>1. \A S : Set!Cardinality(S) = Cardinality(S)
      BY DEF Set!Cardinality, Cardinality, Set!IsFiniteSet, IsFiniteSet
    <2> QED
      BY <2>1 DEF Set!Count, Holding
  <1>3. IsFiniteSet(Holding(v)) /\ Cardinality(Holding(v)) \in Nat
    BY HoldingFinite
  <1>4. ASSUME SetGains(v, v) PROVE Cardinality(Holding(v)') = Cardinality(Holding(v)) + 1
    BY <1>3, <1>4, FS_AddElement DEF SetGains
  <1>5. ASSUME NEW i \in Holding(v)
        PROVE  /\ IsFiniteSet(Holding(v) \ {i})
               /\ Cardinality(Holding(v) \ {i}) = Cardinality(Holding(v)) - 1
               /\ Cardinality(Holding(v) \ {i}) \in Nat
    BY <1>3, FS_RemoveElement, FS_CardinalityType
  <1>6. ASSUME SetLoses(v, v)
        PROVE  Cardinality(Holding(v)') = Cardinality(Holding(v)) - 1 /\ Cardinality(Holding(v)) > 0
    <2>1. PICK i \in Holding(v) : Holding(v)' = Holding(v) \ {i}
      BY <1>6 DEF SetLoses
    <2> QED
      BY <1>3, <1>5, <2>1
  <1>7. ASSUME SetMoves(v) PROVE Cardinality(Holding(v)') = Cardinality(Holding(v))
    <2>1. ASSUME NEW i \in Holding(v), NEW j, j \notin Holding(v),
                 Holding(v)' = (Holding(v) \ {i}) \cup {j}
          PROVE  Cardinality(Holding(v)') = Cardinality(Holding(v))
      <3>1. Cardinality((Holding(v) \ {i}) \cup {j}) = Cardinality(Holding(v) \ {i}) + 1
        BY <1>5, <2>1, FS_AddElement
      <3> QED
        BY <1>3, <1>5, <2>1, <3>1
    <2> QED
      BY <1>7, <2>1 DEF SetMoves
  <1> QED
    BY <1>1, <1>2, <1>3, <1>4, <1>6, <1>7

LEMMA SetInserts ==
  ASSUME SetInv, NEW v \in Items, Set!TryInsert(v)
  PROVE  /\ sret'[2] = v /\ sret'[1] = "insert" /\ sret'[3] = (ssize < Capacity)
         /\ IF ssize < Capacity THEN SetGains(v, v) ELSE SetMoves(v)
         /\ \A w \in Items \ {v} : SetMoves(w)
  <1> USE QueueAssumption DEF SetInv, Set!TypeOK, Set!Slots
  <1>1. CASE ssize = Capacity /\ sret' = <<"insert", v, FALSE>> /\ UNCHANGED <<sdata, ssize>>
    <2>1. (ssize < Capacity) = FALSE /\ \A w : SetMoves(w)
      BY <1>1 DEF SetMoves, Holding
    <2> QED
      BY <1>1, <2>1
  <1>2. CASE /\ ssize # Capacity /\ sret' = <<"insert", v, TRUE>>
             /\ sdata' = [sdata EXCEPT ![ssize] = v] /\ ssize' = ssize + 1
    <2>1. ssize < Capacity /\ (ssize < Capacity) = TRUE
      BY <1>2
    <2>2. \A i \in 0 .. ssize' - 1 : sdata'[i] = IF i = ssize THEN v ELSE sdata[i]
      BY <1>2
    <2>3. Holding(v)' = Holding(v) \cup {ssize} /\ ssize \notin Holding(v)
      BY <1>2, <2>2 DEF Holding
    <2>4. \A w \in Items \ {v} : Holding(w)' = Holding(w)
      BY <1>2, <2>2 DEF Holding
    <2> QED
      BY <1>2, <2>1, <2>3, <2>4 DEF SetGains, SetMoves
  <1> QED
    BY <1>1, <1>2 DEF Set!TryInsert

LEMMA SetErases ==
  ASSUME SetInv, NEW v \in Items, Set!TryErase(v)
  PROVE  /\ sret'[2] = v /\ sret'[1] = "erase"
         /\ \/ sret'[3] = TRUE /\ SetLoses(v, v)
            \/ sret'[3] = FALSE /\ SetMoves(v) /\ Holding(v) = {}
         /\ \A w \in Items \ {v} : SetMoves(w)
  <1> USE QueueAssumption DEF SetInv, Set!TypeOK, Set!Slots
  <1>1. CASE Set!Missing(v) /\ sret' = <<"erase", v, FALSE>> /\ UNCHANGED <<sdata, ssize>>
    BY <1>1 DEF SetMoves, Holding, Set!Missing
  <1>2. ASSUME NEW i \in 0 .. ssize - 1, sdata[i] = v, sret' = <<"erase", v, TRUE>>,
               sdata' = [sdata EXCEPT ![i] = sdata[ssize - 1], ![ssize - 1] = Junk],
               ssize' = ssize - 1
        PROVE  SetLoses(v, v) /\ \A w \in Items \ {v} : SetMoves(w)
    <2> DEFINE l == ssize - 1
    <2>0. sdata[i] = v
      BY <1>2
    <2>1. /\ l \in 0 .. Capacity - 1 /\ i \in 0 .. Capacity - 1 /\ i <= l
          /\ l \in 0 .. ssize - 1 /\ ssize' - 1 = l - 1
      BY <1>2
    <2>2. \A j \in 0 .. l - 1 : sdata'[j] = IF j = i THEN sdata[l] ELSE sdata[j]
      BY <1>2, <2>1
    <2>3. \A w, j : j \in Holding(w) <=> j \in 0 .. l /\ sdata[j] = w
      BY DEF Holding
    <2>4. \A w, j : j \in Holding(w)' <=> j \in 0 .. l - 1 /\ sdata'[j] = w
      BY <2>1 DEF Holding
    <2>5. l \in Int /\ i \in Int /\ \A j : j \in 0 .. l <=> j \in 0 .. l - 1 \/ j = l
      BY <2>1
    <2> HIDE DEF l
    <2>6. CASE i = l
      <3>1. Holding(v)' = Holding(v) \ {l} /\ l \in Holding(v)
        BY <2>0, <2>1, <2>2, <2>3, <2>4, <2>5, <2>6
      <3>2. ASSUME NEW w \in Items \ {v} PROVE Holding(w)' = Holding(w)
        <4>1. ASSUME NEW j PROVE j \in Holding(w)' <=> j \in Holding(w)
          <5>1. j \in 0 .. l - 1 => j # l
            BY <2>5
          <5> QED
            BY <2>0, <2>2, <2>3, <2>4, <2>5, <2>6, <3>2, <5>1
        <4> QED
          BY <4>1
      <3> QED
        BY <3>1, <3>2 DEF SetLoses, SetMoves
    <2>7. CASE i # l
      <3>0. i \in 0 .. l - 1
        BY <2>1, <2>7
      <3>1. CASE sdata[l] = v
        <4>1. Holding(v)' = Holding(v) \ {l} /\ l \in Holding(v)
          BY <2>0, <2>1, <2>2, <2>3, <2>4, <2>5, <3>0, <3>1
        <4>2. ASSUME NEW w \in Items \ {v} PROVE Holding(w)' = Holding(w)
          <5>1. ASSUME NEW j PROVE j \in Holding(w)' <=> j \in Holding(w)
            BY <2>0, <2>2, <2>3, <2>4, <2>5, <3>0, <3>1
          <5> QED
            BY <5>1
        <4> QED
          BY <4>1, <4>2 DEF SetLoses, SetMoves
      <3>2. CASE sdata[l] # v
        <4>1. Holding(v)' = Holding(v) \ {i} /\ i \in Holding(v)
          <5>1. ASSUME NEW j PROVE j \in Holding(v)' <=> j \in Holding(v) /\ j # i
            BY <2>0, <2>2, <2>3, <2>4, <2>5, <3>0, <3>2
          <5>2. i \in Holding(v)
            BY <2>0, <2>3, <2>5, <3>0
          <5> QED
            BY <5>1, <5>2
        <4>2. ASSUME NEW w \in Items \ {v} PROVE SetMoves(w)
          <5>1. CASE sdata[l] = w
            <6>1. /\ l \in Holding(w) /\ i \notin Holding(w)
                  /\ Holding(w)' = (Holding(w) \ {l}) \cup {i}
              BY <2>0, <2>1, <2>2, <2>3, <2>4, <2>5, <3>0, <4>2, <5>1
            <6> QED
              BY <6>1 DEF SetMoves
          <5>2. CASE sdata[l] # w
            <6>1. ASSUME NEW j PROVE j \in Holding(w)' <=> j \in Holding(w)
              BY <2>0, <2>2, <2>3, <2>4, <2>5, <3>0, <4>2, <5>2
            <6> QED
              BY <6>1 DEF SetMoves
          <5> QED
            BY <5>1, <5>2
        <4> QED
          BY <4>1, <4>2 DEF SetLoses
      <3> QED
        BY <3>1, <3>2
    <2> QED
      BY <2>6, <2>7
  <1>3. CASE \E i \in 0 .. ssize - 1 :
               /\ Set!FoundAt(v, i) /\ sret' = <<"erase", v, TRUE>>
               /\ sdata' = [sdata EXCEPT ![i] = sdata[ssize - 1], ![ssize - 1] = Junk]
               /\ ssize' = ssize - 1
    <2>1. PICK i \in 0 .. ssize - 1 :
               /\ Set!FoundAt(v, i) /\ sret' = <<"erase", v, TRUE>>
               /\ sdata' = [sdata EXCEPT ![i] = sdata[ssize - 1], ![ssize - 1] = Junk]
               /\ ssize' = ssize - 1
      BY <1>3
    <2>2. SetLoses(v, v) /\ \A w \in Items \ {v} : SetMoves(w)
      BY <1>2, <2>1 DEF Set!FoundAt
    <2>3. sret'[1] = "erase" /\ sret'[2] = v /\ sret'[3] = TRUE
      BY <2>1
    <2> QED
      BY <2>2, <2>3
  <1> QED
    BY <1>1, <1>3 DEF Set!TryErase

LEMMA Bagged ==
  ASSUME SetInv, Set!Next, NEW v \in Items, sret'[2] = v
  PROVE  Set!BagStep(v)
  <1>0. Set!Count(v) = Cardinality(Holding(v)) /\ Cardinality(Holding(v)) \in Nat
    BY SetCountIs, HoldingFinite
  <1>1. CASE Set!TryInsert(v)
    <2>1. /\ sret'[1] = "insert" /\ sret'[3] = (ssize < Capacity)
          /\ IF ssize < Capacity THEN SetGains(v, v) ELSE SetMoves(v)
          /\ \A w \in Items \ {v} : SetMoves(w)
      BY <1>1, SetInserts
    <2>2. /\ \A w \in Items \ {v} : Set!Count(w)' = Set!Count(w)
          /\ Set!Count(v)' = Set!Count(v) + (IF sret'[3] THEN 1 ELSE 0)
      <3>1. \A w \in Items \ {v} : Set!Count(w)' = Set!Count(w)
        BY <2>1, CountsAre
      <3>2. Set!Count(v)' = Set!Count(v) + (IF ssize < Capacity THEN 1 ELSE 0)
        BY <1>0, <2>1, CountsAre
      <3> QED
        BY <2>1, <3>1, <3>2
    <2> QED
      BY <2>1, <2>2 DEF Set!BagStep
  <1>2. CASE Set!TryErase(v)
    <2>1. /\ sret'[1] = "erase"
          /\ \/ sret'[3] = TRUE /\ SetLoses(v, v)
             \/ sret'[3] = FALSE /\ SetMoves(v) /\ Holding(v) = {}
          /\ \A w \in Items \ {v} : SetMoves(w)
      BY <1>2, SetErases
    <2>2. /\ \A w \in Items \ {v} : Set!Count(w)' = Set!Count(w)
          /\ Set!Count(v)' = Set!Count(v) - (IF sret'[3] THEN 1 ELSE 0)
          /\ sret'[3] <=> Set!Count(v) > 0
      BY <1>0, <2>1, CountsAre, FS_EmptySet
    <2> QED
      BY <2>1, <2>2 DEF Set!BagStep
  <1>3. CASE Set!Contains(v)
    <2>1. sret'[1] = "contains" /\ (sret'[3] <=> ~Set!Missing(v)) /\ \A w : SetMoves(w)
      <3>1. sret' = <<"contains", v, ~Set!Missing(v)>> /\ UNCHANGED <<sdata, ssize>>
        BY <1>3 DEF Set!Contains
      <3>2. \A w : SetMoves(w)
        BY <3>1 DEF SetMoves, Holding
      <3>3. CASE Set!Missing(v)
        <4>1. sret' = <<"contains", v, FALSE>>
          BY <3>1, <3>3
        <4>2. sret'[1] = "contains" /\ sret'[3] = FALSE
          BY <4>1
        <4> QED
          BY <3>3, <3>2, <4>2
      <3>4. CASE ~Set!Missing(v)
        <4>1. sret' = <<"contains", v, TRUE>>
          BY <3>1, <3>4
        <4>2. sret'[1] = "contains" /\ sret'[3] = TRUE
          BY <4>1
        <4> QED
          BY <3>4, <3>2, <4>2
      <3> QED
        BY <3>3, <3>4
    <2>2. Set!Missing(v) <=> Holding(v) = {}
      BY DEF Set!Missing, Holding
    <2>3. Holding(v) = {} <=> Cardinality(Holding(v)) = 0
      BY FS_EmptySet, HoldingFinite
    <2>4. \A w : Set!Count(w)' = Set!Count(w)
      BY <2>1, CountsAre
    <2>5. sret'[3] <=> Set!Count(v) > 0
      BY <1>0, <2>1, <2>2, <2>3
    <2> QED
      BY <2>1, <2>4, <2>5 DEF Set!BagStep
  <1>4. ASSUME NEW w \in Items, Set!TryInsert(w) \/ Set!TryErase(w) \/ Set!Contains(w)
        PROVE  w = v
    <2>1. Set!TryInsert(w) => sret'[2] = w
      BY SetInserts
    <2>2. Set!TryErase(w) => sret'[2] = w
      BY SetErases
    <2>3. Set!Contains(w) => sret'[2] = w
      BY DEF Set!Contains
    <2> QED
      BY <1>4, <2>1, <2>2, <2>3
  <1> QED
    BY <1>1, <1>2, <1>3, <1>4 DEF Set!Next

(* Callers of a vector see a bounded stack with a find that never answers  *)
(* with a leftover, callers of a set a bounded bag                         *)
(* (InplaceVector.h:44-75, InplaceSet.h:26-57).                            *)
THEOREM StacksAndBags == Vector!Spec /\ Set!Spec => StackAndBag
  <1>1. VectorInv /\ [Vector!Next]_Vector!vars => [Vector!StackStep]_Vector!vars
    BY PushedOrPopped
  <1>2. SetInv /\ [Set!Next]_Set!vars =>
          [\A v \in Items : sret'[2] = v => Set!BagStep(v)]_Set!vars
    BY Bagged
  <1>3. Vector!Spec => Vector!ActsAsStack
    BY <1>1, VectorInit, VectorStep, PTL DEF Vector!Spec, Vector!ActsAsStack
  <1>4. Set!Spec => Set!ActsAsBag
    BY <1>2, SetInit, SetStep, PTL DEF Set!Spec, Set!ActsAsBag
  <1> QED
    BY <1>3, <1>4 DEF StackAndBag

-----------------------------------------------------------------------------
SharedInv == Shared!TypeOK /\ Shared!Balance

(* The instance's Cardinality is that of the theorems cited.               *)
LEMMA SameCardinality == \A S : Shared!Cardinality(S) = Cardinality(S)
  BY DEF Shared!Cardinality, Cardinality, Shared!IsFiniteSet, IsFiniteSet

LEMMA CountIs == \A v : Shared!Count(v) = Cardinality({i \in Shared!Slots : adata[i] = v})
  BY SameCardinality DEF Shared!Count

At(v) == {i \in Shared!Slots : adata[i] = v}

LEMMA SlotsFinite ==
  /\ IsFiniteSet(Shared!Slots) /\ Cardinality(Shared!Slots) = Capacity
  /\ \A v : IsFiniteSet(At(v)) /\ Cardinality(At(v)) \in Nat
  <1>1. IsFiniteSet(Shared!Slots) /\ Cardinality(Shared!Slots) = Capacity
    BY FS_Interval, QueueAssumption DEF Shared!Slots
  <1>2. ASSUME NEW v PROVE IsFiniteSet(At(v))
    BY <1>1, FS_Subset DEF At
  <1> QED
    BY <1>1, <1>2, FS_CardinalityType

LEMMA SharedInit == Shared!Init => SharedInv
  <1> SUFFICES ASSUME Shared!Init PROVE SharedInv
    OBVIOUS
  <1>1. Shared!TypeOK
    BY QueueAssumption, ContainersAssumption DEF Shared!Init, Shared!TypeOK, Shared!Out
  <1>2. ASSUME NEW v \in Items \cup {Junk}
        PROVE Shared!Count(v) = gained[v] + (IF v = Junk THEN Capacity ELSE 0)
    <2>1. {i \in Shared!Slots : adata[i] = v} = IF v = Junk THEN Shared!Slots ELSE {}
      BY DEF Shared!Init
    <2> QED
      BY <2>1, SlotsFinite, FS_EmptySet, CountIs, QueueAssumption
         DEF Shared!Init
  <1> QED
    BY <1>1, <1>2 DEF SharedInv, Shared!Balance

(* A store to one slot moves one from the count of what it held to the     *)
(* count of what it holds.                                                 *)
LEMMA StoreCounts ==
  ASSUME Shared!TypeOK, NEW j \in Shared!Slots, NEW w \in Items \cup {Junk},
         adata[j] # w, adata' = [adata EXCEPT ![j] = w],
         NEW v \in Items \cup {Junk}
  PROVE  Shared!Count(v)' = Shared!Count(v) + (IF v = w THEN 1
                                              ELSE IF v = adata[j] THEN -1 ELSE 0)
  <1>1. /\ Shared!Count(v) = Cardinality(At(v))
        /\ Shared!Count(v)' = Cardinality(At(v)')
        /\ IsFiniteSet(At(v)) /\ Cardinality(At(v)) \in Nat
    BY SameCardinality, SlotsFinite DEF Shared!Count, At
  <1>2. CASE v = w
    <2>1. At(v)' = At(v) \cup {j} /\ j \notin At(v)
      BY <1>2 DEF At, Shared!TypeOK
    <2>2. Cardinality(At(v)') = Cardinality(At(v)) + 1
      BY <1>1, <2>1, FS_AddElement
    <2> QED
      BY <1>1, <1>2, <2>2
  <1>3. CASE v = adata[j]
    <2>1. At(v)' = At(v) \ {j} /\ j \in At(v)
      BY <1>3 DEF At, Shared!TypeOK
    <2> QED
      BY <1>1, <1>3, <2>1, FS_RemoveElement
  <1>4. CASE v # w /\ v # adata[j]
    <2>1. At(v)' = At(v)
      BY <1>4 DEF At, Shared!TypeOK
    <2> QED
      BY <1>1, <1>4, <2>1
  <1> QED
    BY <1>2, <1>3, <1>4

LEMMA SharedStep == SharedInv /\ [Shared!Next]_Shared!vars => SharedInv'
  <1> SUFFICES ASSUME SharedInv, [Shared!Next]_Shared!vars PROVE SharedInv'
    OBVIOUS
  <1> MaxCalls \in Nat
    BY ContainersAssumption
  <1> USE QueueAssumption DEF SharedInv, Shared!TypeOK
  <1>0. ASSUME UNCHANGED <<adata, gained>> PROVE Shared!Balance'
    BY <1>0 DEF Shared!Balance, Shared!Count
  <1>1. ASSUME NEW t \in Threads, NEW k \in {"weak", "strong"},
               NEW a \in Items \cup {Junk}, NEW b \in Items \cup {Junk},
               Shared!Exchange(t, k, a, b)
        PROVE SharedInv'
    BY <1>0, <1>1 DEF Shared!Exchange
  <1>2. ASSUME NEW t \in Threads, Shared!MoveOn(t) PROVE SharedInv'
    <2>1. call[t].at \in 0 .. Capacity - 1
      BY <1>2 DEF Shared!MoveOn, Shared!At
    <2> QED
      BY <1>0, <1>2, <2>1 DEF Shared!MoveOn
  <1>3. ASSUME NEW t \in Threads, Shared!GiveUp(t) PROVE SharedInv'
    BY <1>0, <1>3 DEF Shared!GiveUp, Shared!Returns, Shared!Out
  <1>4. ASSUME NEW t \in Threads, Shared!Swap(t) PROVE SharedInv'
    <2> DEFINE j == call[t].at
               x == call[t].from
               y == call[t].to
    <2>1. /\ j \in Shared!Slots /\ adata[j] = x
          /\ x \in Items \cup {Junk} /\ y \in Items \cup {Junk}
          /\ adata' = [adata EXCEPT ![j] = y]
          /\ call' = [call EXCEPT ![t] = Shared!Out]
          /\ gained' = IF x # y THEN [gained EXCEPT ![y] = @ + 1, ![x] = @ - 1]
                       ELSE gained
          /\ calls' = calls
          /\ alone' = [u \in Threads |-> alone[u] /\ x = y]
      BY <1>4 DEF Shared!Swap, Shared!At, Shared!Returns, Shared!Slots
    <2> HIDE DEF j, x, y
    <2>2. adata' \in [Shared!Slots -> Items \cup {Junk}]
          /\ gained' \in [Items \cup {Junk} -> Int]
      BY <2>1
    <2>3. call' \in [Threads -> [kind : {"none", "weak", "strong"},
                                 from : Items \cup {Junk}, to : Items \cup {Junk},
                                 at : 0 .. Capacity, due : BOOLEAN]]
      BY <2>1 DEF Shared!Out
    <2>4. alone' \in [Threads -> BOOLEAN]
      BY <2>1
    <2>5. Shared!Balance'
      <3>1. CASE x = y
        BY <1>0, <2>1, <3>1
      <3>2. CASE x # y
        <4>1. ASSUME NEW v \in Items \cup {Junk}
              PROVE Shared!Count(v)' = gained[v]' + (IF v = Junk THEN Capacity ELSE 0)
          <5>1. Shared!Count(v) = gained[v] + (IF v = Junk THEN Capacity ELSE 0)
            BY DEF Shared!Balance
          <5>2. Shared!Count(v)' = Shared!Count(v) + (IF v = y THEN 1
                                                      ELSE IF v = x THEN -1 ELSE 0)
            BY <2>1, <3>2, StoreCounts
          <5>3. gained[v]' = gained[v] + (IF v = y THEN 1 ELSE IF v = x THEN -1 ELSE 0)
            BY <2>1, <3>2
          <5> QED
            BY <5>1, <5>2, <5>3
        <4> QED
          BY <4>1 DEF Shared!Balance
      <3> QED
        BY <3>1, <3>2
    <2> QED
      BY <2>1, <2>2, <2>3, <2>4, <2>5
  <1>5. CASE UNCHANGED Shared!vars
    BY <1>0, <1>5 DEF Shared!vars
  <1> QED
    BY <1>1, <1>2, <1>3, <1>4, <1>5 DEF Shared!Next

(* However the exchanges of any threads interleave, values are never lost  *)
(* or duplicated (InplaceAtomicSet.h:34-57).                               *)
THEOREM Balanced == Shared!Spec => []SharedBalance
  BY SharedInit, SharedStep, PTL DEF Shared!Spec, SharedInv, SharedBalance

(* What an undisturbed strong exchange is due is still ahead of it.        *)
AheadInv ==
  \A t \in Threads :
    call[t].kind = "strong" /\ alone[t] /\ call[t].due =>
      \E i \in Shared!Slots : call[t].at <= i /\ adata[i] = call[t].from

LEMMA AheadStep == SharedInv /\ AheadInv /\ [Shared!Next]_Shared!vars => AheadInv'
  <1> SUFFICES ASSUME SharedInv, AheadInv, [Shared!Next]_Shared!vars PROVE AheadInv'
    OBVIOUS
  <1> USE QueueAssumption DEF SharedInv, Shared!TypeOK, AheadInv
  <1>1. ASSUME NEW t \in Threads, NEW k \in {"weak", "strong"},
               NEW a \in Items \cup {Junk}, NEW b \in Items \cup {Junk},
               Shared!Exchange(t, k, a, b)
        PROVE AheadInv'
    <2> USE <1>1 DEF Shared!Exchange
    <2>1. (\E i \in Shared!Slots : adata[i] = a) =>
            \E i \in Shared!Slots : 0 <= i /\ adata[i] = a
      BY DEF Shared!Slots
    <2>2. call'[t].due = (\E i \in Shared!Slots : adata[i] = a) /\ call'[t].from = a
          /\ call'[t].at = 0
      OBVIOUS
    <2>3. \A u \in Threads \ {t} : call'[u] = call[u] /\ alone'[u] = alone[u]
      OBVIOUS
    <2> QED
      BY <2>1, <2>2, <2>3
  <1>2. ASSUME NEW t \in Threads, Shared!MoveOn(t) PROVE AheadInv'
    <2>1. /\ call[t].at \in Shared!Slots
          /\ adata[call[t].at] # call[t].from \/ call[t].kind = "weak"
          /\ call'[t] = [call[t] EXCEPT !.at = @ + 1]
          /\ \A u \in Threads \ {t} : call'[u] = call[u]
          /\ adata' = adata /\ alone' = alone
      BY <1>2 DEF Shared!MoveOn, Shared!At, Shared!Slots
    <2>2. \A i \in Shared!Slots : call[t].at <= i /\ i # call[t].at => call[t].at + 1 <= i
      BY <2>1 DEF Shared!Slots
    <2> QED
      BY <2>1, <2>2
  <1>3. ASSUME NEW t \in Threads, Shared!GiveUp(t) PROVE AheadInv'
    BY <1>3 DEF Shared!GiveUp, Shared!Returns, Shared!Out
  <1>4. ASSUME NEW t \in Threads, Shared!Swap(t) PROVE AheadInv'
    <2>1. /\ call' = [call EXCEPT ![t] = Shared!Out]
          /\ call[t].from = call[t].to => adata' = adata
          /\ \A u \in Threads : alone'[u] => alone[u] /\ call[t].from = call[t].to
      BY <1>4 DEF Shared!Swap, Shared!At, Shared!Returns, Shared!Slots
    <2> QED
      BY <2>1 DEF Shared!Out
  <1>5. CASE UNCHANGED Shared!vars
    BY <1>5 DEF Shared!vars
  <1> QED
    BY <1>1, <1>2, <1>3, <1>4, <1>5 DEF Shared!Next

(* A strong exchange that nobody disturbed fails only if the value was not *)
(* in the set (InplaceAtomicSet.h:48-58).                                  *)
THEOREM AloneExact == Shared!Spec => []SharedAloneIsExact
  <1>1. Shared!Init => AheadInv
    BY DEF Shared!Init, AheadInv, Shared!Out
  <1>2. SharedInv /\ AheadInv => SharedAloneIsExact
    BY QueueAssumption
       DEF SharedAloneIsExact, Shared!AloneIsExact, SharedInv, Shared!TypeOK, AheadInv,
           Shared!Slots
  <1> QED
    BY <1>1, <1>2, SharedInit, SharedStep, AheadStep, PTL DEF Shared!Spec

-----------------------------------------------------------------------------
(* Guards.                                                                 *)

(* At most one guard is armed with a cleanup, which callers have made and  *)
(* which has not run.                                                      *)
GuardInv ==
  /\ Guard!TypeOK
  /\ \A g \in Results : execute[g] => g \in alive /\ func[g] \in made /\ ran[func[g]] = 0
  /\ \A g, h \in Results : execute[g] /\ execute[h] /\ func[g] = func[h] => g = h
  /\ \A c \in Items : ran[c] <= 1
  /\ \A c \in Items \ made : ran[c] = 0

LEMMA AtMostOne ==
  ASSUME NEW S, \A x, y \in S : x = y
  PROVE  Guard!Cardinality(S) = IF S = {} THEN 0 ELSE 1
  <1>1. Guard!Cardinality(S) = Cardinality(S)
    BY DEF Guard!Cardinality, Cardinality, Guard!IsFiniteSet, IsFiniteSet
  <1>2. S # {} => \E x : S = {x}
    OBVIOUS
  <1> QED
    BY <1>1, <1>2, FS_EmptySet, FS_Singleton

LEMMA GuardInit == Guard!Init => GuardInv
  BY DEF Guard!Init, GuardInv, Guard!TypeOK

LEMMA GuardStep == GuardInv /\ [Guard!Next]_Guard!vars => GuardInv'
  <1> SUFFICES ASSUME GuardInv, [Guard!Next]_Guard!vars PROVE GuardInv'
    OBVIOUS
  <1> USE DEF GuardInv, Guard!TypeOK, Guard!Born, Guard!Exchange, Guard!TakeOver
  <1>1. ASSUME NEW g \in Results, NEW c \in Items, Guard!Construct(g, c) PROVE GuardInv'
    BY <1>1 DEF Guard!Construct
  <1>2. ASSUME NEW g \in Results, Guard!ConstructNull(g) PROVE GuardInv'
    BY <1>2 DEF Guard!ConstructNull
  <1>3. ASSUME NEW g \in Results, NEW other \in Results, Guard!MoveConstruct(g, other)
        PROVE GuardInv'
    <2>0. /\ g # other /\ other \in alive /\ alive' = alive \cup {g} /\ ~execute[g]
          /\ UNCHANGED <<flavour, made, ran>>
      BY <1>3 DEF Guard!MoveConstruct
    <2>1. /\ func'[g] = func[other] /\ execute'[g] = execute[other] /\ ~execute'[other]
          /\ \A h \in Results \ {g, other} : func'[h] = func[h] /\ execute'[h] = execute[h]
      BY <1>3, <2>0 DEF Guard!MoveConstruct
    <2>2. Guard!TypeOK'
      BY <1>3 DEF Guard!MoveConstruct
    <2> HIDE DEF Guard!TypeOK
    <2> QED
      BY <2>0, <2>1, <2>2
  <1>4. ASSUME NEW g \in Results, NEW other \in Results, Guard!Assign(g, other)
        PROVE GuardInv'
    <2>0. {g, other} \subseteq alive /\ UNCHANGED <<flavour, alive, made, ran>>
      BY <1>4 DEF Guard!Assign
    <2>1. CASE Guard!Exchange(g, other)
      BY <2>0, <2>1
    <2>2. CASE g = other /\ UNCHANGED <<func, execute>>
      BY <2>0, <2>2
    <2>3. CASE g # other /\ Guard!TakeOver(g, other)
      <3>1. /\ func'[g] = func[other] /\ execute'[g] = execute[other] /\ ~execute'[other]
            /\ \A h \in Results \ {g, other} : func'[h] = func[h] /\ execute'[h] = execute[h]
        BY <2>3
      <3>2. Guard!TypeOK'
        BY <2>0, <2>3
      <3> HIDE DEF Guard!TypeOK, Guard!TakeOver
      <3> QED
        BY <2>0, <3>1, <3>2
    <2> QED
      BY <1>4, <2>1, <2>2, <2>3 DEF Guard!Assign
  <1>5. ASSUME NEW g \in Results, NEW other \in Results, Guard!Swap(g, other)
        PROVE GuardInv'
    BY <1>5 DEF Guard!Swap
  <1>6. ASSUME NEW g \in Results, Guard!Clear(g) PROVE GuardInv'
    BY <1>6 DEF Guard!Clear
  <1>7. ASSUME NEW g \in Results, Guard!Die(g) PROVE GuardInv'
    BY <1>7 DEF Guard!Die
  <1>8. CASE UNCHANGED Guard!vars
    BY <1>8 DEF Guard!vars
  <1> QED
    BY <1>1, <1>2, <1>3, <1>4, <1>5, <1>6, <1>7, <1>8 DEF Guard!Next

DueInv ==
  \A c \in Items : /\ Guard!Due(c) = ran[c] + (IF Guard!Armed(c) = {} THEN 0 ELSE 1)
                   /\ Guard!Due(c) <= 1

LEMMA DueIs == GuardInv => DueInv
  <1> SUFFICES ASSUME GuardInv, NEW c \in Items
               PROVE /\ Guard!Due(c) = ran[c] + (IF Guard!Armed(c) = {} THEN 0 ELSE 1)
                     /\ Guard!Due(c) <= 1
    BY DEF DueInv
  <1>1. \A g \in Guard!Armed(c) : g \in Results /\ execute[g] /\ func[g] = c
    BY DEF Guard!Armed, GuardInv, Guard!TypeOK
  <1>2. Guard!Cardinality(Guard!Armed(c)) = IF Guard!Armed(c) = {} THEN 0 ELSE 1
    BY <1>1, AtMostOne DEF GuardInv
  <1>3. ran[c] \in {0, 1} /\ (Guard!Armed(c) # {} => ran[c] = 0)
    BY <1>1 DEF GuardInv, Guard!TypeOK
  <1> QED
    BY <1>2, <1>3 DEF Guard!Due

(* A guard that was armed with c, and is not any more, has run it, handed  *)
(* it to another, or been cleared or assigned to.                          *)
LEMMA Disarmed ==
  ASSUME GuardInv, [Guard!Next]_Guard!vars, NEW c \in Items,
         NEW g0 \in Results, execute[g0], func[g0] = c,
         \A h \in Results : ~(h \in alive' /\ execute'[h] /\ func'[h] = c),
         ran'[c] = ran[c]
  PROVE  /\ flavour = "optional_destructor"
         /\ gdid'.on = g0
         /\ gdid'.op = "clear" \/ (gdid'.op = "assign" /\ gdid'.from # gdid'.on)
  <1> USE DEF GuardInv, Guard!TypeOK, Guard!Born, Guard!Exchange, Guard!TakeOver, Guard!Did
  <1>0. g0 \in alive
    OBVIOUS
  <1>1. ASSUME NEW g \in Results, NEW d \in Items, Guard!Construct(g, d) PROVE FALSE
    BY <1>0, <1>1 DEF Guard!Construct
  <1>2. ASSUME NEW g \in Results, Guard!ConstructNull(g) PROVE FALSE
    BY <1>0, <1>2 DEF Guard!ConstructNull
  <1>3. ASSUME NEW g \in Results, NEW other \in Results, Guard!MoveConstruct(g, other)
        PROVE FALSE
    <2>1. /\ g # other /\ alive' = alive \cup {g} /\ g # g0
          /\ func'[g] = func[other] /\ execute'[g] = execute[other]
          /\ \A h \in Results \ {g, other} : func'[h] = func[h] /\ execute'[h] = execute[h]
      BY <1>0, <1>3 DEF Guard!MoveConstruct
    <2> QED
      BY <1>0, <2>1
  <1>4. ASSUME NEW g \in Results, NEW other \in Results, Guard!Exchange(g, other),
               {g, other} \subseteq alive, alive' = alive
        PROVE FALSE
    <2>1. /\ func'[g] = func[other] /\ execute'[g] = execute[other]
          /\ func'[other] = func[g] /\ execute'[other] = execute[g]
          /\ \A h \in Results \ {g, other} : func'[h] = func[h] /\ execute'[h] = execute[h]
      BY <1>4
    <2> QED
      BY <1>0, <1>4, <2>1
  <1>5. ASSUME NEW g \in Results, NEW other \in Results, Guard!TakeOver(g, other),
               {g, other} \subseteq alive, alive' = alive, g # other
        PROVE g0 = g
    <2>1. /\ func'[g] = func[other] /\ execute'[g] = execute[other]
          /\ \A h \in Results \ {g, other} : func'[h] = func[h] /\ execute'[h] = execute[h]
      BY <1>5
    <2> QED
      BY <1>0, <1>5, <2>1
  <1>6. ASSUME NEW g \in Results, NEW other \in Results, Guard!Assign(g, other)
        PROVE /\ flavour = "optional_destructor" /\ g0 = g /\ g # other
              /\ gdid' = [op |-> "assign", on |-> g, from |-> other]
    <2>1. {g, other} \subseteq alive /\ alive' = alive
          /\ gdid' = [op |-> "assign", on |-> g, from |-> other]
      BY <1>6 DEF Guard!Assign
    <2>2. ~UNCHANGED <<func, execute>>
      BY <1>0, <2>1
    <2>3. flavour = "optional_destructor" /\ g # other /\ Guard!TakeOver(g, other)
      BY <1>4, <1>6, <2>1, <2>2 DEF Guard!Assign
    <2> QED
      BY <1>5, <2>1, <2>3
  <1>7. ASSUME NEW g \in Results, NEW other \in Results, Guard!Swap(g, other) PROVE FALSE
    BY <1>4, <1>7 DEF Guard!Swap
  <1>8. ASSUME NEW g \in Results, Guard!Clear(g)
        PROVE /\ flavour = "optional_destructor" /\ g0 = g
              /\ gdid' = [op |-> "clear", on |-> g, from |-> g]
    BY <1>0, <1>8 DEF Guard!Clear
  <1>9. ASSUME NEW g \in Results, Guard!Die(g) PROVE FALSE
    BY <1>0, <1>9 DEF Guard!Die
  <1>10. CASE UNCHANGED Guard!vars
    BY <1>0, <1>10 DEF Guard!vars
  <1> HIDE DEF GuardInv, Guard!TypeOK, Guard!Exchange, Guard!TakeOver
  <1> QED
    BY <1>1, <1>2, <1>3, <1>6, <1>7, <1>8, <1>9, <1>10 DEF Guard!Next

LEMMA DueKept ==
  ASSUME GuardInv, GuardInv', [Guard!Next]_Guard!vars, NEW c \in Items,
         Guard!Due(c) = 1, Guard!Due(c)' # 1
  PROVE  /\ flavour = "optional_destructor"
         /\ Guard!Armed(c) = {gdid'.on}
         /\ gdid'.op = "clear" \/ (gdid'.op = "assign" /\ gdid'.from # gdid'.on)
  <1>1. \A h \in Results : h \in Guard!Armed(c) <=> h \in alive /\ execute[h] /\ func[h] = c
    BY DEF Guard!Armed
  <1>2. \A h \in Results : h \in Guard!Armed(c)' <=> h \in alive' /\ execute'[h] /\ func'[h] = c
    BY DEF Guard!Armed
  <1>3. Guard!Armed(c) \subseteq Results /\ Guard!Armed(c)' \subseteq Results
    BY DEF Guard!Armed, GuardInv, Guard!TypeOK
  <1>4. Guard!Due(c)' = ran'[c] + (IF Guard!Armed(c)' = {} THEN 0 ELSE 1) /\ Guard!Due(c)' <= 1
    <2>1. DueInv'
      BY DueIs, PTL
    <2> QED
      BY <2>1 DEF DueInv
  <1>5. ran'[c] = 0 /\ Guard!Armed(c)' = {}
    BY <1>4 DEF GuardInv, Guard!TypeOK
  <1>6. ran'[c] = ran[c]
    <2>1. ran' = ran \/ \E g \in Results : Guard!Die(g)
      BY DEF Guard!Next, Guard!Construct, Guard!ConstructNull, Guard!MoveConstruct,
             Guard!Assign, Guard!Swap, Guard!Clear, Guard!vars
    <2>2. ASSUME NEW g \in Results, Guard!Die(g) PROVE ran[c] <= ran'[c]
      BY <2>2 DEF GuardInv, Guard!TypeOK, Guard!Die
    <2> QED
      BY <1>5, <2>1, <2>2 DEF GuardInv, Guard!TypeOK
  <1> QED
    BY <1>1, <1>2, <1>3, <1>5, <1>6, Disarmed, DueIs DEF DueInv

(* However guards are moved, assigned, swapped and ended, a cleanup runs   *)
(* at most once, and by the time all guards are gone it has run, unless    *)
(* its own guard was cleared or, as only an optional_destructor lets it,   *)
(* assigned another's (ResourceGuard.h:35-53, Destructor.h:23-69).         *)
THEOREM CleanupsOnce == Guard!Spec => CleanupsRunOnce
  <1>1. GuardInv => \A c \in Items : Guard!Due(c) <= 1
    BY DueIs DEF DueInv
  <1>2. GuardInv /\ GuardInv' /\ [Guard!Next]_Guard!vars =>
          [\A c \in Items :
             Guard!Due(c) = 1 /\ Guard!Due(c)' # 1 =>
               /\ flavour = "optional_destructor"
               /\ Guard!Armed(c) = {gdid'.on}
               /\ gdid'.op = "clear" \/ (gdid'.op = "assign" /\ gdid'.from # gdid'.on)]_Guard!vars
    BY DueKept
  <1> QED
    BY <1>1, <1>2, GuardInit, GuardStep, PTL
       DEF Guard!Spec, CleanupsRunOnce, Guard!CleanupsRunOnce

-----------------------------------------------------------------------------
(* Results.  The steps of an operation work on a state s of all variables  *)
(* and the temporary of swap.                                              *)

Places == Results \cup {Tmp}
Objects == [kind : {"ok", "error"}, token : Items]
ResultStates ==
  [status : [Places -> Result!Statuses], storage : [Places -> {Junk} \cup Objects],
   broken : BOOLEAN]

Empty(s, r) == s.status[r] = "empty" /\ s.storage[r] = Junk
Unborn(s, r) == s.status[r] = "unborn" /\ s.storage[r] = Junk

(* In every state there is an object where the status says so, and no two  *)
(* variables hold the same one.                                            *)
Sound(s) ==
  /\ s \in ResultStates
  /\ s.broken = FALSE
  /\ \A r \in Places :
       IF s.status[r] \in {"ok", "error"}
       THEN s.storage[r] # Junk /\ s.storage[r].kind = s.status[r]
       ELSE s.storage[r] = Junk
  /\ \A q, r \in Places : q # r /\ s.storage[q] # Junk => s.storage[q] # s.storage[r]

(* t has in q what s has in r; the same everywhere in Q.                   *)
Hands(s, t, q, r) == t.status[q] = s.status[r] /\ t.storage[q] = s.storage[r]
Same(s, t, Q) == \A q \in Q : Hands(s, t, q, q)

LEMMA SameOn ==
  ASSUME NEW s, NEW t, NEW Q, NEW P, Same(s, t, Q), P \subseteq Q
  PROVE  Same(s, t, P)
  BY DEF Same

LEMMA SameThrough ==
  ASSUME NEW s, NEW t, NEW u, NEW Q, Same(s, t, Q), Same(t, u, Q)
  PROVE  Same(s, u, Q)
  BY DEF Same, Hands

(* What the steps make of the three fields of a state.                     *)
LEMMA SetStatusIs ==
  ASSUME NEW s \in ResultStates, NEW r, NEW x
  PROVE  Result!SetStatus(s, r, x) =
           [status |-> [s.status EXCEPT ![r] = x], storage |-> s.storage, broken |-> s.broken]
  BY DEF Result!SetStatus, ResultStates

LEMMA SetStorageIs ==
  ASSUME NEW s \in ResultStates, NEW r, NEW x, NEW b \in BOOLEAN,
         NEW t, t = [s EXCEPT !.storage[r] = x, !.broken = b]
  PROVE  t = [status |-> s.status, storage |-> [s.storage EXCEPT ![r] = x], broken |-> b]
  BY DEF ResultStates

LEMMA DestroyAtIs ==
  ASSUME NEW s \in ResultStates, NEW r, NEW kind, s.broken = FALSE,
         s.storage[r] # Junk, s.storage[r].kind = kind
  PROVE  Result!DestroyAt(s, r, kind) =
           [status |-> s.status, storage |-> [s.storage EXCEPT ![r] = Junk], broken |-> FALSE]
  <1>1. (s.broken \/ s.storage[r] = Junk \/ s.storage[r].kind # kind) = FALSE
    OBVIOUS
  <1>2. Result!DestroyAt(s, r, kind) = [s EXCEPT !.storage[r] = Junk, !.broken = FALSE]
    BY <1>1 DEF Result!DestroyAt
  <1> DEFINE t == Result!DestroyAt(s, r, kind)
  <1>3. t = [s EXCEPT !.storage[r] = Junk, !.broken = FALSE] /\ FALSE \in BOOLEAN
    BY <1>2
  <1> HIDE DEF t
  <1>4. t = [status |-> s.status, storage |-> [s.storage EXCEPT ![r] = Junk], broken |-> FALSE]
    BY <1>3, SetStorageIs
  <1> QED
    BY <1>4 DEF t

LEMMA ConstructAtIs ==
  ASSUME NEW s \in ResultStates, NEW r, NEW object, s.broken = FALSE, s.storage[r] = Junk
  PROVE  Result!ConstructAt(s, r, object) =
           [status |-> s.status, storage |-> [s.storage EXCEPT ![r] = object], broken |-> FALSE]
  <1>1. (s.broken \/ s.storage[r] # Junk) = FALSE
    OBVIOUS
  <1>2. Result!ConstructAt(s, r, object) = [s EXCEPT !.storage[r] = object, !.broken = FALSE]
    BY <1>1 DEF Result!ConstructAt
  <1> QED
    BY <1>2, SetStorageIs

LEMMA TakeIs ==
  ASSUME NEW s, Sound(s), NEW r \in Places, s.status[r] \in {"ok", "error"}
  PROVE  LET t == Result!Take(s, r) IN Sound(t) /\ Empty(t, r) /\ Same(s, t, Places \ {r})
  <1> DEFINE t == Result!Take(s, r)
  <1>1. t = [status |-> [s.status EXCEPT ![r] = "empty"],
             storage |-> [s.storage EXCEPT ![r] = Junk], broken |-> FALSE]
    <2> DEFINE u == Result!SetStatus(s, r, "empty")
    <2>1. u = [status |-> [s.status EXCEPT ![r] = "empty"], storage |-> s.storage,
               broken |-> FALSE]
      BY SetStatusIs DEF Sound
    <2>2. u \in ResultStates /\ u.storage[r] # Junk /\ u.storage[r].kind = s.status[r]
      <3>1. "empty" \in Result!Statuses
        BY DEF Result!Statuses
      <3>2. s.status \in [Places -> Result!Statuses] /\ s.storage \in [Places -> {Junk} \cup Objects]
        BY DEF Sound, ResultStates
      <3>3. [s.status EXCEPT ![r] = "empty"] \in [Places -> Result!Statuses]
        BY <3>1, <3>2
      <3>4. u.storage[r] # Junk /\ u.storage[r].kind = s.status[r]
        BY <2>1 DEF Sound
      <3> HIDE DEF u
      <3> QED
        BY <2>1, <3>2, <3>3, <3>4 DEF ResultStates
    <2>3. t = Result!DestroyAt(u, r, s.status[r])
      BY DEF Result!Take
    <2>4. u.broken = FALSE
      BY <2>1
    <2> HIDE DEF t, u
    <2>5. t = [status |-> u.status, storage |-> [u.storage EXCEPT ![r] = Junk], broken |-> FALSE]
      BY <2>2, <2>3, <2>4, DestroyAtIs
    <2> QED
      BY <2>1, <2>5
  <1> HIDE DEF t
  <1>2. t \in ResultStates
    BY <1>1 DEF Sound, ResultStates, Result!Statuses, Result!Kinds
  <1>3. Empty(t, r) /\ Same(s, t, Places \ {r})
    BY <1>1 DEF Sound, ResultStates, Empty, Same, Hands
  <1> QED
    BY <1>1, <1>2, <1>3 DEF Sound, Same, Hands, Empty, t

LEMMA CtorIs ==
  ASSUME NEW s, Sound(s), NEW r \in Places, s.status[r] \notin {"ok", "error"},
         NEW object \in Objects, \A q \in Places : s.storage[q] # object
  PROVE  LET t == Result!Ctor(s, r, object)
         IN  /\ Sound(t)
             /\ t.status[r] = object.kind /\ t.storage[r] = object
             /\ Same(s, t, Places \ {r})
  <1> DEFINE t == Result!Ctor(s, r, object)
  <1>1. t = [status |-> [s.status EXCEPT ![r] = object.kind],
             storage |-> [s.storage EXCEPT ![r] = object], broken |-> FALSE]
    <2> DEFINE u == Result!ConstructAt(s, r, object)
    <2>1. u = [status |-> s.status, storage |-> [s.storage EXCEPT ![r] = object],
               broken |-> FALSE]
      BY ConstructAtIs DEF Sound
    <2>2. u \in ResultStates
      BY <2>1 DEF Sound, ResultStates
    <2>3. t = Result!SetStatus(u, r, object.kind)
      BY DEF Result!Ctor
    <2> HIDE DEF t, u
    <2> QED
      BY <2>1, <2>2, <2>3, SetStatusIs
  <1> HIDE DEF t
  <1>2. t \in ResultStates
    BY <1>1 DEF Sound, ResultStates, Result!Statuses, Result!Kinds, Objects
  <1>3. t.status[r] = object.kind /\ t.storage[r] = object /\ Same(s, t, Places \ {r})
    BY <1>1 DEF Sound, ResultStates, Same, Hands
  <1>4. object # Junk /\ object.kind \in {"ok", "error"}
    BY ContainersAssumption DEF Objects
  <1> QED
    BY <1>1, <1>2, <1>3, <1>4 DEF Sound, Same, Hands, t

LEMMA ClearIs ==
  ASSUME NEW s, Sound(s), NEW r \in Places, NEW status \in {"empty", "unborn"}
  PROVE  LET t == Result!SetStatus(Result!Destroy(s, r), r, status)
         IN  /\ Sound(t)
             /\ t.status[r] = status /\ t.storage[r] = Junk
             /\ Same(s, t, Places \ {r})
  <1> DEFINE t == Result!SetStatus(Result!Destroy(s, r), r, status)
  <1>1. t = [status |-> [s.status EXCEPT ![r] = status],
             storage |-> [s.storage EXCEPT ![r] = Junk], broken |-> FALSE]
    <2> DEFINE u == Result!Destroy(s, r)
    <2>1. u = [status |-> s.status, storage |-> [s.storage EXCEPT ![r] = Junk],
               broken |-> FALSE]
      <3>1. CASE s.status[r] \in {"ok", "error"}
        BY <3>1, DestroyAtIs DEF Result!Destroy, Result!Kinds, Sound
      <3>2. CASE s.status[r] \notin {"ok", "error"}
        BY <3>2 DEF Result!Destroy, Result!Kinds, Sound, ResultStates
      <3> QED
        BY <3>1, <3>2
    <2>2. u \in ResultStates
      BY <2>1 DEF Sound, ResultStates
    <2>3. t = Result!SetStatus(u, r, status)
      OBVIOUS
    <2> HIDE DEF t, u
    <2>4. t = [status |-> [u.status EXCEPT ![r] = status], storage |-> u.storage,
               broken |-> u.broken]
      BY <2>2, <2>3, SetStatusIs
    <2> QED
      BY <2>1, <2>4
  <1> HIDE DEF t
  <1>2. t \in ResultStates
    BY <1>1 DEF Sound, ResultStates, Result!Statuses, Result!Kinds
  <1>3. t.status[r] = status /\ t.storage[r] = Junk /\ Same(s, t, Places \ {r})
    BY <1>1 DEF Sound, ResultStates, Same, Hands
  <1> QED
    BY <1>1, <1>2, <1>3 DEF Sound, Same, Hands, t

LEMMA NameIs ==
  ASSUME NEW s, Sound(s), NEW r \in Places, s.storage[r] = Junk,
         NEW status \in {"empty", "unborn"}
  PROVE  LET t == Result!SetStatus(s, r, status)
         IN  /\ Sound(t)
             /\ t.status[r] = status /\ t.storage[r] = Junk
             /\ Same(s, t, Places \ {r})
  <1>1. Result!Destroy(s, r) = s
    BY DEF Result!Destroy, Result!Kinds, Sound
  <1> QED
    BY <1>1, ClearIs

(* A move from other to r that started in s and ended in e: it hands over  *)
(* what other has, or throws and leaves r empty and other's content where  *)
(* it was or gone.                                                         *)
Moved(s, e, r, other) ==
  /\ Sound(e.s) /\ e.threw \in BOOLEAN /\ e = [s |-> e.s, threw |-> e.threw]
  /\ Same(s, e.s, Places \ {r, other})
  /\ ~e.threw => Hands(s, e.s, r, other) /\ Empty(e.s, other)
  /\ e.threw => Empty(e.s, r) /\ (Empty(e.s, other) \/ Hands(s, e.s, other, other))

LEMMA MoveInIs ==
  ASSUME NEW s, Sound(s), NEW r \in Places, NEW other \in Places, r # other,
         s.status[r] = "empty", s.status[other] # "unborn",
         NEW e \in Result!MoveIn(s, r, other)
  PROVE  Moved(s, e, r, other)
  <1>1. CASE s.status[other] \in {"ok", "error"}
    <2> DEFINE u == Result!Take(s, other)
               object == s.storage[other]
               t == Result!Ctor(u, r, object)
    <2>1. Sound(u) /\ Empty(u, other) /\ Same(s, u, Places \ {other})
      BY <1>1, TakeIs
    <2>2. e = [s |-> t, threw |-> FALSE] \/ e = [s |-> u, threw |-> TRUE]
          \/ e = [s |-> s, threw |-> TRUE]
      BY <1>1 DEF Result!MoveIn, Result!Kinds, Result!Returned, Result!Threw
    <2>3. object \in Objects /\ object.kind = s.status[other]
      BY <1>1 DEF Sound, ResultStates
    <2> HIDE DEF u
    <2>4. u.status[r] = "empty" /\ \A q \in Places : u.storage[q] # object
      <3>1. ASSUME NEW q \in Places PROVE u.storage[q] # object
        <4>1. CASE q = other
          BY <1>1, <2>1, <4>1 DEF Sound, Empty
        <4>2. CASE q # other
          BY <1>1, <2>1, <4>2 DEF Sound, Same, Hands
        <4> QED
          BY <4>1, <4>2
      <3> QED
        BY <2>1, <3>1 DEF Same, Hands
    <2>5. /\ Sound(t)
          /\ t.status[r] = object.kind /\ t.storage[r] = object
          /\ Same(u, t, Places \ {r})
      BY <2>1, <2>3, <2>4, CtorIs
    <2> HIDE DEF t, object
    <2>6. CASE e = [s |-> t, threw |-> FALSE]
      <3>1. Same(s, t, Places \ {r, other}) /\ Empty(t, other)
        BY <2>1, <2>5 DEF Same, Hands, Empty
      <3>2. Hands(s, t, r, other)
        BY <2>3, <2>5 DEF Hands, object
      <3> QED
        BY <2>5, <2>6, <3>1, <3>2 DEF Moved
    <2>7. CASE e = [s |-> u, threw |-> TRUE]
      <3>1. Same(s, u, Places \ {r, other})
        BY <2>1 DEF Same, Hands
      <3>2. Empty(u, r)
        BY <2>1, <2>4 DEF Empty, Sound
      <3> QED
        BY <2>1, <2>7, <3>1, <3>2 DEF Moved
    <2>8. CASE e = [s |-> s, threw |-> TRUE]
      BY <2>8 DEF Moved, Same, Hands, Empty, Sound
    <2> QED
      BY <2>2, <2>6, <2>7, <2>8
  <1>2. CASE s.status[other] \notin {"ok", "error"}
    <2> DEFINE u == Result!SetStatus(s, other, "empty")
    <2>1. s.status[other] = "empty" /\ s.storage[other] = Junk /\ s.storage[r] = Junk
      BY <1>2 DEF Sound, ResultStates, Result!Statuses, Result!Kinds
    <2>2. /\ Sound(u) /\ u.status[other] = "empty" /\ u.storage[other] = Junk
          /\ Same(s, u, Places \ {other})
      BY <2>1, NameIs
    <2>3. e = [s |-> u, threw |-> FALSE]
      BY <1>2 DEF Result!MoveIn, Result!Kinds, Result!Returned
    <2> HIDE DEF u
    <2> QED
      BY <2>1, <2>2, <2>3 DEF Moved, Same, Hands, Empty
  <1> QED
    BY <1>1, <1>2

(* What r held before a move into it does not matter.                      *)
LEMMA MovedFrom ==
  ASSUME NEW s, NEW u, NEW e, NEW r \in Places, NEW other \in Places, r # other,
         Same(s, u, Places \ {r}), Moved(u, e, r, other)
  PROVE  Moved(s, e, r, other)
  BY DEF Same, Hands, Moved

LEMMA MoveConstructIs ==
  ASSUME NEW s, Sound(s), NEW r \in Places, NEW other \in Places, r # other,
         s.status[r] = "unborn", s.status[other] # "unborn",
         NEW e \in Result!MoveConstruct(s, r, other)
  PROVE  Moved(s, e, r, other)
  <1> DEFINE u == Result!SetStatus(s, r, "empty")
  <1>1. Sound(u) /\ u.status[r] = "empty" /\ Same(s, u, Places \ {r})
    <2>1. s.storage[r] = Junk
      BY DEF Sound
    <2> QED
      BY <2>1, NameIs
  <1>2. e \in Result!MoveIn(u, r, other)
    BY DEF Result!MoveConstruct
  <1> HIDE DEF u
  <1>3. u.status[other] # "unborn"
    BY <1>1 DEF Same, Hands
  <1>4. Moved(u, e, r, other)
    BY <1>1, <1>2, <1>3, MoveInIs
  <1> QED
    BY <1>1, <1>4, MovedFrom

LEMMA AssignIs ==
  ASSUME NEW s, Sound(s), NEW r \in Places, NEW other \in Places,
         s.status[other] # "unborn", NEW e \in Result!Assign(s, r, other)
  PROVE  /\ r = other => e = [s |-> s, threw |-> FALSE]
         /\ r # other => Moved(s, e, r, other)
  <1>1. CASE r = other
    BY <1>1 DEF Result!Assign, Result!Returned
  <1>2. CASE r # other
    <2> DEFINE u == Result!SetStatus(Result!Destroy(s, r), r, "empty")
    <2>1. Sound(u) /\ u.status[r] = "empty" /\ Same(s, u, Places \ {r})
      BY ClearIs
    <2>2. e \in Result!MoveIn(u, r, other)
      BY <1>2 DEF Result!Assign
    <2> HIDE DEF u
    <2>3. u.status[other] # "unborn"
      BY <1>2, <2>1 DEF Same, Hands
    <2>4. Moved(u, e, r, other)
      BY <1>2, <2>1, <2>2, <2>3, MoveInIs
    <2> QED
      BY <1>2, <2>1, <2>4, MovedFrom
  <1> QED
    BY <1>1, <1>2

(* What t holds, s held.                                                   *)
From(s, t) ==
  \A q \in Places : t.storage[q] = Junk \/ \E p \in Places : t.storage[q] = s.storage[p]

LEMMA FromThrough ==
  ASSUME NEW s, NEW t, NEW u, From(s, t), From(t, u)
  PROVE  From(s, u)
  <1>1. ASSUME NEW q \in Places, u.storage[q] # Junk
        PROVE  \E p \in Places : u.storage[q] = s.storage[p]
    <2>1. PICK p \in Places : u.storage[q] = t.storage[p]
      BY <1>1 DEF From
    <2>2. PICK o \in Places : t.storage[p] = s.storage[o]
      BY <1>1, <2>1 DEF From
    <2> QED
      BY <2>1, <2>2
  <1> QED
    BY <1>1 DEF From

LEMMA MovedIsFrom ==
  ASSUME NEW s, NEW e, NEW r \in Places, NEW other \in Places, r # other,
         Moved(s, e, r, other)
  PROVE  From(s, e.s)
  <1>1. ASSUME NEW q \in Places
        PROVE  e.s.storage[q] = Junk \/ \E p \in Places : e.s.storage[q] = s.storage[p]
    <2>1. CASE q = r
      BY <2>1 DEF Moved, Hands, Empty
    <2>2. CASE q = other
      BY <2>2 DEF Moved, Hands, Empty
    <2>3. CASE q \notin {r, other}
      BY <2>3 DEF Moved, Same, Hands
    <2> QED
      BY <2>1, <2>2, <2>3
  <1> QED
    BY <1>1 DEF From

(* How a swap or another detour through Tmp ends: the temporary is gone,   *)
(* nothing was invented, and no variable outside Q changed.                *)
Detour(s, e, Q) ==
  /\ Sound(e.s) /\ Unborn(e.s, Tmp)
  /\ From(s, e.s) /\ Same(s, e.s, Results \ Q)

LEMMA DetourIs ==
  ASSUME NEW s, NEW e, Sound(e.s), NEW Q, From(s, e.s), Same(s, e.s, Results \ Q),
         NEW f, f = [e EXCEPT !.s = Result!Unborn(@, Tmp)],
         NEW t, NEW b \in BOOLEAN, e = [s |-> t, threw |-> b]
  PROVE  Detour(s, f, Q) /\ f.threw = b /\ Same(t, f.s, Results)
  <1> DEFINE u == Result!SetStatus(Result!Destroy(t, Tmp), Tmp, "unborn")
  <1>1. f = [s |-> u, threw |-> b]
    BY DEF Result!Unborn
  <1>2. Sound(u) /\ u.status[Tmp] = "unborn" /\ u.storage[Tmp] = Junk
        /\ Same(t, u, Places \ {Tmp})
    BY ClearIs DEF Places
  <1> HIDE DEF u
  <1>3. Same(t, u, Results)
    BY <1>2, ContainersAssumption DEF Same, Places
  <1>4. From(s, u)
    <2>1. ASSUME NEW q \in Places
          PROVE  u.storage[q] = Junk \/ \E p \in Places : u.storage[q] = s.storage[p]
      <3>1. CASE q = Tmp
        BY <1>2, <3>1
      <3>2. CASE q # Tmp
        BY <1>2, <3>2 DEF From, Same, Hands
      <3> QED
        BY <3>1, <3>2
    <2> QED
      BY <2>1 DEF From
  <1>5. Same(s, u, Results \ Q)
    BY <1>3 DEF Same, Hands
  <1> QED
    BY <1>1, <1>2, <1>3, <1>4, <1>5 DEF Detour, Unborn

(* The three moves of a swap, from f to the temporary, from g to f and     *)
(* from the temporary to g, each taken unless the one before threw.        *)
ThirdMove(y, g, e) ==
  \/ y.threw /\ e = [y EXCEPT !.s = Result!Unborn(@, Tmp)]
  \/ /\ ~y.threw
     /\ \E z \in Result!Assign(y.s, g, Tmp) : e = [z EXCEPT !.s = Result!Unborn(@, Tmp)]

SecondMove(x, f, g, e) ==
  \/ x.threw /\ e = [x EXCEPT !.s = Result!Unborn(@, Tmp)]
  \/ ~x.threw /\ \E y \in Result!Assign(x.s, f, g) : ThirdMove(y, g, e)

FirstMove(s, f, g, e) ==
  \E x \in Result!MoveConstruct(s, Tmp, f) : SecondMove(x, f, g, e)

Moves(s, a, b, e) == \E f, g \in {a, b} : {f, g} = {a, b} /\ FirstMove(s, f, g, e)

LEMMA SwapSteps ==
  ASSUME NEW s, NEW a \in Results, NEW b \in Results, NEW e \in Result!SwapEnds(s, a, b)
  PROVE  Moves(s, a, b, e)
  <1> DEFINE f == Result!FirstMoved(s, a, b)
             g == IF f = a THEN b ELSE a
             one == Result!MoveConstruct(s, Tmp, f)
             two == UNION {IF x.threw THEN {x} ELSE Result!Assign(x.s, f, g) : x \in one}
             three == UNION {IF y.threw THEN {y} ELSE Result!Assign(y.s, g, Tmp) : y \in two}
  <1>1. e \in {[z EXCEPT !.s = Result!Unborn(@, Tmp)] : z \in three}
    BY DEF Result!SwapEnds, Result!Then
  <1>2. f \in {a, b} /\ g \in {a, b} /\ {f, g} = {a, b}
    BY DEF Result!FirstMoved
  <1>3. PICK z \in three : e = [z EXCEPT !.s = Result!Unborn(@, Tmp)]
    BY <1>1
  <1>4. PICK y \in two : (y.threw /\ z = y) \/ (~y.threw /\ z \in Result!Assign(y.s, g, Tmp))
    OBVIOUS
  <1>5. PICK x \in one : (x.threw /\ y = x) \/ (~x.threw /\ y \in Result!Assign(x.s, f, g))
    OBVIOUS
  <1> HIDE DEF f, g, two, three
  <1> QED
    BY <1>2, <1>3, <1>4, <1>5 DEF one, Moves, FirstMove, SecondMove, ThirdMove

(* A swap that returns exchanges what a and b have, one that throws leaves *)
(* nothing anywhere that was not there, and neither touches a third.       *)
LEMMA SwapIs ==
  ASSUME NEW s, Sound(s), Unborn(s, Tmp), NEW a \in Results, NEW b \in Results,
         s.status[a] # "unborn", s.status[b] # "unborn",
         NEW e \in Result!SwapEnds(s, a, b)
  PROVE  /\ Detour(s, e, {a, b})
         /\ ~e.threw => Hands(s, e.s, a, b) /\ Hands(s, e.s, b, a)
  <1>1. PICK f, g \in {a, b} : {f, g} = {a, b} /\ FirstMove(s, f, g, e)
    <2>1. Moves(s, a, b, e)
      BY SwapSteps
    <2> QED
      BY <2>1 DEF Moves
  <1>2. PICK x \in Result!MoveConstruct(s, Tmp, f) : SecondMove(x, f, g, e)
    BY <1>1 DEF FirstMove
  <1>3. /\ f \in Results /\ g \in Results /\ f # Tmp /\ g # Tmp /\ a # Tmp /\ b # Tmp
        /\ {f, g} = {a, b}
    BY <1>1, ContainersAssumption
  <1>4. /\ Results \subseteq Places /\ Tmp \in Places
        /\ Results \ {a, b} \subseteq Places \ {Tmp, f}
        /\ Results \ {a, b} \subseteq Places \ {f, g}
        /\ Results \ {a, b} \subseteq Places \ {g, Tmp}
    BY <1>3, ContainersAssumption DEF Places
  <1>5. Moved(s, x, Tmp, f)
    <2>1. s.status[Tmp] = "unborn" /\ s.status[f] # "unborn"
      BY <1>1 DEF Unborn
    <2> QED
      BY <1>2, <1>3, <1>4, <2>1, MoveConstructIs
  <1>6. From(s, x.s) /\ Same(s, x.s, Results \ {a, b})
    <2>1. From(s, x.s)
      BY <1>3, <1>4, <1>5, MovedIsFrom
    <2> QED
      BY <1>4, <1>5, <2>1, SameOn DEF Moved
  <1>7. CASE x.threw
    <2>1. e = [x EXCEPT !.s = Result!Unborn(@, Tmp)] /\ x = [s |-> x.s, threw |-> TRUE]
      BY <1>2, <1>5, <1>7 DEF Moved, SecondMove
    <2>2. Detour(s, e, {a, b}) /\ e.threw = TRUE
      BY <1>5, <1>6, <2>1, DetourIs DEF Moved
    <2> QED
      BY <2>2
  <1>8. CASE ~x.threw
    <2>1. PICK y \in Result!Assign(x.s, f, g) : ThirdMove(y, g, e)
      BY <1>2, <1>8 DEF SecondMove
    <2>2. /\ Hands(s, x.s, Tmp, f) /\ Empty(x.s, f)
          /\ f # g => Hands(s, x.s, g, g)
      BY <1>3, <1>4, <1>5, <1>8 DEF Moved, Same
    <2>3. /\ f = g => y = [s |-> x.s, threw |-> FALSE]
          /\ f # g => Moved(x.s, y, f, g)
      <3>1. x.s.status[g] # "unborn" /\ Sound(x.s)
        BY <1>1, <1>5, <2>2 DEF Moved, Hands, Empty
      <3> QED
        BY <1>3, <1>4, <2>1, <3>1, AssignIs
    <2>4. /\ Sound(y.s) /\ y = [s |-> y.s, threw |-> y.threw] /\ y.threw \in BOOLEAN
          /\ From(s, y.s) /\ Same(s, y.s, Results \ {a, b})
      <3>1. CASE f = g
        <4>1. y = [s |-> x.s, threw |-> FALSE] /\ Sound(x.s)
          BY <1>5, <2>3, <3>1 DEF Moved
        <4> QED
          BY <1>6, <4>1
      <3>2. CASE f # g
        <4>1. From(x.s, y.s)
          BY <1>3, <1>4, <2>3, <3>2, MovedIsFrom
        <4>2. Same(s, y.s, Results \ {a, b})
          BY <1>4, <1>6, <2>3, <3>2, SameOn, SameThrough DEF Moved
        <4> QED
          BY <1>6, <2>3, <3>2, <4>1, <4>2, FromThrough DEF Moved
      <3> QED
        BY <3>1, <3>2
    <2>5. CASE y.threw
      <3>1. e = [y EXCEPT !.s = Result!Unborn(@, Tmp)] /\ y = [s |-> y.s, threw |-> TRUE]
        BY <2>1, <2>4, <2>5 DEF ThirdMove
      <3>2. Sound(y.s) /\ From(s, y.s) /\ Same(s, y.s, Results \ {a, b})
        BY <2>4
      <3>3. Detour(s, e, {a, b}) /\ e.threw = TRUE
        BY <3>1, <3>2, DetourIs
      <3> QED
        BY <3>3
    <2>6. CASE ~y.threw
      <3>1. PICK z \in Result!Assign(y.s, g, Tmp) : e = [z EXCEPT !.s = Result!Unborn(@, Tmp)]
        BY <2>1, <2>6 DEF ThirdMove
      <3>2. /\ Hands(s, y.s, Tmp, f)
            /\ f # g => Hands(s, y.s, f, g) /\ Empty(y.s, g)
        <4>1. CASE f = g
          BY <2>2, <2>3, <4>1
        <4>2. CASE f # g
          BY <1>3, <1>4, <2>2, <2>3, <2>6, <4>2 DEF Moved, Same, Hands
        <4> QED
          BY <4>1, <4>2
      <3>3. Moved(y.s, z, g, Tmp)
        <4>1. y.s.status[Tmp] # "unborn"
          BY <1>1, <3>2 DEF Hands
        <4> QED
          BY <1>3, <1>4, <2>4, <3>1, <4>1, AssignIs
      <3>4. From(s, z.s) /\ Same(s, z.s, Results \ {a, b})
        <4>1. From(y.s, z.s)
          BY <1>3, <1>4, <3>3, MovedIsFrom
        <4>2. Same(s, z.s, Results \ {a, b})
          BY <1>4, <2>4, <3>3, SameOn, SameThrough DEF Moved
        <4> QED
          BY <2>4, <4>1, <4>2, FromThrough
      <3>5. Detour(s, e, {a, b}) /\ e.threw = z.threw /\ Same(z.s, e.s, Results)
        BY <3>1, <3>3, <3>4, DetourIs DEF Moved
      <3>6. ASSUME ~z.threw PROVE Hands(s, z.s, g, f) /\ Hands(s, z.s, f, g)
        <4>1. Hands(s, z.s, g, f)
          BY <3>2, <3>3, <3>6 DEF Moved, Hands
        <4>2. CASE f = g
          BY <4>1, <4>2
        <4>3. CASE f # g
          BY <1>3, <1>4, <3>2, <3>3, <4>1, <4>3 DEF Moved, Same, Hands
        <4> QED
          BY <4>2, <4>3
      <3>7. ~e.threw => Hands(s, e.s, g, f) /\ Hands(s, e.s, f, g)
        BY <1>3, <3>5, <3>6 DEF Same, Hands
      <3> QED
        BY <1>3, <3>5, <3>7
    <2> QED
      BY <2>4, <2>5, <2>6
  <1> QED
    BY <1>5, <1>7, <1>8 DEF Moved

(* Between operations the temporary of swap does not exist.                *)
ResultInv == Sound(res) /\ Unborn(res, Tmp)

(* What an operation that moves other into r makes of s.                   *)
Handed(s, t, r, other, threw) ==
  /\ Sound(t) /\ Unborn(t, Tmp) /\ From(s, t)
  /\ Same(s, t, Results \ {r, other})
  /\ ~threw /\ r # other => Hands(s, t, r, other) /\ Empty(t, other)
  /\ ~threw /\ r = other => Hands(s, t, r, r)

Exchanged(s, t, a, b, threw) ==
  /\ Sound(t) /\ Unborn(t, Tmp) /\ From(s, t)
  /\ Same(s, t, Results \ {a, b})
  /\ ~threw => Hands(s, t, a, b) /\ Hands(s, t, b, a)

LEMMA ResultConstruct ==
  ASSUME ResultInv, NEW r \in Results, Result!Construct(r)
  PROVE  ResultInv'
  <1> DEFINE s == Result!SetStatus(res, r, "empty")
  <1>1. PICK kind \in {"ok", "error"}, token \in Items \ Result!Held :
          res' = Result!Ctor(s, r, [kind |-> kind, token |-> token])
    BY DEF Result!Construct, Result!Kinds, Result!Object
  <1> DEFINE object == [kind |-> kind, token |-> token]
  <1>2. r \in Places /\ r # Tmp /\ Tmp \in Places
    BY ContainersAssumption DEF Places
  <1>3. res.storage[r] = Junk
    BY <1>2 DEF ResultInv, Sound, Result!Construct, Result!Alive
  <1>4. Sound(s) /\ s.status[r] = "empty" /\ s.storage[r] = Junk /\ Same(res, s, Places \ {r})
    BY <1>2, <1>3, NameIs DEF ResultInv
  <1> HIDE DEF s
  <1>5. object \in Objects /\ object # Junk
    BY ContainersAssumption DEF Objects
  <1>6. ASSUME NEW q \in Places PROVE s.storage[q] # object
    <2>1. CASE s.storage[q] = Junk
      BY <1>5, <2>1
    <2>2. CASE s.storage[q] # Junk
      <3>1. q # r /\ res.storage[q] = s.storage[q]
        BY <1>4, <2>2 DEF Same, Hands
      <3>2. q \in Results
        BY <2>2, <3>1 DEF Places, ResultInv, Unborn
      <3>3. res.storage[q].token \in Result!Held
        BY <2>2, <3>1, <3>2 DEF Result!Held
      <3>4. object.token = token /\ token \notin Result!Held
        OBVIOUS
      <3> HIDE DEF object
      <3> QED
        BY <3>1, <3>3, <3>4
    <2> QED
      BY <2>1, <2>2
  <1>7. res' = Result!Ctor(s, r, object)
    BY <1>1
  <1> HIDE DEF object
  <1>8. Sound(res') /\ Same(s, res', Places \ {r})
    BY <1>2, <1>4, <1>5, <1>6, <1>7, CtorIs
  <1> QED
    BY <1>2, <1>4, <1>8 DEF ResultInv, Unborn, Same, Hands

LEMMA ResultConstructFrom ==
  ASSUME ResultInv, NEW r \in Results, NEW other \in Results, Result!ConstructFrom(r, other)
  PROVE  Handed(res, res', r, other, last'.threw)
  <1>1. PICK x \in Result!MoveConstruct(res, r, other) :
          LET e == IF x.threw THEN [x EXCEPT !.s = Result!SetStatus(@, r, "unborn")] ELSE x
          IN  res' = e.s /\ last'.threw = e.threw
    <2> DEFINE finish(x) == IF x.threw THEN [x EXCEPT !.s = Result!SetStatus(@, r, "unborn")] ELSE x
    <2>1. PICK e \in {finish(x) : x \in Result!MoveConstruct(res, r, other)} :
            res' = e.s /\ last'.threw = e.threw
      BY DEF Result!ConstructFrom, Result!Ends, Result!Did
    <2> HIDE DEF finish
    <2>2. PICK x \in Result!MoveConstruct(res, r, other) : e = finish(x)
      OBVIOUS
    <2> QED
      BY <2>1, <2>2 DEF finish
  <1>2. /\ r \in Places /\ other \in Places /\ Tmp \in Places /\ r # Tmp /\ other # Tmp
        /\ Tmp \in Places \ {r, other}
        /\ Results \ {r, other} \subseteq Places \ {r, other}
        /\ Results \ {r, other} \subseteq Places \ {r}
    BY ContainersAssumption DEF Places
  <1>3. res.status[r] = "unborn" /\ res.status[other] # "unborn" /\ r # other
    BY DEF Result!ConstructFrom, Result!Alive
  <1>4. Moved(res, x, r, other) /\ From(res, x.s) /\ Same(res, x.s, Results \ {r, other})
    <2>1. Moved(res, x, r, other)
      BY <1>1, <1>2, <1>3, MoveConstructIs DEF ResultInv
    <2> QED
      BY <1>2, <1>3, <2>1, MovedIsFrom, SameOn DEF Moved
  <1>5. Unborn(x.s, Tmp)
    BY <1>2, <1>4 DEF Moved, Same, Hands, ResultInv, Unborn
  <1>6. CASE ~x.threw
    <2>1. res' = x.s /\ ~last'.threw
      BY <1>1, <1>6
    <2> QED
      BY <1>3, <1>4, <1>5, <1>6, <2>1 DEF Handed, Moved
  <1>7. CASE x.threw
    <2>1. res' = Result!SetStatus(x.s, r, "unborn") /\ last'.threw
      BY <1>1, <1>4, <1>7 DEF Moved
    <2>2. /\ Sound(res') /\ res'.storage[r] = Junk /\ Same(x.s, res', Places \ {r})
      BY <1>2, <1>4, <1>7, <2>1, NameIs DEF Moved, Empty
    <2>3. Unborn(res', Tmp)
      BY <1>2, <1>5, <2>2 DEF Same, Hands, Unborn
    <2>4. From(res, res')
      <3>1. ASSUME NEW q \in Places
            PROVE  res'.storage[q] = Junk \/ \E p \in Places : res'.storage[q] = res.storage[p]
        <4>1. CASE q = r
          BY <2>2, <4>1
        <4>2. CASE q # r
          BY <1>4, <2>2, <4>2 DEF From, Same, Hands
        <4> QED
          BY <4>1, <4>2
      <3> QED
        BY <3>1 DEF From
    <2>5. Same(res, res', Results \ {r, other})
      BY <1>2, <1>4, <2>2, SameOn, SameThrough
    <2> QED
      BY <1>3, <2>1, <2>2, <2>3, <2>4, <2>5 DEF Handed
  <1> QED
    BY <1>4, <1>6, <1>7 DEF Moved

LEMMA ResultAssignFrom ==
  ASSUME ResultInv, NEW r \in Results, NEW other \in Results, Result!AssignFrom(r, other)
  PROVE  Handed(res, res', r, other, last'.threw)
  <1>1. PICK e \in Result!Assign(res, r, other) : res' = e.s /\ last'.threw = e.threw
    BY DEF Result!AssignFrom, Result!Ends, Result!Did
  <1>2. /\ r \in Places /\ other \in Places /\ Tmp \in Places
        /\ Tmp \in Places \ {r, other}
        /\ Results \ {r, other} \subseteq Places \ {r, other}
    BY ContainersAssumption DEF Places
  <1>3. /\ r = other => e = [s |-> res, threw |-> FALSE]
        /\ r # other => Moved(res, e, r, other)
    BY <1>1, <1>2, AssignIs DEF ResultInv, Result!AssignFrom, Result!Alive
  <1>4. CASE r = other
    <2>1. res' = res /\ ~last'.threw
      BY <1>1, <1>3, <1>4
    <2> QED
      BY <1>4, <2>1 DEF Handed, ResultInv, From, Same, Hands
  <1>5. CASE r # other
    <2>1. Moved(res, e, r, other) /\ From(res, res') /\ Same(res, res', Results \ {r, other})
      BY <1>1, <1>2, <1>3, <1>5, MovedIsFrom, SameOn DEF Moved
    <2>2. Unborn(res', Tmp)
      BY <1>1, <1>2, <2>1 DEF Moved, Same, Hands, ResultInv, Unborn
    <2> QED
      BY <1>1, <1>5, <2>1, <2>2 DEF Handed, Moved
  <1> QED
    BY <1>4, <1>5

LEMMA ResultSwap ==
  ASSUME ResultInv, NEW a \in Results, NEW b \in Results, Result!Swap(a, b)
  PROVE  Exchanged(res, res', a, b, last'.threw)
  <1>1. PICK e \in Result!SwapEnds(res, a, b) : res' = e.s /\ last'.threw = e.threw
    BY DEF Result!Swap, Result!Ends, Result!Did
  <1>2. /\ Detour(res, e, {a, b})
        /\ ~e.threw => Hands(res, e.s, a, b) /\ Hands(res, e.s, b, a)
    BY <1>1, SwapIs DEF ResultInv, Result!Swap, Result!Alive
  <1> QED
    BY <1>1, <1>2 DEF Detour, Exchanged

LEMMA ResultTakeOut ==
  ASSUME ResultInv, NEW r \in Results, Result!TakeOut(r)
  PROVE  ResultInv'
  <1>1. res' = Result!Take(res, r) \/ res' = res
    BY DEF Result!TakeOut, Result!Ends, Result!Returned, Result!Threw
  <1>2. r \in Places /\ r # Tmp /\ Tmp \in Places
    BY ContainersAssumption DEF Places
  <1>3. CASE res' = Result!Take(res, r)
    <2>1. Sound(res') /\ Same(res, res', Places \ {r})
      BY <1>2, <1>3, TakeIs DEF ResultInv, Result!TakeOut, Result!Kinds
    <2> QED
      BY <1>2, <2>1 DEF ResultInv, Unborn, Same, Hands
  <1> QED
    BY <1>1, <1>3 DEF ResultInv

LEMMA ResultMovRet ==
  ASSUME ResultInv, NEW r \in Results, Result!MovRet(r)
  PROVE  ResultInv'
  <1> DEFINE ends == Result!MoveConstruct(res, Tmp, r)
             step(t) == {[s |-> Result!Take(t, Tmp), threw |-> FALSE], [s |-> t, threw |-> TRUE]}
             both == UNION {IF x.threw THEN {x} ELSE step(x.s) : x \in ends}
  <1>1. PICK e \in {[y EXCEPT !.s = Result!Unborn(@, Tmp)] : y \in both} : res' = e.s
    BY DEF Result!MovRet, Result!Ends, Result!Then, Result!Returned, Result!Threw
  <1>2. PICK y \in both : e = [y EXCEPT !.s = Result!Unborn(@, Tmp)]
    OBVIOUS
  <1>3. PICK x \in ends : (x.threw /\ y = x) \/ (~x.threw /\ y \in step(x.s))
    OBVIOUS
  <1>4. r \in Places /\ r # Tmp /\ Tmp \in Places
    BY ContainersAssumption DEF Places
  <1> HIDE DEF ends, both
  <1>5. Moved(res, x, Tmp, r)
    BY <1>3, <1>4, MoveConstructIs DEF ends, ResultInv, Unborn, Result!MovRet, Result!Kinds
  <1>6. Sound(y.s) /\ y = [s |-> y.s, threw |-> y.threw]
    <2>1. CASE x.threw
      BY <1>3, <1>5, <2>1 DEF Moved
    <2>2. CASE ~x.threw
      <3>1. x.s.status[Tmp] \in {"ok", "error"} /\ Sound(x.s)
        BY <1>5, <2>2 DEF Moved, Hands, Result!MovRet, Result!Kinds
      <3>2. Sound(Result!Take(x.s, Tmp))
        BY <1>4, <3>1, TakeIs
      <3> QED
        BY <1>3, <2>2, <3>1, <3>2
    <2> QED
      BY <2>1, <2>2
  <1> HIDE DEF step
  <1>7. res' = Result!Unborn(y.s, Tmp)
    BY <1>1, <1>2, <1>6
  <1>8. Sound(res') /\ res'.status[Tmp] = "unborn" /\ res'.storage[Tmp] = Junk
    BY <1>4, <1>6, <1>7, ClearIs DEF Result!Unborn
  <1> QED
    BY <1>8 DEF ResultInv, Unborn

LEMMA ResultDrop ==
  ASSUME ResultInv, NEW r \in Results, Result!Drop(r)
  PROVE  ResultInv'
  <1>1. r \in Places /\ r # Tmp /\ Tmp \in Places
    BY ContainersAssumption DEF Places
  <1>2. Sound(res') /\ Same(res, res', Places \ {r})
    BY <1>1, ClearIs DEF ResultInv, Result!Drop, Result!Unborn
  <1> QED
    BY <1>1, <1>2 DEF ResultInv, Unborn, Same, Hands

LEMMA ResultStart == Result!Init => ResultInv
  <1> SUFFICES ASSUME Result!Init PROVE ResultInv
    OBVIOUS
  <1>1. res.status \in [Places -> Result!Statuses] /\ res.storage \in [Places -> {Junk} \cup Objects]
    BY DEF Result!Init, Result!Statuses, Places
  <1>2. Tmp \in Places
    BY DEF Places
  <1> QED
    BY <1>1, <1>2
       DEF ResultInv, Sound, ResultStates, Unborn, Result!Init, Places

LEMMA ResultNextInv ==
  ResultInv /\ [Result!Next]_Result!vars => ResultInv'
  <1> SUFFICES ASSUME ResultInv, [Result!Next]_Result!vars PROVE ResultInv'
    OBVIOUS
  <1>1. CASE UNCHANGED Result!vars
    BY <1>1 DEF Result!vars, ResultInv
  <1>2. ASSUME NEW r \in Results,
               Result!Construct(r) \/ Result!TakeOut(r) \/ Result!MovRet(r) \/ Result!Drop(r)
        PROVE  ResultInv'
    BY <1>2, ResultConstruct, ResultTakeOut, ResultMovRet, ResultDrop
  <1>3. ASSUME NEW r \in Results, NEW other \in Results,
               Result!ConstructFrom(r, other) \/ Result!AssignFrom(r, other)
        PROVE  ResultInv'
    BY <1>3, ResultConstructFrom, ResultAssignFrom DEF Handed, ResultInv
  <1>4. ASSUME NEW r \in Results, NEW other \in Results, Result!Swap(r, other)
        PROVE  ResultInv'
    BY <1>4, ResultSwap DEF Exchanged, ResultInv
  <1> QED
    BY <1>1, <1>2, <1>3, <1>4 DEF Result!Next

(* Whatever throws, in whichever operation and after whichever calls, a    *)
(* result never destroys twice, builds over or forgets an object, its      *)
(* status says what its storage holds, and no object is in two results     *)
(* (Result.h:242-497).                                                     *)
THEOREM LifetimesKept == Result!Spec => []ResultLifetimes
  <1>1. ResultInv => ResultLifetimes
    BY DEF ResultInv, Sound, ResultLifetimes, Result!Lifetimes, Result!Kinds, Places
  <1> QED
    BY <1>1, ResultStart, ResultNextInv, PTL DEF Result!Spec

-----------------------------------------------------------------------------
(* Results without a union.                                                *)

(* A value is in one result at a time, and what a caller was given is in   *)
(* none, except for plain pointers.                                        *)
BareInv ==
  /\ Bare!TypeOK
  /\ \A r \in Results : r \notin born => content[r] = Junk
  /\ \A q, r \in Results : content[q] \in Items /\ content[q] = content[r] => q = r
  /\ form # "pointer" =>
       /\ \A t \in Items : taken[t] <= 1
       /\ \A r \in Results : content[r] \in Items => taken[content[r]] = 0

(* Only taking or ending its variable makes a value go away.               *)
BareKeeps ==
  \A r \in Results :
    content[r] \in Items /\ (\A q \in Results : content'[q] # content[r]) =>
      bdid'.on = r /\ bdid'.op \in {"take", "drop"}

LEMMA BareStart == Bare!Init => BareInv
  BY QueueAssumption DEF Bare!Init, BareInv, Bare!TypeOK

LEMMA BareConstruct ==
  ASSUME BareInv, NEW r \in Results, Bare!Construct(r)
  PROVE  BareInv' /\ BareKeeps
  <1>1. PICK c \in Bare!Unused \cup {Failure} :
          /\ content' = [content EXCEPT ![r] = c]
          /\ born' = born \cup {r} /\ UNCHANGED <<form, taken>>
    BY DEF Bare!Construct
  <1>2. c # Failure => c \in Items /\ taken[c] = 0 /\ \A q \in Results : content[q] # c
    BY <1>1 DEF Bare!Unused
  <1>3. Failure \notin Items /\ Junk \notin Items /\ r \notin born
    BY QueueAssumption, ContainersAssumption DEF Bare!Construct
  <1>4. BareInv'
    BY <1>1, <1>2, <1>3 DEF BareInv, Bare!TypeOK
  <1>5. BareKeeps
    BY <1>1, <1>3 DEF BareInv, Bare!TypeOK, BareKeeps
  <1> QED
    BY <1>4, <1>5

LEMMA BareConstructFrom ==
  ASSUME BareInv, NEW r \in Results, NEW other \in Results, Bare!ConstructFrom(r, other)
  PROVE  BareInv' /\ BareKeeps
  <1>1. PICK c \in {Junk, Failure} :
          /\ content' = [content EXCEPT ![r] = content[other], ![other] = c]
          /\ born' = born \cup {r} /\ UNCHANGED <<form, taken>>
    BY DEF Bare!ConstructFrom
  <1>2. Failure \notin Items /\ Junk \notin Items /\ r \notin born /\ other \in born
    BY QueueAssumption, ContainersAssumption DEF Bare!ConstructFrom
  <1>3. /\ content'[r] = content[other] /\ content'[other] = c /\ content[r] = Junk
        /\ \A q \in Results \ {r, other} : content'[q] = content[q]
    BY <1>1, <1>2 DEF BareInv, Bare!TypeOK
  <1>4. Bare!TypeOK'
    BY <1>1, <1>2 DEF BareInv, Bare!TypeOK
  <1>5. BareInv'
    <2>1. \A q \in Results : q \notin born' => content'[q] = Junk
      BY <1>1, <1>2, <1>3 DEF BareInv
    <2>2. ASSUME NEW q \in Results, NEW p \in Results,
                 content'[q] \in Items, content'[q] = content'[p]
          PROVE  q = p
      <3>1. q # other /\ p # other
        BY <1>2, <1>3, <2>2
      <3> QED
        BY <1>2, <1>3, <2>2, <3>1 DEF BareInv
    <2>3. ASSUME form # "pointer"
          PROVE  /\ \A t \in Items : taken'[t] <= 1
                 /\ \A q \in Results : content'[q] \in Items => taken'[content'[q]] = 0
      <3>1. \A t \in Items : taken'[t] <= 1
        BY <1>1, <2>3 DEF BareInv
      <3>2. ASSUME NEW q \in Results, content'[q] \in Items PROVE taken'[content'[q]] = 0
        <4>1. \E p \in Results : content'[q] = content[p]
          BY <1>2, <1>3, <3>2
        <4> QED
          BY <1>1, <2>3, <3>2, <4>1 DEF BareInv
      <3> QED
        BY <3>1, <3>2
    <2> QED
      BY <1>1, <1>4, <2>1, <2>2, <2>3 DEF BareInv
  <1>6. BareKeeps
    BY <1>2, <1>3 DEF BareKeeps
  <1> QED
    BY <1>5, <1>6

LEMMA BareSwap ==
  ASSUME BareInv, NEW r \in Results, NEW other \in Results, NEW op, Bare!Swap(r, other, op)
  PROVE  BareInv' /\ BareKeeps
  <1>1. /\ content' = [content EXCEPT ![r] = content[other], ![other] = content[r]]
        /\ UNCHANGED <<form, born, taken>> /\ r \in born /\ other \in born
    BY DEF Bare!Swap
  <1>2. /\ content'[r] = content[other] /\ content'[other] = content[r]
        /\ \A q \in Results \ {r, other} : content'[q] = content[q]
    BY <1>1 DEF BareInv, Bare!TypeOK
  <1>3. Bare!TypeOK'
    BY <1>1 DEF BareInv, Bare!TypeOK
  <1>4. BareInv'
    <2>1. \A q \in Results : q \notin born' => content'[q] = Junk
      BY <1>1, <1>2 DEF BareInv
    <2>2. ASSUME NEW q \in Results, NEW p \in Results,
                 content'[q] \in Items, content'[q] = content'[p]
          PROVE  q = p
      <3>1. CASE q \in {r, other}
        BY <1>2, <2>2, <3>1 DEF BareInv
      <3>2. CASE q \notin {r, other}
        BY <1>2, <2>2, <3>2 DEF BareInv
      <3> QED
        BY <3>1, <3>2
    <2>3. ASSUME form # "pointer"
          PROVE  /\ \A t \in Items : taken'[t] <= 1
                 /\ \A q \in Results : content'[q] \in Items => taken'[content'[q]] = 0
      <3>1. \A t \in Items : taken'[t] <= 1
        BY <1>1, <2>3 DEF BareInv
      <3>2. ASSUME NEW q \in Results, content'[q] \in Items PROVE taken'[content'[q]] = 0
        <4>1. \E p \in Results : content'[q] = content[p]
          BY <1>2
        <4> QED
          BY <1>1, <2>3, <3>2, <4>1 DEF BareInv
      <3> QED
        BY <3>1, <3>2
    <2> QED
      BY <1>1, <1>3, <2>1, <2>2, <2>3 DEF BareInv
  <1>5. BareKeeps
    BY <1>2 DEF BareKeeps
  <1> QED
    BY <1>4, <1>5

LEMMA BareTake ==
  ASSUME BareInv, NEW r \in Results, Bare!Take(r)
  PROVE  BareInv' /\ BareKeeps
  <1>1. /\ content[r] \in Items /\ r \in born
        /\ content' = [content EXCEPT ![r] = Bare!Rest(r)]
        /\ taken' = [taken EXCEPT ![content[r]] = @ + 1]
        /\ UNCHANGED <<form, born>> /\ bdid'.on = r /\ bdid'.op = "take"
    BY DEF Bare!Take, Bare!Good, Bare!Did
  <1>2. /\ Bare!Rest(r) \in {Junk, Failure, content[r]}
        /\ form # "pointer" => Bare!Rest(r) \in {Junk, Failure}
    BY DEF Bare!Rest, BareInv, Bare!TypeOK
  <1>3. Failure \notin Items /\ Junk \notin Items
    BY QueueAssumption, ContainersAssumption
  <1>4. Bare!TypeOK'
    BY <1>1, <1>2 DEF BareInv, Bare!TypeOK
  <1>5. \A q \in Results : q # r => content'[q] = content[q]
    BY <1>1 DEF BareInv, Bare!TypeOK
  <1>6. content'[r] = Bare!Rest(r)
    BY <1>1 DEF BareInv, Bare!TypeOK
  <1>7. \A q, p \in Results : content'[q] \in Items /\ content'[q] = content'[p] => q = p
    BY <1>2, <1>3, <1>5, <1>6 DEF BareInv
  <1>8. ASSUME form # "pointer"
        PROVE  /\ \A t \in Items : taken'[t] <= 1
               /\ \A q \in Results : content'[q] \in Items => taken'[content'[q]] = 0
    <2>1. ASSUME NEW t \in Items PROVE taken'[t] <= 1
      BY <1>1, <1>8, <2>1 DEF BareInv, Bare!TypeOK
    <2>2. ASSUME NEW q \in Results, content'[q] \in Items PROVE taken'[content'[q]] = 0
      <3>1. q # r /\ content'[q] = content[q] /\ content[q] # content[r]
        BY <1>1, <1>2, <1>3, <1>5, <1>6, <1>8, <2>2 DEF BareInv
      <3> QED
        BY <1>1, <1>8, <2>2, <3>1 DEF BareInv, Bare!TypeOK
    <2> QED
      BY <2>1, <2>2
  <1>9. BareInv'
    BY <1>1, <1>4, <1>5, <1>7, <1>8 DEF BareInv
  <1> QED
    BY <1>1, <1>5, <1>9 DEF BareKeeps

LEMMA BareTakeError ==
  ASSUME BareInv, NEW r \in Results, Bare!TakeError(r)
  PROVE  BareInv' /\ BareKeeps
  <1>1. PICK c \in {Junk, Failure} :
          content' = [content EXCEPT ![r] = c] /\ UNCHANGED <<form, born, taken>>
    BY DEF Bare!TakeError, Bare!Bad
  <1>2. Failure \notin Items /\ Junk \notin Items /\ content[r] = Failure /\ r \in born
    BY QueueAssumption, ContainersAssumption DEF Bare!TakeError, Bare!Bad
  <1>3. BareInv'
    BY <1>1, <1>2 DEF BareInv, Bare!TypeOK
  <1>4. BareKeeps
    BY <1>1, <1>2 DEF BareInv, Bare!TypeOK, BareKeeps
  <1> QED
    BY <1>3, <1>4

LEMMA BareDrop ==
  ASSUME BareInv, NEW r \in Results, Bare!Drop(r)
  PROVE  BareInv' /\ BareKeeps
  <1>1. /\ content' = [content EXCEPT ![r] = Junk] /\ born' = born \ {r}
        /\ UNCHANGED <<form, taken>> /\ bdid'.on = r /\ bdid'.op = "drop"
    BY DEF Bare!Drop, Bare!Did
  <1>2. Junk \notin Items
    BY QueueAssumption
  <1>3. BareInv'
    BY <1>1, <1>2 DEF BareInv, Bare!TypeOK
  <1>4. BareKeeps
    BY <1>1, <1>2 DEF BareInv, Bare!TypeOK, BareKeeps
  <1> QED
    BY <1>3, <1>4

LEMMA BareStep ==
  BareInv /\ [Bare!Next]_Bare!vars => BareInv' /\ [BareKeeps]_Bare!vars
  <1> SUFFICES ASSUME BareInv, [Bare!Next]_Bare!vars
               PROVE  BareInv' /\ (BareKeeps \/ UNCHANGED Bare!vars)
    OBVIOUS
  <1>1. CASE UNCHANGED Bare!vars
    BY <1>1 DEF Bare!vars, BareInv, Bare!TypeOK
  <1>2. CASE Bare!Next
    BY <1>2, BareConstruct, BareConstructFrom, BareSwap, BareTake, BareTakeError, BareDrop
       DEF Bare!Next
  <1> QED
    BY <1>1, <1>2

LEMMA BareMovesExact == Bare!Spec => Bare!MovesExact
  <1>1. BareInv =>
          /\ \A q, r \in Results : content[q] \in Items /\ content[q] = content[r] => q = r
          /\ form # "pointer" => \A t \in Items : taken[t] <= 1
    BY DEF BareInv
  <1>2. BareInv /\ [Bare!Next]_Bare!vars =>
          [\A r \in Results :
             content[r] \in Items /\ (\A q \in Results : content'[q] # content[r]) =>
               bdid'.on = r /\ bdid'.op \in {"take", "drop"}]_Bare!vars
    BY BareStep DEF BareKeeps
  <1> QED
    BY <1>1, <1>2, BareStart, BareStep, PTL DEF Bare!Spec, Bare!MovesExact

LEMMA HeldStays ==
  ASSUME ResultInv, From(res, res')
  PROVE  Result!Held' \subseteq Result!Held
  <1>1. ASSUME NEW q \in Results, res'.storage[q] # Junk
        PROVE  res'.storage[q].token \in Result!Held
    <2>1. PICK p \in Places : res'.storage[q] = res.storage[p]
      BY <1>1 DEF From, Places
    <2>2. p \in Results /\ res.storage[p] # Junk
      BY <1>1, <2>1 DEF Places, ResultInv, Unborn
    <2> QED
      BY <2>1, <2>2 DEF Result!Held
  <1> QED
    BY <1>1 DEF Result!Held

(* What a step of results does, as MovesExact says it.                     *)
ResultMoves ==
  \A r, other \in Results :
    last'.op \in {"move", "swap"} /\ last'.on = r /\ last'.from = other =>
      /\ ~last'.threw /\ r # other =>
           /\ Result!Content(r)' = Result!Content(other)
           /\ last'.op = "swap" => Result!Content(other)' = Result!Content(r)
           /\ last'.op = "move" => Result!Content(other)' = <<"empty", Junk>>
      /\ ~last'.threw /\ r = other => Result!Content(r)' = Result!Content(r)
      /\ last'.threw => Result!Held' \subseteq Result!Held
      /\ \A q \in Results \ {r, other} : Result!Content(q)' = Result!Content(q)

LEMMA ResultStep ==
  ASSUME ResultInv, Result!Next
  PROVE  ResultMoves
  <1>1. ASSUME NEW r \in Results,
               Result!Construct(r) \/ Result!TakeOut(r) \/ Result!MovRet(r) \/ Result!Drop(r)
        PROVE  ResultMoves
    <2>1. /\ Result!Construct(r) \/ Result!Drop(r) => last'.op \in {"construct", "drop"}
          /\ Result!TakeOut(r) => last'.op = "take"
          /\ Result!MovRet(r) => last'.op = "take"
      <3>1. Result!Construct(r) \/ Result!Drop(r) => last'.op \in {"construct", "drop"}
        BY DEF Result!Construct, Result!Drop, Result!Did
      <3>2. Result!TakeOut(r) => last'.op = "take"
        BY DEF Result!TakeOut, Result!Ends, Result!Did
      <3>3. ASSUME NEW ends, Result!Ends("take", r, r, ends) PROVE last'.op = "take"
        BY <3>3 DEF Result!Ends, Result!Did
      <3>4. Result!MovRet(r) => last'.op = "take"
        BY <3>3 DEF Result!MovRet
      <3> QED
        BY <3>1, <3>2, <3>4
    <2> QED
      BY <1>1, <2>1 DEF ResultMoves
  <1>2. ASSUME NEW r \in Results, NEW other \in Results,
               Result!ConstructFrom(r, other) \/ Result!AssignFrom(r, other)
        PROVE  ResultMoves
    <2>1. Handed(res, res', r, other, last'.threw)
      BY <1>2, ResultConstructFrom, ResultAssignFrom
    <2>2. last'.op = "move" /\ last'.on = r /\ last'.from = other
      BY <1>2 DEF Result!ConstructFrom, Result!AssignFrom, Result!Ends, Result!Did
    <2>3. Result!Held' \subseteq Result!Held
      BY <2>1, HeldStays DEF Handed
    <2> QED
      BY <2>1, <2>2, <2>3 DEF ResultMoves, Handed, Same, Hands, Empty, Result!Content
  <1>3. ASSUME NEW r \in Results, NEW other \in Results, Result!Swap(r, other)
        PROVE  ResultMoves
    <2>1. Exchanged(res, res', r, other, last'.threw)
      BY <1>3, ResultSwap
    <2>2. last'.op = "swap" /\ last'.on = r /\ last'.from = other
      BY <1>3 DEF Result!Swap, Result!Ends, Result!Did
    <2>3. Result!Held' \subseteq Result!Held
      BY <2>1, HeldStays DEF Exchanged
    <2> QED
      BY <2>1, <2>2, <2>3 DEF ResultMoves, Exchanged, Same, Hands, Result!Content
  <1> QED
    BY <1>1, <1>2, <1>3 DEF Result!Next

(* Moves hand over and leave the source empty, swaps exchange in whichever *)
(* order they move, a result with itself included; one that throws invents *)
(* nothing and spares every third result (Result.h:302-400, 479-497).  In  *)
(* the results without a union a value is in one at a time, goes away only *)
(* when taken or dropped, and is taken once unless it is a plain pointer   *)
(* (Result.h:509-562, 579-653).                                            *)
THEOREM MovesHandOver == Result!Spec /\ Bare!Spec => ResultMovesExact
  <1>1. ResultInv /\ [Result!Next]_Result!vars =>
          [\A r, other \in Results :
             last'.op \in {"move", "swap"} /\ last'.on = r /\ last'.from = other =>
               /\ ~last'.threw /\ r # other =>
                    /\ Result!Content(r)' = Result!Content(other)
                    /\ last'.op = "swap" => Result!Content(other)' = Result!Content(r)
                    /\ last'.op = "move" => Result!Content(other)' = <<"empty", Junk>>
               /\ ~last'.threw /\ r = other => Result!Content(r)' = Result!Content(r)
               /\ last'.threw => Result!Held' \subseteq Result!Held
               /\ \A q \in Results \ {r, other} :
                    Result!Content(q)' = Result!Content(q)]_Result!vars
    BY ResultStep DEF ResultMoves
  <1>2. Result!Spec => Result!MovesExact
    BY <1>1, ResultStart, ResultNextInv, PTL DEF Result!Spec, Result!MovesExact
  <1> QED
    BY <1>2, BareMovesExact DEF ResultMovesExact

-----------------------------------------------------------------------------
(* The iterators of the queue.                                             *)

LEMMA LeastNatural ==
  ASSUME NEW T, T \subseteq Nat, T # {}
  PROVE  \E n \in T : \A m \in T : n <= m
  <1> DEFINE R == OpToRel(<, Nat)
  <1>1. IsWellFoundedOn(R, Nat)
    BY NatLessThanWellFounded
  <1>2. \A m, n \in Nat : <<m, n>> \in R <=> m < n
    BY DEF OpToRel
  <1> HIDE DEF R
  <1>3. \E n \in T : \A m \in T : <<m, n>> \notin R
    BY <1>1, WFMin
  <1>4. PICK n \in T : \A m \in T : <<m, n>> \notin R
    BY <1>3
  <1>5. ASSUME NEW m \in T PROVE n <= m
    <2>1. ~(m < n)
      BY <1>2, <1>4
    <2> QED
      BY <2>1
  <1> QED
    BY <1>4, <1>5

(* % Capacity of up to four turns.                                         *)
Turn(n) ==
  IF n < Capacity THEN n
  ELSE IF n < 2 * Capacity THEN n - Capacity
  ELSE IF n < 3 * Capacity THEN n - (2 * Capacity)
  ELSE n - (3 * Capacity)

LEMMA TurnWraps ==
  ASSUME NEW n \in Nat, n < 4 * Capacity
  PROVE  n % Capacity = Turn(n)
  <1> DEFINE q == n \div Capacity
             r == n % Capacity
  <1>1. q \in Int /\ r \in 0 .. Capacity - 1 /\ n = (Capacity * q) + r
    BY QueueAssumption
  <1> HIDE DEF q, r
  <1>2. q >= 0
    <2> SUFFICES ASSUME q <= -1 PROVE FALSE
      BY <1>1
    <2>1. Capacity * q <= -Capacity
      BY <1>1, QueueAssumption
    <2> QED
      BY <1>1, <2>1, QueueAssumption
  <1>3. q <= 3
    <2> SUFFICES ASSUME q >= 4 PROVE FALSE
      BY <1>1
    <2>1. Capacity * q >= 4 * Capacity
      BY <1>1, QueueAssumption
    <2> QED
      BY <1>1, <2>1, QueueAssumption
  <1>4. q = 0 \/ q = 1 \/ q = 2 \/ q = 3
    BY <1>1, <1>2, <1>3
  <1>5. r = Turn(n)
    BY <1>1, <1>4, QueueAssumption DEF Turn
  <1> QED
    BY <1>5 DEF r

(* What ++ and -- make of an index, and where b of them lead.              *)
LEMMA AheadIs ==
  ASSUME NEW i \in Slots, NEW f,
         f = [n \in 0 .. 2 * Capacity |-> IF n = 0 THEN i ELSE Increment(f[n - 1])]
  PROVE  \A n \in 0 .. 2 * Capacity : f[n] = Turn(i + n)
  <1> USE QueueAssumption DEF Slots
  <1> DEFINE T == {n \in 0 .. 2 * Capacity : f[n] # Turn(i + n)}
  <1> SUFFICES ASSUME T # {} PROVE FALSE
    OBVIOUS
  <1>0. T \subseteq Nat
    OBVIOUS
  <1> HIDE DEF T
  <1>1. PICK n \in T : \A m \in T : n <= m
    BY <1>0, LeastNatural
  <1>2. n \in 0 .. 2 * Capacity /\ f[n] # Turn(i + n)
    BY DEF T
  <1>3. n # 0
    BY <1>2 DEF Turn
  <1>4. n - 1 \in 0 .. 2 * Capacity /\ n - 1 \notin T
    <2>1. n - 1 \in 0 .. 2 * Capacity /\ ~(n <= n - 1)
      BY <1>2, <1>3
    <2> QED
      BY <1>1, <2>1
  <1>5. f[n - 1] = Turn(i + (n - 1))
    BY <1>4 DEF T
  <1>6. f[n] = (f[n - 1] + 1) % Capacity
    BY <1>2, <1>3 DEF Increment
  <1>7. f[n - 1] \in 0 .. Capacity - 1
    BY <1>2, <1>3, <1>5 DEF Turn
  <1>8. \A x \in 0 .. Capacity - 1 : (x + 1) % Capacity = Turn(x + 1)
    BY TurnWraps
  <1>9. f[n] = Turn(f[n - 1] + 1)
    BY <1>6, <1>7, <1>8
  <1> QED
    BY <1>2, <1>3, <1>5, <1>7, <1>9 DEF Turn

LEMMA BackIs ==
  ASSUME NEW i \in Slots, NEW f,
         f = [n \in 0 .. 2 * Capacity |-> IF n = 0 THEN i ELSE Decrement(f[n - 1])]
  PROVE  \A n \in 0 .. 2 * Capacity : f[n] = Turn(i + (2 * Capacity) - n)
  <1> USE QueueAssumption DEF Slots
  <1> DEFINE T == {n \in 0 .. 2 * Capacity : f[n] # Turn(i + (2 * Capacity) - n)}
  <1> SUFFICES ASSUME T # {} PROVE FALSE
    OBVIOUS
  <1>0. T \subseteq Nat
    OBVIOUS
  <1> HIDE DEF T
  <1>1. PICK n \in T : \A m \in T : n <= m
    BY <1>0, LeastNatural
  <1>2. n \in 0 .. 2 * Capacity /\ f[n] # Turn(i + (2 * Capacity) - n)
    BY DEF T
  <1>3. n # 0
    BY <1>2 DEF Turn
  <1>4. n - 1 \in 0 .. 2 * Capacity /\ n - 1 \notin T
    <2>1. n - 1 \in 0 .. 2 * Capacity /\ ~(n <= n - 1)
      BY <1>2, <1>3
    <2> QED
      BY <1>1, <2>1
  <1>5. f[n - 1] = Turn(i + (2 * Capacity) - (n - 1))
    BY <1>4 DEF T
  <1>6. f[n] = (f[n - 1] + Capacity - 1) % Capacity
    BY <1>2, <1>3 DEF Decrement
  <1>7. f[n - 1] \in 0 .. Capacity - 1
    BY <1>2, <1>3, <1>5 DEF Turn
  <1>8. \A x \in 0 .. Capacity - 1 : (x + Capacity - 1) % Capacity = Turn(x + Capacity - 1)
    BY TurnWraps
  <1>9. f[n] = Turn(f[n - 1] + Capacity - 1)
    BY <1>6, <1>7, <1>8
  <1>10. ASSUME NEW u \in 0 .. 3 * Capacity PROVE Turn(Turn(u + 1) + Capacity - 1) = Turn(u)
    BY DEF Turn
  <1> QED
    BY <1>2, <1>3, <1>5, <1>9, <1>10

LEMMA StepsAre ==
  ASSUME NEW i \in Slots, NEW b \in -2 * Capacity .. 2 * Capacity
  PROVE  Steps(i, b) = IF b >= 0 THEN Turn(i + b) ELSE Turn(i + (2 * Capacity) + b)
  <1> USE QueueAssumption
  <1> DEFINE ahead == CHOOSE f : f = [n \in 0 .. 2 * Capacity |->
                                        IF n = 0 THEN i ELSE Increment(f[n - 1])]
             back == CHOOSE f : f = [n \in 0 .. 2 * Capacity |->
                                       IF n = 0 THEN i ELSE Decrement(f[n - 1])]
  <1>1. Steps(i, b) = IF b >= 0 THEN ahead[b] ELSE back[-b]
    BY DEF Steps
  <1>2. ahead = [n \in 0 .. 2 * Capacity |-> IF n = 0 THEN i ELSE Increment(ahead[n - 1])]
    <2> DEFINE g == [n \in 0 .. 2 * Capacity |-> Turn(i + n)]
    <2>1. ASSUME NEW n \in 0 .. 2 * Capacity
          PROVE  Turn(i + n) = IF n = 0 THEN i ELSE Increment(g[n - 1])
      <3>1. CASE n = 0
        BY <3>1 DEF Turn, Slots
      <3>2. CASE n # 0
        <4>1. g[n - 1] = Turn(i + (n - 1)) /\ Turn(i + (n - 1)) \in 0 .. Capacity - 1
          BY <3>2 DEF Turn, Slots
        <4> HIDE DEF g
        <4>2. Increment(g[n - 1]) = Turn(g[n - 1] + 1)
          BY <4>1, TurnWraps DEF Increment
        <4> QED
          BY <3>2, <4>1, <4>2 DEF Turn, Slots
      <3> QED
        BY <3>1, <3>2
    <2>2. g = [n \in 0 .. 2 * Capacity |-> IF n = 0 THEN i ELSE Increment(g[n - 1])]
      BY <2>1
    <2> HIDE DEF g
    <2> QED
      BY <2>2
  <1>3. back = [n \in 0 .. 2 * Capacity |-> IF n = 0 THEN i ELSE Decrement(back[n - 1])]
    <2> DEFINE g == [n \in 0 .. 2 * Capacity |-> Turn(i + (2 * Capacity) - n)]
    <2>1. ASSUME NEW n \in 0 .. 2 * Capacity
          PROVE  Turn(i + (2 * Capacity) - n) = IF n = 0 THEN i ELSE Decrement(g[n - 1])
      <3>1. CASE n = 0
        BY <3>1 DEF Turn, Slots
      <3>2. CASE n # 0
        <4>1. /\ g[n - 1] = Turn(i + (2 * Capacity) - (n - 1))
              /\ Turn(i + (2 * Capacity) - (n - 1)) \in 0 .. Capacity - 1
          BY <3>2 DEF Turn, Slots
        <4> HIDE DEF g
        <4>2. Decrement(g[n - 1]) = Turn(g[n - 1] + Capacity - 1)
          BY <4>1, TurnWraps DEF Decrement
        <4> QED
          BY <3>2, <4>1, <4>2 DEF Turn, Slots
      <3> QED
        BY <3>1, <3>2
    <2>2. g = [n \in 0 .. 2 * Capacity |-> IF n = 0 THEN i ELSE Decrement(g[n - 1])]
      BY <2>1
    <2> HIDE DEF g
    <2> QED
      BY <2>2
  <1> HIDE DEF ahead, back
  <1>4. b >= 0 => ahead[b] = Turn(i + b)
    BY <1>2, AheadIs
  <1>5. b < 0 => back[-b] = Turn(i + (2 * Capacity) + b)
    <2>1. ASSUME b < 0 PROVE back[-b] = Turn(i + (2 * Capacity) - (-b))
      BY <1>3, <2>1, BackIs
    <2>2. i + (2 * Capacity) - (-b) = i + (2 * Capacity) + b
      BY DEF Slots
    <2> QED
      BY <2>1, <2>2
  <1>6. b >= 0 \/ b < 0
    OBVIOUS
  <1>7. CASE b >= 0
    BY <1>1, <1>4, <1>7
  <1>8. CASE b < 0
    <2>1. ~(b >= 0)
      BY <1>8
    <2> QED
      BY <1>1, <1>5, <1>8, <2>1
  <1> QED
    BY <1>6, <1>7, <1>8

(* The occupied slots from begin() on, and the end.                        *)
LEMMA WalkIsExact ==
  ASSUME IInv
  PROVE  /\ Steps(begin, size) = end
         /\ \A k \in 0 .. size - 1 :
              /\ Steps(begin, k) = Offset(k)
              /\ Steps(end, k - size) = Offset(k)
              /\ Difference(Offset(k), begin) =
                   k - (IF begin + k < Capacity THEN 0 ELSE Capacity)
  <1> USE QueueAssumption
  <1>1. begin \in Slots /\ end \in Slots /\ Slots = 0 .. Capacity - 1
    BY DEF IInv, TypeOK, Slots
  <1>2. /\ size \in 0 .. Capacity
        /\ end = Wrap(begin + size)
    <2>1. full => begin = end /\ size = Capacity
      BY SizeFits DEF IInv, SlotsOccupied
    <2> QED
      BY <1>1, <2>1, SizeFits DEF Wrap
  <1> DEFINE n == size
  <1>3. n \in 0 .. Capacity /\ end = Wrap(begin + n)
    BY <1>2
  <1> HIDE DEF n
  <1>4. Steps(begin, n) = end
    <2>1. Steps(begin, n) = Turn(begin + n)
      BY <1>1, <1>3, StepsAre
    <2> QED
      BY <1>1, <1>3, <2>1 DEF Turn, Wrap
  <1>5. ASSUME NEW k \in 0 .. n - 1
        PROVE  /\ Steps(begin, k) = Offset(k)
               /\ Steps(end, k - n) = Offset(k)
               /\ Difference(Offset(k), begin) =
                    k - (IF begin + k < Capacity THEN 0 ELSE Capacity)
    <2>1. Offset(k) = Wrap(begin + k)
      BY <1>3, OffsetWraps DEF IInv
    <2>2. Steps(begin, k) = Turn(begin + k)
      BY <1>1, <1>3, StepsAre
    <2>3. Steps(end, k - n) = Turn(end + (2 * Capacity) + (k - n))
      <3>1. k - n \in -2 * Capacity .. 2 * Capacity /\ ~(k - n >= 0)
        BY <1>3
      <3> QED
        BY <1>1, <3>1, StepsAre
    <2>4. Turn(begin + k) = Wrap(begin + k)
      BY <1>1, <1>3 DEF Turn, Wrap
    <2>5. Turn(end + (2 * Capacity) + (k - n)) = Wrap(begin + k)
      BY <1>1, <1>3 DEF Turn, Wrap
    <2>6. Difference(Wrap(begin + k), begin) =
            k - (IF begin + k < Capacity THEN 0 ELSE Capacity)
      BY <1>1, <1>3 DEF Wrap, Difference
    <2> QED
      BY <2>1, <2>2, <2>3, <2>4, <2>5, <2>6
  <1> QED
    BY <1>4, <1>5 DEF n

(* An offset leads where as many steps do.                                 *)
LEMMA OffsetsAreSteps ==
  ASSUME NEW i \in Slots, NEW b \in -2 * Capacity .. 2 * Capacity
  PROVE  /\ i + b \in 0 .. 2 ^ Width - 1 => Plus(i, b) = Steps(i, b)
         /\ i + Capacity - b \in 0 .. 2 ^ Width - 1 => Minus(i, b) = Steps(i, -b)
  <1> USE QueueAssumption DEF Slots
  <1>1. 2 ^ Width \in Nat
    BY WidthAssumption
  <1> DEFINE w == 2 ^ Width
  <1>2. w \in Nat
    BY <1>1
  <1> HIDE DEF w
  <1>3. \A x \in 0 .. w - 1 : x % w = x
    BY <1>2
  <1>4. ASSUME i + b \in 0 .. w - 1 PROVE Plus(i, b) = Steps(i, b)
    <2>1. Plus(i, b) = Turn(i + b)
      <3>1. (i + b) % w = i + b
        BY <1>3, <1>4
      <3>2. i + b \in Nat /\ i + b < 4 * Capacity
        BY <1>4
      <3> QED
        BY <3>1, <3>2, TurnWraps DEF Plus, SizeT, w
    <2>2. b < 0 => Turn(i + (2 * Capacity) + b) = Turn(i + b)
      BY <1>4 DEF Turn
    <2> QED
      BY <2>1, <2>2, StepsAre
  <1>5. ASSUME i + Capacity - b \in 0 .. w - 1 PROVE Minus(i, b) = Steps(i, -b)
    <2>1. Minus(i, b) = Turn(i + Capacity - b)
      <3>1. (i + Capacity - b) % w = i + Capacity - b
        BY <1>3, <1>5
      <3>2. i + Capacity - b \in Nat /\ i + Capacity - b < 4 * Capacity
        BY <1>5
      <3> QED
        BY <3>1, <3>2, TurnWraps DEF Minus, SizeT, w
    <2> DEFINE c == -b
    <2>2. c \in -2 * Capacity .. 2 * Capacity /\ b = -c
      OBVIOUS
    <2>3. Steps(i, c) = IF c >= 0 THEN Turn(i + c) ELSE Turn(i + (2 * Capacity) + c)
      BY <2>2, StepsAre
    <2>4. Turn(i + Capacity - b) = IF c >= 0 THEN Turn(i + c) ELSE Turn(i + (2 * Capacity) + c)
      BY <1>5 DEF Turn
    <2> QED
      BY <2>1, <2>3, <2>4
  <1> QED
    BY <1>4, <1>5 DEF w

(* In a queue of any capacity and for any width of size_t, ++ walks from   *)
(* begin() over the items in their order to end() and -- walks back, and   *)
(* an offset leads where as many steps do (InplaceQueue.h:52-101).         *)
THEOREM IteratorsWalk == Spec => []IteratorsExact
  <1>1. IInv => IteratorsExact
    BY WalkIsExact, OffsetsAreSteps DEF IteratorsExact
  <1> QED
    BY <1>1, InitEstablishes, StepPreserves, PTL DEF Spec

-----------------------------------------------------------------------------
(* The containers side by side, as the run checks them.                    *)

LEMMA EachAlone ==
  AllSpec => /\ Spec /\ Vector!Spec /\ Set!Spec /\ Shared!Spec
             /\ Result!Spec /\ Bare!Spec /\ Guard!Spec
  <1>1. AllInit => /\ Init /\ Vector!Init /\ Set!Init /\ Shared!Init
                   /\ Result!Init /\ Bare!Init /\ Guard!Init
    BY DEF AllInit
  <1>2. [AllNext]_allVars =>
          /\ [Next]_vars /\ [Vector!Next]_Vector!vars /\ [Set!Next]_Set!vars
          /\ [Shared!Next]_Shared!vars /\ [Result!Next]_Result!vars
          /\ [Bare!Next]_Bare!vars /\ [Guard!Next]_Guard!vars
    BY DEF AllNext, allVars, vectorVars, setVars, sharedVars, resultVars, bareVars, guardVars,
           vars, Vector!vars, Set!vars, Shared!vars, Result!vars, Bare!vars, Guard!vars
  <1> QED
    BY <1>1, <1>2, PTL
       DEF AllSpec, Spec, Vector!Spec, Set!Spec, Shared!Spec, Result!Spec, Bare!Spec, Guard!Spec

(* All that the run checks of the containers, for any number of items,     *)
(* slots, threads, calls, results and guards and any width.                *)
THEOREM SideBySide ==
  AllSpec => /\ ImplementsFifo /\ []IteratorsExact /\ StackAndBag
             /\ []SharedBalance /\ []SharedAloneIsExact
             /\ []ResultLifetimes /\ ResultMovesExact /\ CleanupsRunOnce
  BY EachAlone, Refinement, IteratorsWalk, StacksAndBags, Balanced, AloneExact, LifetimesKept,
     MovesHandOver, CleanupsOnce

=============================================================================
