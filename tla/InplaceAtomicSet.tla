-------------------------- MODULE InplaceAtomicSet --------------------------
(***************************************************************************)
(* sys::inplace_atomic_set (src/sys.Containers/InplaceAtomicSet.h) shared  *)
(* by threads: an exchange tries a compare-and-swap on one slot after the  *)
(* other.  A weak one may fail on a slot that matches.                     *)
(***************************************************************************)
EXTENDS Integers, FiniteSets

CONSTANTS
  Values, First,  \* the values, and the one every slot starts with
  Capacity,
  Threads,
  MaxCalls        \* bound: calls of exchange and exchange_weak

VARIABLES
  data,     \* the atomics
  call,     \* call[t]: the exchange t is in, at slot call[t].at
  calls,    \* calls so far
  gained,   \* gained[v]: exchanges to v that returned true, less those from v
  alone     \* alone[t]: no slot has changed since t's exchange began

vars == <<data, call, calls, gained, alone>>

Slots == 0 .. Capacity - 1

Out == [kind |-> "none", from |-> First, to |-> First, at |-> 0, due |-> FALSE]

TypeOK ==
  /\ data \in [Slots -> Values]
  /\ call \in [Threads -> [kind : {"none", "weak", "strong"}, from : Values,
                           to : Values, at : 0 .. Capacity, due : BOOLEAN]]
  /\ calls \in 0 .. MaxCalls
  /\ gained \in [Values -> Int]
  /\ alone \in [Threads -> BOOLEAN]

Init ==
  /\ data = [i \in Slots |-> First]
  /\ call = [t \in Threads |-> Out]
  /\ calls = 0
  /\ gained = [v \in Values |-> 0]
  /\ alone = [t \in Threads |-> FALSE]

(* due records whether the set held from when the exchange began.          *)
Exchange(t, k, a, b) ==
  /\ call[t].kind = "none"
  /\ calls < MaxCalls
  /\ calls' = calls + 1
  /\ call' = [call EXCEPT ![t] = [kind |-> k, from |-> a, to |-> b, at |-> 0,
                                  due |-> \E i \in Slots : data[i] = a]]
  /\ alone' = [alone EXCEPT ![t] = TRUE]
  /\ UNCHANGED <<data, gained>>

Returns(t, yes) ==
  LET c == call[t] IN
    /\ call' = [call EXCEPT ![t] = Out]
    /\ gained' = IF yes /\ c.from # c.to
                 THEN [gained EXCEPT ![c.to] = @ + 1, ![c.from] = @ - 1]
                 ELSE gained

At(t) == call[t].kind # "none" /\ call[t].at < Capacity

(* The slot matches, is stored to, and the exchange returns true.          *)
SwapUnchecked(t) ==
  /\ At(t)
  /\ data' = [data EXCEPT ![call[t].at] = call[t].to]
  /\ Returns(t, TRUE)
  /\ alone' = [u \in Threads |-> FALSE]
  /\ UNCHANGED calls

Swap(t) ==
  /\ At(t)
  /\ data[call[t].at] = call[t].from
  /\ data' = [data EXCEPT ![call[t].at] = call[t].to]
  /\ Returns(t, TRUE)
  /\ alone' = [u \in Threads |-> alone[u] /\ call[t].from = call[t].to]
  /\ UNCHANGED calls

(* The slot does not match, or a weak exchange fails there all the same.   *)
MoveOnSpuriously(t) ==
  /\ At(t)
  /\ call' = [call EXCEPT ![t].at = @ + 1]
  /\ UNCHANGED <<data, calls, gained, alone>>

MoveOn(t) ==
  /\ At(t)
  /\ data[call[t].at] # call[t].from \/ call[t].kind = "weak"
  /\ call' = [call EXCEPT ![t].at = @ + 1]
  /\ UNCHANGED <<data, calls, gained, alone>>

GiveUp(t) ==
  /\ call[t].at = Capacity
  /\ Returns(t, FALSE)
  /\ UNCHANGED <<data, calls, alone>>

Next ==
  \E t \in Threads :
    \/ \E k \in {"weak", "strong"}, a \in Values, b \in Values : Exchange(t, k, a, b)
    \/ Swap(t)
    \/ MoveOn(t)
    \/ GiveUp(t)

Spec == Init /\ [][Next]_vars

-----------------------------------------------------------------------------
(* Properties.                                                             *)

Count(v) == Cardinality({i \in Slots : data[i] = v})

(* Every exchange that returned true replaced exactly one value, and every *)
(* other none, however exchanges interleave: values are never duplicated   *)
(* or lost.                                                                *)
Balance ==
  \A v \in Values : Count(v) = gained[v] + (IF v = First THEN Capacity ELSE 0)

(* A strong exchange that no other disturbed fails only if the value was   *)
(* not in the set.  (One that was disturbed may miss a value that has been *)
(* in the set all along, in one slot and then in another.)                 *)
AloneIsExact ==
  \A t \in Threads :
    call[t].kind = "strong" /\ call[t].at = Capacity /\ alone[t] => ~call[t].due

=============================================================================
