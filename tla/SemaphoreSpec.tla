--------------------------- MODULE SemaphoreSpec ----------------------------
(***************************************************************************)
(* What a counting semaphore promises (src/sys.Threading/SemaphoreEx.h,    *)
(* the comments at 61-64, 74-78 and 108-109): a permit is granted only     *)
(* while one is left, and one given back beyond the counter's highest      *)
(* value is refused.                                                       *)
(***************************************************************************)
EXTENDS Integers

CONSTANTS Initial, Highest

VARIABLE out   \* permits granted and not given back

Init == out = 0

Grant == out < Initial /\ out' = out + 1

GiveBack == Initial - out < Highest /\ out' = out - 1

Next == Grant \/ GiveBack

Spec == Init /\ [][Next]_out

=============================================================================
