------------------------------ MODULE Integer ------------------------------
(***************************************************************************)
(* The safe integers (sys/Integer.h), the casts they are built on          *)
(* (Numeric.h) and the bit tricks (BitTwiddling.h).  A built-in type is    *)
(* [w |-> width, s |-> is it signed].  Types narrower than int are         *)
(* promoted to int before they are computed with, as in C++.  Bits are     *)
(* written as digits of the value taken without its sign.                  *)
(***************************************************************************)
EXTENDS Integers

(* The powers of two.                                                      *)
Pow2[k \in Nat] == IF k = 0 THEN 1 ELSE 2 * Pow2[k - 1]

CONSTANTS
  Widths,    \* of the built-in integers
  IntWidth,  \* of int
  Samples,   \* integers from which operands are taken
  Precision, \* binary digits of a floating-point number
  NaN,       \* the floating-point number that is none
  Undefined, \* what a computation without a defined value returns
  Error      \* the result of a cast that fails

(* A type holds the count of its own bits, as 8 to 64 bits do.             *)
Assumption ==
  /\ Widths \subseteq Nat \ {0, 1} /\ IntWidth \in Widths
  /\ \E w \in Widths : \A v \in Widths : v <= w
  /\ \A w \in Widths : w < Pow2[w - 1]
  /\ Samples \subseteq Int
  /\ Precision \in Nat \ {0}
  /\ {NaN, Undefined, Error} \cap Int = {}

Types == [w : Widths, s : BOOLEAN]

VARIABLES
  type, \* the type of the object
  n,    \* the object
  call  \* a call that is over: its operator, operands and result

vars == <<type, n, call>>

-----------------------------------------------------------------------------
(* Built-in integers.                                                      *)

Lowest(t) == IF t.s THEN -(Pow2[t.w - 1]) ELSE 0
Highest(t) == IF t.s THEN Pow2[t.w - 1] - 1 ELSE Pow2[t.w] - 1
Holds(t, x) == Lowest(t) <= x /\ x <= Highest(t)

(* static_cast: the value of type t that is equal modulo 2^w.              *)
As(t, x) ==
  LET u == x % Pow2[t.w] IN IF t.s /\ u >= Pow2[t.w - 1] THEN u - Pow2[t.w] ELSE u

U(t, x) == x % Pow2[t.w]

(* Integer division and remainder of the language: towards zero.           *)
Magnitude(x) == IF x < 0 THEN -x ELSE x
Sign(x) == IF x < 0 THEN -1 ELSE 1
Quot(a, b) == Sign(a) * Sign(b) * (Magnitude(a) \div Magnitude(b))
Rem(a, b) == a - b * Quot(a, b)

(* Unsigned operands narrower than int are multiplied as ints.             *)
UnsignedProduct(t, x, y) ==
  IF t.w < IntWidth /\ x * y >= Pow2[IntWidth - 1] THEN Undefined ELSE x * y

Bit(x, i) == (x \div Pow2[i]) % 2

Ones(t, a) == {i \in 0 .. t.w - 1 : Bit(U(t, a), i) = 1}

(* The value with these digits.                                            *)
FromBits(t, ones) ==
  LET sum[i \in 0 .. t.w] ==
        IF i = 0 THEN 0 ELSE sum[i - 1] + (IF i - 1 \in ones THEN Pow2[i - 1] ELSE 0)
  IN As(t, sum[t.w])

-----------------------------------------------------------------------------
(* Operators of sys::integer.                                              *)

Neg(t, a) == IF a = Lowest(t) THEN Highest(t) ELSE -a

Add(t, a, b) == As(t, U(t, a) + U(t, b))
Sub(t, a, b) == As(t, U(t, a) - U(t, b))
Mul(t, a, b) ==
  LET p == UnsignedProduct(t, U(t, a), U(t, b))
  IN IF p = Undefined THEN Undefined ELSE As(t, p)

DivUnchecked(t, a, b) ==
  IF b = 0 THEN IF t.s /\ a < 0 THEN Lowest(t) ELSE Highest(t)
  ELSE As(t, Quot(a, b))

Div(t, a, b) ==
  IF b = 0 THEN IF t.s /\ a < 0 THEN Lowest(t) ELSE Highest(t)
  ELSE IF t.s /\ a = Lowest(t) /\ b = -1 THEN Highest(t)
  ELSE Quot(a, b)

Mod(t, a, b) ==
  IF b = 0 THEN a
  ELSE IF t.s /\ a = Lowest(t) /\ b = -1 THEN 0
  ELSE Rem(a, b)

Not(t, a) == FromBits(t, (0 .. t.w - 1) \ Ones(t, a))
And(t, a, b) == FromBits(t, Ones(t, a) \cap Ones(t, b))
Or(t, a, b) == FromBits(t, Ones(t, a) \cup Ones(t, b))
Xor(t, a, b) == FromBits(t, (Ones(t, a) \cup Ones(t, b)) \ (Ones(t, a) \cap Ones(t, b)))

(* Shifts clamp their distance below the width and clear the result with a *)
(* mask when that distance was not below it.                               *)
Lesser(x, y) == IF x < y THEN x ELSE y
ShiftLeft(t, a, by) == U(t, a) * Pow2[by]
ShiftRight(t, a, by) == U(t, a) \div Pow2[by]
Mask(t, condition) == IF condition THEN As(t, -1) ELSE 0

ShlOneWay(t, a, b) ==
  And(t, As(t, ShiftLeft(t, a, Lesser(U(t, b), t.w - 1))), Mask(t, U(t, b) < t.w))

Shl(t, a, b) ==
  IF t.s /\ b < 0
  THEN And(t, As(t, ShiftRight(t, a, Lesser(-b, t.w - 1))), Mask(t, b > -t.w))
  ELSE And(t, As(t, ShiftLeft(t, a, Lesser(b, t.w - 1))), Mask(t, b < t.w))

Shr(t, a, b) ==
  IF t.s /\ b < 0
  THEN And(t, As(t, ShiftLeft(t, a, Lesser(-b, t.w - 1))), Mask(t, b > -t.w))
  ELSE And(t, As(t, ShiftRight(t, a, Lesser(b, t.w - 1))), Mask(t, b < t.w))

Binary == {"+", "-", "*", "/", "%", "&", "|", "^", "<<", ">>"}

Compute(t, op, a, b) ==
  CASE op = "+" -> Add(t, a, b) [] op = "-" -> Sub(t, a, b)
    [] op = "*" -> Mul(t, a, b) [] op = "/" -> Div(t, a, b)
    [] op = "%" -> Mod(t, a, b) [] op = "&" -> And(t, a, b)
    [] op = "|" -> Or(t, a, b)  [] op = "^" -> Xor(t, a, b)
    [] op = "<<" -> Shl(t, a, b) [] op = ">>" -> Shr(t, a, b)

-----------------------------------------------------------------------------
(* Casts.  A floating-point number is a count of halves with at most       *)
(* Precision significant digits, or NaN or an infinity.                    *)

Narrower(from, to) == Lowest(to) <= Lowest(from) /\ Highest(to) >= Highest(from)

Sentinel(t) == IF t.s THEN Lowest(t) ELSE Highest(t)

Saturate(to, x) ==
  IF x < Lowest(to) THEN Lowest(to) ELSE IF x > Highest(to) THEN Highest(to) ELSE x

Construct(from, to, x) == IF Narrower(from, to) THEN As(to, x) ELSE Saturate(to, x)

CheckedAbove(to, x) == IF x > Highest(to) THEN Error ELSE As(to, x)

Checked(to, x) == IF x < Lowest(to) \/ x > Highest(to) THEN Error ELSE As(to, x)

Literal(t, x) == IF x > Highest(t) THEN Error ELSE As(t, x)

(* Floating-point numbers up to twice the range of the widest type, and    *)
(* the infinities beyond.                                                  *)
Widest == CHOOSE w \in Widths : \A v \in Widths : v <= w
Floats ==
  LET magnitudes == {m * Pow2[e] : m \in 0 .. Pow2[Precision] - 1,
                                   e \in 0 .. Widest + 2 - Precision}
  IN magnitudes \cup {-m : m \in magnitudes}
Infinity == Pow2[Widest + 3]

(* An integer as a floating-point number: the nearest.  No bound of a type *)
(* lies half-way between two.                                              *)
AsFloat(x) ==
  LET halves == 2 * Magnitude(x)
      e == CHOOSE e \in 0 .. halves :
             halves < Pow2[Precision + e] /\ (e > 0 => halves >= Pow2[Precision + e - 1])
  IN Sign(x) * Pow2[e] * ((halves + Pow2[e] \div 2) \div Pow2[e])

(* A cast of a number whose integral part the type does not hold has no    *)
(* defined value.                                                          *)
Truncate(to, h) == IF Holds(to, Quot(h, 2)) THEN Quot(h, 2) ELSE Undefined

SaturateFloatStrictly(to, h) ==
  IF h = NaN THEN Sentinel(to)
  ELSE IF h < AsFloat(Lowest(to)) THEN Lowest(to)
  ELSE IF h > AsFloat(Highest(to)) THEN Highest(to)
  ELSE Truncate(to, h)

SaturateFloat(to, h) ==
  IF h = NaN THEN Sentinel(to)
  ELSE IF h <= AsFloat(Lowest(to)) THEN Lowest(to)
  ELSE IF h >= AsFloat(Highest(to)) THEN Highest(to)
  ELSE Truncate(to, h)

CheckedFloat(to, h) ==
  IF h # NaN /\ h >= AsFloat(Lowest(to)) /\ h <= AsFloat(Highest(to))
  THEN Truncate(to, h) ELSE Error

-----------------------------------------------------------------------------
(* Bit tricks.                                                             *)

(* nr2i32, nr2i64: the digits are smeared to the right, by every power of  *)
(* two below the width.                                                    *)
NextPower(t, v) ==
  LET smear[i \in 0 .. t.w] ==
        IF i = 0 THEN Sub(t, v, 1)
        ELSE IF Pow2[i - 1] >= t.w THEN smear[i - 1]
        ELSE Or(t, smear[i - 1], Shr(t, smear[i - 1], Pow2[i - 1]))
  IN Add(t, smear[t.w], 1)

Unsigned(w) == [w |-> w, s |-> FALSE]
Signed(w) == [w |-> w, s |-> TRUE]

(* s16fb2, hbfs16, lbfs16, for bytes of w bits                             *)
FromBytes(w, msb, lsb) ==
  LET word == Unsigned(2 * w)
  IN As(Signed(2 * w), Or(word, Shl(word, As(word, msb), w), As(word, lsb)))
HighByte(w, v) == As(Unsigned(w), Shr(Unsigned(2 * w), As(Unsigned(2 * w), v), w))
LowByte(w, v) == As(Unsigned(w), v)

-----------------------------------------------------------------------------
(* Calls on one object.                                                    *)

Operands(t) == {As(t, x) : x \in Samples}

NoCall == [op |-> "none"]

Init ==
  /\ type \in Types
  /\ n \in Operands(type)
  /\ call = NoCall

(* The object takes the result; without a defined one it takes any value,  *)
(* and after a failed cast it is as it was.                                *)
Becomes(t, ret) ==
  /\ type' = t
  /\ n' \in IF ret = Undefined THEN Lowest(t) .. Highest(t)
             ELSE IF ret = Error THEN {n} ELSE {ret}

Record(op, t, b, ret) ==
  call' = [op |-> op, t |-> t, from |-> type, a |-> n, b |-> b, ret |-> ret]

Apply(op, b) ==
  /\ Becomes(type, Compute(type, op, n, b))
  /\ Record(op, type, b, Compute(type, op, n, b))

Increment ==
  /\ Becomes(type, As(type, U(type, n) + 1))
  /\ Record("+", type, 1, As(type, U(type, n) + 1))

Decrement ==
  /\ Becomes(type, As(type, U(type, n) - 1))
  /\ Record("-", type, 1, As(type, U(type, n) - 1))

Negate ==
  /\ type.s
  /\ Becomes(type, Neg(type, n))
  /\ Record("neg", type, n, Neg(type, n))

Complement ==
  /\ Becomes(type, Not(type, n))
  /\ Record("~", type, n, Not(type, n))

RoundUp ==
  /\ type = Signed(IntWidth)
  /\ Becomes(type, NextPower(type, n))
  /\ Record("power", type, n, NextPower(type, n))

Recombine(w) ==
  /\ type = Signed(2 * w)
  /\ LET v == FromBytes(w, HighByte(w, n), LowByte(w, n))
     IN Becomes(type, v) /\ Record("bytes", type, n, v)

Convert(t) ==
  /\ Becomes(t, Construct(type, t, n))
  /\ Record("saturate", t, n, Construct(type, t, n))

ConvertTruncating(t) ==
  /\ Becomes(t, As(t, n))
  /\ Record("truncate", t, n, As(t, n))

ConvertChecked(t) ==
  /\ Becomes(IF Checked(t, n) = Error THEN type ELSE t, Checked(t, n))
  /\ Record("checked", t, n, Checked(t, n))

FromLiteral(x) ==
  /\ Becomes(type, Literal(type, x))
  /\ Record("literal", type, x, Literal(type, x))

FromFloat(h) ==
  /\ Becomes(type, SaturateFloat(type, h))
  /\ Record("saturate float", type, h, SaturateFloat(type, h))

FromFloatChecked(h) ==
  /\ Becomes(type, CheckedFloat(type, h))
  /\ Record("checked float", type, h, CheckedFloat(type, h))

(* The client goes on from the result.                                     *)
Return == call # NoCall /\ call' = NoCall /\ UNCHANGED <<type, n>>

Call ==
  \/ \E b \in Operands(type), op \in Binary : Apply(op, b)
  \/ Increment \/ Decrement \/ Negate \/ Complement \/ RoundUp
  \/ \E w \in Widths : Recombine(w)
  \/ \E t \in Types : Convert(t) \/ ConvertTruncating(t) \/ ConvertChecked(t)
  \/ /\ n = 0
     /\ \/ \E x \in Samples \cap Nat : FromLiteral(x)
        \/ \E h \in Floats \cup {-Infinity, Infinity, NaN} :
             FromFloat(h) \/ FromFloatChecked(h)

Next == (call = NoCall /\ Call) \/ Return

Spec == Init /\ [][Next]_vars

-----------------------------------------------------------------------------
(* Properties.                                                             *)

Congruent(t, x, y) == (x - y) % Pow2[t.w] = 0

(* q and r are the quotient and remainder, rounding towards zero.          *)
Divides(a, b, q, r) ==
  a = q * b + r /\ Magnitude(r) < Magnitude(b) /\ (r # 0 => Sign(r) = Sign(a))

(* The bits of a moved up by d, with zeros for those that come from        *)
(* outside, whatever the sign and size of d.                               *)
Moved(t, a, d, ret) ==
  \A i \in 0 .. t.w - 1 :
    Bit(U(t, ret), i) = IF i - d \in 0 .. t.w - 1 THEN Bit(U(t, a), i - d) ELSE 0

Clamped(t, x, ret) ==
  /\ Holds(t, ret)
  /\ Holds(t, x) => ret = x
  /\ x > Highest(t) => ret = Highest(t)
  /\ x < Lowest(t) => ret = Lowest(t)

(* What is right for an operator and its operands.                         *)
Exact(op, t, a, b, ret) ==
  /\ Holds(t, ret)
  /\ CASE op = "+" -> Congruent(t, ret, a + b)
       [] op = "-" -> Congruent(t, ret, a - b)
       [] op = "*" -> Congruent(t, ret, a * b)
       [] op = "neg" -> Clamped(t, -a, ret)
       [] op = "~" -> Congruent(t, ret, -1 - a)
       [] op = "/" -> IF b = 0 THEN ret = (IF a < 0 THEN Lowest(t) ELSE Highest(t))
                      ELSE \E q \in {ret, Highest(t) + 1} :
                             Divides(a, b, q, a - q * b) /\ Clamped(t, q, ret)
       [] op = "%" -> IF b = 0 THEN ret = a ELSE Divides(a, b, Quot(a - ret, b), ret)
       [] op = "<<" -> Moved(t, a, b, ret)
       [] op = ">>" -> Moved(t, a, -b, ret)
       [] op = "&" -> Congruent(t, ret + Or(t, a, b), a + b)
       [] op = "|" -> Congruent(t, ret + And(t, a, b), a + b)
       [] op = "^" -> Congruent(t, ret + 2 * And(t, a, b), a + b)

(* The documentation of sys::integer (Integer.h:25-29), for all operations *)
(* that have a defined value: sums, differences and products wrap,         *)
(* negation and division saturate, the remainder by zero is the dividend,  *)
(* shifts are logical and change their direction with the sign; bitwise    *)
(* operations add up.                                                      *)
ArithmeticExact ==
  call.op \in Binary \cup {"neg", "~"} /\ call.ret # Undefined =>
    Exact(call.op, call.t, call.a, call.b, call.ret)

(* What is right for a cast of x.                                          *)
ExactCast(op, t, x, ret) ==
  CASE op = "saturate" -> Clamped(t, x, ret)
    [] op = "truncate" -> Holds(t, ret) /\ Congruent(t, ret, x)
    [] op \in {"checked", "literal"} -> IF Holds(t, x) THEN ret = x ELSE ret = Error
    [] op = "saturate float" -> IF x = NaN THEN ret = Sentinel(t)
                                ELSE ret # Undefined /\ Clamped(t, Quot(x, 2), ret)
    [] op = "checked float" -> IF x # NaN /\ 2 * Lowest(t) <= x /\ x <= 2 * Highest(t)
                               THEN ret = Quot(x, 2) ELSE ret \in {Error, Undefined}
    [] op = "bytes" -> ret = x
    [] op = "power" -> x \in 1 .. Pow2[t.w - 2] =>
                         x <= ret /\ ret < 2 * x /\ \E k \in 0 .. t.w : ret = Pow2[k]

(* Casts: saturating ones return the nearest value of the type, also from  *)
(* floating point; checked ones return the value, or fail if the type does *)
(* not have it; taking a number apart into bytes loses nothing, and        *)
(* rounding up finds the power of two (Numeric.h:48-101, Integer.h:61-77,  *)
(* BitTwiddling.h:14-53).                                                  *)
CastsExact ==
  call.op \notin Binary \cup {"none", "neg", "~"} =>
    ExactCast(call.op, call.t, call.b, call.ret)

(* "All arithmetic is wrapping otherwise" (Integer.h:28).                  *)
ArithmeticWraps == call.op = "*" => call.ret # Undefined

(* A checked cast from floating point fails if the value is out of range   *)
(* (Numeric.h:92).                                                         *)
CheckedFloatDefined == call.op = "checked float" => call.ret # Undefined

=============================================================================
