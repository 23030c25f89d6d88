----------------------------- MODULE TextProofs -----------------------------
(***************************************************************************)
(* Code points and strings: what reading, repairing, transcoding, trimming *)
(* and splitting promise, for strings of any length and any units of 8, 16 *)
(* and 32 bits.                                                            *)
(***************************************************************************)
EXTENDS IntegerProofs, SequenceTheorems

-----------------------------------------------------------------------------
(* Classes of code points by their bounds.                                 *)

LEMMA SurrogateBounds ==
  ASSUME NEW c \in Nat
  PROVE  /\ IsSurrogate(c) <=> 55296 <= c /\ c <= 57343
         /\ IsHighSurrogate(c) <=> 55296 <= c /\ c <= 56319
         /\ IsLowSurrogate(c) <=> 56320 <= c /\ c <= 57343
  BY SMT DEF IsSurrogate, IsHighSurrogate, IsLowSurrogate

LEMMA ScalarBounds ==
  ASSUME NEW c \in Nat
  PROVE  /\ IsScalar(c) <=> c <= 1114111 /\ ~(55296 <= c /\ c <= 57343)
         /\ IsScalar(c) <=> c <= 1114111 /\ ~IsSurrogate(c)
  BY SurrogateBounds, SMT DEF IsScalar

-----------------------------------------------------------------------------
(* Reading from bytes.                                                     *)

(* What the loop over the bytes makes of the first len of them.            *)
Value8(s, len) ==
  LET c1 == Lead(s[1]).c
      c2 == c1 * 64 + (s[2] % 64)
      c3 == c2 * 64 + (s[3] % 64)
      c4 == c3 * 64 + (s[4] % 64)
  IN IF len = 1 THEN c1 ELSE IF len = 2 THEN c2 ELSE IF len = 3 THEN c3 ELSE c4

LEMMA LeadSize ==
  ASSUME NEW b
  PROVE  Lead(b).size \in 2 .. 4
  BY SMT DEF Lead, Data

LEMMA LoopValue ==
  ASSUME NEW s, NEW len \in 2 .. 4
  PROVE  LET c[i \in 1 .. len] ==
               IF i = 1 THEN Lead(s[1]).c ELSE c[i - 1] * 64 + (s[i] % 64)
         IN c[len] = Value8(s, len)
  <1> DEFINE c == CHOOSE f : f = [i \in 1 .. len |->
                                    IF i = 1 THEN Lead(s[1]).c
                                    ELSE f[i - 1] * 64 + (s[i] % 64)]
             g == [i \in 1 .. len |-> Value8(s, i)]
  <1>1. ASSUME NEW i \in 1 .. len
        PROVE  Value8(s, i) = IF i = 1 THEN Lead(s[1]).c ELSE g[i - 1] * 64 + (s[i] % 64)
    <2>1. i = 1 \/ i = 2 \/ i = 3 \/ i = 4
      OBVIOUS
    <2>2. i # 1 => g[i - 1] = Value8(s, i - 1)
      OBVIOUS
    <2> HIDE DEF g
    <2> QED
      BY <2>1, <2>2 DEF Value8
  <1>2. g = [i \in 1 .. len |-> IF i = 1 THEN Lead(s[1]).c
                                ELSE g[i - 1] * 64 + (s[i] % 64)]
    BY <1>1
  <1> HIDE DEF g
  <1>3. c = [i \in 1 .. len |-> IF i = 1 THEN Lead(s[1]).c
                                ELSE c[i - 1] * 64 + (s[i] % 64)]
    BY <1>2
  <1> HIDE DEF c
  <1>4. c[1] = Value8(s, 1)
    BY <1>3 DEF Value8
  <1>5. ASSUME NEW i \in 2 .. len PROVE c[i] = c[i - 1] * 64 + (s[i] % 64)
    BY <1>3
  <1>6. c[2] = Value8(s, 2)
    BY <1>4, <1>5 DEF Value8
  <1>7. len >= 3 => c[3] = Value8(s, 3)
    BY <1>5, <1>6 DEF Value8
  <1>8. len >= 4 => c[4] = Value8(s, 4)
    BY <1>5, <1>7 DEF Value8
  <1>9. c[len] = Value8(s, len)
    BY <1>6, <1>7, <1>8
  <1> QED
    BY <1>9 DEF c

LEMMA Read8Is ==
  ASSUME NEW s
  PROVE  LET len == Lead(s[1]).size
             v == Value8(s, len)
         IN Read8(s) =
              IF s[1] < 128 THEN Data(s[1], 1)
              ELSE IF \/ s[1] >= 245
                      \/ Len(s) < len
                      \/ \E i \in 2 .. len : ~IsContinuation(s[i])
                      \/ v < Smallest[len]
                      \/ ~IsScalar(v)
              THEN Fail ELSE Data(v, len)
  <1> DEFINE len == Lead(s[1]).size
             c == CHOOSE f : f = [i \in 1 .. len |->
                                    IF i = 1 THEN Lead(s[1]).c
                                    ELSE f[i - 1] * 64 + (s[i] % 64)]
             Result(v) ==
               IF s[1] < 128 THEN Data(s[1], 1)
               ELSE IF \/ s[1] >= 245
                       \/ Len(s) < len
                       \/ \E i \in 2 .. len : ~IsContinuation(s[i])
                       \/ v < Smallest[len]
                       \/ ~IsScalar(v)
               THEN Fail ELSE Data(v, len)
  <1>1. Read8(s) = Result(c[len])
    BY Zenon DEF Read8
  <1>2. len \in 2 .. 4
    BY LeadSize
  <1> HIDE DEF len
  <1>3. c[len] = Value8(s, len)
    BY <1>2, LoopValue
  <1> HIDE DEF c
  <1>4. Read8(s) = Result(Value8(s, len))
    BY <1>1, <1>3, Zenon
  <1> QED
    BY <1>4, Zenon DEF len

(* A sequence of len bytes that continue the first is read as their value. *)
LEMMA Read8Whole ==
  ASSUME NEW s, NEW len, s[1] >= 128, ~(s[1] < 128), ~(s[1] >= 245),
         Lead(s[1]).size = len, ~(Len(s) < len),
         \A i \in 2 .. len : IsContinuation(s[i]),
         ~(Value8(s, len) < Smallest[len]), IsScalar(Value8(s, len))
  PROVE  Read8(s) = Data(Value8(s, len), len)
  <1>1. Read8(s) =
          IF s[1] < 128 THEN Data(s[1], 1)
          ELSE IF \/ s[1] >= 245
                  \/ Len(s) < len
                  \/ \E i \in 2 .. len : ~IsContinuation(s[i])
                  \/ Value8(s, len) < Smallest[len]
                  \/ ~IsScalar(Value8(s, len))
          THEN Fail ELSE Data(Value8(s, len), len)
    BY Read8Is
  <1> QED
    BY <1>1

-----------------------------------------------------------------------------
(* Bytes and the digits of code points that they carry.                    *)

LEMMA TwoDigits ==
  ASSUME NEW c \in Nat, 128 <= c, c <= 2047
  PROVE  /\ c \div 64 \in 2 .. 31 /\ c % 64 \in 0 .. 63
         /\ c = (c \div 64) * 64 + (c % 64)
  BY SMT

LEMMA ThreeDigits ==
  ASSUME NEW c \in Nat, 2048 <= c, c <= 65535
  PROVE  /\ c \div 4096 \in 0 .. 15 /\ (c \div 64) % 64 \in 0 .. 63 /\ c % 64 \in 0 .. 63
         /\ c = ((c \div 4096) * 64 + ((c \div 64) % 64)) * 64 + (c % 64)
         /\ c \div 4096 = 0 => (c \div 64) % 64 >= 32
         /\ c < 55296 => c \div 4096 <= 13 /\ (c \div 4096 = 13 => (c \div 64) % 64 <= 31)
         /\ c > 57343 => c \div 4096 >= 14
  <1>1. c = ((c \div 4096) * 64 + ((c \div 64) % 64)) * 64 + (c % 64)
    BY SMT
  <1>2. c \div 4096 \in 0 .. 15 /\ (c \div 64) % 64 \in 0 .. 63 /\ c % 64 \in 0 .. 63
    BY SMT
  <1> QED
    BY <1>1, <1>2, SMT

LEMMA FourDigits ==
  ASSUME NEW c \in Nat, 65536 <= c, c <= 1114111
  PROVE  /\ c \div 262144 \in 0 .. 4 /\ (c \div 4096) % 64 \in 0 .. 63
         /\ (c \div 64) % 64 \in 0 .. 63 /\ c % 64 \in 0 .. 63
         /\ c = (((c \div 262144) * 64 + ((c \div 4096) % 64)) * 64 + ((c \div 64) % 64)) * 64
                 + (c % 64)
         /\ c \div 262144 = 0 => (c \div 4096) % 64 >= 16
         /\ c \div 262144 = 4 => (c \div 4096) % 64 <= 15
  <1>1. c = (((c \div 262144) * 64 + ((c \div 4096) % 64)) * 64 + ((c \div 64) % 64)) * 64
            + (c % 64)
    BY SMT
  <1>2. /\ c \div 262144 \in 0 .. 4 /\ (c \div 4096) % 64 \in 0 .. 63
        /\ (c \div 64) % 64 \in 0 .. 63 /\ c % 64 \in 0 .. 63
    BY SMT
  <1> QED
    BY <1>1, <1>2, SMT

LEMMA LeadOf ==
  ASSUME NEW b \in Nat
  PROVE  /\ 194 <= b /\ b <= 223 => Lead(b) = Data(b - 192, 2)
         /\ 224 <= b /\ b <= 239 => Lead(b) = Data(b - 224, 3)
         /\ 240 <= b /\ b <= 244 => Lead(b) = Data(b - 240, 4)
         /\ 128 <= b /\ b <= 191 => b % 64 = b - 128
  BY SMT DEF Lead, Data

LEMMA ContinuationOf ==
  ASSUME NEW b \in Nat
  PROVE  IsContinuation(b) <=> 128 <= b /\ b <= 191
  BY SMT DEF IsContinuation

LEMMA Written8 ==
  ASSUME NEW c \in Nat, IsScalar(c),
         NEW s, Len(s) \in Nat, Len(Write8(c)) <= Len(s),
         \A i \in 1 .. Len(Write8(c)) : s[i] = Write8(c)[i]
  PROVE  Read8(s) = Data(c, Len(Write8(c)))
  <1>0. c <= 1114111 /\ ~(55296 <= c /\ c <= 57343)
    BY ScalarBounds, SMT
  <1>1. CASE c <= 127
    BY <1>1, Read8Is, SMT DEF Write8
  <1>2. CASE 128 <= c /\ c <= 2047
    <2>1. Write8(c) = <<192 + (c \div 64), 128 + (c % 64)>>
      BY <1>2, SMT DEF Write8, Tail6
    <2>2. Len(s) >= 2 /\ s[1] = 192 + (c \div 64) /\ s[2] = 128 + (c % 64) /\ Len(Write8(c)) = 2
      BY <2>1, SMT
    <2>3. Lead(s[1]) = Data(c \div 64, 2)
      BY <1>2, <2>2, TwoDigits, LeadOf, SMT
    <2>4. s[2] % 64 = c % 64 /\ IsContinuation(s[2])
      BY <1>2, <2>2, TwoDigits, LeadOf, ContinuationOf, SMT
    <2>5. Value8(s, 2) = c
      BY <1>2, <2>3, <2>4, TwoDigits, SMT DEF Value8, Data
    <2>6. s[1] \in Nat /\ s[1] >= 194 /\ s[1] <= 223
      BY <1>2, <2>2, TwoDigits, SMT
    <2>7. Lead(s[1]).size = 2 /\ Smallest[2] = 128
      BY <2>3, SMT DEF Data, Smallest
    <2>8. \A i \in 2 .. 2 : IsContinuation(s[i])
      BY <2>4, SMT
    <2>9. Read8(s) = Data(Value8(s, 2), 2)
      BY <1>2, <2>2, <2>5, <2>6, <2>7, <2>8, Read8Whole, SMT
    <2> QED
      BY <2>2, <2>5, <2>9, SMT
  <1>3. CASE 2048 <= c /\ c <= 65535
    <2>1. Write8(c) = <<224 + (c \div 4096), 128 + ((c \div 64) % 64), 128 + (c % 64)>>
      BY <1>3, SMT DEF Write8, Tail6
    <2>2. /\ Len(s) >= 3 /\ Len(Write8(c)) = 3 /\ s[1] = 224 + (c \div 4096)
          /\ s[2] = 128 + ((c \div 64) % 64) /\ s[3] = 128 + (c % 64)
      BY <2>1, SMT
    <2>3. Lead(s[1]) = Data(c \div 4096, 3)
      BY <1>3, <2>2, ThreeDigits, LeadOf, SMT
    <2>4. /\ s[2] % 64 = (c \div 64) % 64 /\ IsContinuation(s[2])
          /\ s[3] % 64 = c % 64 /\ IsContinuation(s[3])
      BY <1>3, <2>2, ThreeDigits, LeadOf, ContinuationOf, SMT
    <2>5. Value8(s, 3) = c
      BY <1>3, <2>3, <2>4, ThreeDigits, SMT DEF Value8, Data
    <2>6. s[1] \in Nat /\ s[1] >= 224 /\ s[1] <= 239
      BY <1>3, <2>2, ThreeDigits, SMT
    <2>7. Lead(s[1]).size = 3 /\ Smallest[3] = 2048
      BY <2>3, SMT DEF Data, Smallest
    <2>8. \A i \in 2 .. 3 : IsContinuation(s[i])
      BY <2>4, SMT
    <2>9. Read8(s) = Data(Value8(s, 3), 3)
      BY <1>3, <2>2, <2>5, <2>6, <2>7, <2>8, Read8Whole, SMTT(30)
    <2> QED
      BY <2>2, <2>5, <2>9, SMT
  <1>4. CASE 65536 <= c
    <2>1. Write8(c) = <<240 + (c \div 262144), 128 + ((c \div 4096) % 64),
                        128 + ((c \div 64) % 64), 128 + (c % 64)>>
      BY <1>4, SMT DEF Write8, Tail6
    <2>2. /\ Len(s) >= 4 /\ Len(Write8(c)) = 4 /\ s[1] = 240 + (c \div 262144)
          /\ s[2] = 128 + ((c \div 4096) % 64)
          /\ s[3] = 128 + ((c \div 64) % 64) /\ s[4] = 128 + (c % 64)
      BY <2>1, SMT
    <2>3. Lead(s[1]) = Data(c \div 262144, 4)
      BY <1>0, <1>4, <2>2, FourDigits, LeadOf, SMT
    <2>4. /\ s[2] % 64 = (c \div 4096) % 64 /\ IsContinuation(s[2])
          /\ s[3] % 64 = (c \div 64) % 64 /\ IsContinuation(s[3])
          /\ s[4] % 64 = c % 64 /\ IsContinuation(s[4])
      BY <1>0, <1>4, <2>2, FourDigits, LeadOf, ContinuationOf, SMT
    <2>5. Value8(s, 4) = c
      BY <1>0, <1>4, <2>3, <2>4, FourDigits, SMTT(30) DEF Value8, Data
    <2>6. s[1] \in Nat /\ s[1] >= 240 /\ s[1] <= 244
      BY <1>0, <1>4, <2>2, FourDigits, SMT
    <2>7. Lead(s[1]).size = 4 /\ Smallest[4] = 65536
      BY <2>3, SMT DEF Data, Smallest
    <2>8. \A i \in 2 .. 4 : IsContinuation(s[i])
      BY <2>4, SMT
    <2>9. Read8(s) = Data(Value8(s, 4), 4)
      BY <1>4, <2>2, <2>5, <2>6, <2>7, <2>8, Read8Whole, SMTT(30)
    <2> QED
      BY <2>2, <2>5, <2>9, SMT
  <1> QED
    BY <1>1, <1>2, <1>3, <1>4, SMT

-----------------------------------------------------------------------------
(* Well-formed sequences of bytes.                                         *)

Follows(b) == 128 <= b /\ b <= 191

Bytes2(b1, b2) == 194 <= b1 /\ b1 <= 223 /\ Follows(b2)

Bytes3(b1, b2, b3) ==
  /\ 224 <= b1 /\ b1 <= 239 /\ Follows(b2) /\ Follows(b3)
  /\ b1 = 224 => b2 >= 160
  /\ b1 = 237 => b2 <= 159

Bytes4(b1, b2, b3, b4) ==
  /\ 240 <= b1 /\ b1 <= 244 /\ Follows(b2) /\ Follows(b3) /\ Follows(b4)
  /\ b1 = 240 => b2 >= 144
  /\ b1 = 244 => b2 <= 143

(* The first m bytes of s are well-formed.                                 *)
Starts8(s, m) ==
  \/ m = 1 /\ s[1] <= 127
  \/ m = 2 /\ Bytes2(s[1], s[2])
  \/ m = 3 /\ Bytes3(s[1], s[2], s[3])
  \/ m = 4 /\ Bytes4(s[1], s[2], s[3], s[4])

LEMMA WellFormed8Is ==
  ASSUME NEW p, Len(p) \in Nat, \A i \in 1 .. Len(p) : p[i] \in Nat
  PROVE  WellFormed8(p) <=> Starts8(p, Len(p))
  <1>1. CASE Len(p) = 1
    BY <1>1 DEF WellFormed8, Starts8
  <1>2. CASE Len(p) = 2
    BY <1>2 DEF WellFormed8, Starts8, Bytes2, Bytes3, Bytes4, Follows
  <1>3. CASE Len(p) = 3
    <2>1. p[1] \in Nat /\ p[2] \in Nat /\ p[3] \in Nat
      BY <1>3
    <2>2. WellFormed8(p) <=>
            /\ \/ p[1] = 224 /\ p[2] \in 160 .. 191
               \/ p[1] \in (225 .. 236) \cup {238, 239} /\ p[2] \in 128 .. 191
               \/ p[1] = 237 /\ p[2] \in 128 .. 159
            /\ p[3] \in 128 .. 191
      BY <1>3 DEF WellFormed8
    <2> QED
      BY <1>3, <2>1, <2>2 DEF Starts8, Bytes2, Bytes3, Bytes4, Follows
  <1>4. CASE Len(p) = 4
    <2>1. p[1] \in Nat /\ p[2] \in Nat /\ p[3] \in Nat /\ p[4] \in Nat
      BY <1>4
    <2>2. WellFormed8(p) <=>
            /\ \/ p[1] = 240 /\ p[2] \in 144 .. 191
               \/ p[1] \in 241 .. 243 /\ p[2] \in 128 .. 191
               \/ p[1] = 244 /\ p[2] \in 128 .. 143
            /\ p[3] \in 128 .. 191 /\ p[4] \in 128 .. 191
      BY <1>4 DEF WellFormed8
    <2> QED
      BY <1>4, <2>1, <2>2 DEF Starts8, Bytes2, Bytes3, Bytes4, Follows
  <1>5. CASE Len(p) \notin 1 .. 4
    BY <1>5 DEF WellFormed8, Starts8
  <1> QED
    BY <1>1, <1>2, <1>3, <1>4, <1>5

LEMMA Written8Starts ==
  ASSUME NEW c \in Nat, IsScalar(c)
  PROVE  /\ Len(Write8(c)) \in 1 .. 4
         /\ \A i \in 1 .. Len(Write8(c)) : Write8(c)[i] \in Nat
         /\ Starts8(Write8(c), Len(Write8(c)))
  <1>0. c <= 1114111 /\ ~(55296 <= c /\ c <= 57343)
    BY ScalarBounds, SMT
  <1>1. CASE c <= 127
    BY <1>1, SMT DEF Write8, Starts8
  <1>2. CASE 128 <= c /\ c <= 2047
    <2>1. Write8(c) = <<192 + (c \div 64), 128 + (c % 64)>>
      BY <1>2, SMT DEF Write8, Tail6
    <2> QED
      BY <1>2, <2>1, TwoDigits, SMT DEF Starts8, Bytes2, Bytes3, Bytes4, Follows
  <1>3. CASE 2048 <= c /\ c <= 65535
    <2>1. Write8(c) = <<224 + (c \div 4096), 128 + ((c \div 64) % 64), 128 + (c % 64)>>
      BY <1>3, SMT DEF Write8, Tail6
    <2> QED
      BY <1>0, <1>3, <2>1, ThreeDigits, SMT DEF Starts8, Bytes2, Bytes3, Bytes4, Follows
  <1>4. CASE 65536 <= c
    <2>1. Write8(c) = <<240 + (c \div 262144), 128 + ((c \div 4096) % 64),
                        128 + ((c \div 64) % 64), 128 + (c % 64)>>
      BY <1>4, SMT DEF Write8, Tail6
    <2> DEFINE d1 == c \div 262144
               d2 == (c \div 4096) % 64
               d3 == (c \div 64) % 64
               d4 == c % 64
    <2>2. /\ d1 \in 0 .. 4 /\ d2 \in 0 .. 63 /\ d3 \in 0 .. 63 /\ d4 \in 0 .. 63
          /\ (d1 = 0 => d2 >= 16) /\ (d1 = 4 => d2 <= 15)
      BY <1>0, <1>4, FourDigits, SMT
    <2>3. Write8(c) = <<240 + d1, 128 + d2, 128 + d3, 128 + d4>>
      BY <2>1
    <2> HIDE DEF d1, d2, d3, d4
    <2>4. /\ Write8(c)[1] = 240 + d1 /\ Write8(c)[2] = 128 + d2
          /\ Write8(c)[3] = 128 + d3 /\ Write8(c)[4] = 128 + d4 /\ Len(Write8(c)) = 4
      BY <2>3
    <2> HIDE <2>1, <2>3
    <2> QED
      BY <2>2, <2>4, SMT DEF Starts8, Bytes2, Bytes3, Bytes4, Follows
  <1> QED
    BY <1>1, <1>2, <1>3, <1>4, SMT

(* Code points put together from the digits that two, three or four bytes  *)
(* carry, and the bytes that they are written as.                          *)
Two(c, d1, d2) == d1 \in 2 .. 31 /\ d2 \in 0 .. 63 /\ c = d1 * 64 + d2

Three(c, d1, d2, d3) ==
  /\ d1 \in 0 .. 15 /\ d2 \in 0 .. 63 /\ d3 \in 0 .. 63
  /\ d1 = 0 => d2 >= 32
  /\ c = (d1 * 64 + d2) * 64 + d3

Four(c, d1, d2, d3, d4) ==
  /\ d1 \in 0 .. 4 /\ d2 \in 0 .. 63 /\ d3 \in 0 .. 63 /\ d4 \in 0 .. 63
  /\ d1 = 0 => d2 >= 16
  /\ d1 = 4 => d2 <= 15
  /\ c = ((d1 * 64 + d2) * 64 + d3) * 64 + d4

LEMMA TwoWritten ==
  ASSUME NEW c, NEW d1, NEW d2, Two(c, d1, d2)
  PROVE  /\ c \in Nat /\ 128 <= c /\ c <= 2047
         /\ Write8(c) = <<192 + d1, 128 + d2>>
  <1>1. c \in Nat /\ 128 <= c /\ c <= 2047 /\ c \div 64 = d1 /\ c % 64 = d2
    BY SMT DEF Two
  <1> QED
    BY <1>1, SMT DEF Write8, Tail6

LEMMA ThreeWritten ==
  ASSUME NEW c, NEW d1, NEW d2, NEW d3, Three(c, d1, d2, d3)
  PROVE  /\ c \in Nat /\ 2048 <= c /\ c <= 65535
         /\ (d1 = 13 => d2 <= 31) <=> ~(55296 <= c /\ c <= 57343)
         /\ Write8(c) = <<224 + d1, 128 + d2, 128 + d3>>
  <1>1. c \in Nat /\ 2048 <= c /\ c <= 65535
    BY SMT DEF Three
  <1>2. c \div 4096 = d1 /\ c % 64 = d3
    BY SMT DEF Three
  <1>3. (c \div 64) % 64 = d2
    BY SMT DEF Three
  <1>4. (d1 = 13 => d2 <= 31) <=> ~(55296 <= c /\ c <= 57343)
    BY SMT DEF Three
  <1>5. Write8(c) = <<224 + d1, 128 + d2, 128 + d3>>
    BY <1>1, <1>2, <1>3, SMT DEF Write8, Tail6
  <1> QED
    BY <1>1, <1>4, <1>5, SMT

LEMMA FourWritten ==
  ASSUME NEW c, NEW d1, NEW d2, NEW d3, NEW d4, Four(c, d1, d2, d3, d4)
  PROVE  /\ c \in Nat /\ 65536 <= c /\ c <= 1114111
         /\ Write8(c) = <<240 + d1, 128 + d2, 128 + d3, 128 + d4>>
  <1>1. c \in Nat /\ 65536 <= c /\ c <= 1114111
    BY SMT DEF Four
  <1>2. c \div 262144 = d1 /\ c % 64 = d4
    BY SMT DEF Four
  <1>3. (c \div 64) % 64 = d3
    <2>1. c \div 64 = (d1 * 64 + d2) * 64 + d3
      BY SMT DEF Four
    <2> QED
      BY <2>1, SMT DEF Four
  <1>4. (c \div 4096) % 64 = d2
    BY SMT DEF Four
  <1>5. Write8(c) = <<240 + d1, 128 + d2, 128 + d3, 128 + d4>>
    BY <1>1, <1>2, <1>3, <1>4, SMT DEF Write8, Tail6
  <1> QED
    BY <1>1, <1>5, SMT

(* Bytes in the right ranges carry such digits.                            *)
Carry2(b1, b2, c, d1, d2) ==
  /\ Two(c, d1, d2) /\ Lead(b1) = Data(d1, 2) /\ b1 = 192 + d1
  /\ b2 = 128 + d2 /\ b2 % 64 = d2

LEMMA TwoCarried ==
  ASSUME NEW b1 \in Nat, NEW b2 \in Nat, Bytes2(b1, b2)
  PROVE  \E c, d1, d2 : Carry2(b1, b2, c, d1, d2)
  <1> DEFINE d1 == b1 - 192
             d2 == b2 - 128
  <1>1. Two(d1 * 64 + d2, d1, d2)
    BY SMT DEF Two, Bytes2, Follows
  <1>2. /\ Lead(b1) = Data(d1, 2) /\ b1 = 192 + d1
        /\ b2 = 128 + d2 /\ b2 % 64 = d2
    BY LeadOf, SMT DEF Bytes2, Follows
  <1> HIDE DEF d1, d2
  <1> QED
    BY <1>1, <1>2 DEF Carry2

Carry3(b1, b2, b3, c, d1, d2, d3) ==
  /\ Three(c, d1, d2, d3) /\ Lead(b1) = Data(d1, 3) /\ b1 = 224 + d1
  /\ b2 = 128 + d2 /\ b2 % 64 = d2
  /\ b3 = 128 + d3 /\ b3 % 64 = d3

LEMMA ThreeCarried ==
  ASSUME NEW b1 \in Nat, NEW b2 \in Nat, NEW b3 \in Nat, Bytes3(b1, b2, b3)
  PROVE  \E c, d1, d2, d3 : Carry3(b1, b2, b3, c, d1, d2, d3)
  <1> DEFINE d1 == b1 - 224
             d2 == b2 - 128
             d3 == b3 - 128
  <1>1. Three((d1 * 64 + d2) * 64 + d3, d1, d2, d3)
    BY SMT DEF Three, Bytes3, Follows
  <1>2. /\ Lead(b1) = Data(d1, 3) /\ b1 = 224 + d1
        /\ b2 = 128 + d2 /\ b2 % 64 = d2
        /\ b3 = 128 + d3 /\ b3 % 64 = d3
    BY LeadOf, SMT DEF Bytes3, Follows
  <1> HIDE DEF d1, d2, d3
  <1> QED
    BY <1>1, <1>2 DEF Carry3

Carry4(b1, b2, b3, b4, c, d1, d2, d3, d4) ==
  /\ Four(c, d1, d2, d3, d4) /\ Lead(b1) = Data(d1, 4) /\ b1 = 240 + d1
  /\ b2 = 128 + d2 /\ b2 % 64 = d2
  /\ b3 = 128 + d3 /\ b3 % 64 = d3
  /\ b4 = 128 + d4 /\ b4 % 64 = d4

LEMMA FourCarried ==
  ASSUME NEW b1 \in Nat, NEW b2 \in Nat, NEW b3 \in Nat, NEW b4 \in Nat, Bytes4(b1, b2, b3, b4)
  PROVE  \E c, d1, d2, d3, d4 : Carry4(b1, b2, b3, b4, c, d1, d2, d3, d4)
  <1> DEFINE d1 == b1 - 240
             d2 == b2 - 128
             d3 == b3 - 128
             d4 == b4 - 128
  <1>1. Four(((d1 * 64 + d2) * 64 + d3) * 64 + d4, d1, d2, d3, d4)
    BY SMT DEF Four, Bytes4, Follows
  <1>2. /\ Lead(b1) = Data(d1, 4) /\ b1 = 240 + d1
        /\ b2 = 128 + d2 /\ b2 % 64 = d2
        /\ b3 = 128 + d3 /\ b3 % 64 = d3
        /\ b4 = 128 + d4 /\ b4 % 64 = d4
    BY LeadOf, SMT DEF Bytes4, Follows
  <1> HIDE DEF d1, d2, d3, d4
  <1> QED
    BY <1>1, <1>2 DEF Carry4

(* A well-formed sequence is read as a whole and written as it was.        *)
LEMMA StartsRead8 ==
  ASSUME NEW s, NEW m \in 1 .. 4, Starts8(s, m), Len(s) \in Nat, m <= Len(s),
         \A i \in 1 .. m : s[i] \in Nat
  PROVE  /\ Read8(s).size = m /\ Read8(s).c \in Nat /\ IsScalar(Read8(s).c)
         /\ Len(Write8(Read8(s).c)) = m
         /\ \A i \in 1 .. m : Write8(Read8(s).c)[i] = s[i]
  <1>1. CASE m = 1
    <2>1. s[1] \in Nat /\ s[1] <= 127
      BY <1>1 DEF Starts8
    <2>2. Read8(s) = Data(s[1], 1)
      BY <2>1, Read8Is
    <2>3. IsScalar(s[1]) /\ Write8(s[1]) = <<s[1]>>
      BY <2>1, ScalarBounds, SMT DEF Write8
    <2> QED
      BY <1>1, <2>1, <2>2, <2>3, SMT DEF Data
  <1>2. CASE m = 2
    <2>1. Bytes2(s[1], s[2]) /\ s[1] \in Nat /\ s[2] \in Nat
      BY <1>2 DEF Starts8
    <2>2. PICK c, d1, d2 : Carry2(s[1], s[2], c, d1, d2)
      BY <2>1, TwoCarried
    <2>3. IsContinuation(s[2])
      BY <2>1, ContinuationOf DEF Bytes2, Follows
    <2>4. Value8(s, 2) = c
      BY <2>2, SMT DEF Value8, Data, Two, Carry2
    <2>5. c \in Nat /\ 128 <= c /\ c <= 2047 /\ Write8(c) = <<192 + d1, 128 + d2>>
      BY <2>2, TwoWritten, SMT DEF Carry2
    <2>6. IsScalar(c)
      BY <2>5, ScalarBounds, SMT
    <2>7. Lead(s[1]).size = 2 /\ Smallest[2] = 128 /\ \A i \in 2 .. 2 : IsContinuation(s[i])
      BY <2>2, <2>3, SMT DEF Data, Smallest, Carry2
    <2>8. Read8(s) = Data(c, 2)
      BY <1>2, <2>1, <2>4, <2>5, <2>6, <2>7, Read8Whole, SMT DEF Bytes2
    <2>9. Read8(s).c = c /\ Read8(s).size = 2
      BY <2>8 DEF Data
    <2> QED
      BY <1>2, <2>2, <2>5, <2>6, <2>9, SMT DEF Carry2
  <1>3. CASE m = 3
    <2>1. Bytes3(s[1], s[2], s[3]) /\ s[1] \in Nat /\ s[2] \in Nat /\ s[3] \in Nat
      BY <1>3 DEF Starts8
    <2>2. PICK c, d1, d2, d3 : Carry3(s[1], s[2], s[3], c, d1, d2, d3)
      BY <2>1, ThreeCarried
    <2>3. IsContinuation(s[2]) /\ IsContinuation(s[3])
      BY <2>1, ContinuationOf DEF Bytes3, Follows
    <2>4. Value8(s, 3) = c
      <3>1. Lead(s[1]).c = d1
        BY <2>2 DEF Data, Carry3
      <3>2. Value8(s, 3) = (d1 * 64 + d2) * 64 + d3
        BY <2>2, <3>1 DEF Value8, Carry3
      <3> QED
        BY <2>2, <3>2 DEF Three, Carry3
    <2>5. /\ c \in Nat /\ 2048 <= c /\ c <= 65535
          /\ (d1 = 13 => d2 <= 31) <=> ~(55296 <= c /\ c <= 57343)
          /\ Write8(c) = <<224 + d1, 128 + d2, 128 + d3>>
      BY <2>2, ThreeWritten, SMT DEF Carry3
    <2>6. IsScalar(c)
      BY <2>1, <2>2, <2>5, ScalarBounds, SMT DEF Three, Carry3, Bytes3
    <2>7. Lead(s[1]).size = 3 /\ Smallest[3] = 2048 /\ \A i \in 2 .. 3 : IsContinuation(s[i])
      BY <2>2, <2>3, SMT DEF Data, Smallest, Carry3
    <2>8. Read8(s) = Data(c, 3)
      <3>1. ~(s[1] < 128) /\ s[1] >= 128 /\ ~(s[1] >= 245) /\ ~(Len(s) < 3)
        BY <1>3, <2>1 DEF Bytes3
      <3>2. ~(Value8(s, 3) < Smallest[3]) /\ IsScalar(Value8(s, 3))
        BY <2>4, <2>5, <2>6, <2>7, SMT
      <3> QED
        BY <2>4, <2>7, <3>1, <3>2, Read8Whole, SMT
    <2>9. Read8(s).c = c /\ Read8(s).size = 3
      BY <2>8 DEF Data
    <2> QED
      BY <1>3, <2>2, <2>5, <2>6, <2>9, SMT DEF Carry3
  <1>4. CASE m = 4
    <2>1. Bytes4(s[1], s[2], s[3], s[4]) /\ s[1] \in Nat /\ s[2] \in Nat /\ s[3] \in Nat /\ s[4] \in Nat
      BY <1>4 DEF Starts8
    <2>2. PICK c, d1, d2, d3, d4 : Carry4(s[1], s[2], s[3], s[4], c, d1, d2, d3, d4)
      BY <2>1, FourCarried
    <2>3. IsContinuation(s[2]) /\ IsContinuation(s[3]) /\ IsContinuation(s[4])
      BY <2>1, ContinuationOf DEF Bytes4, Follows
    <2>4. Value8(s, 4) = c
      <3>1. Lead(s[1]).c = d1
        BY <2>2 DEF Data, Carry4
      <3>2. Value8(s, 4) = ((d1 * 64 + d2) * 64 + d3) * 64 + d4
        BY <2>2, <3>1 DEF Value8, Carry4
      <3> QED
        BY <2>2, <3>2 DEF Four, Carry4
    <2>5. /\ c \in Nat /\ 65536 <= c /\ c <= 1114111
          /\ Write8(c) = <<240 + d1, 128 + d2, 128 + d3, 128 + d4>>
      BY <2>2, FourWritten, SMT DEF Carry4
    <2>6. IsScalar(c)
      BY <2>5, ScalarBounds, SMT
    <2>7. Lead(s[1]).size = 4 /\ Smallest[4] = 65536 /\ \A i \in 2 .. 4 : IsContinuation(s[i])
      BY <2>2, <2>3, SMT DEF Data, Smallest, Carry4
    <2>8. Read8(s) = Data(c, 4)
      <3>1. ~(s[1] < 128) /\ s[1] >= 128 /\ ~(s[1] >= 245) /\ ~(Len(s) < 4)
        BY <1>4, <2>1 DEF Bytes4
      <3>2. ~(Value8(s, 4) < Smallest[4]) /\ IsScalar(Value8(s, 4))
        BY <2>4, <2>5, <2>6, <2>7, SMT
      <3> QED
        BY <2>4, <2>7, <3>1, <3>2, Read8Whole, SMT
    <2>9. Read8(s).c = c /\ Read8(s).size = 4
      BY <2>8 DEF Data
    <2> QED
      BY <1>4, <2>2, <2>5, <2>6, <2>9, SMTT(30) DEF Carry4
  <1> QED
    BY <1>1, <1>2, <1>3, <1>4

(* What is read is a code point of the string's first bytes, or the        *)
(* replacement for the first byte alone.                                   *)
LEMMA Read8Parts ==
  ASSUME NEW s, NEW len \in 2 .. 4, ~(s[1] < 128), Lead(s[1]).size = len,
         Read8(s) # Fail
  PROVE  /\ Read8(s) = Data(Value8(s, len), len)
         /\ ~(s[1] >= 245) /\ ~(Len(s) < len)
         /\ \A i \in 2 .. len : IsContinuation(s[i])
         /\ ~(Value8(s, len) < Smallest[len]) /\ IsScalar(Value8(s, len))
  <1>1. Read8(s) =
          IF s[1] < 128 THEN Data(s[1], 1)
          ELSE IF \/ s[1] >= 245
                  \/ Len(s) < len
                  \/ \E i \in 2 .. len : ~IsContinuation(s[i])
                  \/ Value8(s, len) < Smallest[len]
                  \/ ~IsScalar(Value8(s, len))
          THEN Fail ELSE Data(Value8(s, len), len)
    BY Read8Is
  <1> QED
    BY <1>1

Sum3(v, b1, b2, b3) ==
  /\ 224 <= b1 /\ b1 <= 239 /\ Follows(b2) /\ Follows(b3)
  /\ v = ((b1 - 224) * 64 + (b2 - 128)) * 64 + (b3 - 128)

Sum4(v, b1, b2, b3, b4) ==
  /\ 240 <= b1 /\ b1 <= 244 /\ Follows(b2) /\ Follows(b3) /\ Follows(b4)
  /\ v = (((b1 - 240) * 64 + (b2 - 128)) * 64 + (b3 - 128)) * 64 + (b4 - 128)

LEMMA Sum3Bounds ==
  ASSUME NEW v, NEW b1 \in Nat, NEW b2 \in Nat, NEW b3 \in Nat, Sum3(v, b1, b2, b3)
  PROVE  /\ v \in Nat
         /\ ~(v < Smallest[3]) /\ IsScalar(v) => Bytes3(b1, b2, b3)
  <1>1. v \in Nat
    BY SMT DEF Sum3, Follows
  <1>2. v >= 2048 /\ ~(55296 <= v /\ v <= 57343) => Bytes3(b1, b2, b3)
    BY SMT DEF Sum3, Bytes3, Follows
  <1> QED
    BY <1>1, <1>2, ScalarBounds, SMT DEF Smallest

LEMMA Sum4Bounds ==
  ASSUME NEW v, NEW b1 \in Nat, NEW b2 \in Nat, NEW b3 \in Nat, NEW b4 \in Nat,
         Sum4(v, b1, b2, b3, b4)
  PROVE  /\ v \in Nat
         /\ ~(v < Smallest[4]) /\ IsScalar(v) => Bytes4(b1, b2, b3, b4)
  <1>1. v \in Nat
    BY SMT DEF Sum4, Follows
  <1>2. v >= 65536 /\ v <= 1114111 => Bytes4(b1, b2, b3, b4)
    BY SMT DEF Sum4, Bytes4, Follows
  <1> QED
    BY <1>1, <1>2, ScalarBounds, SMT DEF Smallest

LEMMA Read8Starts ==
  ASSUME NEW s, Len(s) \in Nat, 1 <= Len(s), \A i \in 1 .. Len(s) : s[i] \in Nat
  PROVE  \/ Read8(s) = Fail /\ 128 <= s[1]
         \/ /\ Read8(s).size \in 1 .. 4 /\ Read8(s).size <= Len(s)
            /\ Read8(s).c \in Nat /\ IsScalar(Read8(s).c)
            /\ s[1] < 128 \/ 194 <= s[1] => Starts8(s, Read8(s).size)
  <1>0. s[1] \in Nat
    OBVIOUS
  <1>1. CASE s[1] < 128
    <2>1. Read8(s) = Data(s[1], 1)
      BY <1>1, Read8Is
    <2>2. IsScalar(s[1])
      BY <1>0, <1>1, ScalarBounds, SMT
    <2> QED
      BY <1>0, <1>1, <2>1, <2>2, SMT DEF Data, Starts8
  <1>2. CASE 128 <= s[1] /\ Read8(s) # Fail
    <2>0. ~(s[1] < 128)
      BY <1>0, <1>2
    <2>1. CASE s[1] <= 193
      <3>1. Lead(s[1]) = Data(s[1] % 16, 3)
        BY <1>0, <1>2, <2>1, SMT DEF Lead
      <3>2. Lead(s[1]).size = 3 /\ Lead(s[1]).c = s[1] % 16
        BY <3>1 DEF Data
      <3>3. /\ Read8(s) = Data(Value8(s, 3), 3) /\ ~(Len(s) < 3)
            /\ IsScalar(Value8(s, 3))
        BY <1>2, <2>0, <3>2, Read8Parts
      <3>4. s[2] \in Nat /\ s[3] \in Nat
        BY <3>3
      <3>5. Value8(s, 3) \in Nat
        <4>1. s[1] % 16 \in Nat /\ s[2] % 64 \in Nat /\ s[3] % 64 \in Nat
          BY <1>0, <3>4
        <4>2. ((s[1] % 16) * 64 + (s[2] % 64)) * 64 + (s[3] % 64) \in Nat
          BY <4>1
        <4> QED
          BY <3>2, <4>2 DEF Value8
      <3> QED
        BY <1>2, <2>1, <3>3, <3>5 DEF Data
    <2>2. CASE 194 <= s[1] /\ s[1] <= 223
      <3>1. Lead(s[1]) = Data(s[1] - 192, 2)
        BY <1>0, <2>2, LeadOf
      <3>2. Lead(s[1]).size = 2
        BY <3>1 DEF Data
      <3>3. /\ Read8(s) = Data(Value8(s, 2), 2) /\ ~(Len(s) < 2)
            /\ IsContinuation(s[2])
        BY <1>2, <2>0, <3>2, Read8Parts
      <3>4. s[2] \in Nat
        BY <3>3
      <3>5. Starts8(s, 2)
        BY <2>2, <3>3, <3>4, ContinuationOf DEF Starts8, Bytes2, Follows
      <3>6. /\ Read8(s).size = 2 /\ Read8(s).c \in Nat /\ IsScalar(Read8(s).c)
        BY <1>0, <3>3, <3>4, <3>5, StartsRead8
      <3> QED
        BY <3>3, <3>5, <3>6
    <2>3. CASE 224 <= s[1] /\ s[1] <= 239
      <3>1. Lead(s[1]) = Data(s[1] - 224, 3)
        BY <1>0, <2>3, LeadOf
      <3>2. Lead(s[1]).size = 3 /\ Lead(s[1]).c = s[1] - 224
        BY <3>1 DEF Data
      <3>3. /\ Read8(s) = Data(Value8(s, 3), 3) /\ ~(Len(s) < 3)
            /\ IsContinuation(s[2]) /\ IsContinuation(s[3])
            /\ ~(Value8(s, 3) < Smallest[3]) /\ IsScalar(Value8(s, 3))
        BY <1>2, <2>0, <3>2, Read8Parts
      <3>4. s[2] \in Nat /\ s[3] \in Nat
        BY <3>3
      <3>5. /\ 128 <= s[2] /\ s[2] <= 191 /\ 128 <= s[3] /\ s[3] <= 191
            /\ s[2] % 64 = s[2] - 128 /\ s[3] % 64 = s[3] - 128
        BY <3>3, <3>4, ContinuationOf, LeadOf
      <3>6. Sum3(Value8(s, 3), s[1], s[2], s[3])
        BY <2>3, <3>2, <3>5 DEF Value8, Sum3, Follows
      <3>9. Bytes3(s[1], s[2], s[3])
        BY <1>0, <3>3, <3>4, <3>6, Sum3Bounds, Zenon
      <3>10. Starts8(s, 3)
        BY <3>9 DEF Starts8
      <3>11. /\ Read8(s).size = 3 /\ Read8(s).c \in Nat /\ IsScalar(Read8(s).c)
        BY <1>0, <3>3, <3>4, <3>10, StartsRead8
      <3> QED
        BY <3>3, <3>10, <3>11
    <2>4. CASE 240 <= s[1]
      <3>0. Lead(s[1]).size = 4
        BY <1>0, <2>4, SMT DEF Lead, Data
      <3>1. ~(s[1] >= 245)
        BY <1>2, <2>0, <3>0, Read8Parts
      <3>2. Lead(s[1]) = Data(s[1] - 240, 4)
        BY <1>0, <2>4, <3>1, LeadOf
      <3>3. /\ Read8(s) = Data(Value8(s, 4), 4) /\ ~(Len(s) < 4)
            /\ IsContinuation(s[2]) /\ IsContinuation(s[3]) /\ IsContinuation(s[4])
            /\ ~(Value8(s, 4) < Smallest[4]) /\ IsScalar(Value8(s, 4))
        BY <1>2, <2>0, <3>0, Read8Parts
      <3>4. s[2] \in Nat /\ s[3] \in Nat /\ s[4] \in Nat
        BY <3>3
      <3>5. /\ 128 <= s[2] /\ s[2] <= 191 /\ 128 <= s[3] /\ s[3] <= 191
            /\ 128 <= s[4] /\ s[4] <= 191
            /\ s[2] % 64 = s[2] - 128 /\ s[3] % 64 = s[3] - 128 /\ s[4] % 64 = s[4] - 128
        BY <3>3, <3>4, ContinuationOf, LeadOf
      <3>6. Lead(s[1]).c = s[1] - 240
        BY <3>2 DEF Data
      <3>7. Sum4(Value8(s, 4), s[1], s[2], s[3], s[4])
        BY <1>0, <2>4, <3>1, <3>5, <3>6 DEF Value8, Sum4, Follows
      <3>10. Bytes4(s[1], s[2], s[3], s[4])
        BY <1>0, <3>3, <3>4, <3>7, Sum4Bounds, Zenon
      <3>11. Starts8(s, 4)
        BY <3>10 DEF Starts8
      <3>12. /\ Read8(s).size = 4 /\ Read8(s).c \in Nat /\ IsScalar(Read8(s).c)
        BY <1>0, <3>3, <3>4, <3>11, StartsRead8
      <3> QED
        BY <3>3, <3>11, <3>12
    <2> QED
      BY <1>0, <1>2, <2>1, <2>2, <2>3, <2>4, SMT
  <1> QED
    BY <1>0, <1>1, <1>2, SMT

-----------------------------------------------------------------------------
(* Units of 16 bits.                                                       *)

Starts16(s, m) ==
  \/ m = 1 /\ ~IsSurrogate(s[1])
  \/ m = 2 /\ IsHighSurrogate(s[1]) /\ IsLowSurrogate(s[2])

LEMMA WellFormed16Is ==
  ASSUME NEW p
  PROVE  WellFormed16(p) <=> Starts16(p, Len(p))
  <1>1. CASE Len(p) = 1
    BY <1>1, SMT DEF WellFormed16, Starts16, IsSurrogate
  <1>2. CASE Len(p) = 2
    BY <1>2, SMT DEF WellFormed16, Starts16, IsHighSurrogate, IsLowSurrogate
  <1>3. CASE Len(p) # 1 /\ Len(p) # 2
    BY <1>3, SMT DEF WellFormed16, Starts16
  <1> QED
    BY <1>1, <1>2, <1>3

(* A code point and the surrogates that stand for it.                      *)
Pair(c, h, l) ==
  /\ h \in Nat /\ l \in Nat /\ h <= 1023 /\ l <= 1023
  /\ c = 65536 + h * 1024 + l

LEMMA PairIs ==
  ASSUME NEW c, NEW h, NEW l, Pair(c, h, l)
  PROVE  /\ c \in Nat /\ 65536 <= c /\ c <= 1114111
         /\ (c - 65536) \div 1024 = h /\ (c - 65536) % 1024 = l
         /\ IsHighSurrogate(55296 + h) /\ IsLowSurrogate(56320 + l)
         /\ 55296 + h \in Nat /\ 56320 + l \in Nat
  <1>1. c \in Nat /\ 65536 <= c /\ c <= 1114111
    BY SMT DEF Pair
  <1>2. (c - 65536) \div 1024 = h /\ (c - 65536) % 1024 = l
    BY SMT DEF Pair
  <1>3. 55296 + h \in Nat /\ 56320 + l \in Nat
    BY SMT DEF Pair
  <1>4. IsHighSurrogate(55296 + h) /\ IsLowSurrogate(56320 + l)
    BY <1>3, SurrogateBounds, SMT DEF Pair
  <1> QED
    BY <1>1, <1>2, <1>3, <1>4, SMT

LEMMA PairOfCode ==
  ASSUME NEW c \in Nat, 65536 <= c, c <= 1114111
  PROVE  \E h, l : Pair(c, h, l) /\ Write16(c) = <<55296 + h, 56320 + l>>
  <1> DEFINE h == (c - 65536) \div 1024
             l == (c - 65536) % 1024
  <1>1. Pair(c, h, l)
    BY SMT DEF Pair
  <1>2. Write16(c) = <<55296 + h, 56320 + l>>
    BY SMT DEF Write16
  <1> HIDE DEF h, l
  <1> QED
    BY <1>1, <1>2, SMT

PairUnits(u, v, c, h, l) ==
  /\ Pair(c, h, l) /\ u = 55296 + h /\ v = 56320 + l
  /\ c = 65536 + (u - 55296) * 1024 + (v - 56320)

LEMMA PairOfUnits ==
  ASSUME NEW u \in Nat, NEW v \in Nat, IsHighSurrogate(u), IsLowSurrogate(v)
  PROVE  \E c, h, l : PairUnits(u, v, c, h, l)
  <1>1. 55296 <= u /\ u <= 56319 /\ 56320 <= v /\ v <= 57343
    BY SurrogateBounds, SMT
  <1>2. PairUnits(u, v, 65536 + (u - 55296) * 1024 + (v - 56320), u - 55296, v - 56320)
    BY <1>1, SMT DEF Pair, PairUnits
  <1> QED
    BY <1>2, SMT

LEMMA Written16 ==
  ASSUME NEW c \in Nat, IsScalar(c),
         NEW s, Len(s) \in Nat, Len(Write16(c)) <= Len(s),
         \A i \in 1 .. Len(Write16(c)) : s[i] = Write16(c)[i]
  PROVE  Read16(s) = Data(c, Len(Write16(c)))
  <1>0. c <= 1114111 /\ ~IsSurrogate(c)
    BY ScalarBounds, SMT
  <1>1. CASE c <= 65535
    <2>1. Write16(c) = <<c>>
      BY <1>1, SMT DEF Write16
    <2>2. s[1] = c /\ Len(Write16(c)) = 1
      BY <2>1
    <2> QED
      BY <1>0, <2>2, SMT DEF Read16
  <1>2. CASE 65536 <= c
    <2>1. PICK h, l : Pair(c, h, l) /\ Write16(c) = <<55296 + h, 56320 + l>>
      BY <1>0, <1>2, PairOfCode, SMT
    <2>2. /\ Len(Write16(c)) = 2 /\ Len(s) >= 2
          /\ s[1] = 55296 + h /\ s[2] = 56320 + l
      BY <2>1, SMT
    <2>3. s[1] \in Nat /\ IsHighSurrogate(s[1]) /\ IsLowSurrogate(s[2])
      BY <2>1, <2>2, PairIs, SMT
    <2>4. IsSurrogate(s[1])
      BY <2>3, SurrogateBounds, SMT
    <2>5. Read16(s) = Data(65536 + (s[1] - 55296) * 1024 + (s[2] - 56320), 2)
      BY <2>2, <2>3, <2>4, SMT DEF Read16
    <2>6. 65536 + (s[1] - 55296) * 1024 + (s[2] - 56320) = c
      BY <2>1, <2>2, SMT DEF Pair
    <2> QED
      BY <2>2, <2>5, <2>6, SMT
  <1> QED
    BY <1>1, <1>2, SMT

LEMMA Written16Starts ==
  ASSUME NEW c \in Nat, IsScalar(c)
  PROVE  /\ Len(Write16(c)) \in 1 .. 4
         /\ \A i \in 1 .. Len(Write16(c)) : Write16(c)[i] \in Nat
         /\ Starts16(Write16(c), Len(Write16(c)))
  <1>0. c <= 1114111 /\ ~IsSurrogate(c)
    BY ScalarBounds, SMT
  <1>1. CASE c <= 65535
    BY <1>0, <1>1, SMT DEF Write16, Starts16
  <1>2. CASE 65536 <= c
    <2>1. PICK h, l : Pair(c, h, l) /\ Write16(c) = <<55296 + h, 56320 + l>>
      BY <1>0, <1>2, PairOfCode, SMT
    <2>2. /\ Len(Write16(c)) = 2
          /\ Write16(c)[1] = 55296 + h /\ Write16(c)[2] = 56320 + l
      BY <2>1, SMT
    <2> QED
      BY <2>1, <2>2, PairIs, SMT DEF Starts16
  <1> QED
    BY <1>1, <1>2, SMT

LEMMA StartsRead16 ==
  ASSUME NEW s, NEW m \in 1 .. 4, Starts16(s, m), Len(s) \in Nat, m <= Len(s),
         \A i \in 1 .. m : IsUnit(16, s[i])
  PROVE  /\ Read16(s).size = m /\ Read16(s).c \in Nat /\ IsScalar(Read16(s).c)
         /\ Len(Write16(Read16(s).c)) = m
         /\ \A i \in 1 .. m : Write16(Read16(s).c)[i] = s[i]
  <1>0. \A i \in 1 .. m : s[i] \in Nat /\ s[i] <= 65535
    BY SMT DEF IsUnit
  <1>1. CASE m = 1
    <2>1. s[1] \in Nat /\ s[1] <= 65535 /\ ~IsSurrogate(s[1])
      BY <1>0, <1>1, SMT DEF Starts16
    <2>2. Read16(s) = Data(s[1], 1)
      BY <2>1, SMT DEF Read16
    <2>3. IsScalar(s[1]) /\ Write16(s[1]) = <<s[1]>>
      BY <2>1, ScalarBounds, SMT DEF Write16
    <2> QED
      BY <1>1, <2>1, <2>2, <2>3, SMT DEF Data
  <1>2. CASE m = 2
    <2>1. s[1] \in Nat /\ s[2] \in Nat /\ IsHighSurrogate(s[1]) /\ IsLowSurrogate(s[2])
      BY <1>0, <1>2, SMT DEF Starts16
    <2>2. PICK c, h, l : PairUnits(s[1], s[2], c, h, l)
      BY <2>1, PairOfUnits, SMT
    <2>3. IsSurrogate(s[1])
      BY <2>1, SurrogateBounds, SMT
    <2>4. Read16(s) = Data(c, 2)
      BY <1>2, <2>1, <2>2, <2>3, SMT DEF Read16, PairUnits
    <2>5. /\ c \in Nat /\ 65536 <= c /\ c <= 1114111
          /\ (c - 65536) \div 1024 = h /\ (c - 65536) % 1024 = l
      BY <2>2, PairIs, SMT DEF PairUnits
    <2>6. IsScalar(c)
      BY <2>5, ScalarBounds, SMT
    <2>7. Write16(c) = <<55296 + h, 56320 + l>>
      BY <2>5, SMT DEF Write16
    <2>8. Read16(s).c = c /\ Read16(s).size = 2
      BY <2>4 DEF Data
    <2>9. Len(Write16(c)) = 2 /\ Write16(c)[1] = s[1] /\ Write16(c)[2] = s[2]
      BY <2>2, <2>7, SMT DEF PairUnits
    <2> QED
      BY <1>2, <2>5, <2>6, <2>8, <2>9, SMT
  <1> QED
    BY <1>1, <1>2, SMT DEF Starts16

LEMMA Read16Starts ==
  ASSUME NEW s, Len(s) \in Nat, 1 <= Len(s)
  PROVE  \/ Read16(s) = Fail
         \/ Starts16(s, 1)
         \/ 2 <= Len(s) /\ Starts16(s, 2)
  BY SMT DEF Read16, Starts16

-----------------------------------------------------------------------------
(* Units of any width.                                                     *)

(* The first m units of s are well-formed.                                 *)
Begins(w, s, m) ==
  \/ w = 8 /\ Starts8(s, m)
  \/ w = 16 /\ Starts16(s, m)
  \/ w = 32 /\ m = 1 /\ IsScalar(s[1])

LEMMA BeginsSize ==
  ASSUME NEW w, NEW s, NEW m, Begins(w, s, m)
  PROVE  m \in 1 .. 4
  BY DEF Begins, Starts8, Starts16

LEMMA BeginsCopy ==
  ASSUME NEW w, NEW s, NEW p, NEW m, \A i \in 1 .. m : p[i] = s[i], Begins(w, s, m)
  PROVE  Begins(w, p, m)
  <1>1. m \in 1 .. 4
    BY BeginsSize
  <1>2. /\ p[1] = s[1] /\ (m >= 2 => p[2] = s[2])
        /\ (m >= 3 => p[3] = s[3]) /\ (m >= 4 => p[4] = s[4])
    BY <1>1
  <1>3. m = 1 \/ m = 2 \/ m = 3 \/ m = 4
    BY <1>1
  <1> QED
    BY <1>2, <1>3 DEF Begins, Starts8, Starts16

LEMMA WellFormedIs ==
  ASSUME NEW w \in {8, 16, 32}, NEW p, Len(p) \in Nat, \A i \in 1 .. Len(p) : p[i] \in Nat
  PROVE  WellFormed(w, p) <=> Begins(w, p, Len(p))
  <1>1. CASE w = 8
    BY <1>1, WellFormed8Is DEF WellFormed, Begins
  <1>2. CASE w = 16
    BY <1>2, WellFormed16Is DEF WellFormed, Begins
  <1>3. CASE w = 32
    <2>1. Len(p) = 1 => p[1] \in Nat
      OBVIOUS
    <2>2. Len(p) = 1 => (IsScalar(p[1]) <=> p[1] <= 1114111 /\ p[1] \notin 55296 .. 57343)
      BY <2>1, SMT DEF IsScalar, IsSurrogate
    <2> QED
      BY <1>3, <2>2, SMT DEF WellFormed, Begins
  <1> QED
    BY <1>1, <1>2, <1>3

LEMMA WriteIs ==
  ASSUME NEW c, IsScalar(c)
  PROVE  /\ Write(8, c) = Write8(c)
         /\ Write(16, c) = Write16(c)
         /\ Write(32, c) = <<c>>
  BY SMT DEF Write

LEMMA ReadIs ==
  ASSUME NEW s
  PROVE  /\ Read(8, s) = Read8(s)
         /\ Read(16, s) = Read16(s)
         /\ Read(32, s) = IF IsScalar(s[1]) THEN Data(s[1], 1) ELSE Fail
  <1>1. Read(8, s) = Read8(s) /\ Read(16, s) = Read16(s) /\ Read(32, s) = Read32(s)
    BY SMT DEF Read
  <1> QED
    BY <1>1, Zenon DEF Read32

LEMMA InvalidStartOf ==
  ASSUME NEW b \in Nat, 128 <= b, b < 194
  PROVE  InvalidStart(b)
  BY SMT DEF InvalidStart

LEMMA WriteBegins ==
  ASSUME NEW w \in {8, 16, 32}, NEW c \in Nat, IsScalar(c)
  PROVE  /\ Len(Write(w, c)) \in 1 .. 4
         /\ \A i \in 1 .. Len(Write(w, c)) : Write(w, c)[i] \in Nat
         /\ Begins(w, Write(w, c), Len(Write(w, c)))
         /\ WellFormed(w, Write(w, c))
  <1>1. CASE w = 8
    <2>1. /\ Len(Write8(c)) \in 1 .. 4
          /\ \A i \in 1 .. Len(Write8(c)) : Write8(c)[i] \in Nat
          /\ Begins(8, Write8(c), Len(Write8(c)))
      BY Written8Starts DEF Begins
    <2> QED
      BY <1>1, <2>1, WriteIs, WellFormedIs
  <1>2. CASE w = 16
    BY <1>2, WriteIs, Written16Starts, WellFormedIs, SMT DEF Begins
  <1>3. CASE w = 32
    BY <1>3, WriteIs, WellFormedIs, SMT DEF Begins
  <1> QED
    BY <1>1, <1>2, <1>3

(* What has been written is read back, whatever follows it.                *)
LEMMA WriteRead ==
  ASSUME NEW w \in {8, 16, 32}, NEW c \in Nat, IsScalar(c),
         NEW s, Len(s) \in Nat, Len(Write(w, c)) <= Len(s),
         \A i \in 1 .. Len(Write(w, c)) : s[i] = Write(w, c)[i]
  PROVE  Read(w, s) = Data(c, Len(Write(w, c)))
  <1>1. CASE w = 8
    BY <1>1, WriteIs, ReadIs, Written8, SMT
  <1>2. CASE w = 16
    BY <1>2, WriteIs, ReadIs, Written16, SMT
  <1>3. CASE w = 32
    BY <1>3, WriteIs, ReadIs
  <1> QED
    BY <1>1, <1>2, <1>3

AllFit(w, s, m) == \A i \in 1 .. m : IsUnit(w, s[i])

Kept(w, s, m) ==
  LET c == Read(w, s).c
  IN /\ Read(w, s).size = m /\ c \in Nat /\ IsScalar(c)
     /\ Len(Write(w, c)) = m /\ \A i \in 1 .. m : Write(w, c)[i] = s[i]

(* What is well-formed is read as a whole and written as it was.           *)
LEMMA BeginsRead ==
  ASSUME NEW w \in {8, 16, 32}, NEW s, NEW m, Begins(w, s, m), Len(s) \in Nat, m <= Len(s),
         AllFit(w, s, m)
  PROVE  Kept(w, s, m)
  <1> SUFFICES /\ Read(w, s).size = m /\ Read(w, s).c \in Nat /\ IsScalar(Read(w, s).c)
               /\ Len(Write(w, Read(w, s).c)) = m
               /\ \A i \in 1 .. m : Write(w, Read(w, s).c)[i] = s[i]
    BY Zenon DEF Kept
  <1> USE DEF AllFit
  <1>0. m \in 1 .. 4
    BY BeginsSize
  <1>1. CASE w = 8
    <2>1. Starts8(s, m) /\ \A i \in 1 .. m : s[i] \in Nat
      BY <1>1 DEF Begins, IsUnit
    <2>2. /\ Read8(s).size = m /\ Read8(s).c \in Nat /\ IsScalar(Read8(s).c)
          /\ Len(Write8(Read8(s).c)) = m
          /\ \A i \in 1 .. m : Write8(Read8(s).c)[i] = s[i]
      BY <1>0, <2>1, StartsRead8
    <2>3. Read(w, s) = Read8(s) /\ Write(w, Read8(s).c) = Write8(Read8(s).c)
      BY <1>1, <2>2, ReadIs, WriteIs
    <2> QED
      BY <2>2, <2>3
  <1>2. CASE w = 16
    <2>1. Starts16(s, m) /\ \A i \in 1 .. m : IsUnit(16, s[i])
      BY <1>2 DEF Begins
    <2>2. /\ Read16(s).size = m /\ Read16(s).c \in Nat /\ IsScalar(Read16(s).c)
          /\ Len(Write16(Read16(s).c)) = m
          /\ \A i \in 1 .. m : Write16(Read16(s).c)[i] = s[i]
      BY <1>0, <2>1, StartsRead16
    <2>3. Read(w, s) = Read16(s) /\ Write(w, Read16(s).c) = Write16(Read16(s).c)
      BY <1>2, <2>2, ReadIs, WriteIs
    <2> QED
      BY <2>2, <2>3
  <1>3. CASE w = 32
    <2>1. m = 1 /\ IsScalar(s[1]) /\ s[1] \in Nat
      BY <1>0, <1>3 DEF Begins, IsUnit
    <2>2. Read(w, s) = Data(s[1], 1)
      BY <1>3, <2>1, ReadIs
    <2>3. Write(w, s[1]) = <<s[1]>>
      BY <1>3, <2>1, WriteIs
    <2> QED
      BY <2>1, <2>2, <2>3 DEF Data
  <1> QED
    BY <1>1, <1>2, <1>3

(* What is read either is well-formed, or replaces one unit, or begins     *)
(* with a byte that nothing well-formed begins with.                       *)
LEMMA ReadBegins ==
  ASSUME NEW w \in {8, 16, 32}, NEW s, Len(s) \in Nat, 1 <= Len(s),
         \A i \in 1 .. Len(s) : IsUnit(w, s[i])
  PROVE  /\ Read(w, s).size \in 1 .. 4 /\ Read(w, s).size <= Len(s)
         /\ Read(w, s).c \in Nat /\ IsScalar(Read(w, s).c)
         /\ \/ Read(w, s) = Fail
            \/ Begins(w, s, Read(w, s).size)
            \/ w = 8 /\ InvalidStart(s[1])
  <1>0. Fail.size = 1 /\ Fail.c \in Nat /\ IsScalar(Fail.c)
    <2>1. Fail.size = 1 /\ Fail.c = 65533
      BY SMT DEF Fail, Data, Replacement
    <2> QED
      BY <2>1, ScalarBounds, SMT
  <1>1. CASE w = 8
    <2>1. \A i \in 1 .. Len(s) : s[i] \in Nat /\ s[i] <= 255
      BY <1>1 DEF IsUnit
    <2>2. Read(w, s) = Read8(s)
      BY <1>1, ReadIs
    <2>3. \/ Read8(s) = Fail
          \/ /\ Read8(s).size \in 1 .. 4 /\ Read8(s).size <= Len(s)
             /\ Read8(s).c \in Nat /\ IsScalar(Read8(s).c)
             /\ s[1] < 128 \/ 194 <= s[1] => Starts8(s, Read8(s).size)
      BY <2>1, Read8Starts
    <2>4. ~(s[1] < 128 \/ 194 <= s[1]) => InvalidStart(s[1])
      BY <2>1, InvalidStartOf
    <2> QED
      BY <1>0, <1>1, <2>2, <2>3, <2>4 DEF Begins
  <1>2. CASE w = 16
    <2>1. Read(w, s) = Read16(s)
      BY <1>2, ReadIs
    <2>2. CASE Read16(s) = Fail
      BY <1>0, <2>1, <2>2
    <2>3. ASSUME NEW m, m <= Len(s), m \in 1 .. 4, Starts16(s, m)
          PROVE  /\ Read(w, s).size \in 1 .. 4 /\ Read(w, s).size <= Len(s)
                 /\ Read(w, s).c \in Nat /\ IsScalar(Read(w, s).c)
                 /\ Begins(w, s, Read(w, s).size)
      <3>1. Begins(w, s, m) /\ \A i \in 1 .. m : IsUnit(w, s[i])
        BY <1>2, <2>3 DEF Begins
      <3> QED
        BY <2>3, <3>1, BeginsRead DEF Kept, AllFit
    <2> QED
      BY <2>2, <2>3, Read16Starts
  <1>3. CASE w = 32
    <2>1. Read(w, s) = IF IsScalar(s[1]) THEN Data(s[1], 1) ELSE Fail
      BY <1>3, ReadIs
    <2>2. s[1] \in Nat
      BY DEF IsUnit
    <2> QED
      BY <1>0, <1>3, <2>1, <2>2 DEF Begins, Data
  <1> QED
    BY <1>1, <1>2, <1>3

-----------------------------------------------------------------------------
(* The copy of a string.                                                   *)

LEMMA WriteSeq ==
  ASSUME NEW w \in {8, 16, 32}, NEW c \in Nat, IsScalar(c)
  PROVE  Write(w, c) \in Seq(Nat)
  <1>1. \A i \in 1 .. Len(Write(w, c)) : Write(w, c)[i] \in Nat
    BY WriteBegins
  <1>2. Write8(c) \in Seq(Int)
    <2>1. /\ <<c>> \in Seq(Int)
          /\ <<192 + (c \div 64), 128 + (c % 64)>> \in Seq(Int)
          /\ <<224 + (c \div 4096), 128 + ((c \div 64) % 64), 128 + (c % 64)>> \in Seq(Int)
          /\ <<240 + (c \div 262144), 128 + ((c \div 4096) % 64),
               128 + ((c \div 64) % 64), 128 + (c % 64)>> \in Seq(Int)
      BY SMT
    <2> QED
      BY <2>1, SMT DEF Write8, Tail6
  <1>3. Write16(c) \in Seq(Int)
    <2>1. /\ <<c>> \in Seq(Int)
          /\ <<55296 + ((c - 65536) \div 1024), 56320 + ((c - 65536) % 1024)>> \in Seq(Int)
      BY SMT
    <2> QED
      BY <2>1, SMT DEF Write16
  <1>4. <<c>> \in Seq(Int)
    OBVIOUS
  <1>5. /\ w = 8 => Write(w, c) = Write8(c)
        /\ w = 16 => Write(w, c) = Write16(c)
        /\ w = 32 => Write(w, c) = <<c>>
    BY WriteIs
  <1>6. Write(w, c) \in Seq(Int)
    BY <1>2, <1>3, <1>4, <1>5, Zenon
  <1> QED
    BY <1>1, <1>6

(* One code point of the copy, as RepairFaithful has it.                   *)
Faithful(w, t, m, r, o) ==
  LET Part(k) == SubSeq(t, r.at + 1, r.at + k)
      valid == \E k \in 1 .. Len(t) - r.at : WellFormed(w, Part(k))
  IN /\ WellFormed(m, o) /\ Read(m, o) = Data(r.c, Len(o))
     /\ valid => WellFormed(w, Part(r.size)) /\ (m = w => o = Part(r.size))
     /\ ~valid /\ ~(w = 8 /\ InvalidStart(t[r.at + 1])) => r.c = Replacement /\ r.size = 1

LEMMA CopyFaithful ==
  ASSUME NEW w \in {8, 16, 32}, NEW m \in {8, 16, 32}, NEW t \in Seq(Nat),
         \A i \in 1 .. Len(t) : IsUnit(w, t[i]), NEW at \in Nat, at < Len(t)
  PROVE  LET d == Read(w, SubSeq(t, at + 1, Len(t)))
         IN /\ d.c \in Nat /\ d.size \in Nat /\ 1 <= d.size /\ at + d.size <= Len(t)
            /\ Write(m, d.c) \in Seq(Nat)
            /\ Faithful(w, t, m, [at |-> at, c |-> d.c, size |-> d.size], Write(m, d.c))
  <1> DEFINE s == SubSeq(t, at + 1, Len(t))
             d == Read(w, s)
             P(k) == SubSeq(t, at + 1, at + k)
  <1>1. Len(s) = Len(t) - at /\ \A i \in 1 .. Len(s) : s[i] = t[at + i]
    OBVIOUS
  <1>2. ASSUME NEW k \in 1 .. Len(t) - at
        PROVE  /\ P(k) \in Seq(Nat) /\ Len(P(k)) = k
               /\ \A i \in 1 .. k : P(k)[i] = s[i] /\ s[i] = P(k)[i]
    OBVIOUS
  <1>3. \A i \in 1 .. Len(s) : IsUnit(w, s[i])
    BY <1>1
  <1>0. Len(s) \in Nat /\ 1 <= Len(s) /\ Len(t) \in Nat
    BY <1>1
  <1> HIDE DEF s
  <1>4. /\ d.size \in 1 .. 4 /\ d.size <= Len(s)
        /\ d.c \in Nat /\ IsScalar(d.c)
        /\ d = Fail \/ Begins(w, s, d.size) \/ (w = 8 /\ InvalidStart(s[1]))
    BY <1>0, <1>3, ReadBegins
  <1>5. ASSUME NEW k \in 1 .. Len(t) - at
        PROVE  WellFormed(w, P(k)) <=> Begins(w, s, k)
    <2>0. k \in Nat /\ Len(P(k)) = k /\ \A i \in 1 .. k : P(k)[i] \in Nat
      BY <1>2
    <2>1. WellFormed(w, P(k)) <=> Begins(w, P(k), k)
      <3> HIDE DEF P
      <3> QED
        BY <2>0, WellFormedIs, SMTT(30)
    <2>2. Begins(w, P(k), k) => Begins(w, s, k)
      <3> HIDE DEF P
      <3> QED
        BY <1>2, BeginsCopy
    <2>3. Begins(w, s, k) => Begins(w, P(k), k)
      <3> HIDE DEF P
      <3> QED
        BY <1>2, BeginsCopy
    <2> QED
      BY <2>1, <2>2, <2>3
  <1>6. ASSUME NEW k \in 1 .. Len(t) - at, Begins(w, s, k)
        PROVE  d.size = k /\ Write(w, d.c) = P(k)
    <2>1. \A i \in 1 .. k : IsUnit(w, s[i])
      BY <1>1, <1>3
    <2>2. /\ d.size = k /\ Len(Write(w, d.c)) = k
          /\ \A i \in 1 .. k : Write(w, d.c)[i] = s[i]
      <3>1. k <= Len(s)
        BY <1>1
      <3>2. /\ Read(w, s).size = k /\ Len(Write(w, Read(w, s).c)) = k
            /\ \A i \in 1 .. k : Write(w, Read(w, s).c)[i] = s[i]
        <4> HIDE DEF d, P
        <4>1. /\ w \in {8, 16, 32} /\ Begins(w, s, k) /\ Len(s) \in Nat /\ k <= Len(s)
              /\ AllFit(w, s, k)
          BY <1>0, <1>6, <2>1, <3>1 DEF AllFit
        <4>2. Kept(w, s, k)
          BY <4>1, BeginsRead
        <4> QED
          BY <4>2, Zenon DEF Kept
      <3> QED
        BY <3>2
    <2>3. Write(w, d.c) \in Seq(Nat)
      BY <1>4, WriteSeq
    <2> HIDE DEF d, P
    <2> QED
      BY <1>2, <2>2, <2>3, SeqEqual
  <1> DEFINE o == Write(m, d.c)
             valid == \E k \in 1 .. Len(t) - at : WellFormed(w, P(k))
  <1>7. o \in Seq(Nat) /\ WellFormed(m, o) /\ Read(m, o) = Data(d.c, Len(o))
    <2>1. o \in Seq(Nat) /\ WellFormed(m, o)
      BY <1>4, WriteSeq, WriteBegins
    <2>2. Len(o) \in Nat /\ Len(o) <= Len(o) /\ \A i \in 1 .. Len(o) : o[i] = o[i]
      BY <2>1
    <2> QED
      BY <1>4, <2>1, <2>2, WriteRead, ZenonT(40)
  <1>8. valid => WellFormed(w, P(d.size)) /\ (m = w => o = P(d.size))
    BY <1>5, <1>6
  <1>9. ~valid /\ ~(w = 8 /\ InvalidStart(t[at + 1])) => d.c = Replacement /\ d.size = 1
    <2> SUFFICES ASSUME ~valid, ~(w = 8 /\ InvalidStart(t[at + 1]))
                 PROVE  d.c = Replacement /\ d.size = 1
      OBVIOUS
    <2>1. s[1] = t[at + 1]
      BY <1>1
    <2>2. d.size \in 1 .. Len(t) - at
      <3>1. d.size \in 1 .. 4 /\ d.size <= Len(s) /\ Len(s) = Len(t) - at
        BY <1>1, <1>4
      <3> HIDE DEF d, P
      <3> QED
        BY <1>0, <3>1
    <2>3. ~Begins(w, s, d.size)
      BY <1>5, <2>2
    <2>4. d = Fail
      BY <1>4, <2>1, <2>3
    <2> QED
      BY <2>4 DEF Fail, Data
  <1> DEFINE r == [at |-> at, c |-> d.c, size |-> d.size]
  <1>10. r.at = at /\ r.c = d.c /\ r.size = d.size
    OBVIOUS
  <1> HIDE DEF r
  <1>11. Faithful(w, t, m, r, o)
    <2> HIDE DEF d, o
    <2> QED
      BY <1>7, <1>8, <1>9, <1>10, Zenon DEF Faithful
  <1>12. d.c \in Nat /\ d.size \in Nat /\ 1 <= d.size /\ at + d.size <= Len(t)
    <2> HIDE DEF d, P
    <2>1. d.size \in Nat /\ 1 <= d.size /\ d.size <= Len(t) - at
      BY <1>0, <1>1, <1>4, SMTT(30)
    <2> QED
      BY <1>0, <1>4, <2>1
  <1> QED
    BY <1>7, <1>11, <1>12 DEF s, r

-----------------------------------------------------------------------------
(* The iterator and the loops.                                             *)

WalkTypes ==
  /\ width \in {8, 16, 32} /\ into \in {0, 8, 16, 32}
  /\ text \in Seq(Nat) /\ \A i \in 1 .. Len(text) : IsUnit(width, text[i])
  /\ cur \in Nat /\ cur <= Len(text)
  /\ cp_size \in Nat
  /\ read \in Seq([at : Nat, c : Nat, size : Nat])
  /\ out \in Seq(Seq(Nat)) /\ Len(out) = Len(read)

(* The cached size is that of the code point at the iterator, and with it  *)
(* the iterator never passes the end of the string.                        *)
CacheFresh ==
  cp_size # 0 => into = 0 /\ cur < Len(text) /\ cp_size = Read(width, Rest).size

(* A loop is where the last code point that it has copied ends.            *)
Copied ==
  /\ into = 0 => read = <<>>
  /\ into # 0 => cur = IF read = <<>> THEN 0
                      ELSE read[Len(read)].at + read[Len(read)].size

Entry(i) ==
  /\ Faithful(width, text, into, read[i], out[i])
  /\ read[i].at = IF i = 1 THEN 0 ELSE read[i - 1].at + read[i - 1].size

Inv == WalkTypes /\ CacheFresh /\ Copied /\ \A i \in 1 .. Len(read) : Entry(i)

LEMMA InitInv == Init => Inv
  <1> SUFFICES ASSUME Init PROVE Inv
    OBVIOUS
  <1>0. width \in DOMAIN Units /\ into \in DOMAIN Units \cup {0}
    BY DEF Init
  <1>1. width \in {8, 16, 32} /\ into \in {0, 8, 16, 32}
    BY <1>0, CodepointsAssumption, SMT
  <1>2. text \in Seq(Units[width])
    <2>1. PICK last \in 0 .. MaxUnits : text \in [1 .. last -> Units[width]]
      BY SMT DEF Init, BoundedSeq, SeqOf
    <2>2. MaxUnits \in Nat
      BY CodepointsAssumption, SMT
    <2> QED
      BY <2>1, <2>2
  <1>3. \A u \in Units[width] : IsUnit(width, u)
    BY <1>0, CodepointsAssumption, SMT DEF IsUnit
  <1>4. text \in Seq(Nat) /\ \A i \in 1 .. Len(text) : IsUnit(width, text[i])
    BY <1>2, <1>3 DEF IsUnit
  <1> QED
    BY <1>1, <1>4 DEF Init, Inv, WalkTypes, CacheFresh, Copied

LEMMA NextInv == Inv /\ [Next]_vars => Inv'
  <1> SUFFICES ASSUME Inv, [Next]_vars PROVE Inv'
    OBVIOUS
  <1> DEFINE d == Read(width, Rest)
  <1>0. ASSUME Within
        PROVE  d.size \in Nat /\ 1 <= d.size /\ cur + d.size <= Len(text)
    BY <1>0, CopyFaithful, ZenonT(40) DEF Inv, WalkTypes, Within, Rest
  <1>1. CASE Deref
    <2>1. /\ UNCHANGED <<width, text, into, cur, read, out>>
          /\ cp_size' = d.size /\ into = 0 /\ Within
      BY <1>1 DEF Deref
    <2>2. Rest' = Rest
      BY <2>1 DEF Rest
    <2>3. WalkTypes'
      BY <1>0, <2>1 DEF Inv, WalkTypes
    <2>4. CacheFresh'
      BY <2>1, <2>2 DEF CacheFresh, Within
    <2>5. Copied' /\ \A i \in 1 .. Len(read') : Entry(i)'
      BY <2>1 DEF Inv, Copied, Entry
    <2> QED
      BY <2>3, <2>4, <2>5 DEF Inv
  <1>2. CASE Advance
    <2>1. /\ UNCHANGED <<width, text, into, read, out>> /\ cp_size' = 0 /\ into = 0 /\ Within
          /\ cur' = cur + d.size
      BY <1>2 DEF Advance, Size, Inv, CacheFresh
    <2>2. WalkTypes'
      BY <1>0, <2>1 DEF Inv, WalkTypes
    <2>3. CacheFresh' /\ Copied' /\ \A i \in 1 .. Len(read') : Entry(i)'
      BY <2>1 DEF Inv, CacheFresh, Copied, Entry
    <2> QED
      BY <2>2, <2>3 DEF Inv
  <1>3. CASE Replace
    <2> DEFINE r == [at |-> cur, c |-> d.c, size |-> d.size]
               o == Write(into, d.c)
    <2>1. /\ UNCHANGED <<width, text, into, cp_size>> /\ into # 0 /\ Within
          /\ read' = Append(read, r) /\ out' = Append(out, o)
          /\ cur' = cur + d.size
      BY <1>3, Zenon DEF Replace
    <2>2. /\ d.c \in Nat /\ d.size \in Nat /\ 1 <= d.size /\ cur + d.size <= Len(text)
          /\ o \in Seq(Nat) /\ Faithful(width, text, into, r, o)
      <3>1. /\ into \in {8, 16, 32} /\ width \in {8, 16, 32} /\ text \in Seq(Nat)
            /\ cur \in Nat /\ cur < Len(text) /\ \A i \in 1 .. Len(text) : IsUnit(width, text[i])
        BY <2>1 DEF Inv, WalkTypes, Within
      <3> QED
        BY <3>1, CopyFaithful, Zenon DEF Rest
    <2>3. r \in [at : Nat, c : Nat, size : Nat] /\ r.at = cur /\ r.size = d.size
      BY <2>2 DEF Inv, WalkTypes
    <2> HIDE DEF d, r, o
    <2>4. /\ Len(read) \in Nat /\ Len(read') = Len(read) + 1 /\ Len(out') = Len(read) + 1
          /\ read'[Len(read) + 1] = r /\ out'[Len(read) + 1] = o
          /\ \A i \in 1 .. Len(read) : read'[i] = read[i] /\ out'[i] = out[i]
      <3>1. /\ read \in Seq([at : Nat, c : Nat, size : Nat]) /\ out \in Seq(Seq(Nat))
            /\ Len(out) = Len(read)
        BY DEF Inv, WalkTypes
      <3>2. /\ Len(read') = Len(read) + 1 /\ read'[Len(read) + 1] = r
            /\ \A i \in 1 .. Len(read) : read'[i] = read[i]
        BY <2>1, <2>3, <3>1
      <3>3. /\ Len(out') = Len(read) + 1 /\ out'[Len(read) + 1] = o
            /\ \A i \in 1 .. Len(read) : out'[i] = out[i]
        BY <2>1, <2>2, <3>1
      <3> QED
        BY <3>1, <3>2, <3>3
    <2>5. WalkTypes'
      <3>1. /\ width' \in {8, 16, 32} /\ into' \in {0, 8, 16, 32}
            /\ text' \in Seq(Nat) /\ (\A i \in 1 .. Len(text') : IsUnit(width', text'[i]))
        <4>1. /\ width \in {8, 16, 32} /\ into \in {0, 8, 16, 32}
              /\ text \in Seq(Nat) /\ \A i \in 1 .. Len(text) : IsUnit(width, text[i])
          BY Zenon DEF Inv, WalkTypes
        <4> QED
          BY <2>1, <4>1, Zenon
      <3>2. cur' \in Nat /\ cur' <= Len(text') /\ cp_size' \in Nat
        <4>1. cur \in Nat /\ cp_size \in Nat
          BY Zenon DEF Inv, WalkTypes
        <4> QED
          BY <2>1, <2>2, <4>1
      <3>3. read' \in Seq([at : Nat, c : Nat, size : Nat]) /\ out' \in Seq(Seq(Nat))
        <4>1. read \in Seq([at : Nat, c : Nat, size : Nat]) /\ out \in Seq(Seq(Nat))
          BY Zenon DEF Inv, WalkTypes
        <4>2. read' \in Seq([at : Nat, c : Nat, size : Nat])
          BY <2>1, <2>3, <4>1
        <4>3. out' \in Seq(Seq(Nat))
          BY <2>1, <2>2, <4>1
        <4> QED
          BY <4>2, <4>3
      <3>4. Len(out') = Len(read')
        BY <2>4
      <3> QED
        BY <3>1, <3>2, <3>3, <3>4, Zenon DEF WalkTypes
    <2>6. CacheFresh'
      BY <2>1 DEF Inv, CacheFresh
    <2>7. Copied'
      BY <2>1, <2>3, <2>4 DEF Copied
    <2>8. ASSUME NEW i \in 1 .. Len(read') PROVE Entry(i)'
      <3>1. CASE i = Len(read) + 1
        <4>1. Faithful(width', text', into', read'[i], out'[i])
          BY <2>1, <2>2, <2>4, <3>1
        <4>2. read'[i].at = IF i = 1 THEN 0 ELSE read'[i - 1].at + read'[i - 1].size
          <5>1. read'[i].at = cur
            BY <2>3, <2>4, <3>1
          <5>2. CASE i = 1
            BY <2>1, <2>4, <3>1, <5>1, <5>2 DEF Inv, Copied
          <5>3. CASE i # 1
            <6>1. read # <<>> /\ read'[i - 1] = read[Len(read)]
              BY <2>4, <3>1, <5>3
            <6> QED
              BY <2>1, <5>1, <5>3, <6>1 DEF Inv, Copied
          <5> QED
            BY <5>2, <5>3
        <4> QED
          BY <4>1, <4>2 DEF Entry
      <3>2. CASE i \in 1 .. Len(read)
        <4>1. Entry(i) /\ read'[i] = read[i] /\ out'[i] = out[i]
          BY <2>4, <3>2 DEF Inv
        <4>2. i # 1 => read'[i - 1] = read[i - 1]
          BY <2>4, <3>2
        <4> QED
          BY <2>1, <4>1, <4>2 DEF Entry
      <3> QED
        BY <2>4, <3>1, <3>2
    <2> QED
      BY <2>5, <2>6, <2>7, <2>8 DEF Inv
  <1>4. CASE UNCHANGED vars
    <2>1. UNCHANGED <<width, text, into, cur, cp_size, read, out>>
      BY <1>4 DEF vars
    <2>2. WalkTypes' /\ Copied' /\ \A i \in 1 .. Len(read') : Entry(i)'
      BY <2>1 DEF Inv, WalkTypes, Copied, Entry
    <2>3. CacheFresh'
      BY <2>1 DEF Inv, CacheFresh, Rest
    <2> QED
      BY <2>2, <2>3 DEF Inv
  <1> QED
    BY <1>1, <1>2, <1>3, <1>4 DEF Next

LEMMA InvFaithful == Inv => RepairFaithful
  <1> SUFFICES ASSUME Inv PROVE RepairFaithful
    OBVIOUS
  <1>1. DOMAIN read = 1 .. Len(read)
    BY DEF Inv, WalkTypes
  <1>2. \A i \in DOMAIN read :
          /\ Faithful(width, text, into, read[i], out[i])
          /\ read[i].at = IF i = 1 THEN 0 ELSE read[i - 1].at + read[i - 1].size
    BY <1>1 DEF Inv, Entry
  <1> QED
    BY <1>2, Zenon DEF RepairFaithful, Faithful

(* invalids_replaced and the transcoding constructor copy every string, of *)
(* any length and in any units, as RepairFaithful says.                    *)
THEOREM RepairIsFaithful == Spec => []RepairFaithful
  <1>1. Spec => []Inv
    BY InitInv, NextInv, PTL DEF Spec
  <1> QED
    BY <1>1, InvFaithful, PTL

(* No iterator passes the end of its string, with or without the cached    *)
(* size (operator++), and no loop does.                                    *)
THEOREM NeverPastEnd == Spec => [](cur <= Len(text))
  <1>1. Inv => cur <= Len(text)
    BY DEF Inv, WalkTypes
  <1> QED
    BY <1>1, InitInv, NextInv, PTL DEF Spec

-----------------------------------------------------------------------------
(* Loops over a text, as recursive functions of where they are.            *)

Runs(f, S, Stop, base, next, step) ==
  f = [x \in S |-> IF x \in Stop THEN base[x] ELSE step[<<x, f[next[x]]>>]]

(* Every step leaves less to do.                                           *)
Falls(S, Stop, next, left, most) ==
  /\ left \in [S -> Nat] /\ most \in Nat /\ \A x \in S : left[x] < most
  /\ \A x \in S \ Stop : next[x] \in S /\ left[next[x]] < left[x]

(* Then such a function exists.                                            *)
LEMMA RunsExist ==
  ASSUME NEW S, NEW V, NEW Stop, NEW base \in [S -> V], NEW next, NEW step \in [S \X V -> V],
         NEW left, NEW most, Falls(S, Stop, next, left, most)
  PROVE  \E f \in [S -> V] : Runs(f, S, Stop, base, next, step)
  <1> DEFINE D(k) == {x \in S : left[x] < k}
             Solves(f, k) == \A x \in D(k) : f[x] = IF x \in Stop THEN base[x]
                                                    ELSE step[<<x, f[next[x]]>>]
             T == {k \in Nat : \E f \in [D(k) -> V] : Solves(f, k)}
  <1>0. left \in [S -> Nat] /\ most \in Nat /\ \A x \in S : left[x] < most
    BY DEF Falls
  <1>1. 0 \in T
    <2>1. D(0) = {}
      BY <1>0
    <2>2. [x \in D(0) |-> base[x]] \in [D(0) -> V]
      OBVIOUS
    <2> QED
      BY <2>1, <2>2
  <1>2. ASSUME NEW k \in Nat, k \in T PROVE k + 1 \in T
    <2>1. PICK f \in [D(k) -> V] : Solves(f, k)
      BY <1>2
    <2> DEFINE g == [x \in D(k + 1) |-> IF x \in Stop THEN base[x] ELSE step[<<x, f[next[x]]>>]]
    <2>2. ASSUME NEW x \in D(k + 1) PROVE x \in Stop \/ next[x] \in D(k)
      <3>1. x \in S /\ left[x] < k + 1 /\ left[x] \in Nat
        BY <1>0
      <3>2. x \notin Stop => next[x] \in S /\ left[next[x]] < left[x] /\ left[next[x]] \in Nat
        BY <1>0, <3>1 DEF Falls
      <3> QED
        BY <3>1, <3>2
    <2>3. ASSUME NEW x \in D(k) PROVE x \in D(k + 1) /\ g[x] = f[x]
      <3>1. x \in D(k + 1)
        BY <1>0
      <3>2. f[x] = IF x \in Stop THEN base[x] ELSE step[<<x, f[next[x]]>>]
        BY <2>1
      <3> QED
        BY <3>1, <3>2
    <2>4. g \in [D(k + 1) -> V]
      <3>1. ASSUME NEW x \in D(k + 1)
            PROVE  (IF x \in Stop THEN base[x] ELSE step[<<x, f[next[x]]>>]) \in V
        <4>1. x \in S
          OBVIOUS
        <4>2. x \notin Stop => <<x, f[next[x]]>> \in S \X V
          BY <2>1, <2>2, <4>1
        <4> QED
          BY <4>1, <4>2
      <3> QED
        BY <3>1
    <2>5. Solves(g, k + 1)
      <3> SUFFICES ASSUME NEW x \in D(k + 1)
                   PROVE  g[x] = IF x \in Stop THEN base[x] ELSE step[<<x, g[next[x]]>>]
        OBVIOUS
      <3>1. g[x] = IF x \in Stop THEN base[x] ELSE step[<<x, f[next[x]]>>]
        OBVIOUS
      <3>2. x \notin Stop => g[next[x]] = f[next[x]]
        BY <2>2, <2>3
      <3> HIDE DEF g
      <3> QED
        BY <3>1, <3>2
    <2> HIDE DEF g, D, Solves
    <2> QED
      BY <2>4, <2>5
  <1>3. most \in T
    <2> HIDE DEF T
    <2> QED
      BY <1>0, <1>1, <1>2, Induction
  <1>4. D(most) = S
    BY <1>0
  <1>5. PICK f \in [D(most) -> V] : Solves(f, most)
    BY <1>3
  <1>6. f \in [S -> V] /\ \A x \in S : f[x] = IF x \in Stop THEN base[x]
                                              ELSE step[<<x, f[next[x]]>>]
    BY <1>4, <1>5, Zenon
  <1> QED
    BY <1>6 DEF Runs

(* And no two agree on where they stop and on each step without being the  *)
(* same.                                                                   *)
LEMMA RunsAgree ==
  ASSUME NEW S, NEW Stop, NEW next,
         NEW left, NEW most, Falls(S, Stop, next, left, most),
         NEW f, NEW g, f = [x \in S |-> f[x]], g = [x \in S |-> g[x]],
         \A x \in S : x \in Stop => f[x] = g[x],
         \A x \in S : x \notin Stop /\ f[next[x]] = g[next[x]] => f[x] = g[x]
  PROVE  f = g
  <1> DEFINE T == {k \in Nat : \A x \in S : left[x] < k => f[x] = g[x]}
  <1>0. left \in [S -> Nat] /\ most \in Nat /\ \A x \in S : left[x] < most
    BY DEF Falls
  <1>1. 0 \in T
    BY <1>0
  <1>2. ASSUME NEW k \in Nat, k \in T PROVE k + 1 \in T
    <2>1. ASSUME NEW x \in S, left[x] < k + 1 PROVE f[x] = g[x]
      <3>1. CASE x \in Stop
        BY <3>1
      <3>2. CASE x \notin Stop
        <4>1. next[x] \in S /\ left[next[x]] < left[x]
          BY <3>2 DEF Falls
        <4>2. left[next[x]] \in Nat /\ left[x] \in Nat
          BY <1>0, <4>1
        <4>3. left[next[x]] < k
          BY <2>1, <4>1, <4>2
        <4>4. f[next[x]] = g[next[x]]
          BY <1>2, <4>1, <4>3
        <4> QED
          BY <3>2, <4>4
      <3> QED
        BY <3>1, <3>2
    <2> QED
      BY <2>1
  <1>3. most \in T
    <2> HIDE DEF T
    <2> QED
      BY <1>0, <1>1, <1>2, Induction
  <1>4. \A x \in S : f[x] = g[x]
    BY <1>0, <1>3
  <1>5. [x \in S |-> f[x]] = [x \in S |-> g[x]]
    BY <1>4
  <1> QED
    BY <1>5, Zenon

(* The loop of codepoint_view, from each place in s.                       *)
DecodeFrom(w, s) ==
  CHOOSE f : f = [at \in 0 .. Len(s) |->
                    IF at = Len(s) THEN <<>>
                    ELSE LET data == Read(w, SubSeq(s, at + 1, Len(s)))
                         IN <<[at |-> at, c |-> data.c, size |-> data.size]>>
                            \o f[at + data.size]]

LEMMA DecodeIsFrom ==
  ASSUME NEW w, NEW s
  PROVE  Decode(w, s) = DecodeFrom(w, s)[0]
  BY DEF Decode, DecodeFrom

LEMMA SameDecode ==
  ASSUME NEW w, NEW s
  PROVE  String!Decode(w, s) = Decode(w, s)
  BY SMT DEF Decode, String!Decode, String!Read, String!Read8, String!Read16, String!Read32,
    Read, Read8, Read16, Read32, String!Lead, Lead,
    String!Data, Data, String!Fail, Fail, String!Replacement, Replacement, String!Smallest, Smallest,
    String!IsContinuation, IsContinuation, String!IsScalar, IsScalar, String!IsSurrogate, IsSurrogate,
    String!IsHighSurrogate, IsHighSurrogate, String!IsLowSurrogate, IsLowSurrogate

LEMMA SameFlatten ==
  ASSUME NEW parts
  PROVE  String!FlattenSeq(parts) = FlattenSeq(parts)
  BY SMT DEF String!FlattenSeq, FlattenSeq

LEMMA SameWrite ==
  ASSUME NEW w, NEW c
  PROVE  String!Write(w, c) = Write(w, c)
  BY SMT DEF String!Write, Write, String!Write8, Write8, String!Write16, Write16,
    String!Tail6, Tail6, String!IsScalar, IsScalar,
    String!IsSurrogate, IsSurrogate, String!Replacement, Replacement

LEMMA SameEncode ==
  ASSUME NEW w, NEW s
  PROVE  String!Encode(w, s) = Encode(w, s)
  <1>1. [i \in DOMAIN s |-> String!Write(w, s[i])] = [i \in DOMAIN s |-> Write(w, s[i])]
    BY SameWrite
  <1> QED
    BY <1>1, SameFlatten, Zenon DEF String!Encode, Encode

-----------------------------------------------------------------------------
(* Sequences put end to end.                                               *)

FlattenTo(parts) ==
  CHOOSE f : f = [i \in 1 .. Len(parts) |-> IF i = 1 THEN parts[i] ELSE f[i - 1] \o parts[i]]

LEMMA FlattenIs ==
  ASSUME NEW parts
  PROVE  FlattenSeq(parts) = IF Len(parts) = 0 THEN parts ELSE FlattenTo(parts)[Len(parts)]
  BY DEF FlattenSeq, FlattenTo

LEMMA FlattenSteps ==
  ASSUME NEW V, NEW parts \in Seq(Seq(V))
  PROVE  /\ FlattenTo(parts) \in [1 .. Len(parts) -> Seq(V)]
         /\ \A i \in 1 .. Len(parts) :
              FlattenTo(parts)[i] = IF i = 1 THEN parts[i] ELSE FlattenTo(parts)[i - 1] \o parts[i]
  <1> DEFINE S == 1 .. Len(parts)
             base == [i \in S |-> parts[i]]
             next == [i \in S |-> i - 1]
             step == [p \in S \X Seq(V) |-> p[2] \o parts[p[1]]]
             left == [i \in S |-> i]
  <1>1. /\ base \in [S -> Seq(V)] /\ step \in [S \X Seq(V) -> Seq(V)]
        /\ Falls(S, {1}, next, left, Len(parts) + 1)
    BY DEF Falls
  <1>2. PICK f \in [S -> Seq(V)] : Runs(f, S, {1}, base, next, step)
    <2> HIDE DEF S, base, next, step, left
    <2> QED
      BY <1>1, RunsExist
  <1>3. ASSUME NEW i \in S
        PROVE  f[i] = IF i = 1 THEN parts[i] ELSE f[i - 1] \o parts[i]
    <2>1. f[i] = IF i \in {1} THEN base[i] ELSE step[<<i, f[next[i]]>>]
      BY <1>2 DEF Runs
    <2>2. i # 1 => f[i - 1] \in Seq(V) /\ next[i] = i - 1
      <3>1. i # 1 => i - 1 \in S
        OBVIOUS
      <3>2. next[i] = i - 1
        OBVIOUS
      <3> HIDE DEF S, next
      <3> QED
        BY <3>1, <3>2
    <2>3. i # 1 => step[<<i, f[i - 1]>>] = f[i - 1] \o parts[i]
      <3> HIDE DEF next
      <3> QED
        BY <2>2
    <2> QED
      BY <2>1, <2>2, <2>3, SMTT(30)
  <1>4. f = [i \in S |-> IF i = 1 THEN parts[i] ELSE f[i - 1] \o parts[i]]
    <2>1. f = [i \in S |-> f[i]]
      BY <1>2
    <2> HIDE DEF S
    <2> QED
      BY <1>3, <2>1
  <1> DEFINE g == FlattenTo(parts)
  <1>5. g = [i \in S |-> IF i = 1 THEN parts[i] ELSE g[i - 1] \o parts[i]]
    BY <1>4, Zenon DEF FlattenTo
  <1> HIDE DEF g
  <1>6. \A i \in S : g[i] = IF i = 1 THEN parts[i] ELSE g[i - 1] \o parts[i]
    BY <1>5, Zenon
  <1>7. g = f
    <2>1. f = [i \in S |-> f[i]] /\ g = [i \in S |-> g[i]]
      <3>1. g = [i \in S |-> g[i]]
        <4> HIDE DEF S
        <4> QED
          BY <1>5, <1>6
      <3> QED
        BY <1>2, <3>1
    <2>2. ASSUME NEW i \in S, i \in {1} PROVE f[i] = g[i]
      <3>1. f[i] = parts[i] /\ g[i] = parts[i]
        BY <1>3, <1>6, <2>2
      <3> QED
        BY <3>1
    <2>3. ASSUME NEW i \in S, i \notin {1}, f[next[i]] = g[next[i]] PROVE f[i] = g[i]
      <3>1. next[i] = i - 1 /\ i # 1
        BY <2>3
      <3> HIDE DEF S, next
      <3>2. f[i] = f[i - 1] \o parts[i] /\ g[i] = g[i - 1] \o parts[i]
        BY <1>3, <1>6, <3>1, Zenon
      <3> QED
        BY <2>3, <3>1, <3>2, Zenon
    <2> DEFINE one == {1}
    <2>4. /\ Falls(S, one, next, left, Len(parts) + 1)
          /\ \A i \in S : i \in one => f[i] = g[i]
          /\ \A i \in S : i \notin one /\ f[next[i]] = g[next[i]] => f[i] = g[i]
      BY <1>1, <2>2, <2>3
    <2> HIDE DEF S, base, next, step, left, one
    <2> QED
      BY <2>1, <2>4, RunsAgree, SMTT(30)
  <1> QED
    BY <1>2, <1>6, <1>7 DEF g

(* Parts of a sequence.                                                    *)
LEMMA PartIs ==
  ASSUME NEW V, NEW s \in Seq(V), NEW i \in Nat, NEW j \in Nat, 1 <= i, i <= j + 1, j <= Len(s)
  PROVE  /\ SubSeq(s, i, j) \in Seq(V) /\ Len(SubSeq(s, i, j)) = (j + 1) - i
         /\ \A k \in 1 .. (j + 1) - i : SubSeq(s, i, j)[k] = s[(i + k) - 1]
  OBVIOUS

LEMMA JoinIs ==
  ASSUME NEW V, NEW s \in Seq(V), NEW t \in Seq(V)
  PROVE  /\ s \o t \in Seq(V) /\ Len(s \o t) = Len(s) + Len(t)
         /\ \A k \in 1 .. Len(s) : (s \o t)[k] = s[k]
         /\ \A k \in 1 .. Len(t) : (s \o t)[Len(s) + k] = t[k]
  OBVIOUS

LEMMA PartOfPart ==
  ASSUME NEW V, NEW s \in Seq(V), NEW i \in Nat, NEW j \in Nat, 1 <= i, i <= j + 1, j <= Len(s),
         NEW k \in Nat, NEW l \in Nat, 1 <= k, k <= l + 1, l <= (j + 1) - i
  PROVE  SubSeq(SubSeq(s, i, j), k, l) = SubSeq(s, (i + k) - 1, (i + l) - 1)
  <1> DEFINE p == SubSeq(s, i, j)
             a == SubSeq(p, k, l)
             b == SubSeq(s, (i + k) - 1, (i + l) - 1)
  <1>1. /\ p \in Seq(V) /\ Len(p) = (j + 1) - i
        /\ \A x \in 1 .. (j + 1) - i : p[x] = s[(i + x) - 1]
    BY PartIs
  <1>2. /\ a \in Seq(V) /\ Len(a) = (l + 1) - k
        /\ \A x \in 1 .. (l + 1) - k : a[x] = p[(k + x) - 1]
    <2> HIDE DEF p
    <2> QED
      BY <1>1, PartIs
  <1>3. /\ b \in Seq(V) /\ Len(b) = (l + 1) - k
        /\ \A x \in 1 .. (l + 1) - k : b[x] = s[(((i + k) - 1) + x) - 1]
    <2>1. (i + k) - 1 \in Nat /\ (i + l) - 1 \in Nat /\ 1 <= (i + k) - 1
          /\ (i + k) - 1 <= ((i + l) - 1) + 1 /\ (i + l) - 1 <= Len(s)
          /\ (((i + l) - 1) + 1) - ((i + k) - 1) = (l + 1) - k
      OBVIOUS
    <2> QED
      BY <2>1, PartIs
  <1> HIDE DEF p, a, b
  <1>4. ASSUME NEW x \in 1 .. Len(a) PROVE a[x] = b[x]
    <2>1. x \in 1 .. (l + 1) - k
      BY <1>2
    <2>2. (k + x) - 1 \in 1 .. (j + 1) - i /\ (i + ((k + x) - 1)) - 1 = (((i + k) - 1) + x) - 1
      BY <2>1
    <2> QED
      BY <1>1, <1>2, <1>3, <2>1, <2>2
  <1> QED
    BY <1>2, <1>3, <1>4, SeqEqual, ZenonT(60) DEF p, a, b

LEMMA PartsMeet ==
  ASSUME NEW V, NEW s \in Seq(V), NEW i \in Nat, NEW j \in Nat, NEW k \in Nat,
         1 <= i, i <= j + 1, j <= k, k <= Len(s)
  PROVE  SubSeq(s, i, j) \o SubSeq(s, j + 1, k) = SubSeq(s, i, k)
  <1> DEFINE a == SubSeq(s, i, j)
             b == SubSeq(s, j + 1, k)
             c == SubSeq(s, i, k)
             d == a \o b
  <1>1. /\ a \in Seq(V) /\ Len(a) = (j + 1) - i
        /\ \A x \in 1 .. (j + 1) - i : a[x] = s[(i + x) - 1]
    BY PartIs
  <1>2. /\ b \in Seq(V) /\ Len(b) = k - j
        /\ \A x \in 1 .. k - j : b[x] = s[j + x]
    <2>1. /\ b \in Seq(V) /\ Len(b) = (k + 1) - (j + 1)
          /\ \A x \in 1 .. (k + 1) - (j + 1) : b[x] = s[((j + 1) + x) - 1]
      BY PartIs
    <2>2. (k + 1) - (j + 1) = k - j
      OBVIOUS
    <2> HIDE DEF b
    <2>3. b \in Seq(V) /\ Len(b) = k - j /\ \A x \in 1 .. k - j : b[x] = s[((j + 1) + x) - 1]
      BY <2>1, <2>2, Zenon
    <2>4. ASSUME NEW x \in 1 .. k - j PROVE b[x] = s[j + x]
      <3>1. ((j + 1) + x) - 1 = j + x
        OBVIOUS
      <3> QED
        BY <2>3, <3>1, Zenon
    <2> QED
      BY <2>3, <2>4
  <1>3. /\ c \in Seq(V) /\ Len(c) = (k + 1) - i
        /\ \A x \in 1 .. (k + 1) - i : c[x] = s[(i + x) - 1]
    BY PartIs
  <1> HIDE DEF a, b, c
  <1>4. /\ d \in Seq(V) /\ Len(d) = Len(a) + Len(b)
        /\ \A x \in 1 .. Len(a) : d[x] = a[x]
        /\ \A x \in 1 .. Len(b) : d[Len(a) + x] = b[x]
    <2>1. a \in Seq(V) /\ b \in Seq(V)
      BY <1>1, <1>2
    <2> QED
      BY <2>1, JoinIs
  <1> HIDE DEF d
  <1>5. ASSUME NEW x \in 1 .. Len(d) PROVE d[x] = c[x]
    <2>1. CASE x <= Len(a)
      BY <1>1, <1>2, <1>3, <1>4, <2>1
    <2>2. CASE x > Len(a)
      <3>1. x - Len(a) \in 1 .. Len(b) /\ Len(a) + (x - Len(a)) = x /\ j + (x - Len(a)) = (i + x) - 1
            /\ x \in 1 .. (k + 1) - i /\ x - Len(a) \in 1 .. k - j
        BY <1>1, <1>2, <1>4, <2>2
      <3>2. d[x] = b[x - Len(a)]
        BY <1>4, <3>1
      <3>3. b[x - Len(a)] = s[j + (x - Len(a))] /\ c[x] = s[(i + x) - 1]
        BY <1>2, <1>3, <3>1
      <3> QED
        BY <3>1, <3>2, <3>3
    <2> QED
      BY <1>1, <1>4, <2>1, <2>2
  <1> QED
    <2>1. Len(d) = Len(c)
      BY <1>1, <1>2, <1>3, <1>4
    <2>2. d \in Seq(V) /\ c \in Seq(V) /\ \A x \in 1 .. Len(d) : d[x] = c[x]
      BY <1>3, <1>4, <1>5
    <2>3. d = c
      BY <2>1, <2>2, SeqEqual
    <2> QED
      BY <2>3 DEF a, b, c, d

LEMMA PartOfJoin ==
  ASSUME NEW V, NEW s \in Seq(V), NEW t \in Seq(V), NEW i \in Nat, NEW j \in Nat,
         1 <= i, i <= j + 1
  PROVE  /\ j <= Len(s) => SubSeq(s \o t, i, j) = SubSeq(s, i, j)
         /\ j <= Len(t) => SubSeq(s \o t, Len(s) + i, Len(s) + j) = SubSeq(t, i, j)
  <1> DEFINE u == s \o t
  <1>1. /\ u \in Seq(V) /\ Len(u) = Len(s) + Len(t)
        /\ \A k \in 1 .. Len(s) : u[k] = s[k]
        /\ \A k \in 1 .. Len(t) : u[Len(s) + k] = t[k]
    BY JoinIs
  <1>2. Len(s) \in Nat /\ Len(t) \in Nat
    OBVIOUS
  <1> HIDE DEF u
  <1>3. ASSUME j <= Len(s) PROVE SubSeq(u, i, j) = SubSeq(s, i, j)
    <2> DEFINE a == SubSeq(u, i, j)
               b == SubSeq(s, i, j)
    <2>1. a \in Seq(V) /\ Len(a) = (j + 1) - i /\ \A k \in 1 .. (j + 1) - i : a[k] = u[(i + k) - 1]
      BY <1>1, <1>2, <1>3, PartIs
    <2>2. b \in Seq(V) /\ Len(b) = (j + 1) - i /\ \A k \in 1 .. (j + 1) - i : b[k] = s[(i + k) - 1]
      BY <1>3, PartIs
    <2> HIDE DEF a, b
    <2>3. ASSUME NEW k \in 1 .. Len(a) PROVE a[k] = b[k]
      <3>1. k \in 1 .. (j + 1) - i /\ (i + k) - 1 \in 1 .. Len(s)
        BY <1>3, <2>1
      <3> QED
        BY <1>1, <2>1, <2>2, <3>1
    <2> QED
      BY <2>1, <2>2, <2>3, SeqEqual DEF a, b
  <1>4. ASSUME j <= Len(t) PROVE SubSeq(u, Len(s) + i, Len(s) + j) = SubSeq(t, i, j)
    <2> DEFINE a == SubSeq(u, Len(s) + i, Len(s) + j)
               b == SubSeq(t, i, j)
    <2>1. /\ a \in Seq(V) /\ Len(a) = (j + 1) - i
          /\ \A k \in 1 .. (j + 1) - i : a[k] = u[Len(s) + ((i + k) - 1)]
      <3>1. /\ Len(s) + i \in Nat /\ Len(s) + j \in Nat /\ 1 <= Len(s) + i
            /\ Len(s) + i <= (Len(s) + j) + 1 /\ Len(s) + j <= Len(u)
        BY <1>1, <1>2, <1>4
      <3>2. /\ a \in Seq(V) /\ Len(a) = ((Len(s) + j) + 1) - (Len(s) + i)
            /\ \A k \in 1 .. ((Len(s) + j) + 1) - (Len(s) + i) : a[k] = u[((Len(s) + i) + k) - 1]
        BY <1>1, <3>1, PartIs, SMTT(30)
      <3>3. ((Len(s) + j) + 1) - (Len(s) + i) = (j + 1) - i
        BY <1>2
      <3> HIDE DEF a
      <3>4. ASSUME NEW k \in 1 .. (j + 1) - i PROVE a[k] = u[Len(s) + ((i + k) - 1)]
        <4>1. ((Len(s) + i) + k) - 1 = Len(s) + ((i + k) - 1)
          BY <1>2
        <4> QED
          BY <3>2, <3>3, <4>1, Zenon
      <3> QED
        BY <3>2, <3>3, <3>4, Zenon
    <2>2. b \in Seq(V) /\ Len(b) = (j + 1) - i /\ \A k \in 1 .. (j + 1) - i : b[k] = t[(i + k) - 1]
      BY <1>4, PartIs
    <2> HIDE DEF a, b
    <2>3. ASSUME NEW k \in 1 .. Len(a) PROVE a[k] = b[k]
      <3>1. k \in 1 .. (j + 1) - i /\ (i + k) - 1 \in 1 .. Len(t)
        BY <1>2, <1>4, <2>1
      <3> QED
        BY <1>1, <2>1, <2>2, <3>1
    <2> QED
      BY <2>1, <2>2, <2>3, SeqEqual DEF a, b
  <1> QED
    BY <1>3, <1>4 DEF u

LEMMA PartWhole ==
  ASSUME NEW V, NEW s \in Seq(V)
  PROVE  SubSeq(s, 1, Len(s)) = s
  <1> DEFINE a == SubSeq(s, 1, Len(s))
  <1>1. a \in Seq(V) /\ Len(a) = Len(s) /\ \A k \in 1 .. Len(a) : a[k] = s[k]
    OBVIOUS
  <1> HIDE DEF a
  <1> QED
    BY <1>1, SeqEqual DEF a

-----------------------------------------------------------------------------
(* Where the parts of a sequence that is put together lie.                 *)
Ends(parts, e) ==
  /\ e \in [0 .. Len(parts) -> Nat] /\ e[0] = 0
  /\ \A i \in 1 .. Len(parts) : e[i] = e[i - 1] + Len(parts[i])

LEMMA GrowsUpTo ==
  ASSUME NEW m \in Nat, NEW e \in [0 .. m -> Nat], \A i \in 1 .. m : e[i - 1] <= e[i],
         NEW k \in 0 .. m, NEW i \in 0 .. k
  PROVE  e[i] <= e[k]
  <1> DEFINE T == {x \in Nat : i + x <= m => e[i] <= e[i + x]}
  <1>1. 0 \in T
    OBVIOUS
  <1>2. ASSUME NEW x \in Nat, x \in T PROVE x + 1 \in T
    <2> SUFFICES ASSUME i + (x + 1) <= m PROVE e[i] <= e[i + (x + 1)]
      OBVIOUS
    <2>1. e[i] <= e[i + x]
      BY <1>2
    <2>2. i + (x + 1) \in 1 .. m /\ (i + (x + 1)) - 1 = i + x /\ i + x \in 0 .. m
      OBVIOUS
    <2>3. e[i + x] <= e[i + (x + 1)]
      BY <2>2
    <2>4. e[i] \in Nat /\ e[i + x] \in Nat /\ e[i + (x + 1)] \in Nat
      BY <2>2
    <2> QED
      BY <2>1, <2>3, <2>4
  <1>3. k - i \in T
    <2> HIDE DEF T
    <2>1. k - i \in Nat
      OBVIOUS
    <2> QED
      BY <1>1, <1>2, <2>1, Induction
  <1>4. i + (k - i) = k
    OBVIOUS
  <1> QED
    BY <1>3, <1>4

LEMMA EndsGrow ==
  ASSUME NEW V, NEW parts \in Seq(Seq(V)), NEW e, Ends(parts, e),
         NEW k \in 0 .. Len(parts), NEW i \in 0 .. k
  PROVE  e[i] \in Nat /\ e[k] \in Nat /\ e[i] <= e[k]
  <1>1. Len(parts) \in Nat /\ e \in [0 .. Len(parts) -> Nat]
    BY DEF Ends
  <1>2. ASSUME NEW x \in 1 .. Len(parts) PROVE e[x - 1] <= e[x]
    <2>1. Len(parts[x]) \in Nat
      OBVIOUS
    <2>2. x - 1 \in 0 .. Len(parts)
      OBVIOUS
    <2>3. e[x - 1] \in Nat /\ e[x] = e[x - 1] + Len(parts[x])
      BY <2>2 DEF Ends
    <2> QED
      BY <2>1, <2>3
  <1>3. e[i] <= e[k]
    BY <1>1, <1>2, GrowsUpTo
  <1> QED
    BY <1>1, <1>3

LEMMA EndsExist ==
  ASSUME NEW V, NEW parts \in Seq(Seq(V))
  PROVE  \E e : Ends(parts, e)
  <1> DEFINE m == Len(parts)
             step == [p \in Nat \X Nat |-> p[2] + (IF p[1] \in 1 .. m THEN Len(parts[p[1]]) ELSE 0)]
  <1>1. m \in Nat /\ \A i \in 1 .. m : Len(parts[i]) \in Nat
    OBVIOUS
  <1>2. step \in [Nat \X Nat -> Nat]
    <2> HIDE DEF m
    <2> QED
      BY <1>1
  <1>3. PICK e \in [0 .. m -> Nat] : Iterates(e, 0 .. m, 0, step)
    <2> HIDE DEF m, step
    <2> QED
      BY <1>1, <1>2, IterationsExist
  <1>4. \A i \in 0 .. m : e[i] = IF i = 0 THEN 0 ELSE step[<<i, e[i - 1]>>]
    BY <1>3 DEF Iterates
  <1>5. ASSUME NEW i \in 1 .. m PROVE e[i] = e[i - 1] + Len(parts[i])
    <2>1. i \in 0 .. m /\ i # 0 /\ i - 1 \in 0 .. m /\ i \in Nat
      BY <1>1
    <2>2. e[i - 1] \in Nat /\ e[i] = step[<<i, e[i - 1]>>]
      BY <1>4, <2>1
    <2>3. \A v \in Nat : step[<<i, v>>] = v + Len(parts[i])
      <3> HIDE DEF m
      <3> QED
        BY <2>1
    <2> HIDE DEF step, m
    <2> QED
      BY <2>2, <2>3
  <1>6. e[0] = 0
    <2>1. 0 \in 0 .. m
      BY <1>1
    <2> HIDE DEF m, step
    <2> QED
      BY <1>4, <2>1
  <1>7. Ends(parts, e)
    BY <1>3, <1>5, <1>6 DEF Ends
  <1> QED
    BY <1>7

(* What has its parts where they would lie is what they make.              *)
LEMMA FlattenOnly ==
  ASSUME NEW V, NEW parts \in Seq(Seq(V)), NEW e, Ends(parts, e),
         NEW s \in Seq(V), Len(s) = e[Len(parts)],
         \A i \in 1 .. Len(parts) : parts[i] = SubSeq(s, e[i - 1] + 1, e[i])
  PROVE  FlattenSeq(parts) = s
  <1> DEFINE m == Len(parts)
             F == FlattenTo(parts)
             T == {k \in Nat : k \in 1 .. m => F[k] = SubSeq(s, 1, e[k])}
  <1>0. m \in Nat /\ e \in [0 .. m -> Nat] /\ e[0] = 0
    BY DEF Ends
  <1>1. \A i \in 1 .. m : F[i] = IF i = 1 THEN parts[i] ELSE F[i - 1] \o parts[i]
    BY FlattenSteps
  <1>2. 0 \in T
    OBVIOUS
  <1>3. ASSUME NEW k \in Nat, k \in T PROVE k + 1 \in T
    <2> SUFFICES ASSUME k + 1 \in 1 .. m PROVE F[k + 1] = SubSeq(s, 1, e[k + 1])
      OBVIOUS
    <2>1. parts[k + 1] = SubSeq(s, e[k] + 1, e[k + 1])
      OBVIOUS
    <2>2. CASE k = 0
      <3>1. F[k + 1] = parts[k + 1]
        BY <1>1, <2>2
      <3>2. e[k] + 1 = 1
        BY <1>0, <2>2
      <3> QED
        BY <2>1, <3>1, <3>2
    <2>3. CASE k # 0
      <3>0. k \in 1 .. m /\ k \in 0 .. k + 1 /\ k + 1 \in 0 .. m /\ m \in 0 .. m /\ k + 1 \in 0 .. m
        BY <1>0, <2>3
      <3>1. F[k] = SubSeq(s, 1, e[k])
        BY <1>3, <3>0
      <3>2. F[k + 1] = F[k] \o parts[k + 1]
        <4>1. k + 1 # 1 /\ (k + 1) - 1 = k
          BY <2>3
        <4> HIDE DEF F
        <4> QED
          BY <1>1, <4>1, Zenon
      <3>3. e[k] \in Nat /\ e[k + 1] \in Nat /\ e[k] <= e[k + 1] /\ e[k + 1] <= Len(s)
        BY <3>0, EndsGrow
      <3>4. SubSeq(s, 1, e[k]) \o SubSeq(s, e[k] + 1, e[k + 1]) = SubSeq(s, 1, e[k + 1])
        <4>1. 1 \in Nat /\ 1 <= 1 /\ 1 <= e[k] + 1
          BY <3>3
        <4> QED
          BY <3>3, <4>1, PartsMeet
      <3> QED
        BY <2>1, <3>1, <3>2, <3>4
    <2> QED
      BY <2>2, <2>3
  <1>4. m \in T
    <2> HIDE DEF T, m
    <2> QED
      BY <1>0, <1>2, <1>3, Induction
  <1>5. CASE m = 0
    <2>1. FlattenSeq(parts) = parts /\ parts = <<>>
      BY <1>5, FlattenIs
    <2>2. s = <<>>
      BY <1>0, <1>5
    <2> QED
      BY <2>1, <2>2
  <1>6. CASE m # 0
    <2>1. F[m] = SubSeq(s, 1, Len(s))
      BY <1>0, <1>4, <1>6
    <2>2. FlattenSeq(parts) = F[m]
      BY <1>6, FlattenIs
    <2> QED
      BY <2>1, <2>2, PartWhole
  <1> QED
    BY <1>5, <1>6

(* And the parts are there.                                                *)
LEMMA FlattenPlaces ==
  ASSUME NEW V, NEW parts \in Seq(Seq(V)), NEW e, Ends(parts, e)
  PROVE  /\ FlattenSeq(parts) \in Seq(V)
         /\ Len(FlattenSeq(parts)) = e[Len(parts)]
         /\ \A i \in 1 .. Len(parts) : SubSeq(FlattenSeq(parts), e[i - 1] + 1, e[i]) = parts[i]
  <1> DEFINE m == Len(parts)
             F == FlattenTo(parts)
             Placed(k) == /\ F[k] \in Seq(V) /\ Len(F[k]) = e[k]
                          /\ \A i \in 1 .. k : SubSeq(F[k], e[i - 1] + 1, e[i]) = parts[i]
             T == {k \in Nat : k \in 1 .. m => Placed(k)}
  <1>0. m \in Nat /\ e \in [0 .. m -> Nat] /\ e[0] = 0
        /\ \A i \in 1 .. m : e[i] = e[i - 1] + Len(parts[i])
    BY DEF Ends
  <1>1. /\ \A i \in 1 .. m : F[i] \in Seq(V)
        /\ \A i \in 1 .. m : F[i] = IF i = 1 THEN parts[i] ELSE F[i - 1] \o parts[i]
    BY FlattenSteps
  <1>2. 0 \in T
    OBVIOUS
  <1>3. ASSUME NEW k \in Nat, k \in T PROVE k + 1 \in T
    <2> SUFFICES ASSUME k + 1 \in 1 .. m PROVE Placed(k + 1)
      OBVIOUS
    <2>0. parts[k + 1] \in Seq(V) /\ e[k + 1] = e[k] + Len(parts[k + 1]) /\ e[k] \in Nat
          /\ Len(parts[k + 1]) \in Nat
      BY <1>0
    <2>1. CASE k = 0
      <3>1. F[k + 1] = parts[k + 1] /\ e[k] = 0
        BY <1>0, <1>1, <2>1
      <3>2. e[k + 1] = Len(parts[k + 1])
        BY <2>0, <3>1
      <3>3. SubSeq(parts[k + 1], 1, Len(parts[k + 1])) = parts[k + 1]
        BY <2>0, PartWhole
      <3>4. SubSeq(F[k + 1], e[k] + 1, e[k + 1]) = parts[k + 1]
        <4>1. e[k] + 1 = 1
          BY <3>1
        <4> QED
          BY <3>1, <3>2, <3>3, <4>1
      <3>5. \A i \in 1 .. k + 1 : i = k + 1 /\ i - 1 = k
        BY <2>1
      <3> QED
        BY <2>0, <3>1, <3>2, <3>4, <3>5
    <2>2. CASE k # 0
      <3>0. k \in 1 .. m
        BY <1>0, <2>2
      <3>1. Placed(k)
        BY <1>3, <3>0
      <3>2. F[k + 1] = F[k] \o parts[k + 1]
        <4>1. k + 1 # 1 /\ (k + 1) - 1 = k
          BY <2>2
        <4> HIDE DEF F
        <4> QED
          BY <1>1, <4>1, Zenon
      <3> DEFINE a == F[k]
                 b == parts[k + 1]
      <3>3. a \in Seq(V) /\ b \in Seq(V)
        BY <2>0, <3>1
      <3>4. /\ Len(a) = e[k] /\ Len(a) \in Nat /\ Len(b) \in Nat
            /\ e[k + 1] = Len(a) + Len(b) /\ F[k + 1] = a \o b
        BY <2>0, <3>1, <3>2
      <3>6. \A i \in 1 .. k : SubSeq(a, e[i - 1] + 1, e[i]) = parts[i]
        BY <3>1
      <3> HIDE DEF F, a
      <3>7. F[k + 1] \in Seq(V) /\ Len(F[k + 1]) = e[k + 1]
        <4> HIDE DEF b
        <4>1. a \o b \in Seq(V) /\ Len(a \o b) = Len(a) + Len(b)
          BY <3>3, JoinIs
        <4> QED
          BY <3>4, <4>1
      <3>5. ASSUME NEW i \in 1 .. k + 1 PROVE SubSeq(F[k + 1], e[i - 1] + 1, e[i]) = parts[i]
        <4>1. CASE i = k + 1
          <5>1. b = SubSeq(F[k + 1], e[i - 1] + 1, e[i])
            <6> HIDE DEF b
            <6>1. 1 \in Nat /\ 1 <= 1 /\ 1 <= Len(b) + 1 /\ Len(b) <= Len(b) /\ Len(b) \in Nat
              BY <3>4
            <6>2. SubSeq(a \o b, Len(a) + 1, Len(a) + Len(b)) = SubSeq(b, 1, Len(b))
              BY <3>3, <6>1, PartOfJoin
            <6>3. SubSeq(b, 1, Len(b)) = b
              BY <3>3, PartWhole
            <6>4. i - 1 = k
              BY <4>1
            <6> QED
              BY <3>4, <4>1, <6>2, <6>3, <6>4
          <5> QED
            BY <4>1, <5>1
        <4>2. CASE i \in 1 .. k
          <5>1. i \in 0 .. k /\ i - 1 \in 0 .. i /\ i \in 0 .. m /\ k \in 0 .. m
            BY <3>0, <4>2
          <5>2. /\ e[i - 1] \in Nat /\ e[i] \in Nat /\ e[i - 1] <= e[i] /\ e[i] <= e[k]
            BY <5>1, EndsGrow
          <5>3. SubSeq(a \o b, e[i - 1] + 1, e[i]) = SubSeq(a, e[i - 1] + 1, e[i])
            <6> DEFINE x == e[i - 1] + 1
                       y == e[i]
            <6> HIDE DEF b
            <6>1. x \in Nat /\ y \in Nat /\ 1 <= x /\ x <= y + 1 /\ y <= Len(a)
              BY <3>4, <5>2, SMTT(30)
            <6> HIDE DEF x, y
            <6>2. SubSeq(a \o b, x, y) = SubSeq(a, x, y)
              BY <3>3, <6>1, PartOfJoin
            <6> QED
              BY <6>2 DEF x, y
          <5>4. F[k + 1] = a \o b
            BY <3>4
          <5>5. SubSeq(a, e[i - 1] + 1, e[i]) = parts[i]
            BY <3>6, <4>2
          <5> QED
            BY <5>3, <5>4, <5>5
        <4> QED
          BY <4>1, <4>2
      <3> QED
        BY <3>5, <3>7
    <2> QED
      BY <2>1, <2>2
  <1>4. m \in T
    <2> HIDE DEF T, m
    <2> QED
      BY <1>0, <1>2, <1>3, Induction
  <1>5. CASE m = 0
    <2>1. FlattenSeq(parts) = parts /\ parts = <<>>
      BY <1>5, FlattenIs
    <2> QED
      BY <1>0, <1>5, <2>1
  <1>6. CASE m # 0
    <2>1. m \in 1 .. m
      BY <1>0, <1>6
    <2>2. Placed(m)
      BY <1>4, <2>1
    <2>3. FlattenSeq(parts) = F[m]
      BY <1>6, FlattenIs
    <2> QED
      BY <2>2, <2>3
  <1> QED
    BY <1>5, <1>6

-----------------------------------------------------------------------------
(* Walks over the code points of a string.                                 *)

UnitsOf(w) == {u \in Nat : IsUnit(w, u)}

ReadFrom(w, s, at) == Read(w, SubSeq(s, at + 1, Len(s)))

Items == [at : Nat, c : Nat, size : Nat]

ItemAt(w, s, at) == [at |-> at, c |-> ReadFrom(w, s, at).c, size |-> ReadFrom(w, s, at).size]

LEMMA UnitsAre ==
  ASSUME NEW w, NEW s \in Seq(UnitsOf(w))
  PROVE  s \in Seq(Nat) /\ Len(s) \in Nat /\ \A i \in 1 .. Len(s) : IsUnit(w, s[i])
  <1>1. \A i \in 1 .. Len(s) : s[i] \in UnitsOf(w)
    OBVIOUS
  <1>2. \A i \in 1 .. Len(s) : s[i] \in Nat /\ IsUnit(w, s[i])
    BY <1>1 DEF UnitsOf
  <1>3. s \in Seq(Nat)
    BY <1>2
  <1> QED
    BY <1>2, <1>3

LEMMA ReadAt ==
  ASSUME NEW w \in {8, 16, 32}, NEW s \in Seq(UnitsOf(w)), NEW at \in 0 .. Len(s), at # Len(s)
  PROVE  LET d == ReadFrom(w, s, at)
         IN /\ d.c \in Nat /\ IsScalar(d.c) /\ d.size \in Nat /\ 1 <= d.size
            /\ at + d.size \in 0 .. Len(s) /\ ItemAt(w, s, at) \in Items
  <1> DEFINE r == SubSeq(s, at + 1, Len(s))
             d == Read(w, r)
  <1>1. s \in Seq(Nat) /\ Len(s) \in Nat /\ \A i \in 1 .. Len(s) : IsUnit(w, s[i])
    BY UnitsAre
  <1>2. Len(r) = Len(s) - at /\ \A i \in 1 .. Len(r) : r[i] = s[at + i]
    BY <1>1
  <1> HIDE DEF r
  <1>3. Len(r) \in Nat /\ 1 <= Len(r) /\ \A i \in 1 .. Len(r) : IsUnit(w, r[i])
    <2>1. Len(r) \in Nat /\ 1 <= Len(r)
      BY <1>1, <1>2
    <2>2. ASSUME NEW i \in 1 .. Len(r) PROVE IsUnit(w, r[i])
      <3>1. at + i \in 1 .. Len(s)
        BY <1>1, <1>2
      <3> QED
        BY <1>1, <1>2, <3>1
    <2> QED
      BY <2>1, <2>2
  <1>4. d.size \in 1 .. 4 /\ d.size <= Len(r) /\ d.c \in Nat /\ IsScalar(d.c)
    BY <1>3, ReadBegins
  <1>5. ReadFrom(w, s, at) = d
    BY DEF ReadFrom, r
  <1> HIDE DEF d
  <1> DEFINE z == d.size
             l == Len(s)
  <1>6. d.size \in Nat /\ 1 <= d.size /\ at + d.size \in 0 .. Len(s)
    <2>1. z \in 1 .. 4 /\ z <= l - at /\ l \in Nat /\ at \in 0 .. l
      BY <1>1, <1>2, <1>4
    <2> HIDE DEF z, l
    <2>2. z \in Nat /\ 1 <= z /\ at + z \in 0 .. l
      BY <2>1
    <2> QED
      BY <2>2 DEF z, l
  <1>7. [at |-> at, c |-> d.c, size |-> d.size] \in Items
    <2>1. at \in Nat /\ d.c \in Nat /\ d.size \in Nat
      BY <1>1, <1>4, <1>6
    <2> QED
      BY <2>1 DEF Items
  <1> QED
    BY <1>4, <1>5, <1>6, <1>7, Zenon DEF ItemAt

LEMMA DecodeSteps ==
  ASSUME NEW w \in {8, 16, 32}, NEW s \in Seq(UnitsOf(w))
  PROVE  /\ DecodeFrom(w, s) \in [0 .. Len(s) -> Seq(Items)]
         /\ \A at \in 0 .. Len(s) :
              DecodeFrom(w, s)[at] =
                IF at = Len(s) THEN <<>>
                ELSE <<ItemAt(w, s, at)>> \o DecodeFrom(w, s)[at + ReadFrom(w, s, at).size]
  <1> DEFINE S == 0 .. Len(s)
             V == Seq(Items)
             end == {Len(s)}
             size(at) == ReadFrom(w, s, at).size
             item(at) == ItemAt(w, s, at)
             base == [at \in S |-> <<>>]
             next == [at \in S |-> at + size(at)]
             step == [p \in S \X V |-> IF p[1] \in end THEN <<>> ELSE <<item(p[1])>> \o p[2]]
             left == [at \in S |-> Len(s) - at]
  <1>0. \A at \in S : at \notin end =>
          size(at) \in Nat /\ 1 <= size(at) /\ at + size(at) \in S /\ item(at) \in Items
    BY ReadAt
  <1>1. Len(s) \in Nat
    OBVIOUS
  <1> HIDE DEF size, item
  <1>2. base \in [S -> V] /\ step \in [S \X V -> V]
    <2>1. base \in [S -> V]
      OBVIOUS
    <2>2. ASSUME NEW p \in S \X V PROVE (IF p[1] \in end THEN <<>> ELSE <<item(p[1])>> \o p[2]) \in V
      <3>1. p[1] \in S /\ p[2] \in Seq(Items)
        OBVIOUS
      <3>2. CASE p[1] \in end
        BY <3>2
      <3>3. CASE p[1] \notin end
        <4>1. <<item(p[1])>> \in Seq(Items)
          BY <1>0, <3>1, <3>3
        <4> QED
          BY <3>1, <3>3, <4>1, JoinIs
      <3> QED
        BY <3>2, <3>3
    <2> HIDE DEF S, V, end
    <2> QED
      BY <2>1, <2>2
  <1>3. Falls(S, end, next, left, Len(s) + 1)
    <2>1. left \in [S -> Nat] /\ \A at \in S : left[at] < Len(s) + 1
      BY <1>1
    <2>2. ASSUME NEW at \in S \ end PROVE next[at] \in S /\ left[next[at]] < left[at]
      <3>1. next[at] = at + size(at) /\ size(at) \in Nat /\ 1 <= size(at) /\ at + size(at) \in S
        BY <1>0
      <3>2. left[next[at]] = Len(s) - (at + size(at)) /\ left[at] = Len(s) - at
        <4> HIDE DEF next
        <4> QED
          BY <3>1
      <3> QED
        BY <1>1, <3>1, <3>2
    <2> HIDE DEF next, left, S
    <2> QED
      BY <1>1, <2>1, <2>2 DEF Falls
  <1>4. PICK f \in [S -> V] : Runs(f, S, end, base, next, step)
    <2> HIDE DEF S, V, end, base, next, step, left
    <2> QED
      BY <1>2, <1>3, <1>1, RunsExist
  <1> DEFINE body(h, at) == IF at = Len(s) THEN <<>> ELSE <<item(at)>> \o h[at + size(at)]
  <1>5. ASSUME NEW at \in S PROVE f[at] = body(f, at)
    <2>1. f[at] = IF at \in end THEN base[at] ELSE step[<<at, f[next[at]]>>]
      BY <1>4 DEF Runs
    <2>2. CASE at = Len(s)
      BY <2>1, <2>2
    <2>3. CASE at # Len(s)
      <3>1. next[at] = at + size(at) /\ next[at] \in S
        BY <1>0, <2>3
      <3>2. f[next[at]] \in V
        <4> HIDE DEF S, V, next
        <4> QED
          BY <3>1
      <3>3. \A v \in V : step[<<at, v>>] = <<item(at)>> \o v
        BY <2>3
      <3> HIDE DEF step, S, V, next
      <3> QED
        BY <2>1, <2>3, <3>1, <3>2, <3>3
    <2> QED
      BY <2>2, <2>3
  <1>6. f = [at \in S |-> body(f, at)]
    <2>1. f = [at \in S |-> f[at]]
      OBVIOUS
    <2> HIDE DEF S, body
    <2> QED
      BY <1>5, <2>1
  <1> DEFINE g == DecodeFrom(w, s)
  <1>7. g = [at \in S |-> body(g, at)]
    <2>1. g = CHOOSE h : h = [at \in S |-> body(h, at)]
      BY Zenon DEF DecodeFrom, ItemAt, ReadFrom, size, item
    <2> HIDE DEF g, body, S
    <2> QED
      BY <1>6, <2>1
  <1> HIDE DEF g
  <1>8. \A at \in S : g[at] = body(g, at)
    <2> HIDE DEF body, S
    <2> QED
      BY <1>7, Zenon
  <1>9. g = f
    <2>1. f = [at \in S |-> f[at]]
      OBVIOUS
    <2>2. g = [at \in S |-> g[at]]
      <3> HIDE DEF S, body
      <3> QED
        BY <1>7, <1>8
    <2>3. ASSUME NEW at \in S, at \in end PROVE f[at] = g[at]
      BY <1>5, <1>8, <2>3
    <2>4. ASSUME NEW at \in S, at \notin end, f[next[at]] = g[next[at]] PROVE f[at] = g[at]
      <3>1. next[at] = at + size(at) /\ at # Len(s)
        BY <2>4
      <3>2. f[at] = body(f, at) /\ g[at] = body(g, at)
        <4> HIDE DEF S, body
        <4> QED
          BY <1>5, <1>8
      <3>3. body(f, at) = <<item(at)>> \o f[next[at]] /\ body(g, at) = <<item(at)>> \o g[next[at]]
        <4> HIDE DEF next
        <4> QED
          BY <3>1, Zenon
      <3> HIDE DEF body, next
      <3> QED
        BY <2>4, <3>2, <3>3, Zenon
    <2> HIDE DEF S, V, end, base, next, step, left
    <2> QED
      BY <2>1, <2>2, <2>3, <2>4, <1>3, <1>1, RunsAgree
  <1>10. g \in [S -> V] /\ \A at \in S : g[at] = body(g, at)
    BY <1>8, <1>9, Zenon
  <1> QED
    BY <1>10, Zenon DEF g, size, item

(* A walk over s in m steps, and where each ends.                          *)
Walk(w, s, e, m) ==
  /\ m \in Nat /\ e \in [0 .. m -> 0 .. Len(s)] /\ e[0] = 0 /\ e[m] = Len(s)
  /\ \A i \in 1 .. m :
       e[i - 1] # Len(s) /\ e[i] = e[i - 1] + ReadFrom(w, s, e[i - 1]).size

LEMMA WalkExists ==
  ASSUME NEW w \in {8, 16, 32}, NEW s \in Seq(UnitsOf(w))
  PROVE  \E m \in Nat : \E e : Walk(w, s, e, m)
  <1> DEFINE l == Len(s)
             size(at) == ReadFrom(w, s, at).size
             step == [p \in Nat \X (0 .. l) |-> IF p[2] = l THEN l ELSE p[2] + size(p[2])]
  <1>0. l \in Nat /\ \A at \in 0 .. l : at # l =>
          size(at) \in Nat /\ 1 <= size(at) /\ at + size(at) \in 0 .. l
    BY ReadAt
  <1> HIDE DEF l, size
  <1>1. step \in [Nat \X (0 .. l) -> 0 .. l] /\ 0 \in 0 .. l
    BY <1>0
  <1>2. PICK f \in [0 .. l -> 0 .. l] : Iterates(f, 0 .. l, 0, step)
    <2> HIDE DEF step
    <2> QED
      BY <1>0, <1>1, IterationsExist
  <1>3. /\ f[0] = 0
        /\ \A i \in 1 .. l : f[i - 1] \in 0 .. l
             /\ f[i] = IF f[i - 1] = l THEN l ELSE f[i - 1] + size(f[i - 1])
    <2>1. \A i \in 0 .. l : f[i] = IF i = 0 THEN 0 ELSE step[<<i, f[i - 1]>>]
      BY <1>2 DEF Iterates
    <2>2. f[0] = 0
      <3>1. 0 \in 0 .. l
        BY <1>0
      <3> HIDE DEF step
      <3> QED
        BY <2>1, <3>1, Zenon
    <2>3. ASSUME NEW i \in 1 .. l
          PROVE  /\ f[i - 1] \in 0 .. l
                 /\ f[i] = IF f[i - 1] = l THEN l ELSE f[i - 1] + size(f[i - 1])
      <3>1. i \in 0 .. l /\ i # 0 /\ i - 1 \in 0 .. l /\ i \in Nat
        BY <1>0
      <3>2. f[i - 1] \in 0 .. l /\ f[i] = step[<<i, f[i - 1]>>]
        <4> HIDE DEF step
        <4> QED
          BY <1>2, <2>1, <3>1
      <3>3. \A v \in 0 .. l : step[<<i, v>>] = IF v = l THEN l ELSE v + size(v)
        BY <3>1
      <3> HIDE DEF step
      <3> QED
        BY <3>2, <3>3
    <2> QED
      BY <2>2, <2>3
  <1> HIDE DEF step
  <1> DEFINE T == {k \in Nat : k <= l => f[k] = l \/ k <= f[k]}
  <1>4. 0 \in T
    BY <1>0, <1>3
  <1>5. ASSUME NEW k \in Nat, k \in T PROVE k + 1 \in T
    <2> SUFFICES ASSUME k + 1 <= l PROVE f[k + 1] = l \/ k + 1 <= f[k + 1]
      OBVIOUS
    <2>1. k \in 0 .. l /\ k + 1 \in 1 .. l /\ (k + 1) - 1 = k
      BY <1>0
    <2>2. f[k] = l \/ k <= f[k]
      BY <1>0, <1>5, <2>1
    <2>3. f[k] \in 0 .. l /\ f[k + 1] = IF f[k] = l THEN l ELSE f[k] + size(f[k])
      BY <1>3, <2>1
    <2>4. f[k] # l => size(f[k]) \in Nat /\ 1 <= size(f[k])
      BY <1>0, <2>3
    <2>5. f[k] = l => f[k + 1] = l
      BY <2>3
    <2>6. f[k] # l => k + 1 <= f[k + 1]
      <3> SUFFICES ASSUME f[k] # l PROVE k + 1 <= f[k + 1]
        OBVIOUS
      <3>1. f[k + 1] = f[k] + size(f[k]) /\ k <= f[k] /\ f[k] \in Nat
        BY <1>0, <2>2, <2>3
      <3> QED
        BY <2>4, <3>1
    <2> QED
      BY <2>5, <2>6
  <1>6. l \in T
    <2> HIDE DEF T
    <2> QED
      BY <1>0, <1>4, <1>5, Induction
  <1>7. f[l] = l
    <2>1. l \in 0 .. l
      BY <1>0
    <2> QED
      BY <1>0, <1>2, <1>6, <2>1
  <1> DEFINE Z == {k \in 0 .. l : f[k] = l}
  <1>8. Z \subseteq Nat /\ Z # {}
    BY <1>0, <1>7
  <1>9. PICK m \in Z : \A k \in Z : m <= k
    <2> HIDE DEF Z
    <2> QED
      BY <1>8, LeastOf
  <1> DEFINE e == [i \in 0 .. m |-> f[i]]
  <1>10. m \in Nat /\ m \in 0 .. l /\ f[m] = l
    BY <1>0, <1>9
  <1>11. e \in [0 .. m -> 0 .. l] /\ e[0] = 0 /\ e[m] = l
    BY <1>0, <1>3, <1>10
  <1>12. ASSUME NEW i \in 1 .. m PROVE e[i - 1] # l /\ e[i] = e[i - 1] + size(e[i - 1])
    <2>1. i \in 1 .. l /\ i - 1 \in 0 .. l /\ ~(m <= i - 1) /\ i - 1 \in 0 .. m /\ i \in 0 .. m
      BY <1>0, <1>10
    <2>2. f[i - 1] # l
      BY <1>9, <2>1
    <2>3. e[i - 1] = f[i - 1] /\ e[i] = f[i]
      BY <2>1
    <2> QED
      BY <1>3, <2>1, <2>2, <2>3
  <1> HIDE DEF e, Z
  <1> QED
    BY <1>10, <1>11, <1>12 DEF Walk, l, size

LEMMA WalkGrows ==
  ASSUME NEW w \in {8, 16, 32}, NEW s \in Seq(UnitsOf(w)), NEW m, NEW e, Walk(w, s, e, m),
         NEW k \in 0 .. m, NEW i \in 0 .. k
  PROVE  e[i] \in Nat /\ e[k] \in Nat /\ e[i] <= e[k] /\ e[k] <= Len(s)
  <1>1. m \in Nat /\ e \in [0 .. m -> 0 .. Len(s)] /\ Len(s) \in Nat
    BY DEF Walk
  <1>2. e \in [0 .. m -> Nat]
    BY <1>1
  <1>3. ASSUME NEW x \in 1 .. m PROVE e[x - 1] <= e[x]
    <2>1. x - 1 \in 0 .. m
      BY <1>1
    <2>2. /\ e[x - 1] \in 0 .. Len(s) /\ e[x - 1] # Len(s)
          /\ e[x] = e[x - 1] + ReadFrom(w, s, e[x - 1]).size
      BY <1>1, <2>1 DEF Walk
    <2>3. ReadFrom(w, s, e[x - 1]).size \in Nat
      BY <2>2, ReadAt
    <2> QED
      BY <1>1, <2>2, <2>3
  <1>4. e[i] <= e[k]
    BY <1>1, <1>2, <1>3, GrowsUpTo
  <1> QED
    BY <1>1, <1>4

(* What Decode makes of a string is what is read on the walk.              *)
LEMMA WalkIs ==
  ASSUME NEW w \in {8, 16, 32}, NEW s \in Seq(UnitsOf(w)), NEW m, NEW e, Walk(w, s, e, m)
  PROVE  /\ Decode(w, s) \in Seq(Items) /\ Len(Decode(w, s)) = m
         /\ \A i \in 1 .. m : Decode(w, s)[i] = ItemAt(w, s, e[i - 1])
  <1> DEFINE f == DecodeFrom(w, s)
             Behind(k) == f[e[m - k]]
             Right(k) == /\ Behind(k) \in Seq(Items) /\ Len(Behind(k)) = k
                         /\ \A j \in 1 .. k : Behind(k)[j] = ItemAt(w, s, e[((m - k) + j) - 1])
             T == {k \in Nat : k <= m => Right(k)}
  <1>0. /\ m \in Nat /\ e \in [0 .. m -> 0 .. Len(s)] /\ e[0] = 0 /\ e[m] = Len(s)
        /\ \A i \in 1 .. m : e[i - 1] # Len(s) /\ e[i] = e[i - 1] + ReadFrom(w, s, e[i - 1]).size
    BY DEF Walk
  <1>1. /\ f \in [0 .. Len(s) -> Seq(Items)]
        /\ \A at \in 0 .. Len(s) :
             f[at] = IF at = Len(s) THEN <<>>
                     ELSE <<ItemAt(w, s, at)>> \o f[at + ReadFrom(w, s, at).size]
    BY DecodeSteps
  <1> HIDE DEF f
  <1>2. 0 \in T
    <2>1. m - 0 = m /\ Len(s) \in 0 .. Len(s)
      BY <1>0
    <2>2. Behind(0) = <<>>
      BY <1>0, <1>1, <2>1, Zenon
    <2>3. Behind(0) \in Seq(Items) /\ Len(Behind(0)) = 0 /\ 1 .. 0 = {}
      BY <2>2
    <2> HIDE DEF Behind
    <2> QED
      BY <2>3
  <1>3. ASSUME NEW k \in Nat, k \in T PROVE k + 1 \in T
    <2> SUFFICES ASSUME k + 1 <= m PROVE Right(k + 1)
      OBVIOUS
    <2>0. k <= m
      BY <1>0
    <2> DEFINE i == m - k
               at == e[i - 1]
               rest == Behind(k)
               item == <<ItemAt(w, s, at)>>
    <2>1. i \in 1 .. m /\ m - (k + 1) = i - 1 /\ i - 1 \in 0 .. m
      BY <1>0
    <2>2. at \in 0 .. Len(s) /\ at # Len(s) /\ e[i] = at + ReadFrom(w, s, at).size
      BY <1>0, <2>1
    <2>3. Behind(k + 1) = item \o rest
      <3>1. Behind(k + 1) = f[at]
        BY <2>1, Zenon
      <3>2. f[at] = <<ItemAt(w, s, at)>> \o f[at + ReadFrom(w, s, at).size]
        <4> HIDE DEF i
        <4> QED
          BY <1>1, <2>2
      <3> QED
        BY <2>2, <3>1, <3>2, Zenon
    <2>4. Right(k)
      BY <1>3, <2>0
    <2>5. item \in Seq(Items) /\ Len(item) = 1 /\ item[1] = ItemAt(w, s, at)
      <3>1. ItemAt(w, s, at) \in Items
        BY <2>2, ReadAt
      <3> HIDE DEF at
      <3> QED
        BY <3>1
    <2>6. rest \in Seq(Items) /\ Len(rest) = k
          /\ \A j \in 1 .. k : rest[j] = ItemAt(w, s, e[((m - k) + j) - 1])
      BY <2>4
    <2> HIDE DEF item, rest
    <2> DEFINE both == item \o rest
    <2>7. /\ both \in Seq(Items) /\ Len(both) = 1 + k /\ both[1] = item[1]
          /\ \A j \in 1 .. k : both[1 + j] = rest[j]
      <3>1. /\ both \in Seq(Items) /\ Len(both) = Len(item) + Len(rest)
            /\ \A j \in 1 .. Len(item) : both[j] = item[j]
            /\ \A j \in 1 .. Len(rest) : both[Len(item) + j] = rest[j]
        <4>1. item \in Seq(Items) /\ rest \in Seq(Items)
          BY <2>5, <2>6
        <4> QED
          BY <4>1, JoinIs
      <3> HIDE DEF both
      <3> QED
        BY <2>5, <2>6, <3>1
    <2> HIDE DEF both
    <2>8. ASSUME NEW j \in 1 .. k + 1
          PROVE  both[j] = ItemAt(w, s, e[((m - (k + 1)) + j) - 1])
      <3>1. CASE j = 1
        <4>1. ((m - (k + 1)) + j) - 1 = i - 1
          BY <1>0, <3>1
        <4> QED
          BY <2>5, <2>7, <3>1, <4>1
      <3>2. CASE j # 1
        <4>1. j - 1 \in 1 .. k /\ 1 + (j - 1) = j
              /\ ((m - k) + (j - 1)) - 1 = ((m - (k + 1)) + j) - 1
          BY <1>0, <3>2
        <4>2. both[1 + (j - 1)] = rest[j - 1] /\ rest[j - 1] = ItemAt(w, s, e[((m - k) + (j - 1)) - 1])
          BY <2>6, <2>7, <4>1
        <4> QED
          BY <4>1, <4>2
      <3> QED
        BY <3>1, <3>2
    <2>9. both = Behind(k + 1)
      BY <2>3 DEF both
    <2>10. 1 + k = k + 1
      OBVIOUS
    <2> HIDE DEF Behind
    <2> QED
      BY <2>7, <2>8, <2>9, <2>10
  <1>4. m \in T
    <2> HIDE DEF T
    <2> QED
      BY <1>0, <1>2, <1>3, Induction
  <1>5. Right(m)
    BY <1>0, <1>4
  <1>6. Behind(m) = Decode(w, s)
    <2>1. m - m = 0
      BY <1>0
    <2> QED
      BY <1>0, <2>1, DecodeIsFrom DEF f
  <1>7. ASSUME NEW i \in 1 .. m PROVE ((m - m) + i) - 1 = i - 1
    BY <1>0
  <1> HIDE DEF Behind
  <1> QED
    BY <1>5, <1>6, <1>7

-----------------------------------------------------------------------------
(* What is written for code points, and read back.                         *)

Scalars == {c \in Nat : IsScalar(c)}

LEMMA Written8Units ==
  ASSUME NEW c \in Nat, IsScalar(c), NEW i \in 1 .. Len(Write8(c))
  PROVE  IsUnit(8, Write8(c)[i])
  <1> DEFINE s == Write8(c)
  <1>1. /\ Len(s) \in 1 .. 4 /\ \A j \in 1 .. Len(s) : s[j] \in Nat
        /\ Starts8(s, Len(s))
    BY Written8Starts
  <1> HIDE DEF s
  <1>2. ASSUME NEW b \in Nat, b <= 255 PROVE IsUnit(8, b)
    BY <1>2 DEF IsUnit
  <1>3. i \in 1 .. Len(s) /\ s[i] \in Nat
    BY <1>1 DEF s
  <1>4. CASE Len(s) = 1
    <2>1. i = 1 /\ s[1] <= 127
      BY <1>1, <1>3, <1>4, SMT DEF Starts8
    <2> QED
      BY <1>2, <1>3, <2>1, SMT DEF s
  <1>5. CASE Len(s) = 2
    <2>1. (i = 1 \/ i = 2) /\ s[1] <= 223 /\ s[2] <= 191
      BY <1>1, <1>3, <1>5, SMT DEF Starts8, Bytes2, Follows
    <2> QED
      BY <1>2, <1>3, <2>1, SMT DEF s
  <1>6. CASE Len(s) = 3
    <2>1. (i = 1 \/ i = 2 \/ i = 3) /\ s[1] <= 239 /\ s[2] <= 191 /\ s[3] <= 191
      BY <1>1, <1>3, <1>6, SMT DEF Starts8, Bytes3, Follows
    <2> QED
      BY <1>2, <1>3, <2>1, SMT DEF s
  <1>7. CASE Len(s) = 4
    <2>1. (i = 1 \/ i = 2 \/ i = 3 \/ i = 4)
          /\ s[1] <= 244 /\ s[2] <= 191 /\ s[3] <= 191 /\ s[4] <= 191
      BY <1>1, <1>3, <1>7, SMT DEF Starts8, Bytes4, Follows
    <2> QED
      BY <1>2, <1>3, <2>1, SMT DEF s
  <1> QED
    BY <1>1, <1>4, <1>5, <1>6, <1>7

LEMMA Written16Units ==
  ASSUME NEW c \in Nat, IsScalar(c), NEW i \in 1 .. Len(Write16(c))
  PROVE  IsUnit(16, Write16(c)[i])
  <1>0. c <= 1114111
    BY ScalarBounds, SMT
  <1>1. CASE c <= 65535
    <2>1. Write16(c) = <<c>>
      BY <1>1, SMT DEF Write16
    <2> QED
      BY <1>1, <2>1, SMT DEF IsUnit
  <1>2. CASE 65536 <= c
    <2>1. PICK h, l : Pair(c, h, l) /\ Write16(c) = <<55296 + h, 56320 + l>>
      BY <1>0, <1>2, PairOfCode, SMT
    <2>2. i = 1 \/ i = 2
      BY <2>1, SMT
    <2>3. Write16(c)[1] = 55296 + h /\ Write16(c)[2] = 56320 + l
      BY <2>1, SMT
    <2>4. h \in Nat /\ l \in Nat /\ h <= 1023 /\ l <= 1023
      BY <2>1 DEF Pair
    <2> QED
      BY <2>2, <2>3, <2>4, SMT DEF IsUnit
  <1> QED
    BY <1>1, <1>2, SMT

(* Whatever c is: what is no code point is replaced.                       *)
LEMMA WriteUnits ==
  ASSUME NEW w \in {8, 16, 32}, NEW c
  PROVE  Write(w, c) \in Seq(UnitsOf(w))
  <1> DEFINE d == IF IsScalar(c) THEN c ELSE Replacement
  <1>1. d \in Nat /\ IsScalar(d)
    <2>1. Replacement \in Nat /\ Replacement = 65533
      BY SMT DEF Replacement
    <2>2. Replacement \in Nat /\ IsScalar(Replacement)
      BY <2>1, ScalarBounds, SMT
    <2>3. IsScalar(c) => c \in Nat
      BY SMT DEF IsScalar
    <2> QED
      BY <2>2, <2>3, Zenon
  <1>2. /\ w = 8 => Write(w, c) = Write8(d)
        /\ w = 16 => Write(w, c) = Write16(d)
        /\ w = 32 => Write(w, c) = <<d>>
    BY SMT DEF Write
  <1>3. /\ w = 8 => Write(w, d) = Write8(d)
        /\ w = 16 => Write(w, d) = Write16(d)
        /\ w = 32 => Write(w, d) = <<d>>
    BY <1>1, WriteIs
  <1> HIDE DEF d
  <1>4. Write(w, c) = Write(w, d)
    BY <1>2, <1>3
  <1>5. Write(w, d) \in Seq(Nat)
    BY <1>1, WriteSeq
  <1>6. ASSUME NEW i \in 1 .. Len(Write(w, d)) PROVE IsUnit(w, Write(w, d)[i])
    <2>1. CASE w = 8
      BY <1>1, <1>3, <1>6, <2>1, Written8Units
    <2>2. CASE w = 16
      BY <1>1, <1>3, <1>6, <2>2, Written16Units
    <2>3. CASE w = 32
      <3>1. Write(w, d)[i] = d
        BY <1>3, <2>3
      <3> QED
        BY <1>1, <2>3, <3>1 DEF IsUnit
    <2> QED
      BY <2>1, <2>2, <2>3
  <1> DEFINE u == Write(w, d)
             V == UnitsOf(w)
  <1>7. u \in Seq(V)
    <2>1. u \in Seq(Nat)
      BY <1>5
    <2>2. ASSUME NEW i \in 1 .. Len(u) PROVE u[i] \in V
      <3>1. IsUnit(w, u[i])
        BY <1>6
      <3> HIDE DEF u
      <3>2. u[i] \in Nat
        BY <2>1
      <3> QED
        BY <3>1, <3>2 DEF UnitsOf
    <2> HIDE DEF u, V
    <2>3. u \in [1 .. Len(u) -> V] /\ Len(u) \in Nat
      BY <2>1, <2>2
    <2> QED
      BY <2>3
  <1> QED
    BY <1>4, <1>7

LEMMA PointsAre ==
  ASSUME NEW w \in {8, 16, 32}, NEW s \in Seq(UnitsOf(w)), NEW m, NEW e, Walk(w, s, e, m)
  PROVE  /\ Points(w, s) \in Seq(Scalars) /\ Len(Points(w, s)) = m
         /\ \A i \in 1 .. m : Points(w, s)[i] = ReadFrom(w, s, e[i - 1]).c
  <1> DEFINE d == Decode(w, s)
             p == [i \in 1 .. m |-> d[i].c]
  <1>1. d \in Seq(Items) /\ Len(d) = m /\ \A i \in 1 .. m : d[i] = ItemAt(w, s, e[i - 1])
    BY WalkIs
  <1>2. m \in Nat /\ \A i \in 1 .. m : e[i - 1] \in 0 .. Len(s) /\ e[i - 1] # Len(s)
    <2>1. m \in Nat /\ e \in [0 .. m -> 0 .. Len(s)] /\ \A i \in 1 .. m : e[i - 1] # Len(s)
      BY DEF Walk
    <2>2. \A i \in 1 .. m : i - 1 \in 0 .. m
      BY <2>1
    <2> QED
      BY <2>1, <2>2
  <1> HIDE DEF d
  <1>3. ASSUME NEW i \in 1 .. m
        PROVE  p[i] = ReadFrom(w, s, e[i - 1]).c /\ p[i] \in Scalars
    <2>1. p[i] = d[i].c
      OBVIOUS
    <2>2. d[i].c = ReadFrom(w, s, e[i - 1]).c
      BY <1>1 DEF ItemAt
    <2>3. ReadFrom(w, s, e[i - 1]).c \in Nat /\ IsScalar(ReadFrom(w, s, e[i - 1]).c)
      BY <1>2, ReadAt
    <2> HIDE DEF p
    <2> QED
      BY <2>1, <2>2, <2>3 DEF Scalars
  <1>4. Points(w, s) = p
    <2>1. DOMAIN d = 1 .. m
      BY <1>1, <1>2
    <2>2. Points(w, s) = [i \in DOMAIN d |-> d[i].c]
      BY DEF Points, d
    <2> QED
      BY <2>1, <2>2
  <1>5. p \in Seq(Scalars) /\ Len(p) = m
    <2>1. \A i \in 1 .. m : d[i].c \in Scalars
      BY <1>3
    <2> QED
      BY <1>2, <2>1
  <1> HIDE DEF p
  <1> QED
    BY <1>3, <1>4, <1>5

LEMMA PointsScalars ==
  ASSUME NEW w \in {8, 16, 32}, NEW s \in Seq(UnitsOf(w))
  PROVE  Points(w, s) \in Seq(Scalars)
  BY WalkExists, PointsAre

LEMMA EncodeParts ==
  ASSUME NEW w \in {8, 16, 32}, NEW V, NEW p \in Seq(V)
  PROVE  /\ [i \in DOMAIN p |-> Write(w, p[i])] \in Seq(Seq(UnitsOf(w)))
         /\ Len([i \in DOMAIN p |-> Write(w, p[i])]) = Len(p)
  <1> DEFINE x(i) == Write(w, p[i])
  <1>1. \A i \in 1 .. Len(p) : x(i) \in Seq(UnitsOf(w))
    BY WriteUnits
  <1>2. DOMAIN p = 1 .. Len(p) /\ Len(p) \in Nat
    OBVIOUS
  <1> HIDE DEF x
  <1>3. [i \in 1 .. Len(p) |-> x(i)] \in Seq(Seq(UnitsOf(w)))
        /\ Len([i \in 1 .. Len(p) |-> x(i)]) = Len(p)
    BY <1>1, <1>2
  <1> QED
    BY <1>2, <1>3, Zenon DEF x

LEMMA EncodeUnits ==
  ASSUME NEW w \in {8, 16, 32}, NEW V, NEW p \in Seq(V)
  PROVE  Encode(w, p) \in Seq(UnitsOf(w))
  <1> DEFINE parts == [i \in DOMAIN p |-> Write(w, p[i])]
             Unit == UnitsOf(w)
  <1>1. parts \in Seq(Seq(Unit))
    BY EncodeParts
  <1> HIDE DEF parts, Unit
  <1>2. PICK e : Ends(parts, e)
    BY <1>1, EndsExist
  <1>3. FlattenSeq(parts) \in Seq(Unit)
    BY <1>1, <1>2, FlattenPlaces
  <1> QED
    BY <1>3 DEF Encode, parts, Unit

LEMMA DataIs ==
  ASSUME NEW c, NEW size
  PROVE  Data(c, size).c = c /\ Data(c, size).size = size
  BY DEF Data

(* What lies between a and b is read as what it was written for.           *)
LEMMA ReadPart ==
  ASSUME NEW w \in {8, 16, 32}, NEW s \in Seq(UnitsOf(w)), NEW c \in Nat, IsScalar(c),
         NEW a \in Nat, NEW b \in Nat, b <= Len(s), b = a + Len(Write(w, c)),
         SubSeq(s, a + 1, b) = Write(w, c)
  PROVE  a < b /\ ReadFrom(w, s, a) = Data(c, b - a)
  <1> DEFINE Unit == UnitsOf(w)
             o == Write(w, c)
             r == SubSeq(s, a + 1, Len(s))
             l == Len(s)
  <1>1. Len(o) \in 1 .. 4
    BY WriteBegins
  <1>2. s \in Seq(Unit) /\ l \in Nat /\ b <= l /\ b = a + Len(o) /\ o = SubSeq(s, a + 1, b)
    OBVIOUS
  <1> HIDE DEF Unit, o, l
  <1>3. \A j \in 1 .. Len(o) : o[j] = s[((a + 1) + j) - 1]
    <2>1. /\ a + 1 \in Nat /\ 1 <= a + 1 /\ a + 1 <= b + 1 /\ b <= l
          /\ (b + 1) - (a + 1) = Len(o)
      BY <1>1, <1>2
    <2>2. \A j \in 1 .. (b + 1) - (a + 1) : SubSeq(s, a + 1, b)[j] = s[((a + 1) + j) - 1]
      <3>1. b <= Len(s) /\ s \in Seq(Unit)
        BY <1>2
      <3> QED
        BY <2>1, <3>1, PartIs
    <2> QED
      BY <1>2, <2>1, <2>2, Zenon
  <1>4. Len(r) = l - a /\ \A j \in 1 .. l - a : r[j] = s[((a + 1) + j) - 1]
    <2>1. a + 1 \in Nat /\ 1 <= a + 1 /\ a + 1 <= l + 1 /\ (l + 1) - (a + 1) = l - a /\ l <= l
      BY <1>1, <1>2
    <2>2. s \in Seq(Unit) /\ Len(s) = l /\ l \in Nat
      BY <1>2 DEF l
    <2>3. /\ Len(SubSeq(s, a + 1, l)) = (l + 1) - (a + 1)
          /\ \A j \in 1 .. (l + 1) - (a + 1) : SubSeq(s, a + 1, l)[j] = s[((a + 1) + j) - 1]
      BY <2>1, <2>2, PartIs
    <2>4. r = SubSeq(s, a + 1, l)
      BY DEF l
    <2> HIDE DEF r
    <2> QED
      BY <2>1, <2>3, <2>4, Zenon
  <1> HIDE DEF r
  <1>5. /\ Len(r) \in Nat /\ Len(o) <= Len(r) /\ 1 .. Len(o) \subseteq 1 .. l - a
        /\ a < b /\ b - a = Len(o)
    BY <1>1, <1>2, <1>4
  <1>6. \A j \in 1 .. Len(o) : r[j] = o[j]
    BY <1>3, <1>4, <1>5
  <1>7. Read(w, r) = Data(c, Len(o))
    BY <1>5, <1>6, WriteRead DEF o
  <1>8. ReadFrom(w, s, a) = Read(w, r)
    BY Zenon DEF ReadFrom, r
  <1> QED
    BY <1>5, <1>7, <1>8

(* A text that is written is read back, whatever its units.                *)
LEMMA EncodeRead ==
  ASSUME NEW w \in {8, 16, 32}, NEW p \in Seq(Scalars)
  PROVE  Points(w, Encode(w, p)) = p
  <1> DEFINE parts == [i \in DOMAIN p |-> Write(w, p[i])]
             Unit == UnitsOf(w)
             m == Len(p)
             s == FlattenSeq(parts)
  <1>1. parts \in Seq(Seq(Unit)) /\ Len(parts) = m
    BY EncodeParts
  <1>2. m \in Nat /\ \A i \in 1 .. m : parts[i] = Write(w, p[i]) /\ p[i] \in Nat /\ IsScalar(p[i])
    <2>1. \A i \in 1 .. m : p[i] \in Scalars /\ i \in DOMAIN p
      OBVIOUS
    <2>2. \A i \in 1 .. m : p[i] \in Nat /\ IsScalar(p[i])
      BY <2>1 DEF Scalars
    <2> QED
      BY <2>1, <2>2
  <1>3. s = Encode(w, p)
    BY DEF Encode
  <1> HIDE DEF parts, Unit, m
  <1>4. PICK e : Ends(parts, e)
    BY <1>1, EndsExist
  <1>5. /\ s \in Seq(Unit) /\ Len(s) = e[m]
        /\ \A i \in 1 .. m : SubSeq(s, e[i - 1] + 1, e[i]) = parts[i]
    <2> HIDE DEF s
    <2>1. /\ s \in Seq(Unit) /\ Len(s) = e[Len(parts)]
          /\ \A i \in 1 .. Len(parts) : SubSeq(s, e[i - 1] + 1, e[i]) = parts[i]
      BY <1>1, <1>4, FlattenPlaces DEF s
    <2> QED
      BY <1>1, <2>1
  <1> HIDE DEF s
  <1>6. /\ e \in [0 .. m -> Nat] /\ e[0] = 0
        /\ \A i \in 1 .. m : e[i] = e[i - 1] + Len(parts[i])
    BY <1>1, <1>4 DEF Ends
  <1>7. ASSUME NEW i \in 1 .. m
        PROVE  /\ e[i - 1] \in Nat /\ e[i] \in Nat /\ e[i] <= Len(s) /\ e[i - 1] < e[i]
               /\ ReadFrom(w, s, e[i - 1]) = Data(p[i], e[i] - e[i - 1])
    <2> DEFINE a == e[i - 1]
               b == e[i]
               c == p[i]
    <2>1. a \in Nat /\ b \in Nat /\ b <= Len(s)
      <3>1. i \in 0 .. m /\ m \in 0 .. Len(parts) /\ i - 1 \in 0 .. m
        BY <1>1, <1>2
      <3>2. e[i] \in Nat /\ e[m] \in Nat /\ e[i] <= e[m]
        BY <1>1, <1>4, <3>1, EndsGrow
      <3> QED
        BY <1>5, <1>6, <3>1, <3>2
    <2>2. c \in Nat /\ IsScalar(c) /\ SubSeq(s, a + 1, b) = Write(w, c) /\ b = a + Len(Write(w, c))
      <3>1. parts[i] = Write(w, p[i]) /\ p[i] \in Nat /\ IsScalar(p[i])
        BY <1>2
      <3>2. SubSeq(s, a + 1, b) = parts[i]
        BY <1>5
      <3>3. b = a + Len(parts[i])
        BY <1>6
      <3> QED
        BY <3>1, <3>2, <3>3, Zenon
    <2>3. s \in Seq(UnitsOf(w))
      BY <1>5 DEF Unit
    <2> HIDE DEF a, b, c
    <2>4. a < b /\ ReadFrom(w, s, a) = Data(c, b - a)
      BY <2>1, <2>2, <2>3, ReadPart, ZenonT(60)
    <2>5. /\ a \in Nat /\ b \in Nat /\ b <= Len(s) /\ a < b
          /\ ReadFrom(w, s, a) = Data(c, b - a)
      BY <2>1, <2>4, Zenon
    <2> QED
      BY <2>5, Zenon DEF a, b, c
  <1>8. Walk(w, s, e, m)
    <2>1. ASSUME NEW i \in 1 .. m
          PROVE  e[i - 1] # Len(s) /\ e[i] = e[i - 1] + ReadFrom(w, s, e[i - 1]).size
      <3>1. ReadFrom(w, s, e[i - 1]).size = e[i] - e[i - 1]
        BY <1>7, DataIs
      <3>2. /\ e[i - 1] \in Nat /\ e[i] \in Nat /\ e[i] <= Len(s) /\ e[i - 1] < e[i]
            /\ Len(s) \in Nat
        BY <1>5, <1>7
      <3> QED
        BY <3>1, <3>2
    <2>2. e \in [0 .. m -> 0 .. Len(s)]
      <3>1. ASSUME NEW i \in 0 .. m PROVE e[i] \in 0 .. Len(s)
        <4>1. m \in 0 .. m
          BY <1>2
        <4>2. e[i] \in Nat /\ e[m] \in Nat /\ e[i] <= e[m]
          BY <1>1, <1>4, <4>1, EndsGrow
        <4> QED
          BY <1>5, <4>2
      <3> QED
        BY <1>6, <3>1
    <2> QED
      BY <1>2, <1>5, <1>6, <2>1, <2>2 DEF Walk
  <1> DEFINE q == Points(w, s)
  <1>9. q \in Seq(Scalars) /\ Len(q) = m /\ \A i \in 1 .. m : q[i] = ReadFrom(w, s, e[i - 1]).c
    BY <1>5, <1>8, PointsAre DEF Unit
  <1>10. ASSUME NEW i \in 1 .. m PROVE q[i] = p[i]
    <2>1. ReadFrom(w, s, e[i - 1]).c = p[i]
      BY <1>7, DataIs
    <2>2. q[i] = ReadFrom(w, s, e[i - 1]).c
      BY <1>9
    <2> QED
      BY <2>1, <2>2, Zenon
  <1> HIDE DEF q
  <1>11. q = p
    BY <1>9, <1>10, SeqEqual DEF m
  <1> QED
    BY <1>3, <1>11 DEF q

-----------------------------------------------------------------------------
(* Splitting and joining.                                                  *)

Places(s) == (0 .. Len(s)) \X (0 .. Len(s))

(* The loop of split, from each place and each start of a piece.           *)
SplitFrom(s, sep) ==
  CHOOSE f : f = [p \in Places(s) |->
    LET it == p[1]
        from == p[2]
    IN IF it > Len(s) - Len(sep) THEN <<SubSeq(s, from + 1, Len(s))>>
       ELSE IF String!HasAt(s, it, sep)
       THEN <<SubSeq(s, from + 1, it)>> \o f[<<it + Len(sep), it + Len(sep)>>]
       ELSE f[<<it + 1, from>>]]

LEMMA SplitIs ==
  ASSUME NEW s, NEW sep
  PROVE  String!split(s, sep) =
           IF Len(sep) = 0 THEN [i \in DOMAIN s |-> <<s[i]>>]
           ELSE IF Len(sep) > Len(s) THEN <<s>> ELSE SplitFrom(s, sep)[<<0, 0>>]
  BY Zenon DEF String!split, SplitFrom, Places

(* What the loop makes of a place and of what f makes of the later ones.   *)
SplitBody(f, s, sep, it, from) ==
  IF it > Len(s) - Len(sep) THEN <<SubSeq(s, from + 1, Len(s))>>
  ELSE IF String!HasAt(s, it, sep)
  THEN <<SubSeq(s, from + 1, it)>> \o f[<<it + Len(sep), it + Len(sep)>>]
  ELSE f[<<it + 1, from>>]

LEMMA SplitSteps ==
  ASSUME NEW V, NEW s \in Seq(V), NEW sep \in Seq(V), 1 <= Len(sep), Len(sep) <= Len(s)
  PROVE  /\ SplitFrom(s, sep) \in [Places(s) -> Seq(Seq(V))]
         /\ \A it, from \in 0 .. Len(s) :
              SplitFrom(s, sep)[<<it, from>>] = SplitBody(SplitFrom(s, sep), s, sep, it, from)
  <1> DEFINE l == Len(s)
             d == Len(sep)
             S == Places(s)
             W == Seq(Seq(V))
             has(it) == String!HasAt(s, it, sep)
             piece(from, it) == <<SubSeq(s, from + 1, it)>>
             stop == {p \in S : p[1] > l - d}
             base == [p \in S |-> piece(p[2], l)]
             next == [p \in S |-> IF has(p[1]) THEN <<p[1] + d, p[1] + d>> ELSE <<p[1] + 1, p[2]>>]
             step == [q \in S \X W |-> IF has(q[1][1]) THEN piece(q[1][2], q[1][1]) \o q[2] ELSE q[2]]
             left == [p \in S |-> l - p[1]]
  <1>0. l \in Nat /\ d \in Nat /\ 1 <= d /\ d <= l
    OBVIOUS
  <1>1. \A from, it \in 0 .. l : piece(from, it) \in W
    <2>1. ASSUME NEW from \in 0 .. l, NEW it \in 0 .. l PROVE SubSeq(s, from + 1, it) \in Seq(V)
      BY <1>0
    <2>2. \A x \in Seq(V) : <<x>> \in Seq(Seq(V))
      OBVIOUS
    <2> QED
      BY <2>1, <2>2
  <1>2. S = (0 .. l) \X (0 .. l)
    BY DEF Places
  <1> HIDE DEF l, d, has, piece, S, W
  <1>3. base \in [S -> W] /\ step \in [S \X W -> W]
    <2>1. \A p \in S : piece(p[2], l) \in W
      BY <1>0, <1>1, <1>2
    <2>2. ASSUME NEW q \in S \X W
          PROVE  (IF has(q[1][1]) THEN piece(q[1][2], q[1][1]) \o q[2] ELSE q[2]) \in W
      <3>1. q[2] \in W /\ q[1][1] \in 0 .. l /\ q[1][2] \in 0 .. l
        BY <1>2
      <3>2. piece(q[1][2], q[1][1]) \in W
        BY <1>1, <3>1
      <3>3. \A x, y \in W : x \o y \in W
        BY DEF W
      <3> QED
        BY <3>1, <3>2, <3>3
    <2> QED
      BY <2>1, <2>2
  <1>4. ASSUME NEW p \in S, p \notin stop
        PROVE  /\ p[1] \in 0 .. l /\ p[2] \in 0 .. l /\ p[1] <= l - d
               /\ p[1] + d \in 0 .. l /\ p[1] + 1 \in 0 .. l
               /\ next[p] \in S /\ left[next[p]] < left[p]
    <2>1. p[1] \in 0 .. l /\ p[2] \in 0 .. l /\ ~(p[1] > l - d)
      BY <1>2, <1>4
    <2>2. p[1] <= l - d /\ p[1] + d \in 0 .. l /\ p[1] + 1 \in 0 .. l
      BY <1>0, <2>1
    <2>3. next[p] = IF has(p[1]) THEN <<p[1] + d, p[1] + d>> ELSE <<p[1] + 1, p[2]>>
      OBVIOUS
    <2> DEFINE x == p[1]
               y == p[2]
    <2> HIDE DEF next, x, y
    <2>4. next[p] \in S /\ p[1] < next[p][1]
      <3>1. next[p] = <<x + d, x + d>> \/ next[p] = <<x + 1, y>>
        BY <2>3 DEF x, y
      <3>2. x + d \in 0 .. l /\ x + 1 \in 0 .. l /\ y \in 0 .. l /\ x \in 0 .. l
        BY <2>1, <2>2 DEF x, y
      <3>3. next[p] \in S /\ x < next[p][1]
        BY <1>0, <1>2, <3>1, <3>2, SMTT(60)
      <3> QED
        BY <3>3 DEF x
    <2>5. left[next[p]] < left[p]
      <3>1. left[next[p]] = l - next[p][1] /\ left[p] = l - p[1]
        BY <2>4
      <3>2. next[p][1] \in 0 .. l
        BY <1>2, <2>4
      <3> HIDE DEF left
      <3> QED
        BY <1>0, <2>1, <2>4, <3>1, <3>2
    <2> QED
      BY <2>1, <2>2, <2>4, <2>5
  <1>5. Falls(S, stop, next, left, l + 1)
    <2>1. left \in [S -> Nat] /\ \A p \in S : left[p] < l + 1
      BY <1>0, <1>2
    <2> HIDE DEF next, left, stop
    <2> QED
      BY <1>0, <1>4, <2>1 DEF Falls
  <1>6. PICK f \in [S -> W] : Runs(f, S, stop, base, next, step)
    <2>1. l + 1 \in Nat
      BY <1>0
    <2> HIDE DEF base, next, step, left, stop
    <2> QED
      BY <1>3, <1>5, <2>1, RunsExist
  <1> DEFINE body(h, p) ==
               IF p[1] > l - d THEN piece(p[2], l)
               ELSE IF has(p[1]) THEN piece(p[2], p[1]) \o h[<<p[1] + d, p[1] + d>>]
               ELSE h[<<p[1] + 1, p[2]>>]
  <1>7. ASSUME NEW p \in S PROVE f[p] = body(f, p)
    <2>1. f[p] = IF p \in stop THEN base[p] ELSE step[<<p, f[next[p]]>>]
      BY <1>6, Zenon DEF Runs
    <2>2. CASE p[1] > l - d
      BY <2>1, <2>2
    <2>3. CASE ~(p[1] > l - d)
      <3>1. p \notin stop
        BY <2>3
      <3>2. next[p] \in S
        BY <1>4, <3>1
      <3>3. next[p] = IF has(p[1]) THEN <<p[1] + d, p[1] + d>> ELSE <<p[1] + 1, p[2]>>
        OBVIOUS
      <3>4. f[next[p]] \in W
        <4> HIDE DEF next
        <4> QED
          BY <3>2
      <3>5. \A v \in W : step[<<p, v>>] = IF has(p[1]) THEN piece(p[2], p[1]) \o v ELSE v
        OBVIOUS
      <3> HIDE DEF next, step, stop
      <3>6. f[p] = IF has(p[1]) THEN piece(p[2], p[1]) \o f[next[p]] ELSE f[next[p]]
        BY <2>1, <3>1, <3>4, <3>5
      <3> QED
        BY <2>3, <3>3, <3>6, Zenon
    <2> QED
      BY <2>2, <2>3, Zenon
  <1>8. f = [p \in S |-> body(f, p)]
    <2>1. f = [p \in S |-> f[p]]
      OBVIOUS
    <2> HIDE DEF body
    <2> QED
      BY <1>7, <2>1
  <1> DEFINE g == SplitFrom(s, sep)
  <1>9. g = [p \in S |-> body(g, p)]
    <2>1. g = CHOOSE h : h = [p \in S |-> body(h, p)]
      BY Zenon DEF SplitFrom, S, l, d, piece, has
    <2> HIDE DEF g, body
    <2> QED
      BY <1>8, <2>1
  <1> HIDE DEF g
  <1>10. \A p \in S : g[p] = body(g, p)
    <2> HIDE DEF body
    <2> QED
      BY <1>9, Zenon
  <1>11. g = f
    <2>1. f = [p \in S |-> f[p]]
      OBVIOUS
    <2>2. g = [p \in S |-> g[p]]
      <3> HIDE DEF body
      <3> QED
        BY <1>9, <1>10
    <2>3. ASSUME NEW p \in S, p \in stop PROVE f[p] = g[p]
      <3>1. p[1] > l - d
        BY <2>3
      <3>2. f[p] = piece(p[2], l) /\ g[p] = piece(p[2], l)
        BY <1>7, <1>10, <3>1, Zenon
      <3> QED
        BY <3>2
    <2>4. ASSUME NEW p \in S, p \notin stop, f[next[p]] = g[next[p]] PROVE f[p] = g[p]
      <3>1. ~(p[1] > l - d)
        BY <2>4
      <3>2. next[p] = IF has(p[1]) THEN <<p[1] + d, p[1] + d>> ELSE <<p[1] + 1, p[2]>>
        OBVIOUS
      <3> HIDE DEF next
      <3>3. body(f, p) = body(g, p)
        BY <2>4, <3>1, <3>2, Zenon
      <3>4. f[p] = body(f, p) /\ g[p] = body(g, p)
        <4> HIDE DEF body
        <4> QED
          BY <1>7, <1>10
      <3> HIDE DEF body
      <3> QED
        BY <3>3, <3>4, Zenon
    <2>5. l + 1 \in Nat
      BY <1>0
    <2> HIDE DEF base, next, step, left, stop
    <2> QED
      BY <2>1, <2>2, <2>3, <2>4, <2>5, <1>5, RunsAgree
  <1>12. g \in [S -> W]
    BY <1>11
  <1>13. ASSUME NEW it \in 0 .. l, NEW from \in 0 .. l
         PROVE  g[<<it, from>>] =
                  IF it > l - d THEN piece(from, l)
                  ELSE IF has(it) THEN piece(from, it) \o g[<<it + d, it + d>>]
                  ELSE g[<<it + 1, from>>]
    <2> DEFINE p == <<it, from>>
    <2>1. p \in S /\ p[1] = it /\ p[2] = from
      BY <1>2
    <2> HIDE DEF p
    <2>2. g[p] = body(g, p)
      <3> HIDE DEF body
      <3> QED
        BY <1>10, <2>1
    <2>3. g[p] = IF it > l - d THEN piece(from, l)
                 ELSE IF has(it) THEN piece(from, it) \o g[<<it + d, it + d>>]
                 ELSE g[<<it + 1, from>>]
      BY <2>1, <2>2, Zenon
    <2> QED
      BY <2>3, Zenon DEF p
  <1> QED
    BY <1>12, <1>13, Zenon DEF SplitBody, g, l, d, piece, has, S, W

LEMMA FlattenNone == FlattenSeq(<<>>) = <<>>
  BY FlattenIs

LEMMA FlattenSeqs ==
  ASSUME NEW V, NEW parts \in Seq(Seq(V))
  PROVE  FlattenSeq(parts) \in Seq(V)
  BY EndsExist, FlattenPlaces

LEMMA FlattenCons ==
  ASSUME NEW V, NEW a \in Seq(V), NEW rest \in Seq(Seq(V))
  PROVE  FlattenSeq(<<a>> \o rest) = a \o FlattenSeq(rest)
  <1> DEFINE parts == <<a>> \o rest
             m == Len(rest)
             F == FlattenSeq(rest)
             s == a \o F
             l == Len(a)
  <1>1. PICK e : Ends(rest, e)
    BY EndsExist
  <1>2. /\ F \in Seq(V) /\ Len(F) = e[m]
        /\ \A i \in 1 .. m : SubSeq(F, e[i - 1] + 1, e[i]) = rest[i]
    BY <1>1, FlattenPlaces
  <1>3. /\ m \in Nat /\ l \in Nat /\ e \in [0 .. m -> Nat] /\ e[0] = 0
        /\ \A i \in 1 .. m : e[i] = e[i - 1] + Len(rest[i]) /\ Len(rest[i]) \in Nat
    BY <1>1 DEF Ends
  <1>4. /\ parts \in Seq(Seq(V)) /\ Len(parts) = m + 1 /\ parts[1] = a
        /\ \A i \in 1 .. m : parts[i + 1] = rest[i]
    OBVIOUS
  <1>5. s \in Seq(V) /\ Len(s) = l + e[m]
    <2>1. F \in Seq(V)
      BY <1>2
    <2> HIDE DEF F
    <2>2. s \in Seq(V) /\ Len(s) = l + Len(F)
      BY <2>1, JoinIs
    <2>3. Len(F) = e[m]
      BY <1>2 DEF F
    <2> QED
      BY <2>2, <2>3, Zenon
  <1> DEFINE g == [i \in 0 .. m + 1 |-> IF i = 0 THEN 0 ELSE l + e[i - 1]]
  <1> HIDE DEF parts, m, F
  <1>6. g \in [0 .. m + 1 -> Nat] /\ g[0] = 0 /\ g[m + 1] = l + e[m]
    <2>1. ASSUME NEW i \in 0 .. m + 1 PROVE (IF i = 0 THEN 0 ELSE l + e[i - 1]) \in Nat
      <3>1. i # 0 => i - 1 \in 0 .. m
        BY <1>3
      <3> QED
        BY <1>3, <3>1
    <2>2. m + 1 \in 0 .. m + 1 /\ 0 \in 0 .. m + 1 /\ (m + 1) - 1 = m /\ m + 1 # 0
      BY <1>3
    <2> QED
      BY <2>1, <2>2
  <1>7. \A i \in 1 .. m : g[i] = l + e[i - 1] /\ g[i + 1] = l + e[i]
    <2> SUFFICES ASSUME NEW i \in 1 .. m PROVE g[i] = l + e[i - 1] /\ g[i + 1] = l + e[i]
      OBVIOUS
    <2>1. i \in 0 .. m + 1 /\ i + 1 \in 0 .. m + 1 /\ i # 0 /\ i + 1 # 0 /\ (i + 1) - 1 = i
      BY <1>3
    <2> QED
      BY <2>1
  <1>8. g[1] = l
    <2>1. 1 \in 0 .. m + 1 /\ 1 - 1 = 0
      BY <1>3
    <2> QED
      BY <1>3, <2>1
  <1> HIDE DEF g, l
  <1>9. ASSUME NEW j \in 1 .. m + 1
        PROVE  g[j] = g[j - 1] + Len(parts[j]) /\ parts[j] = SubSeq(s, g[j - 1] + 1, g[j])
    <2>1. CASE j = 1
      <3>1. a \in Seq(V) /\ F \in Seq(V) /\ 1 \in Nat /\ l \in Nat /\ 1 <= 1 /\ 1 <= l + 1 /\ l <= Len(a)
        BY <1>2, <1>3 DEF l
      <3>2. SubSeq(s, 1, l) = SubSeq(a, 1, l)
        BY <3>1, PartOfJoin
      <3>3. SubSeq(a, 1, l) = a
        BY PartWhole DEF l
      <3>4. g[j - 1] = 0 /\ g[j] = l /\ parts[j] = a /\ g[j - 1] + 1 = 1
        BY <1>4, <1>6, <1>8, <2>1
      <3>5. g[j] = g[j - 1] + Len(parts[j])
        BY <1>3, <3>4 DEF l
      <3> QED
        BY <3>2, <3>3, <3>4, <3>5, Zenon
    <2>2. CASE j # 1
      <3> DEFINE i == j - 1
                 x == e[i - 1] + 1
                 y == e[i]
      <3>1. i \in 1 .. m /\ i + 1 = j /\ i - 1 \in 0 .. m /\ i \in 0 .. m
        BY <1>3, <2>2
      <3> HIDE DEF i
      <3>2. g[j - 1] = l + e[i - 1] /\ g[j] = l + e[i] /\ parts[j] = rest[i]
        <4>1. g[i] = l + e[i - 1] /\ g[i + 1] = l + e[i] /\ parts[i + 1] = rest[i]
          BY <1>4, <1>7, <3>1
        <4> QED
          BY <3>1, <4>1 DEF i
      <3>3. /\ e[i - 1] \in Nat /\ e[i] \in Nat /\ e[i] = e[i - 1] + Len(rest[i])
            /\ Len(rest[i]) \in Nat /\ SubSeq(F, x, y) = rest[i]
        BY <1>2, <1>3, <3>1
      <3>4. e[i] <= Len(F)
        <4>1. i \in 0 .. m /\ m \in 0 .. Len(rest)
          BY <1>3, <3>1 DEF m
        <4>2. e[i] <= e[m]
          BY <1>1, <4>1, EndsGrow
        <4> QED
          BY <1>2, <4>2
      <3>5. /\ x \in Nat /\ y \in Nat /\ 1 <= x /\ x <= y + 1 /\ y <= Len(F)
            /\ (l + e[i - 1]) + 1 = l + x
        <4> DEFINE u == e[i - 1]
        <4>1. u \in Nat /\ y \in Nat /\ Len(rest[i]) \in Nat /\ y = u + Len(rest[i]) /\ y <= Len(F)
              /\ l \in Nat
          BY <1>3, <3>3, <3>4
        <4> HIDE DEF u, y
        <4>2. /\ u + 1 \in Nat /\ y \in Nat /\ 1 <= u + 1 /\ u + 1 <= y + 1 /\ y <= Len(F)
              /\ (l + u) + 1 = l + (u + 1)
          BY <4>1
        <4> QED
          BY <4>2 DEF u
      <3>6. g[j] = g[j - 1] + Len(parts[j])
        <4> DEFINE u == e[i - 1]
                   z == Len(rest[i])
        <4>1. u \in Nat /\ z \in Nat /\ y = u + z /\ l \in Nat
          BY <1>3, <3>3
        <4> HIDE DEF u, y, z
        <4>2. l + y = (l + u) + z
          BY <4>1
        <4>3. g[j - 1] = l + u /\ g[j] = l + y /\ Len(parts[j]) = z
          BY <3>2 DEF u, y, z
        <4> QED
          BY <4>2, <4>3, Zenon
      <3> HIDE DEF x
      <3> HIDE DEF y
      <3>7. SubSeq(a \o F, Len(a) + x, Len(a) + y) = SubSeq(F, x, y)
        BY <1>2, <3>5, PartOfJoin
      <3>8. SubSeq(s, l + x, l + y) = rest[i]
        BY <3>3, <3>7, Zenon DEF l
      <3>9. g[j - 1] + 1 = l + x /\ g[j] = l + y
        BY <3>2, <3>5 DEF y
      <3> QED
        BY <3>2, <3>6, <3>8, <3>9, Zenon
    <2> QED
      BY <2>1, <2>2
  <1>10. Ends(parts, g) /\ Len(s) = g[Len(parts)]
    BY <1>4, <1>5, <1>6, <1>9 DEF Ends
  <1>11. \A j \in 1 .. Len(parts) : parts[j] = SubSeq(s, g[j - 1] + 1, g[j])
    BY <1>4, <1>9
  <1> HIDE DEF s
  <1>12. FlattenSeq(parts) = s
    BY <1>4, <1>5, <1>10, <1>11, FlattenOnly
  <1> QED
    BY <1>12 DEF parts, s, F

Glued(parts, sep) == [i \in DOMAIN parts |-> IF i = 1 THEN parts[i] ELSE sep \o parts[i]]

LEMMA JoinIsFlatten ==
  ASSUME NEW parts, NEW sep
  PROVE  String!join(parts, sep) = FlattenSeq(Glued(parts, sep))
  BY SameFlatten, Zenon DEF String!join, Glued

LEMMA GluedSeq ==
  ASSUME NEW V, NEW parts \in Seq(Seq(V)), NEW sep \in Seq(V)
  PROVE  /\ Glued(parts, sep) \in Seq(Seq(V)) /\ Len(Glued(parts, sep)) = Len(parts)
         /\ \A i \in 1 .. Len(parts) :
              Glued(parts, sep)[i] = IF i = 1 THEN parts[i] ELSE sep \o parts[i]
  <1> DEFINE m == Len(parts)
             x(i) == IF i = 1 THEN parts[i] ELSE sep \o parts[i]
  <1>1. ASSUME NEW i \in 1 .. m PROVE x(i) \in Seq(V)
    <2>1. parts[i] \in Seq(V)
      OBVIOUS
    <2>2. sep \o parts[i] \in Seq(V)
      BY <2>1, JoinIs
    <2> QED
      BY <2>1, <2>2
  <1>2. DOMAIN parts = 1 .. m /\ m \in Nat
    OBVIOUS
  <1>3. Glued(parts, sep) = [i \in 1 .. m |-> x(i)]
    BY <1>2, Zenon DEF Glued
  <1> HIDE DEF x, m
  <1>4. [i \in 1 .. m |-> x(i)] \in Seq(Seq(V)) /\ Len([i \in 1 .. m |-> x(i)]) = m
    BY <1>1, <1>2
  <1> QED
    BY <1>3, <1>4 DEF x, m

LEMMA JoinSeq ==
  ASSUME NEW V, NEW parts \in Seq(Seq(V)), NEW sep \in Seq(V)
  PROVE  String!join(parts, sep) \in Seq(V)
  BY GluedSeq, FlattenSeqs, JoinIsFlatten

LEMMA ConsIs ==
  ASSUME NEW V, NEW a \in V, NEW rest \in Seq(V)
  PROVE  /\ <<a>> \o rest \in Seq(V) /\ Len(<<a>> \o rest) = Len(rest) + 1
         /\ (<<a>> \o rest)[1] = a /\ \A i \in 1 .. Len(rest) : (<<a>> \o rest)[i + 1] = rest[i]
  OBVIOUS

LEMMA JoinOne ==
  ASSUME NEW V, NEW a \in Seq(V), NEW sep \in Seq(V)
  PROVE  String!join(<<a>>, sep) = a
  <1> DEFINE none == <<>>
  <1>1. none \in Seq(Seq(V)) /\ <<a>> \in Seq(Seq(V))
    OBVIOUS
  <1>2. Glued(<<a>>, sep) = <<a>>
    <2> DEFINE g == Glued(<<a>>, sep)
    <2>1. g \in Seq(Seq(V)) /\ Len(g) = 1 /\ g[1] = a
      <3>1. Len(<<a>>) = 1 /\ <<a>>[1] = a /\ 1 \in 1 .. 1
        OBVIOUS
      <3> QED
        BY <1>1, <3>1, GluedSeq
    <2> HIDE DEF g
    <2>2. g = <<a>>
      BY <2>1
    <2> QED
      BY <2>2 DEF g
  <1>3. <<a>> = <<a>> \o none /\ a \o <<>> = a
    OBVIOUS
  <1>4. FlattenSeq(<<a>> \o none) = a \o FlattenSeq(none)
    BY <1>1, FlattenCons
  <1> QED
    BY <1>2, <1>3, <1>4, FlattenNone, JoinIsFlatten, Zenon

(* What join makes of a further part in front.                             *)
Spaced(a, sep, b) == a \o (sep \o b)

LEMMA JoinCons ==
  ASSUME NEW V, NEW a \in Seq(V), NEW rest \in Seq(Seq(V)), 1 <= Len(rest), NEW sep \in Seq(V)
  PROVE  String!join(Cons(a, rest), sep) = Spaced(a, sep, String!join(rest, sep))
  <1> DEFINE m == Len(rest)
             tail == [i \in 1 .. m - 1 |-> sep \o rest[i + 1]]
             b == rest[1]
             c == sep \o b
             R == <<c>> \o tail
  <1>1. m \in Nat /\ 1 <= m /\ b \in Seq(V)
    OBVIOUS
  <1>2. c \in Seq(V)
    BY <1>1, JoinIs
  <1>3. tail \in Seq(Seq(V)) /\ Len(tail) = m - 1
    <2>1. ASSUME NEW i \in 1 .. m - 1 PROVE sep \o rest[i + 1] \in Seq(V)
      <3>1. rest[i + 1] \in Seq(V)
        OBVIOUS
      <3> QED
        BY <3>1, JoinIs
    <2>2. m - 1 \in Nat
      BY <1>1
    <2> DEFINE x(i) == sep \o rest[i + 1]
               k == m - 1
    <2>3. k \in Nat /\ \A i \in 1 .. k : x(i) \in Seq(V)
      BY <2>1, <2>2
    <2> HIDE DEF x, k
    <2>4. [i \in 1 .. k |-> x(i)] \in Seq(Seq(V)) /\ Len([i \in 1 .. k |-> x(i)]) = k
      BY <2>3
    <2> QED
      BY <2>4, Zenon DEF x, k
  <1>4. \A i \in 1 .. m - 1 : tail[i] = sep \o rest[i + 1]
    OBVIOUS
  <1> HIDE DEF tail, c
  <1>5. R \in Seq(Seq(V)) /\ Len(R) = m /\ R[1] = c /\ \A i \in 1 .. m - 1 : R[i + 1] = tail[i]
    <2>1. /\ R \in Seq(Seq(V)) /\ Len(R) = Len(tail) + 1 /\ R[1] = c
          /\ \A i \in 1 .. Len(tail) : R[i + 1] = tail[i]
      BY <1>2, <1>3, ConsIs
    <2> HIDE DEF R, m
    <2> QED
      BY <1>1, <1>3, <2>1
  <1>6. Glued(rest, sep) = <<b>> \o tail
    <2> DEFINE g == Glued(rest, sep)
               h == <<b>> \o tail
    <2>1. /\ g \in Seq(Seq(V)) /\ Len(g) = m
          /\ \A i \in 1 .. m : g[i] = IF i = 1 THEN rest[i] ELSE sep \o rest[i]
      BY GluedSeq
    <2>2. /\ h \in Seq(Seq(V)) /\ Len(h) = Len(tail) + 1 /\ h[1] = b
          /\ \A i \in 1 .. Len(tail) : h[i + 1] = tail[i]
      BY <1>1, <1>3, ConsIs
    <2> HIDE DEF g, h, m
    <2>3. ASSUME NEW i \in 1 .. Len(g) PROVE g[i] = h[i]
      <3>1. CASE i = 1
        BY <2>1, <2>2, <3>1
      <3>2. CASE i # 1
        <4>1. i - 1 \in 1 .. m - 1 /\ (i - 1) + 1 = i /\ i \in 1 .. m
          BY <1>1, <2>1, <3>2
        <4>2. h[i] = tail[i - 1] /\ tail[i - 1] = sep \o rest[i] /\ g[i] = sep \o rest[i]
          BY <1>3, <1>4, <2>1, <2>2, <3>2, <4>1
        <4> QED
          BY <4>2, Zenon
      <3> QED
        BY <3>1, <3>2
    <2>4. Len(g) = Len(h)
      BY <1>1, <1>3, <2>1, <2>2
    <2>5. g = h
      BY <2>1, <2>2, <2>3, <2>4, SeqEqual
    <2> QED
      BY <2>5 DEF g, h
  <1>7. Glued(<<a>> \o rest, sep) = <<a>> \o R
    <2> DEFINE all == <<a>> \o rest
               g == Glued(all, sep)
               h == <<a>> \o R
    <2>1. /\ all \in Seq(Seq(V)) /\ Len(all) = m + 1 /\ all[1] = a
          /\ \A i \in 1 .. m : all[i + 1] = rest[i]
      BY ConsIs
    <2> HIDE DEF all, R, m
    <2>2. /\ g \in Seq(Seq(V)) /\ Len(g) = Len(all)
          /\ \A i \in 1 .. Len(all) : g[i] = IF i = 1 THEN all[i] ELSE sep \o all[i]
      BY <2>1, GluedSeq
    <2>3. /\ h \in Seq(Seq(V)) /\ Len(h) = m + 1 /\ h[1] = a
          /\ \A i \in 1 .. m : h[i + 1] = R[i]
      BY <1>5, ConsIs
    <2> HIDE DEF g, h
    <2>4. ASSUME NEW i \in 1 .. Len(g) PROVE g[i] = h[i]
      <3>1. CASE i = 1
        BY <2>1, <2>2, <2>3, <3>1
      <3>2. CASE i # 1
        <4> DEFINE k == i - 1
        <4>1. k \in 1 .. m /\ k + 1 = i /\ i \in 1 .. Len(all)
          BY <1>1, <2>1, <2>2, <3>2
        <4>2. g[i] = sep \o all[i]
          BY <2>2, <3>2, <4>1
        <4>3. all[i] = rest[k] /\ h[i] = R[k]
          BY <2>1, <2>3, <4>1
        <4>4. R[k] = sep \o rest[k]
          <5>1. CASE k = 1
            BY <1>5, <5>1 DEF c
          <5>2. CASE k # 1
            <6>1. k - 1 \in 1 .. m - 1 /\ (k - 1) + 1 = k
              BY <1>1, <4>1, <5>2
            <6> HIDE DEF k
            <6> QED
              BY <1>4, <1>5, <6>1
          <5> QED
            BY <5>1, <5>2
        <4> QED
          BY <4>2, <4>3, <4>4, Zenon
      <3> QED
        BY <3>1, <3>2
    <2>5. Len(g) = Len(h)
      BY <2>1, <2>2, <2>3
    <2>6. g = h
      BY <2>2, <2>3, <2>4, <2>5, SeqEqual
    <2> QED
      BY <2>6 DEF g, h, all
  <1> DEFINE F == FlattenSeq(tail)
  <1>8. F \in Seq(V)
    BY <1>3, FlattenSeqs
  <1>9. FlattenSeq(<<a>> \o R) = a \o FlattenSeq(R)
    BY <1>5, FlattenCons
  <1>10. FlattenSeq(R) = c \o F
    BY <1>2, <1>3, FlattenCons
  <1>11. FlattenSeq(<<b>> \o tail) = b \o F
    BY <1>1, <1>3, FlattenCons
  <1> HIDE DEF F, b, R
  <1>12. (sep \o b) \o F = sep \o (b \o F)
    <2>1. b \in Seq(V) /\ F \in Seq(V) /\ sep \in Seq(V)
      BY <1>1, <1>8
    <2> QED
      BY <2>1, ConcatAssociative, SMTT(40)
  <1>13. FlattenSeq(R) = sep \o String!join(rest, sep)
    BY <1>6, <1>10, <1>11, <1>12, JoinIsFlatten, Zenon DEF c
  <1> QED
    BY <1>7, <1>9, <1>13, JoinIsFlatten, Zenon DEF Cons, Spaced

(* What join reserves is what it writes.                                   *)
SizesTo(parts) ==
  CHOOSE f : f = [i \in 0 .. Len(parts) |-> IF i = 0 THEN 0 ELSE f[i - 1] + Len(parts[i])]

LEMMA TotalSizeIs ==
  ASSUME NEW parts, NEW sep
  PROVE  String!TotalSize(parts, sep) =
           SizesTo(parts)[Len(parts)]
           + (IF Len(parts) > 1 THEN Len(sep) * (Len(parts) - 1) ELSE 0)
  BY Zenon DEF String!TotalSize, SizesTo

LEMMA SizesAre ==
  ASSUME NEW V, NEW parts \in Seq(Seq(V)), NEW e, Ends(parts, e)
  PROVE  \A i \in 0 .. Len(parts) : SizesTo(parts)[i] = e[i]
  <1> DEFINE m == Len(parts)
             S == 0 .. m
             body(h, i) == IF i = 0 THEN 0 ELSE h[i - 1] + Len(parts[i])
             g == SizesTo(parts)
             T == {k \in Nat : k <= m => g[k] = e[k]}
  <1>0. /\ m \in Nat /\ e \in [S -> Nat] /\ e[0] = 0
        /\ \A i \in 1 .. m : e[i] = e[i - 1] + Len(parts[i])
    BY DEF Ends
  <1>1. e = [i \in S |-> body(e, i)]
    <2>1. ASSUME NEW i \in S PROVE e[i] = body(e, i)
      <3>1. i = 0 \/ i \in 1 .. m
        BY <1>0
      <3> QED
        BY <1>0, <3>1
    <2>2. e = [i \in S |-> e[i]]
      BY <1>0
    <2> HIDE DEF S, body
    <2> QED
      BY <2>1, <2>2
  <1>2. g = [i \in S |-> body(g, i)]
    <2>1. g = CHOOSE h : h = [i \in S |-> body(h, i)]
      BY Zenon DEF SizesTo
    <2> HIDE DEF g, S, body
    <2> QED
      BY <1>1, <2>1
  <1> HIDE DEF g
  <1>3. \A i \in S : g[i] = body(g, i)
    <2> HIDE DEF S, body
    <2> QED
      BY <1>2, Zenon
  <1>4. 0 \in T
    <2>1. 0 \in S
      BY <1>0
    <2> QED
      BY <1>0, <1>3, <2>1
  <1>5. ASSUME NEW k \in Nat, k \in T PROVE k + 1 \in T
    <2> SUFFICES ASSUME k + 1 <= m PROVE g[k + 1] = e[k + 1]
      OBVIOUS
    <2>1. k + 1 \in S /\ k + 1 \in 1 .. m /\ k + 1 # 0 /\ (k + 1) - 1 = k /\ k <= m
      BY <1>0
    <2>2. g[k] = e[k]
      BY <1>5, <2>1
    <2>3. g[k + 1] = g[k] + Len(parts[k + 1])
      <3>1. g[k + 1] = body(g, k + 1)
        <4> HIDE DEF body, S
        <4> QED
          BY <1>3, <2>1
      <3> HIDE DEF S, m
      <3> QED
        BY <2>1, <3>1, Zenon
    <2>4. e[k + 1] = e[k] + Len(parts[k + 1])
      <3>1. e[k + 1] = e[(k + 1) - 1] + Len(parts[k + 1])
        BY <1>0, <2>1
      <3> HIDE DEF S, m
      <3> QED
        BY <2>1, <3>1, Zenon
    <2> QED
      BY <2>2, <2>3, <2>4, Zenon
  <1>6. Nat \subseteq T
    <2> HIDE DEF T
    <2> QED
      BY <1>4, <1>5, Induction
  <1>7. ASSUME NEW i \in S PROVE g[i] = e[i]
    <2>1. i \in Nat /\ i <= m
      BY <1>0
    <2> QED
      BY <1>6, <2>1
  <1> QED
    BY <1>7 DEF g

LEMMA TotalOfSome ==
  ASSUME NEW V, NEW parts \in Seq(Seq(V)), 1 <= Len(parts), NEW sep \in Seq(V)
  PROVE  String!TotalSize(parts, sep) = Len(String!join(parts, sep))
  <1> DEFINE m == Len(parts)
             d == Len(sep)
             S == 0 .. m
             glued == Glued(parts, sep)
             total == String!TotalSize(parts, sep)
  <1>1. PICK e : Ends(parts, e)
    BY EndsExist
  <1>2. /\ m \in Nat /\ 1 <= m /\ d \in Nat /\ e \in [S -> Nat] /\ e[0] = 0
        /\ \A i \in 1 .. m : e[i] = e[i - 1] + Len(parts[i])
    BY <1>1 DEF Ends
  <1>3. /\ glued \in Seq(Seq(V)) /\ Len(glued) = m
        /\ \A i \in 1 .. m : glued[i] = IF i = 1 THEN parts[i] ELSE sep \o parts[i]
    BY GluedSeq
  <1>4. \A i \in 1 .. m : parts[i] \in Seq(V) /\ Len(parts[i]) \in Nat
    OBVIOUS
  <1>5. ASSUME NEW i \in 1 .. m, i # 1 PROVE Len(glued[i]) = d + Len(parts[i])
    <2>1. parts[i] \in Seq(V) /\ glued[i] = sep \o parts[i]
      BY <1>3, <1>4, <1>5
    <2>2. Len(sep \o parts[i]) = d + Len(parts[i])
      BY <2>1, JoinIs
    <2> QED
      BY <2>1, <2>2, Zenon
  <1> DEFINE g == [i \in S |-> IF i = 0 THEN 0 ELSE e[i] + d * (i - 1)]
  <1>6. ASSUME NEW i \in S, i # 0 PROVE d * (i - 1) \in Nat /\ e[i] \in Nat
    <2>1. i - 1 \in Nat
      BY <1>2, <1>6
    <2>2. \A x, y \in Nat : x * y \in Nat
      OBVIOUS
    <2> QED
      BY <1>2, <2>1, <2>2
  <1>7. g \in [S -> Nat] /\ g[0] = 0
    <2>1. 0 \in S
      BY <1>2
    <2>2. ASSUME NEW i \in S PROVE (IF i = 0 THEN 0 ELSE e[i] + d * (i - 1)) \in Nat
      <3>1. \A x, y \in Nat : x + y \in Nat
        OBVIOUS
      <3> HIDE DEF S
      <3> QED
        BY <1>6, <3>1
    <2> HIDE DEF S
    <2> QED
      BY <2>1, <2>2
  <1>8. ASSUME NEW i \in 1 .. m PROVE g[i] = g[i - 1] + Len(glued[i])
    <2>0. i \in S /\ i - 1 \in S /\ i # 0
      BY <1>2
    <2>1. g[i] = e[i] + d * (i - 1) /\ e[i] = e[i - 1] + Len(parts[i])
      <3> HIDE DEF S
      <3> QED
        BY <1>2, <2>0
    <2>2. CASE i = 1
      <3>1. g[i - 1] = 0 /\ glued[i] = parts[i] /\ e[i - 1] = 0
        BY <1>2, <1>3, <1>7, <2>2
      <3>2. d * (i - 1) = 0
        BY <1>2, <2>2
      <3> DEFINE z == Len(parts[i])
      <3>3. z \in Nat
        BY <1>4
      <3> HIDE DEF z, g
      <3>4. g[i] = (0 + z) + 0
        BY <2>1, <3>1, <3>2, Zenon DEF z
      <3>5. g[i - 1] + Len(glued[i]) = 0 + z
        BY <3>1, Zenon DEF z
      <3> QED
        BY <3>3, <3>4, <3>5
    <2>3. CASE i # 1
      <3> DEFINE u == e[i - 1]
                 z == Len(parts[i])
                 p == d * (i - 2)
                 q == d * (i - 1)
      <3>1. g[i - 1] = u + p
        <4>1. i - 1 # 0 /\ (i - 1) - 1 = i - 2
          BY <1>2, <2>3
        <4>2. g[i - 1] = e[i - 1] + d * ((i - 1) - 1)
          <5> HIDE DEF S
          <5> QED
            BY <2>0, <4>1
        <4> HIDE DEF g
        <4> QED
          BY <4>1, <4>2, Zenon
      <3>2. q = p + d
        <4>1. i - 2 \in Nat /\ i - 1 = (i - 2) + 1
          BY <1>2, <2>3
        <4>2. \A x, y \in Nat : x * (y + 1) = x * y + x
          OBVIOUS
        <4> QED
          BY <1>2, <4>1, <4>2
      <3>3. p \in Nat /\ q \in Nat /\ u \in Nat /\ z \in Nat
        <4>1. i - 1 # 0 /\ (i - 1) - 1 = i - 2
          BY <1>2, <2>3
        <4>2. d * ((i - 1) - 1) \in Nat /\ e[i - 1] \in Nat /\ d * (i - 1) \in Nat
          BY <1>6, <2>0, <4>1
        <4> QED
          BY <1>4, <4>1, <4>2, Zenon
      <3>4. g[i] = (u + z) + q /\ Len(glued[i]) = d + z
        BY <1>5, <2>1, <2>3, Zenon
      <3> HIDE DEF u, z, p, q, g
      <3>5. (u + z) + q = (u + p) + (d + z)
        BY <1>2, <3>2, <3>3
      <3> QED
        BY <3>1, <3>4, <3>5, Zenon
    <2> QED
      BY <2>2, <2>3
  <1>9. m \in S /\ m # 0
    BY <1>2
  <1>10. g[m] = e[m] + d * (m - 1)
    <2> HIDE DEF S
    <2> QED
      BY <1>9
  <1> HIDE DEF g
  <1>11. Ends(glued, g)
    <2> HIDE DEF glued, m
    <2> QED
      BY <1>3, <1>7, <1>8, Zenon DEF Ends
  <1>12. Len(String!join(parts, sep)) = g[m]
    <2>1. Len(FlattenSeq(glued)) = g[Len(glued)]
      <3> HIDE DEF glued
      <3> QED
        BY <1>3, <1>11, FlattenPlaces
    <2> QED
      BY <1>3, <2>1, JoinIsFlatten
  <1>13. SizesTo(parts)[m] = e[m]
    BY <1>1, <1>9, SizesAre
  <1>14. total = e[m] + (IF m > 1 THEN d * (m - 1) ELSE 0)
    BY <1>13, TotalSizeIs, Zenon
  <1>15. (IF m > 1 THEN d * (m - 1) ELSE 0) = d * (m - 1)
    <2>1. CASE m > 1
      BY <2>1
    <2>2. CASE m = 1
      <3>1. d * (m - 1) = 0
        BY <1>2, <2>2
      <3> QED
        BY <2>2, <3>1
    <2> QED
      BY <1>2, <2>1, <2>2
  <1> QED
    BY <1>10, <1>12, <1>14, <1>15, Zenon

LEMMA TotalIsWritten ==
  ASSUME NEW V, NEW parts \in Seq(Seq(V)), NEW sep \in Seq(V)
  PROVE  String!TotalSize(parts, sep) = Len(String!join(parts, sep))
  <1>1. CASE 1 <= Len(parts)
    BY <1>1, TotalOfSome
  <1>2. CASE Len(parts) = 0
    <2> DEFINE glued == Glued(parts, sep)
    <2>1. PICK e : Ends(parts, e)
      BY EndsExist
    <2>2. glued \in Seq(Seq(V)) /\ Len(glued) = 0
      BY <1>2, GluedSeq
    <2> HIDE DEF glued
    <2>3. e[0] = 0
      BY <2>1 DEF Ends
    <2>4. SizesTo(parts)[0] = 0
      <3>1. 0 \in 0 .. Len(parts)
        BY <1>2
      <3> QED
        BY <2>1, <2>3, <3>1, SizesAre
    <2>5. String!TotalSize(parts, sep) = 0
      <3>1. ~(0 > 1) /\ 0 + 0 = 0
        OBVIOUS
      <3> QED
        BY <1>2, <2>4, <3>1, TotalSizeIs, Zenon
    <2>6. glued = <<>>
      BY <2>2
    <2>7. String!join(parts, sep) = <<>>
      BY <2>6, FlattenNone, JoinIsFlatten, Zenon DEF glued
    <2>8. Len(<<>>) = 0
      OBVIOUS
    <2> QED
      BY <2>5, <2>7, <2>8, Zenon
  <1>3. Len(parts) \in Nat
    OBVIOUS
  <1> QED
    BY <1>1, <1>2, <1>3

-----------------------------------------------------------------------------
(* What split returns.                                                     *)

Clear(s, sep, from, it) == \A i \in from .. it - 1 : ~String!HasAt(s, i, sep)

(* The pieces of s from a place on.                                        *)
Pieced(s, sep, from, parts) ==
  /\ 1 <= Len(parts)
  /\ String!join(parts, sep) = SubSeq(s, from + 1, Len(s))
  /\ \A i \in 1 .. Len(parts) : ~String!Occurs(sep, parts[i])
  /\ parts[1] = SubSeq(s, from + 1, String!find_index(s, sep, from))

(* Where sep is not found in s, it is not found in a part.                 *)
LEMMA ClearPart ==
  ASSUME NEW V, NEW s \in Seq(V), NEW sep \in Seq(V), 1 <= Len(sep),
         NEW from \in 0 .. Len(s), NEW it \in from .. Len(s),
         \A i \in from .. it - Len(sep) : ~String!HasAt(s, i, sep)
  PROVE  ~String!Occurs(sep, SubSeq(s, from + 1, it))
  <1> DEFINE p == SubSeq(s, from + 1, it)
             d == Len(sep)
             l == Len(s)
  <1>0. l \in Nat /\ d \in Nat /\ from \in Nat /\ it \in Nat /\ from <= it /\ it <= l /\ 1 <= d
    OBVIOUS
  <1>1. Len(p) = it - from
    BY <1>0
  <1>2. ASSUME NEW x \in 0 .. Len(p) - d, String!HasAt(p, x, sep) PROVE FALSE
    <2>1. x \in Nat /\ (x + d) <= it - from
      BY <1>0, <1>1
    <2>2. SubSeq(p, x + 1, x + d) = SubSeq(s, (from + x) + 1, (from + x) + d)
      <3>1. /\ from + 1 \in Nat /\ it \in Nat /\ 1 <= from + 1 /\ from + 1 <= it + 1 /\ it <= l
            /\ x + 1 \in Nat /\ x + d \in Nat /\ 1 <= x + 1 /\ x + 1 <= (x + d) + 1
            /\ (x + d) <= (it + 1) - (from + 1)
        BY <1>0, <2>1
      <3>2. ((from + 1) + (x + 1)) - 1 = (from + x) + 1 /\ ((from + 1) + (x + d)) - 1 = (from + x) + d
        BY <1>0, <2>1
      <3>3. SubSeq(p, x + 1, x + d)
              = SubSeq(s, ((from + 1) + (x + 1)) - 1, ((from + 1) + (x + d)) - 1)
        <4> DEFINE i == from + 1
                   k == x + 1
                   z == x + d
        <4>0. /\ i \in Nat /\ it \in Nat /\ 1 <= i /\ i <= it + 1 /\ it <= Len(s)
              /\ k \in Nat /\ z \in Nat /\ 1 <= k /\ k <= z + 1 /\ z <= (it + 1) - i
          BY <3>1, Zenon
        <4> HIDE DEF i, k, z, d
        <4>1. SubSeq(SubSeq(s, i, it), k, z) = SubSeq(s, (i + k) - 1, (i + z) - 1)
          BY <4>0, PartOfPart
        <4> QED
          BY <4>1, Zenon DEF i, k, z
      <3> HIDE DEF p, d
      <3> QED
        BY <3>2, <3>3, Zenon
    <2>3. String!HasAt(s, from + x, sep)
      <3> HIDE DEF p
      <3> QED
        BY <1>2, <2>2, Zenon DEF String!HasAt
    <2>4. from + x \in from .. it - d
      BY <1>0, <2>1
    <2> QED
      BY <2>3, <2>4
  <1> HIDE DEF p
  <1> QED
    BY <1>2, Zenon DEF String!Occurs, p

LEMMA FoundIs ==
  ASSUME NEW V, NEW s \in Seq(V), NEW sep \in Seq(V), 1 <= Len(sep),
         NEW from \in 0 .. Len(s), NEW it \in from .. Len(s), Clear(s, sep, from, it)
  PROVE  /\ it > Len(s) - Len(sep) => String!find_index(s, sep, from) = Len(s)
         /\ it <= Len(s) - Len(sep) /\ String!HasAt(s, it, sep) =>
              String!find_index(s, sep, from) = it
  <1> DEFINE l == Len(s)
             d == Len(sep)
             found == {i \in from .. l - d : String!HasAt(s, i, sep)}
  <1>0. l \in Nat /\ d \in Nat /\ from \in Nat /\ it \in Nat /\ from <= it /\ it <= l /\ 1 <= d
    OBVIOUS
  <1>1. String!find_index(s, sep, from) =
          IF from >= l \/ found = {} THEN l ELSE CHOOSE i \in found : \A j \in found : i <= j
    BY Zenon DEF String!find_index
  <1>2. \A i \in from .. it - 1 : ~String!HasAt(s, i, sep)
    BY DEF Clear
  <1> HIDE DEF l, d
  <1>3. ASSUME it > l - d PROVE found = {}
    <2>1. \A i \in from .. l - d : i \in from .. it - 1
      BY <1>0, <1>3
    <2> QED
      BY <1>2, <2>1
  <1>4. ASSUME it <= l - d, String!HasAt(s, it, sep)
        PROVE  String!find_index(s, sep, from) = it
    <2>1. it \in found /\ ~(from >= l)
      BY <1>0, <1>4
    <2>2. ASSUME NEW i \in found PROVE i \in Nat /\ it <= i
      <3>1. i \in from .. l - d /\ i \notin from .. it - 1
        BY <1>2
      <3> QED
        BY <1>0, <3>1
    <2> HIDE DEF found
    <2>3. ASSUME NEW i \in found, \A j \in found : i <= j PROVE i = it
      <3>1. i <= it /\ it <= i /\ i \in Nat
        BY <2>1, <2>2, <2>3
      <3> QED
        BY <1>0, <3>1
    <2>4. \A j \in found : it <= j
      BY <2>2
    <2>5. (CHOOSE i \in found : \A j \in found : i <= j) = it
      BY <2>1, <2>3, <2>4
    <2> QED
      BY <1>1, <2>1, <2>5
  <1> QED
    BY <1>1, <1>3, <1>4 DEF l, d

LEMMA PiecedLast ==
  ASSUME NEW V, NEW s \in Seq(V), NEW sep \in Seq(V), 1 <= Len(sep), Len(sep) <= Len(s),
         NEW from \in 0 .. Len(s), NEW it \in from .. Len(s), Clear(s, sep, from, it),
         it > Len(s) - Len(sep)
  PROVE  Pieced(s, sep, from, <<SubSeq(s, from + 1, Len(s))>>)
  <1> DEFINE l == Len(s)
             d == Len(sep)
             a == SubSeq(s, from + 1, l)
             parts == <<a>>
  <1>0. l \in Nat /\ d \in Nat /\ from \in Nat /\ it \in Nat /\ from <= it /\ it <= l /\ l - d < it
    OBVIOUS
  <1>1. a \in Seq(V)
    BY <1>0
  <1>2. String!find_index(s, sep, from) = l
    BY FoundIs
  <1>3. ~String!Occurs(sep, a)
    <2>1. l \in from .. Len(s)
      BY <1>0
    <2>2. ASSUME NEW i \in from .. l - d PROVE ~String!HasAt(s, i, sep)
      <3>1. i \in from .. it - 1
        BY <1>0
      <3> QED
        BY <3>1 DEF Clear
    <2> QED
      BY <2>1, <2>2, ClearPart
  <1>4. String!join(parts, sep) = a
    BY <1>1, JoinOne
  <1>5. Len(parts) = 1 /\ parts[1] = a
    OBVIOUS
  <1> HIDE DEF a, parts
  <1>6. ASSUME NEW i \in 1 .. Len(parts) PROVE ~String!Occurs(sep, parts[i])
    <2>1. i = 1
      BY <1>5
    <2> QED
      BY <1>3, <1>5, <2>1
  <1>7. 1 <= Len(parts)
    BY <1>5
  <1> QED
    BY <1>2, <1>4, <1>5, <1>6, <1>7, Zenon DEF Pieced, parts, a

LEMMA PiecedCons ==
  ASSUME NEW V, NEW s \in Seq(V), NEW sep \in Seq(V), 1 <= Len(sep), Len(sep) <= Len(s),
         NEW from \in 0 .. Len(s), NEW it \in from .. Len(s), Clear(s, sep, from, it),
         it <= Len(s) - Len(sep), String!HasAt(s, it, sep),
         NEW rest \in Seq(Seq(V)), Pieced(s, sep, it + Len(sep), rest)
  PROVE  Pieced(s, sep, from, <<SubSeq(s, from + 1, it)>> \o rest)
  <1> DEFINE l == Len(s)
             d == Len(sep)
             a == SubSeq(s, from + 1, it)
             parts == <<a>> \o rest
             end == it + d
             b == SubSeq(s, end + 1, l)
  <1>0. /\ l \in Nat /\ d \in Nat /\ from \in Nat /\ it \in Nat /\ from <= it /\ it <= l
        /\ 1 <= d /\ end <= l /\ end \in Nat
    OBVIOUS
  <1>1. a \in Seq(V)
    BY <1>0
  <1>2. String!find_index(s, sep, from) = it
    BY FoundIs
  <1>3. ~String!Occurs(sep, a)
    <2>1. ASSUME NEW i \in from .. it - d PROVE ~String!HasAt(s, i, sep)
      <3>1. i \in from .. it - 1
        BY <1>0
      <3> QED
        BY <3>1 DEF Clear
    <2> QED
      BY <2>1, ClearPart
  <1>4. /\ 1 <= Len(rest) /\ String!join(rest, sep) = b
        /\ \A i \in 1 .. Len(rest) : ~String!Occurs(sep, rest[i])
    BY Zenon DEF Pieced
  <1>5. sep = SubSeq(s, it + 1, end)
    BY Zenon DEF String!HasAt
  <1>6. sep \o b = SubSeq(s, it + 1, l)
    <2>1. /\ it + 1 \in Nat /\ 1 <= it + 1 /\ it + 1 <= end + 1 /\ end <= l /\ l <= Len(s)
      BY <1>0
    <2> HIDE DEF end, l
    <2>2. SubSeq(s, it + 1, end) \o SubSeq(s, end + 1, l) = SubSeq(s, it + 1, l)
      BY <1>0, <2>1, PartsMeet
    <2> QED
      BY <1>5, <2>2, Zenon
  <1>7. a \o SubSeq(s, it + 1, l) = SubSeq(s, from + 1, l)
    <2>1. from + 1 \in Nat /\ 1 <= from + 1 /\ from + 1 <= it + 1 /\ it <= l /\ l <= Len(s)
      BY <1>0
    <2> HIDE DEF l
    <2> QED
      BY <1>0, <2>1, PartsMeet
  <1> HIDE DEF a, b, end, l
  <1>8. String!join(parts, sep) = a \o (sep \o b)
    <2>1. 1 <= Len(rest)
      BY <1>4
    <2>2. String!join(Cons(a, rest), sep) = Spaced(a, sep, String!join(rest, sep))
      BY <1>1, <2>1, JoinCons
    <2> QED
      BY <1>4, <2>2, Zenon DEF Cons, Spaced
  <1>9. /\ Len(parts) = Len(rest) + 1 /\ parts[1] = a
        /\ \A i \in 1 .. Len(rest) : parts[i + 1] = rest[i]
    BY <1>1, ConsIs
  <1> HIDE DEF parts
  <1>10. Len(rest) \in Nat
    OBVIOUS
  <1>11. ASSUME NEW i \in 1 .. Len(parts) PROVE ~String!Occurs(sep, parts[i])
    <2>1. CASE i = 1
      BY <1>3, <1>9, <2>1
    <2>2. CASE i # 1
      <3>1. i - 1 \in 1 .. Len(rest) /\ (i - 1) + 1 = i
        BY <1>9, <1>10, <2>2
      <3>2. parts[i] = rest[i - 1]
        BY <1>9, <3>1
      <3> QED
        BY <1>4, <3>1, <3>2
    <2> QED
      BY <2>1, <2>2
  <1>12. 1 <= Len(parts)
    BY <1>4, <1>9, <1>10
  <1>13. String!join(parts, sep) = SubSeq(s, from + 1, l)
    BY <1>6, <1>7, <1>8, Zenon
  <1>14. parts[1] = SubSeq(s, from + 1, String!find_index(s, sep, from))
    BY <1>2, <1>9, Zenon DEF a
  <1>15. Pieced(s, sep, from, parts)
    BY <1>11, <1>12, <1>13, <1>14, Zenon DEF Pieced, l
  <1> QED
    BY <1>15 DEF parts, a

LEMMA SplitFromPieced ==
  ASSUME NEW V, NEW s \in Seq(V), NEW sep \in Seq(V), 1 <= Len(sep), Len(sep) <= Len(s)
  PROVE  \A it \in 0 .. Len(s) : \A from \in 0 .. it :
           Clear(s, sep, from, it) => Pieced(s, sep, from, SplitFrom(s, sep)[<<it, from>>])
  <1> DEFINE l == Len(s)
             d == Len(sep)
             f == SplitFrom(s, sep)
             Good(it, from) == Clear(s, sep, from, it) => Pieced(s, sep, from, f[<<it, from>>])
             body(it, from) == SplitBody(f, s, sep, it, from)
             T == {k \in Nat : \A it \in 0 .. l : l - it < k => \A from \in 0 .. it : Good(it, from)}
  <1>0. l \in Nat /\ d \in Nat /\ 1 <= d /\ d <= l
    OBVIOUS
  <1>1. /\ f \in [Places(s) -> Seq(Seq(V))]
        /\ \A it, from \in 0 .. l : f[<<it, from>>] = body(it, from)
    BY SplitSteps
  <1> HIDE DEF f
  <1>2. 0 \in T
    <2>1. \A it \in 0 .. l : ~(l - it < 0)
      BY <1>0
    <2> QED
      BY <2>1
  <1>3. ASSUME NEW k \in Nat, k \in T PROVE k + 1 \in T
    <2> SUFFICES ASSUME NEW it \in 0 .. l, l - it < k + 1, NEW from \in 0 .. it,
                        Clear(s, sep, from, it)
                 PROVE  Pieced(s, sep, from, f[<<it, from>>])
      BY DEF Good
    <2>0. from \in 0 .. l /\ it \in from .. l /\ it \in Nat /\ from \in Nat /\ from <= it
      BY <1>0
    <2> DEFINE now == f[<<it, from>>]
    <2>1. now = body(it, from)
      <3> HIDE DEF body
      <3> QED
        BY <1>1, <2>0
    <2> HIDE DEF now
    <2>2. CASE it > l - d
      <3>1. now = <<SubSeq(s, from + 1, l)>>
        BY <2>1, <2>2, Zenon DEF SplitBody
      <3>2. Pieced(s, sep, from, <<SubSeq(s, from + 1, l)>>)
        BY <2>0, <2>2, PiecedLast
      <3> QED
        BY <3>1, <3>2 DEF now
    <2>3. CASE it <= l - d /\ String!HasAt(s, it, sep)
      <3> DEFINE end == it + d
                 rest == f[<<end, end>>]
      <3>1. ~(it > l - d) /\ end \in 0 .. l /\ end \in 0 .. end /\ l - end < k
        BY <1>0, <2>0, <2>3
      <3>2. Good(end, end)
        <4> HIDE DEF Good, end
        <4> QED
          BY <1>3, <3>1
      <3>3. Clear(s, sep, end, end)
        <4>1. end .. end - 1 = {}
          BY <3>1
        <4> QED
          BY <4>1 DEF Clear
      <3>4. Pieced(s, sep, end, rest)
        BY <3>2, <3>3
      <3>5. rest \in Seq(Seq(V))
        <4>1. <<end, end>> \in Places(s)
          BY <3>1 DEF Places
        <4> HIDE DEF end
        <4> QED
          BY <1>1, <4>1
      <3> HIDE DEF rest
      <3>6. Pieced(s, sep, from, <<SubSeq(s, from + 1, it)>> \o rest)
        BY <2>0, <2>3, <3>4, <3>5, PiecedCons
      <3>7. now = <<SubSeq(s, from + 1, it)>> \o rest
        BY <2>1, <2>3, <3>1, Zenon DEF SplitBody, rest
      <3> QED
        BY <3>6, <3>7 DEF now
    <2>4. CASE it <= l - d /\ ~String!HasAt(s, it, sep)
      <3> DEFINE after == it + 1
      <3>1. ~(it > l - d) /\ after \in 0 .. l /\ from \in 0 .. after /\ l - after < k
        BY <1>0, <2>0, <2>4
      <3>2. Good(after, from)
        <4> HIDE DEF Good, after
        <4> QED
          BY <1>3, <3>1
      <3>3. Clear(s, sep, from, after)
        <4>1. ASSUME NEW i \in from .. after - 1 PROVE ~String!HasAt(s, i, sep)
          <5>1. i = it \/ i \in from .. it - 1
            BY <2>0
          <5> QED
            BY <2>4, <5>1 DEF Clear
        <4> QED
          BY <4>1 DEF Clear
      <3>4. now = f[<<after, from>>]
        BY <2>1, <2>4, <3>1, Zenon DEF SplitBody
      <3> QED
        BY <3>2, <3>3, <3>4, Zenon DEF now
    <2> QED
      BY <1>0, <2>0, <2>2, <2>3, <2>4 DEF now
  <1>4. Nat \subseteq T
    <2> HIDE DEF T
    <2> QED
      BY <1>2, <1>3, Induction
  <1>5. ASSUME NEW it \in 0 .. l, NEW from \in 0 .. it PROVE Good(it, from)
    <2>1. l + 1 \in T /\ l - it < l + 1
      BY <1>0, <1>4
    <2> HIDE DEF Good
    <2> QED
      BY <2>1
  <1> QED
    BY <1>5, Zenon DEF f

LEMMA FindRange ==
  ASSUME NEW V, NEW s \in Seq(V), NEW sep \in Seq(V), NEW from \in 0 .. Len(s)
  PROVE  String!find_index(s, sep, from) \in from .. Len(s)
  <1> DEFINE l == Len(s)
             found == {i \in from .. l - Len(sep) : String!HasAt(s, i, sep)}
  <1>1. String!find_index(s, sep, from) =
          IF from >= l \/ found = {} THEN l ELSE CHOOSE i \in found : \A j \in found : i <= j
    BY Zenon DEF String!find_index
  <1>2. l \in Nat /\ from \in Nat /\ from <= l /\ Len(sep) \in Nat
    OBVIOUS
  <1>3. \A i \in found : i \in Nat /\ i \in from .. l
    BY <1>2
  <1> HIDE DEF found, l
  <1>4. CASE from >= l \/ found = {}
    <2>1. l \in from .. l
      BY <1>2
    <2> QED
      BY <1>1, <1>4, <2>1 DEF l
  <1>5. CASE ~(from >= l \/ found = {})
    <2>1. \E i \in found : \A j \in found : i <= j
      BY <1>3, <1>5, LeastOf
    <2>2. (CHOOSE i \in found : \A j \in found : i <= j) \in found
      BY <2>1
    <2> QED
      BY <1>1, <1>3, <1>5, <2>2 DEF l
  <1> QED
    BY <1>4, <1>5

(* Every element by itself.                                                *)
LEMMA SplitSingly ==
  ASSUME NEW V, NEW s \in Seq(V), NEW sep \in Seq(V), Len(sep) = 0
  PROVE  String!split(s, sep) \in Seq(Seq(V)) /\ String!join(String!split(s, sep), sep) = s
  <1> DEFINE l == Len(s)
             parts == [i \in 1 .. l |-> <<s[i]>>]
             e == [i \in 0 .. l |-> i]
             g == Glued(parts, sep)
  <1>0. l \in Nat /\ DOMAIN s = 1 .. l /\ sep = <<>>
    OBVIOUS
  <1>1. String!split(s, sep) = parts
    BY <1>0, SplitIs, Zenon
  <1>2. parts \in Seq(Seq(V)) /\ Len(parts) = l
    OBVIOUS
  <1>3. ASSUME NEW i \in 1 .. l PROVE parts[i] = <<s[i]>> /\ s[i] \in V
    OBVIOUS
  <1> HIDE DEF parts, l
  <1>4. /\ g \in Seq(Seq(V)) /\ Len(g) = l
        /\ \A i \in 1 .. l : g[i] = IF i = 1 THEN parts[i] ELSE sep \o parts[i]
    BY <1>2, GluedSeq, ZenonT(40)
  <1>5. ASSUME NEW i \in 1 .. l PROVE g[i] = <<s[i]>>
    <2>1. \A x \in Seq(V) : sep \o x = x
      BY <1>0
    <2>2. <<s[i]>> \in Seq(V)
      BY <1>3
    <2> QED
      BY <1>3, <1>4, <2>1, <2>2, Zenon
  <1>6. /\ e \in [0 .. l -> Nat] /\ e[0] = 0 /\ e[l] = l
        /\ \A i \in 1 .. l : e[i] = i /\ e[i - 1] = i - 1
    BY <1>0
  <1> HIDE DEF g, e
  <1>7. ASSUME NEW i \in 1 .. l
        PROVE  e[i] = e[i - 1] + Len(g[i]) /\ g[i] = SubSeq(s, e[i - 1] + 1, e[i])
    <2>1. Len(<<s[i]>>) = 1 /\ (i - 1) + 1 = i
      BY <1>0
    <2>2. SubSeq(s, i, i) = <<s[i]>>
      <3> DEFINE q == SubSeq(s, i, i)
      <3>1. i \in Nat /\ 1 <= i /\ i <= i + 1 /\ i <= Len(s) /\ (i + 1) - i = 1 /\ (i + 1) - 1 = i
        BY <1>0 DEF l
      <3>2. q \in Seq(V) /\ Len(q) = 1 /\ q[1] = s[i]
        <4>1. /\ q \in Seq(V) /\ Len(q) = (i + 1) - i
              /\ \A k \in 1 .. (i + 1) - i : q[k] = s[(i + k) - 1]
          BY <3>1, PartIs
        <4>2. 1 \in 1 .. 1
          OBVIOUS
        <4> HIDE DEF q
        <4> QED
          BY <3>1, <4>1, <4>2, Zenon
      <3> HIDE DEF q
      <3>3. q = <<s[i]>>
        BY <3>2
      <3> QED
        BY <3>3 DEF q
    <2> QED
      BY <1>5, <1>6, <2>1, <2>2, Zenon
  <1>8. Ends(g, e) /\ Len(s) = e[Len(g)]
    BY <1>4, <1>6, <1>7 DEF Ends, l
  <1>9. \A i \in 1 .. Len(g) : g[i] = SubSeq(s, e[i - 1] + 1, e[i])
    BY <1>4, <1>7
  <1>10. FlattenSeq(g) = s
    BY <1>4, <1>8, <1>9, FlattenOnly
  <1> QED
    BY <1>1, <1>2, <1>10, JoinIsFlatten, Zenon DEF g

LEMMA SplitWhole ==
  ASSUME NEW V, NEW s \in Seq(V), NEW sep \in Seq(V), Len(sep) > Len(s)
  PROVE  String!split(s, sep) \in Seq(Seq(V)) /\ Pieced(s, sep, 0, String!split(s, sep))
  <1> DEFINE parts == <<s>>
  <1>1. Len(sep) \in Nat /\ Len(s) \in Nat /\ Len(sep) # 0
    OBVIOUS
  <1>2. String!split(s, sep) = parts
    BY <1>1, SplitIs
  <1>3. parts \in Seq(Seq(V)) /\ Len(parts) = 1 /\ parts[1] = s
    OBVIOUS
  <1>4. String!join(parts, sep) = s
    BY JoinOne
  <1>5. SubSeq(s, 1, Len(s)) = s
    BY PartWhole
  <1>6. 0 .. Len(s) - Len(sep) = {}
    BY <1>1
  <1>7. String!find_index(s, sep, 0) = Len(s)
    BY <1>6, Zenon DEF String!find_index
  <1>8. ~String!Occurs(sep, s)
    BY <1>6, Zenon DEF String!Occurs
  <1> HIDE DEF parts
  <1>9. ASSUME NEW i \in 1 .. Len(parts) PROVE ~String!Occurs(sep, parts[i])
    <2>1. i = 1
      BY <1>3
    <2> QED
      BY <1>3, <1>8, <2>1
  <1>10. 1 <= Len(parts) /\ 0 + 1 = 1
    BY <1>3
  <1> QED
    BY <1>2, <1>3, <1>4, <1>5, <1>7, <1>9, <1>10, Zenon DEF Pieced

LEMMA SplitPieces ==
  ASSUME NEW V, NEW s \in Seq(V), NEW sep \in Seq(V), Len(sep) # 0
  PROVE  String!split(s, sep) \in Seq(Seq(V)) /\ Pieced(s, sep, 0, String!split(s, sep))
  <1>0. Len(sep) \in Nat /\ Len(s) \in Nat
    OBVIOUS
  <1>1. CASE Len(sep) > Len(s)
    BY <1>1, SplitWhole
  <1>2. CASE ~(Len(sep) > Len(s))
    <2>1. 1 <= Len(sep) /\ Len(sep) <= Len(s)
      BY <1>0, <1>2
    <2> DEFINE f == SplitFrom(s, sep)
               start == <<0, 0>>
    <2>2. String!split(s, sep) = f[start]
      BY <1>2, SplitIs, Zenon
    <2>3. start \in Places(s)
      BY <1>0 DEF Places
    <2>4. f \in [Places(s) -> Seq(Seq(V))]
      BY <2>1, SplitSteps
    <2>5. Clear(s, sep, 0, 0)
      <3>1. 0 .. 0 - 1 = {}
        OBVIOUS
      <3> QED
        BY <3>1, Zenon DEF Clear
    <2>6. Pieced(s, sep, 0, f[start])
      <3>1. 0 \in 0 .. Len(s) /\ 0 \in 0 .. 0
        BY <1>0
      <3> QED
        BY <2>1, <2>5, <3>1, SplitFromPieced
    <2> HIDE DEF f, start
    <2> QED
      BY <2>2, <2>3, <2>4, <2>6
  <1> QED
    BY <1>1, <1>2

LEMMA SplitSeqs ==
  ASSUME NEW V, NEW s \in Seq(V), NEW sep \in Seq(V)
  PROVE  String!split(s, sep) \in Seq(Seq(V))
  BY SplitSingly, SplitPieces

LEMMA SplitInverse ==
  ASSUME NEW V, NEW s \in Seq(V), NEW sep \in Seq(V)
  PROVE  LET parts == String!split(s, sep)
         IN /\ String!join(parts, sep) = s
            /\ String!TotalSize(parts, sep) = Len(s)
            /\ sep # <<>> =>
                 /\ \A i \in DOMAIN parts : ~String!Occurs(sep, parts[i])
                 /\ parts[1] = String!substr(s, 0, String!find_index(s, sep, 0))
  <1> DEFINE parts == String!split(s, sep)
             at == String!find_index(s, sep, 0)
  <1>1. parts \in Seq(Seq(V))
    BY SplitSeqs
  <1>2. Len(s) \in Nat /\ SubSeq(s, 1, Len(s)) = s
    BY PartWhole
  <1>3. String!join(parts, sep) = s
    <2>1. CASE Len(sep) = 0
      BY <2>1, SplitSingly
    <2>2. CASE Len(sep) # 0
      <3>1. String!join(parts, sep) = SubSeq(s, 0 + 1, Len(s))
        BY <2>2, SplitPieces, Zenon DEF Pieced
      <3>2. 0 + 1 = 1
        OBVIOUS
      <3> QED
        BY <1>2, <3>1, <3>2, Zenon
    <2> QED
      BY <2>1, <2>2
  <1> HIDE DEF parts
  <1>4. String!TotalSize(parts, sep) = Len(s)
    BY <1>1, <1>3, TotalIsWritten
  <1>5. ASSUME sep # <<>>
        PROVE  /\ \A i \in DOMAIN parts : ~String!Occurs(sep, parts[i])
               /\ parts[1] = String!substr(s, 0, at)
    <2>1. Len(sep) # 0
      BY <1>5
    <2>2. /\ \A i \in 1 .. Len(parts) : ~String!Occurs(sep, parts[i])
          /\ parts[1] = SubSeq(s, 0 + 1, at)
      BY <2>1, SplitPieces, Zenon DEF Pieced, parts
    <2>3. DOMAIN parts = 1 .. Len(parts)
      BY <1>1
    <2>4. at \in 0 .. Len(s)
      <3>1. 0 \in 0 .. Len(s)
        BY <1>2
      <3> QED
        BY <3>1, FindRange
    <2>5. (IF 0 + at < Len(s) THEN 0 + at ELSE Len(s)) = at
      <3> DEFINE l == Len(s)
      <3> HIDE DEF at
      <3>1. l \in Nat /\ at \in 0 .. l
        BY <1>2, <2>4, Zenon
      <3> HIDE DEF l
      <3>2. (IF 0 + at < l THEN 0 + at ELSE l) = at
        BY <3>1
      <3> QED
        BY <3>2, Zenon DEF l
    <2> QED
      BY <2>2, <2>3, <2>5, Zenon DEF String!substr
  <1> QED
    BY <1>3, <1>4, <1>5 DEF parts

-----------------------------------------------------------------------------
(* Where whitespace ends and begins.                                       *)

LEMMA GreatestOf ==
  ASSUME NEW m \in Nat, NEW T, T \subseteq 0 .. m, T # {}
  PROVE  \E x \in T : \A y \in T : y <= x
  <1> DEFINE Unit == {m - x : x \in T}
  <1>1. Unit \subseteq Nat /\ Unit # {}
    <2>1. ASSUME NEW x \in T PROVE m - x \in Nat /\ m - x \in Unit
      OBVIOUS
    <2> QED
      BY <2>1
  <1>2. PICK u \in Unit : \A v \in Unit : u <= v
    <2> HIDE DEF Unit
    <2> QED
      BY <1>1, LeastOf
  <1>3. PICK x \in T : u = m - x
    OBVIOUS
  <1>4. ASSUME NEW y \in T PROVE y <= x
    <2>1. m - y \in Unit
      OBVIOUS
    <2>2. m - x <= m - y
      BY <1>2, <1>3, <2>1
    <2>3. x \in Nat /\ y \in Nat
      OBVIOUS
    <2> QED
      BY <2>2, <2>3
  <1> QED
    BY <1>4

Shown(d) == {i \in 1 .. Len(d) : ~String!dchar_is_ws(d[i].c)}

LEMMA StartIs ==
  ASSUME NEW w, NEW s
  PROVE  LET d == Decode(w, s)
             at == IF Shown(d) # {} THEN CHOOSE i \in Shown(d) : \A j \in Shown(d) : i <= j ELSE 0
         IN String!first_non_ws_beg(w, s) = IF at = 0 THEN Len(s) ELSE d[at].at
  <1>1. String!first_non_ws_beg(w, s) =
          LET at == String!SelectInSeq(String!Decode(w, s), LAMBDA p : ~String!dchar_is_ws(p.c))
          IN IF at = 0 THEN Len(s) ELSE String!Decode(w, s)[at].at
    BY SMT DEF String!first_non_ws_beg
  <1>2. String!SelectInSeq(Decode(w, s), LAMBDA p : ~String!dchar_is_ws(p.c)) =
          IF Shown(Decode(w, s)) # {} THEN String!Min(Shown(Decode(w, s))) ELSE 0
    BY SMT DEF String!SelectInSeq, Shown
  <1> QED
    BY <1>1, <1>2, SameDecode DEF String!Min

LEMMA EndIs ==
  ASSUME NEW w, NEW s
  PROVE  LET d == Decode(w, s)
             at == IF Shown(d) # {} THEN CHOOSE i \in Shown(d) : \A j \in Shown(d) : i >= j ELSE 0
         IN String!last_ws_beg(w, s) = IF at = 0 THEN 0 ELSE d[at].at + d[at].size
  <1>1. String!last_ws_beg(w, s) =
          LET at == String!SelectLastInSeq(String!Decode(w, s), LAMBDA p : ~String!dchar_is_ws(p.c))
          IN IF at = 0 THEN 0 ELSE String!Decode(w, s)[at].at + String!Decode(w, s)[at].size
    BY SMT DEF String!last_ws_beg
  <1>2. String!SelectLastInSeq(Decode(w, s), LAMBDA p : ~String!dchar_is_ws(p.c)) =
          IF Shown(Decode(w, s)) # {} THEN String!Max(Shown(Decode(w, s))) ELSE 0
    BY SMT DEF String!SelectLastInSeq, Shown
  <1> QED
    BY <1>1, <1>2, SameDecode DEF String!Max

(* What is read depends on no unit behind it.                              *)
LEMMA ReadPrefix ==
  ASSUME NEW w \in {8, 16, 32}, NEW s, NEW q, Len(s) \in Nat, Len(q) \in Nat,
         1 <= Len(q), Len(q) <= Len(s), \A i \in 1 .. Len(q) : q[i] = s[i],
         Read(w, s).size <= Len(q)
  PROVE  Read(w, q) = Read(w, s)
  <1>0. q[1] = s[1] /\ (2 <= Len(q) => q[2] = s[2])
    OBVIOUS
  <1>1. CASE w = 8
    <2> DEFINE len == Lead(s[1]).size
               Result(r, v) ==
                 IF s[1] < 128 THEN Data(s[1], 1)
                 ELSE IF \/ s[1] >= 245
                         \/ Len(r) < len
                         \/ \E i \in 2 .. len : ~IsContinuation(r[i])
                         \/ v < Smallest[len]
                         \/ ~IsScalar(v)
                 THEN Fail ELSE Data(v, len)
    <2>1. Read(w, s) = Result(s, Value8(s, len)) /\ Read(w, q) = Result(q, Value8(q, len))
      <3>1. Read(w, s) = Read8(s) /\ Read(w, q) = Read8(q)
        BY <1>1, ReadIs
      <3> QED
        BY <1>0, <3>1, Read8Is, Zenon
    <2>2. len \in 2 .. 4
      BY LeadSize
    <2> HIDE DEF len
    <2>3. CASE Len(q) < len
      <3>1. Read(w, q) = IF s[1] < 128 THEN Data(s[1], 1) ELSE Fail
        BY <2>1, <2>3, Zenon
      <3>2. CASE Read(w, s) = Data(Value8(s, len), len)
        BY <2>2, <2>3, <3>2 DEF Data
      <3>3. CASE Read(w, s) # Data(Value8(s, len), len)
        BY <2>1, <3>1, <3>3, Zenon
      <3> QED
        BY <3>2, <3>3
    <2>4. CASE ~(Len(q) < len)
      <3>1. \A i \in 2 .. len : q[i] = s[i]
        BY <2>2, <2>4
      <3>2. Value8(q, len) = Value8(s, len)
        <4>1. \A i \in 1 .. len : q[i] = s[i]
          BY <1>0, <2>2, <3>1
        <4> QED
          BY <2>2, <4>1 DEF Value8
      <3>3. ~(Len(s) < len)
        BY <2>2, <2>4
      <3>4. (\E i \in 2 .. len : ~IsContinuation(q[i])) <=> (\E i \in 2 .. len : ~IsContinuation(s[i]))
        BY <3>1, Zenon
      <3> DEFINE v == Value8(s, len)
      <3>5. Read(w, q) = Result(q, v) /\ Read(w, s) = Result(s, v)
        BY <2>1, <3>2
      <3> HIDE DEF v
      <3> QED
        BY <2>4, <3>3, <3>4, <3>5
    <2> QED
      BY <2>3, <2>4
  <1>2. CASE w = 16
    <2>1. Read(w, s) = Read16(s) /\ Read(w, q) = Read16(q)
      BY <1>2, ReadIs
    <2> QED
      BY <1>0, <2>1, SMT DEF Read16, Data
  <1>3. CASE w = 32
    BY <1>0, <1>3, ReadIs
  <1> QED
    BY <1>1, <1>2, <1>3

LEMMA ReadInPart ==
  ASSUME NEW w \in {8, 16, 32}, NEW s \in Seq(UnitsOf(w)), NEW a \in Nat, NEW y \in Nat, NEW b \in Nat,
         a <= y, y < b, b <= Len(s), y + ReadFrom(w, s, y).size <= b
  PROVE  ReadFrom(w, SubSeq(s, a + 1, b), y - a) = ReadFrom(w, s, y)
  <1> DEFINE l == Len(s)
             r == SubSeq(s, y + 1, l)
             q == SubSeq(s, y + 1, b)
             Unit == UnitsOf(w)
             z == ReadFrom(w, s, y).size
  <1>1. s \in Seq(Unit) /\ l \in Nat /\ b <= l /\ Len(s) = l
    OBVIOUS
  <1>2. z \in Nat /\ y + z <= b
    <2>1. y \in 0 .. l /\ y # l
      BY <1>1
    <2> QED
      BY <2>1, ReadAt
  <1> HIDE DEF l, Unit, z
  <1>3. Len(r) = l - y /\ \A j \in 1 .. l - y : r[j] = s[((y + 1) + j) - 1]
    <2>1. y + 1 \in Nat /\ 1 <= y + 1 /\ y + 1 <= l + 1 /\ l <= l /\ (l + 1) - (y + 1) = l - y
      BY <1>1
    <2>2. /\ Len(SubSeq(s, y + 1, l)) = (l + 1) - (y + 1)
          /\ \A j \in 1 .. (l + 1) - (y + 1) : SubSeq(s, y + 1, l)[j] = s[((y + 1) + j) - 1]
      BY <1>1, <2>1, PartIs
    <2> HIDE DEF r
    <2>3. r = SubSeq(s, y + 1, l)
      BY DEF r
    <2> QED
      BY <2>1, <2>2, <2>3, Zenon
  <1>4. Len(q) = b - y /\ \A j \in 1 .. b - y : q[j] = s[((y + 1) + j) - 1]
    <2>1. y + 1 \in Nat /\ 1 <= y + 1 /\ y + 1 <= b + 1 /\ b <= Len(s) /\ (b + 1) - (y + 1) = b - y
      BY <1>1
    <2>2. /\ Len(SubSeq(s, y + 1, b)) = (b + 1) - (y + 1)
          /\ \A j \in 1 .. (b + 1) - (y + 1) : SubSeq(s, y + 1, b)[j] = s[((y + 1) + j) - 1]
      BY <1>1, <2>1, PartIs
    <2> HIDE DEF q
    <2>3. q = SubSeq(s, y + 1, b)
      BY DEF q
    <2> QED
      BY <2>1, <2>2, <2>3, Zenon
  <1> HIDE DEF q, r
  <1>5. Read(w, q) = Read(w, r)
    <2>1. Len(r) \in Nat /\ Len(q) \in Nat /\ 1 <= Len(q) /\ Len(q) <= Len(r) /\ z <= Len(q)
      BY <1>1, <1>2, <1>3, <1>4
    <2>2. \A j \in 1 .. Len(q) : q[j] = r[j]
      BY <1>1, <1>3, <1>4
    <2>3. Read(w, r).size = z
      BY Zenon DEF ReadFrom, r, z, l
    <2>4. Read(w, r).size <= Len(q)
      BY <2>1, <2>3
    <2> QED
      BY <2>1, <2>2, <2>4, ReadPrefix
  <1> DEFINE t == SubSeq(s, a + 1, b)
  <1>6. SubSeq(t, (y - a) + 1, Len(t)) = q
    <2>1. a + 1 \in Nat /\ 1 <= a + 1 /\ a + 1 <= b + 1 /\ b <= Len(s) /\ (b + 1) - (a + 1) = b - a
      BY <1>1
    <2>2. Len(t) = b - a
      <3>1. Len(t) = (b + 1) - (a + 1)
        BY <1>1, <2>1, PartIs
      <3> HIDE DEF t
      <3> QED
        BY <2>1, <3>1
    <2>3. /\ (y - a) + 1 \in Nat /\ 1 <= (y - a) + 1 /\ b - a \in Nat /\ (y - a) + 1 <= (b - a) + 1
          /\ b - a <= (b + 1) - (a + 1)
          /\ ((a + 1) + ((y - a) + 1)) - 1 = y + 1 /\ ((a + 1) + (b - a)) - 1 = b
      BY <1>1
    <2>4. SubSeq(SubSeq(s, a + 1, b), (y - a) + 1, b - a) =
            SubSeq(s, ((a + 1) + ((y - a) + 1)) - 1, ((a + 1) + (b - a)) - 1)
      BY <1>1, <2>1, <2>3, PartOfPart
    <2> QED
      BY <2>2, <2>3, <2>4, Zenon DEF q
  <1> QED
    BY <1>5, <1>6, Zenon DEF ReadFrom, r, l

Shifted(e, a, b) == [i \in 0 .. b - a |-> e[a + i] - e[a]]

ReadAlike(w, s, e, a, b) ==
  \A i \in 1 .. b - a :
    ReadFrom(w, SubSeq(s, e[a] + 1, e[b]), e[(a + i) - 1] - e[a]) = ReadFrom(w, s, e[(a + i) - 1])

(* The walk over a part that begins and ends where steps do.               *)
LEMMA WalkPart ==
  ASSUME NEW w \in {8, 16, 32}, NEW s \in Seq(UnitsOf(w)), NEW m, NEW e, Walk(w, s, e, m),
         NEW b \in 0 .. m, NEW a \in 0 .. b
  PROVE  LET t == SubSeq(s, e[a] + 1, e[b])
         IN /\ t \in Seq(UnitsOf(w)) /\ Len(t) = e[b] - e[a]
            /\ Walk(w, t, Shifted(e, a, b), b - a)
            /\ ReadAlike(w, s, e, a, b)
  <1> DEFINE t == SubSeq(s, e[a] + 1, e[b])
             l == Len(s)
             len == b - a
             f == [i \in 0 .. len |-> e[a + i] - e[a]]
  <1>1. m \in Nat /\ len \in Nat /\ l \in Nat /\ a \in 0 .. m /\ a \in Nat /\ b \in Nat /\ b <= m
    BY DEF Walk
  <1>2. e[a] \in Nat /\ e[b] \in Nat /\ e[a] <= e[b] /\ e[b] <= l
    BY WalkGrows
  <1>3. t \in Seq(UnitsOf(w)) /\ Len(t) = e[b] - e[a]
    <2>1. /\ e[a] + 1 \in Nat /\ 1 <= e[a] + 1 /\ e[a] + 1 <= e[b] + 1 /\ e[b] <= Len(s)
          /\ (e[b] + 1) - (e[a] + 1) = e[b] - e[a]
      BY <1>2
    <2>2. /\ t \in Seq(UnitsOf(w)) /\ Len(t) = (e[b] + 1) - (e[a] + 1)
      BY <1>2, <2>1, PartIs, SMTT(30)
    <2> HIDE DEF t
    <2> QED
      BY <2>1, <2>2
  <1>4. ASSUME NEW i \in 0 .. len
        PROVE  e[a + i] \in Nat /\ e[a] <= e[a + i] /\ e[a + i] <= e[b]
    <2>1. a + i \in 0 .. m /\ a + i \in 0 .. b /\ a \in 0 .. a + i
      BY <1>1
    <2>2. e[a + i] \in Nat /\ e[a] <= e[a + i]
      BY <2>1, WalkGrows
    <2>3. e[a + i] <= e[b]
      BY <2>1, WalkGrows
    <2> QED
      BY <2>2, <2>3
  <1>5. ASSUME NEW i \in 1 .. len
        PROVE  LET y == e[(a + i) - 1]
               IN /\ y \in Nat /\ e[a] <= y /\ y < e[b]
                  /\ e[a + i] = y + ReadFrom(w, s, y).size
                  /\ ReadFrom(w, t, y - e[a]) = ReadFrom(w, s, y)
    <2> DEFINE y == e[(a + i) - 1]
               z == ReadFrom(w, s, y).size
    <2>1. /\ a + i \in 1 .. m /\ i - 1 \in 0 .. len /\ i \in 0 .. len /\ a + (i - 1) = (a + i) - 1
          /\ (a + i) - 1 \in 0 .. m
      BY <1>1
    <2>2. y \in Nat /\ e[a] <= y /\ y <= e[b] /\ e[a + i] \in Nat /\ e[a + i] <= e[b]
      BY <1>4, <2>1
    <2>3. y # Len(s) /\ e[a + i] = y + z /\ y \in 0 .. Len(s)
      BY <2>1 DEF Walk
    <2>4. 1 <= z /\ z \in Nat
      BY <2>3, ReadAt
    <2> HIDE DEF y, z
    <2>5. y < e[b] /\ y + z <= e[b]
      BY <1>2, <2>2, <2>3, <2>4
    <2>6. ReadFrom(w, SubSeq(s, e[a] + 1, e[b]), y - e[a]) = ReadFrom(w, s, y)
      BY <1>2, <2>2, <2>5, ReadInPart, SMTT(30) DEF z
    <2> QED
      BY <2>2, <2>3, <2>5, <2>6 DEF y, z
  <1>6. Walk(w, t, f, len)
    <2>1. f \in [0 .. len -> 0 .. Len(t)]
      <3>1. ASSUME NEW i \in 0 .. len PROVE e[a + i] - e[a] \in 0 .. Len(t)
        <4>1. e[a + i] \in Nat /\ e[a] <= e[a + i] /\ e[a + i] <= e[b]
          BY <1>4
        <4> HIDE DEF t
        <4> QED
          BY <1>2, <1>3, <4>1
      <3> HIDE DEF t, len
      <3> QED
        BY <3>1
    <2>2. f[0] = 0 /\ f[len] = Len(t)
      <3>1. 0 \in 0 .. len /\ len \in 0 .. len /\ a + 0 = a /\ a + len = b
        BY <1>1
      <3>2. f[0] = e[a] - e[a] /\ f[len] = e[b] - e[a]
        <4> HIDE DEF len
        <4> QED
          BY <3>1
      <3> HIDE DEF f, len, t
      <3> QED
        BY <1>2, <1>3, <3>2
    <2>3. ASSUME NEW i \in 1 .. len
          PROVE  f[i - 1] # Len(t) /\ f[i] = f[i - 1] + ReadFrom(w, t, f[i - 1]).size
      <3> DEFINE y == e[(a + i) - 1]
                 z == ReadFrom(w, s, y).size
      <3>1. i \in 0 .. len /\ i - 1 \in 0 .. len /\ a + (i - 1) = (a + i) - 1
        BY <1>1
      <3>2. f[i - 1] = y - e[a] /\ f[i] = e[a + i] - e[a]
        <4> HIDE DEF len
        <4> QED
          BY <3>1
      <3>3. y \in Nat /\ e[a] <= y /\ y < e[b] /\ e[a + i] = y + z
            /\ ReadFrom(w, t, y - e[a]) = ReadFrom(w, s, y)
        BY <1>5
      <3>4. ReadFrom(w, t, f[i - 1]).size = z
        BY <3>2, <3>3, Zenon
      <3>5. z \in Nat
        <4>1. y \in 0 .. Len(s) /\ y # Len(s)
          BY <1>2, <3>3
        <4> QED
          BY <4>1, ReadAt
      <3> DEFINE x == e[a]
                 v == e[b]
      <3>6. /\ x \in Nat /\ v \in Nat /\ y \in Nat /\ x <= y /\ y < v /\ Len(t) = v - x
            /\ f[i] = (y + z) - x /\ f[i - 1] = y - x
        <4> HIDE DEF y, z, f, t
        <4> QED
          BY <1>2, <1>3, <3>2, <3>3
      <3> HIDE DEF x, v, y, z, f
      <3>7. y - x # v - x /\ (y + z) - x = (y - x) + z
        BY <3>5, <3>6
      <3> HIDE DEF t
      <3> QED
        BY <3>4, <3>6, <3>7, Zenon
    <2> HIDE DEF f, len, t
    <2> QED
      BY <1>1, <2>1, <2>2, <2>3 DEF Walk
  <1>7. Walk(w, t, Shifted(e, a, b), len)
    BY <1>6 DEF Shifted
  <1>8. ReadAlike(w, s, e, a, b)
    BY <1>5 DEF ReadAlike
  <1> QED
    BY <1>3, <1>7, <1>8

(* The part of s between the places a and b.                               *)
Stretch(s, a, b) == SubSeq(s, a + 1, b)

(* A part that begins and ends where steps do is read as in the whole.     *)
LEMMA PointsPart ==
  ASSUME NEW w \in {8, 16, 32}, NEW s \in Seq(UnitsOf(w)), NEW m, NEW e, Walk(w, s, e, m),
         NEW b \in 0 .. m, NEW a \in 0 .. b
  PROVE  Points(w, Stretch(s, e[a], e[b])) = Stretch(Points(w, s), a, b)
  <1> DEFINE t == SubSeq(s, e[a] + 1, e[b])
             len == b - a
             f == Shifted(e, a, b)
             p == Points(w, t)
             q == SubSeq(Points(w, s), a + 1, b)
  <1>1. /\ t \in Seq(UnitsOf(w)) /\ Walk(w, t, f, len)
        /\ \A i \in 1 .. len : ReadFrom(w, t, e[(a + i) - 1] - e[a]) = ReadFrom(w, s, e[(a + i) - 1])
    <2>1. t \in Seq(UnitsOf(w))
      BY WalkPart
    <2>2. Walk(w, t, f, len)
      BY WalkPart
    <2>3. ReadAlike(w, s, e, a, b)
      BY WalkPart
    <2> QED
      BY <2>1, <2>2, <2>3 DEF ReadAlike
  <1>2. m \in Nat /\ len \in Nat /\ a \in Nat /\ b \in Nat /\ b <= m
    BY DEF Walk
  <1>3. ASSUME NEW i \in 1 .. len PROVE f[i - 1] = e[(a + i) - 1] - e[a]
    <2>1. i - 1 \in 0 .. len /\ a + (i - 1) = (a + i) - 1
      BY <1>2
    <2>2. f = [k \in 0 .. len |-> e[a + k] - e[a]]
      BY DEF Shifted
    <2> HIDE DEF len, f
    <2> QED
      BY <2>1, <2>2
  <1> HIDE DEF t, f, len
  <1>4. p \in Seq(Scalars) /\ Len(p) = len /\ \A i \in 1 .. len : p[i] = ReadFrom(w, t, f[i - 1]).c
    BY <1>1, PointsAre, SMTT(30)
  <1>5. /\ Points(w, s) \in Seq(Scalars) /\ Len(Points(w, s)) = m
        /\ \A i \in 1 .. m : Points(w, s)[i] = ReadFrom(w, s, e[i - 1]).c
    BY PointsAre
  <1>6. q \in Seq(Scalars) /\ Len(q) = len /\ \A i \in 1 .. len : q[i] = Points(w, s)[a + i]
    <2>1. /\ a + 1 \in Nat /\ 1 <= a + 1 /\ a + 1 <= b + 1 /\ b <= m /\ (b + 1) - (a + 1) = len
      BY <1>2 DEF len
    <2>2. /\ q \in Seq(Scalars) /\ Len(q) = (b + 1) - (a + 1)
          /\ \A i \in 1 .. (b + 1) - (a + 1) : q[i] = Points(w, s)[((a + 1) + i) - 1]
      BY <1>2, <1>5, <2>1, PartIs
    <2> HIDE DEF q
    <2>3. ASSUME NEW i \in 1 .. len PROVE q[i] = Points(w, s)[a + i]
      <3>1. ((a + 1) + i) - 1 = a + i
        BY <1>2
      <3> QED
        BY <2>1, <2>2, <3>1, Zenon
    <2> QED
      BY <2>1, <2>2, <2>3, Zenon
  <1>7. ASSUME NEW i \in 1 .. len PROVE p[i] = q[i]
    <2>1. p[i] = ReadFrom(w, s, e[(a + i) - 1]).c
      BY <1>1, <1>3, <1>4, ZenonT(40)
    <2>2. a + i \in 1 .. m
      BY <1>2 DEF len
    <2>3. q[i] = ReadFrom(w, s, e[(a + i) - 1]).c
      <3> HIDE DEF q
      <3> QED
        BY <1>5, <1>6, <2>2, Zenon
    <2> QED
      BY <2>1, <2>3, Zenon
  <1> HIDE DEF p, q
  <1>8. p = q
    <2>1. p \in Seq(Scalars) /\ q \in Seq(Scalars) /\ Len(p) = Len(q) /\ \A i \in 1 .. Len(p) : p[i] = q[i]
      BY <1>4, <1>6, <1>7
    <2> QED
      BY <2>1, SeqEqual
  <1> QED
    BY <1>8, Zenon DEF p, q, t, Stretch

LEMMA StretchOfStart ==
  ASSUME NEW V, NEW s \in Seq(V), NEW a \in Nat, NEW b \in Nat, a <= b, b <= Len(s)
  PROVE  SubSeq(SubSeq(s, 1, b), a + 1, b) = SubSeq(s, a + 1, b)
  <1> DEFINE i == 1
  <1>1. /\ i \in Nat /\ 1 <= i /\ i <= b + 1 /\ b <= Len(s)
        /\ a + 1 \in Nat /\ 1 <= a + 1 /\ a + 1 <= b + 1 /\ b <= (b + 1) - i
        /\ (i + (a + 1)) - 1 = a + 1 /\ (i + b) - 1 = b
    OBVIOUS
  <1> HIDE DEF i
  <1>2. SubSeq(SubSeq(s, i, b), a + 1, b) = SubSeq(s, (i + (a + 1)) - 1, (i + b) - 1)
    BY <1>1, PartOfPart
  <1> QED
    BY <1>1, <1>2, Zenon DEF i

IsWs(c) == String!dchar_is_ws(c)

(* Where trimming a string cuts.                                           *)
LEMMA TrimStarts ==
  ASSUME NEW w \in {8, 16, 32}, NEW s \in Seq(UnitsOf(w)), NEW m, NEW e, Walk(w, s, e, m)
  PROVE  \/ /\ \A i \in 1 .. m : IsWs(Points(w, s)[i])
            /\ String!first_non_ws_beg(w, s) = Len(s)
         \/ \E j \in 1 .. m :
              /\ ~IsWs(Points(w, s)[j]) /\ \A i \in 1 .. j - 1 : IsWs(Points(w, s)[i])
              /\ String!first_non_ws_beg(w, s) = e[j - 1]
  <1> DEFINE d == Decode(w, s)
             at == IF Shown(d) # {} THEN CHOOSE i \in Shown(d) : \A j \in Shown(d) : i <= j ELSE 0
             p == Points(w, s)
             first == String!first_non_ws_beg(w, s)
  <1>1. first = IF at = 0 THEN Len(s) ELSE d[at].at
    BY StartIs
  <1>2. m \in Nat /\ Len(d) = m /\ \A i \in 1 .. m : d[i].at = e[i - 1] /\ d[i].c = p[i]
    <2>0. m \in Nat
      BY DEF Walk
    <2>1. Len(d) = m /\ \A i \in 1 .. m : d[i] = ItemAt(w, s, e[i - 1])
      BY WalkIs
    <2>2. \A i \in 1 .. m : p[i] = ReadFrom(w, s, e[i - 1]).c
      BY PointsAre
    <2> HIDE DEF d, p
    <2> QED
      BY <2>0, <2>1, <2>2 DEF ItemAt
  <1> HIDE DEF d, p, first
  <1>3. Shown(d) = {i \in 1 .. m : ~IsWs(p[i])}
    BY <1>2 DEF Shown, IsWs
  <1>4. CASE Shown(d) = {}
    <2>1. \A i \in 1 .. m : IsWs(p[i])
      BY <1>3, <1>4
    <2>2. first = Len(s)
      BY <1>1, <1>4
    <2> QED
      BY <2>1, <2>2 DEF p, first
  <1>5. CASE Shown(d) # {}
    <2>1. Shown(d) \subseteq Nat
      BY <1>2, <1>3
    <2>2. \E j \in Shown(d) : \A i \in Shown(d) : j <= i
      BY <1>5, <2>1, LeastOf
    <2>3. at \in Shown(d) /\ \A i \in Shown(d) : at <= i
      BY <1>5, <2>2
    <2> HIDE DEF at
    <2>4. at \in 1 .. m /\ ~IsWs(p[at])
      BY <1>3, <2>3
    <2>5. ASSUME NEW i \in 1 .. at - 1 PROVE IsWs(p[i])
      <3>1. i \in 1 .. m /\ ~(at <= i)
        BY <1>2, <2>4
      <3> QED
        BY <1>3, <2>3, <3>1
    <2>6. first = e[at - 1]
      BY <1>1, <1>2, <2>4
    <2> QED
      BY <2>4, <2>5, <2>6 DEF p, first
  <1> QED
    BY <1>4, <1>5

LEMMA TrimEnds ==
  ASSUME NEW w \in {8, 16, 32}, NEW s \in Seq(UnitsOf(w)), NEW m, NEW e, Walk(w, s, e, m)
  PROVE  \/ /\ \A i \in 1 .. m : IsWs(Points(w, s)[i])
            /\ String!last_ws_beg(w, s) = 0
         \/ \E k \in 1 .. m :
              /\ ~IsWs(Points(w, s)[k]) /\ \A i \in k + 1 .. m : IsWs(Points(w, s)[i])
              /\ String!last_ws_beg(w, s) = e[k]
  <1> DEFINE d == Decode(w, s)
             at == IF Shown(d) # {} THEN CHOOSE i \in Shown(d) : \A j \in Shown(d) : i >= j ELSE 0
             p == Points(w, s)
             last == String!last_ws_beg(w, s)
  <1>1. last = IF at = 0 THEN 0 ELSE d[at].at + d[at].size
    BY EndIs
  <1>2. m \in Nat /\ Len(d) = m /\ \A i \in 1 .. m : d[i].at + d[i].size = e[i] /\ d[i].c = p[i]
    <2>0. m \in Nat
      BY DEF Walk
    <2>1. Len(d) = m /\ \A i \in 1 .. m : d[i] = ItemAt(w, s, e[i - 1])
      BY WalkIs
    <2>2. \A i \in 1 .. m : p[i] = ReadFrom(w, s, e[i - 1]).c
      BY PointsAre
    <2>3. \A i \in 1 .. m : e[i] = e[i - 1] + ReadFrom(w, s, e[i - 1]).size
      BY DEF Walk
    <2> HIDE DEF d, p
    <2> QED
      BY <2>0, <2>1, <2>2, <2>3 DEF ItemAt
  <1> HIDE DEF d, p, last
  <1>3. Shown(d) = {i \in 1 .. m : ~IsWs(p[i])}
    BY <1>2 DEF Shown, IsWs
  <1>4. CASE Shown(d) = {}
    <2>1. \A i \in 1 .. m : IsWs(p[i])
      BY <1>3, <1>4
    <2>2. last = 0
      BY <1>1, <1>4
    <2> QED
      BY <2>1, <2>2 DEF p, last
  <1>5. CASE Shown(d) # {}
    <2>1. Shown(d) \subseteq 0 .. m
      BY <1>3
    <2>2. \E j \in Shown(d) : \A i \in Shown(d) : i <= j
      BY <1>2, <1>5, <2>1, GreatestOf
    <2>3. at \in Shown(d) /\ \A i \in Shown(d) : at >= i
      <3>1. \E j \in Shown(d) : \A i \in Shown(d) : j >= i
        BY <1>2, <1>3, <2>2
      <3> QED
        BY <1>5, <3>1
    <2> HIDE DEF at
    <2>4. at \in 1 .. m /\ ~IsWs(p[at])
      BY <1>3, <2>3
    <2>5. ASSUME NEW i \in at + 1 .. m PROVE IsWs(p[i])
      <3>1. i \in 1 .. m /\ ~(at >= i)
        BY <1>2, <2>4
      <3> QED
        BY <1>3, <2>3, <3>1
    <2>6. last = e[at]
      BY <1>1, <1>2, <2>4
    <2> QED
      BY <2>4, <2>5, <2>6 DEF p, last
  <1> QED
    BY <1>4, <1>5

SomeShown(w, s, e, m, j, k) ==
  /\ j \in 1 .. m /\ k \in 1 .. m
  /\ ~IsWs(Points(w, s)[j]) /\ \A i \in 1 .. j - 1 : IsWs(Points(w, s)[i])
  /\ ~IsWs(Points(w, s)[k]) /\ \A i \in k + 1 .. m : IsWs(Points(w, s)[i])
  /\ String!first_non_ws_beg(w, s) = e[j - 1] /\ String!last_ws_beg(w, s) = e[k]

NoneShown(w, s) ==
  /\ \A i \in 1 .. Len(Points(w, s)) : IsWs(Points(w, s)[i])
  /\ String!first_non_ws_beg(w, s) = Len(s) /\ String!last_ws_beg(w, s) = 0

LEMMA TrimCases ==
  ASSUME NEW w \in {8, 16, 32}, NEW s \in Seq(UnitsOf(w)), NEW m, NEW e, Walk(w, s, e, m)
  PROVE  NoneShown(w, s) \/ \E j, k : SomeShown(w, s, e, m, j, k)
  <1> DEFINE p == Points(w, s)
             first == String!first_non_ws_beg(w, s)
             last == String!last_ws_beg(w, s)
  <1>1. Len(p) = m
    BY PointsAre
  <1>2. \/ (\A i \in 1 .. m : IsWs(p[i])) /\ first = Len(s)
        \/ \E j \in 1 .. m :
             ~IsWs(p[j]) /\ (\A i \in 1 .. j - 1 : IsWs(p[i])) /\ first = e[j - 1]
    BY TrimStarts
  <1>3. \/ (\A i \in 1 .. m : IsWs(p[i])) /\ last = 0
        \/ \E k \in 1 .. m :
             ~IsWs(p[k]) /\ (\A i \in k + 1 .. m : IsWs(p[i])) /\ last = e[k]
    BY TrimEnds
  <1>4. NoneShown(w, s) <=> (\A i \in 1 .. Len(p) : IsWs(p[i])) /\ first = Len(s) /\ last = 0
    BY DEF NoneShown
  <1>5. \A j, k : SomeShown(w, s, e, m, j, k) <=>
          /\ j \in 1 .. m /\ k \in 1 .. m
          /\ ~IsWs(p[j]) /\ \A i \in 1 .. j - 1 : IsWs(p[i])
          /\ ~IsWs(p[k]) /\ \A i \in k + 1 .. m : IsWs(p[i])
          /\ first = e[j - 1] /\ last = e[k]
    BY Zenon DEF SomeShown
  <1> HIDE DEF p, first, last
  <1> QED
    BY <1>1, <1>2, <1>3, <1>4, <1>5

(* The cuts lie in the string.                                             *)
LEMMA TrimRange ==
  ASSUME NEW w \in {8, 16, 32}, NEW s \in Seq(UnitsOf(w))
  PROVE  /\ String!first_non_ws_beg(w, s) \in 0 .. Len(s)
         /\ String!last_ws_beg(w, s) \in 0 .. Len(s)
  <1>1. PICK m, e : Walk(w, s, e, m)
    BY WalkExists
  <1>2. m \in Nat /\ e \in [0 .. m -> 0 .. Len(s)] /\ Len(s) \in Nat
    BY <1>1 DEF Walk
  <1>3. CASE NoneShown(w, s)
    BY <1>2, <1>3 DEF NoneShown
  <1>4. ASSUME NEW j, NEW k, SomeShown(w, s, e, m, j, k)
        PROVE  /\ String!first_non_ws_beg(w, s) \in 0 .. Len(s)
               /\ String!last_ws_beg(w, s) \in 0 .. Len(s)
    <2>1. /\ j \in 1 .. m /\ k \in 1 .. m
          /\ String!first_non_ws_beg(w, s) = e[j - 1] /\ String!last_ws_beg(w, s) = e[k]
      BY <1>4 DEF SomeShown
    <2>2. j - 1 \in 0 .. m /\ k \in 0 .. m
      BY <1>2, <2>1
    <2> QED
      BY <1>2, <2>1, <2>2
  <1> QED
    BY <1>1, <1>3, <1>4, TrimCases

LEMMA TrimUnits ==
  ASSUME NEW w \in {8, 16, 32}, NEW s \in Seq(UnitsOf(w))
  PROVE  /\ String!StartTrimmed(w, s) \in Seq(UnitsOf(w))
         /\ String!EndTrimmed(w, s) \in Seq(UnitsOf(w))
  <1> DEFINE first == String!first_non_ws_beg(w, s)
             last == String!last_ws_beg(w, s)
  <1>1. first \in 0 .. Len(s) /\ last \in 0 .. Len(s) /\ Len(s) \in Nat
    BY TrimRange
  <1> HIDE DEF first, last
  <1>2. SubSeq(s, first + 1, Len(s)) \in Seq(UnitsOf(w))
    <2>1. first + 1 \in Nat /\ 1 <= first + 1 /\ first + 1 <= Len(s) + 1 /\ Len(s) <= Len(s)
      BY <1>1
    <2> QED
      BY <1>1, <2>1, PartIs
  <1>3. SubSeq(s, 1, last) \in Seq(UnitsOf(w))
    <2>1. last \in Nat /\ 1 <= last + 1 /\ last <= Len(s) /\ 1 \in Nat /\ 1 <= 1
      BY <1>1
    <2> QED
      BY <2>1, PartIs
  <1> QED
    BY <1>2, <1>3, Zenon DEF first, last, String!StartTrimmed, String!EndTrimmed

LEMMA ShownPlaces ==
  ASSUME NEW w \in {8, 16, 32}, NEW s \in Seq(UnitsOf(w)), NEW m, NEW e, Walk(w, s, e, m),
         NEW j, NEW k, SomeShown(w, s, e, m, j, k)
  PROVE  /\ m \in Nat /\ j \in Nat /\ k \in Nat /\ 1 <= j /\ j <= k /\ k <= m
         /\ e[j - 1] \in Nat /\ e[k] \in Nat /\ e[j - 1] < e[k] /\ e[k] <= Len(s)
  <1>1. m \in Nat /\ j \in 1 .. m /\ k \in 1 .. m
    BY DEF Walk, SomeShown
  <1>2. j <= k
    <2> SUFFICES ASSUME ~(j <= k) PROVE FALSE
      OBVIOUS
    <2>1. k \in 1 .. j - 1
      BY <1>1
    <2> QED
      BY <2>1 DEF SomeShown
  <1>3. /\ e[j - 1] \in 0 .. Len(s) /\ e[j - 1] # Len(s)
        /\ e[j] = e[j - 1] + ReadFrom(w, s, e[j - 1]).size
    <2>1. j - 1 \in 0 .. m
      BY <1>1
    <2> QED
      BY <1>1, <2>1 DEF Walk
  <1>4. ReadFrom(w, s, e[j - 1]).size \in Nat /\ 1 <= ReadFrom(w, s, e[j - 1]).size
    BY <1>3, ReadAt
  <1>5. e[j] \in Nat /\ e[k] \in Nat /\ e[j] <= e[k] /\ e[k] <= Len(s)
    <2>1. k \in 0 .. m /\ j \in 0 .. k
      BY <1>1, <1>2
    <2> QED
      BY <2>1, WalkGrows
  <1> DEFINE x == e[j - 1]
             z == ReadFrom(w, s, x).size
  <1>6. x \in Nat /\ x < e[k]
    <2>1. x \in Nat
      BY <1>3
    <2>2. z \in Nat /\ 1 <= z /\ e[j] = x + z
      BY <1>3, <1>4
    <2> HIDE DEF x, z
    <2> QED
      BY <1>5, <2>1, <2>2
  <1> QED
    BY <1>1, <1>2, <1>5, <1>6

Parted(w, s, m, j, k, before, mid, after) ==
  /\ s = before \o mid \o after
  /\ Points(w, before) = SubSeq(Points(w, s), 1, j - 1)
  /\ Points(w, mid) = SubSeq(Points(w, s), j, k)
  /\ Points(w, after) = SubSeq(Points(w, s), k + 1, m)

(* The three parts that trimming tells apart, and what is read in each.    *)
LEMMA TrimParts ==
  ASSUME NEW w \in {8, 16, 32}, NEW s \in Seq(UnitsOf(w)), NEW m, NEW e, Walk(w, s, e, m),
         NEW j, NEW k, SomeShown(w, s, e, m, j, k)
  PROVE  Parted(w, s, m, j, k, SubSeq(s, 1, e[j - 1]), SubSeq(s, e[j - 1] + 1, e[k]),
                SubSeq(s, e[k] + 1, Len(s)))
  <1> DEFINE l == Len(s)
             Unit == UnitsOf(w)
  <1>1. /\ m \in Nat /\ j \in Nat /\ k \in Nat /\ 1 <= j /\ j <= k /\ k <= m
        /\ e[j - 1] \in Nat /\ e[k] \in Nat /\ e[j - 1] < e[k] /\ e[k] <= l
    BY ShownPlaces
  <1>2. s \in Seq(Unit) /\ Len(s) = l /\ l \in Nat /\ e[0] = 0 /\ e[m] = l
    BY DEF Walk
  <1> HIDE DEF l, Unit
  <1>3. s = SubSeq(s, 1, e[j - 1]) \o SubSeq(s, e[j - 1] + 1, e[k]) \o SubSeq(s, e[k] + 1, l)
    <2> DEFINE x == e[j - 1]
               y == e[k]
    <2>1. x \in Nat /\ y \in Nat /\ x <= y /\ y <= l /\ 1 \in Nat /\ 1 <= 1 /\ 1 <= x + 1 /\ 1 <= y + 1
          /\ y <= Len(s) /\ l <= Len(s)
      BY <1>1, <1>2
    <2> HIDE DEF x, y
    <2>2. SubSeq(s, 1, x) \o SubSeq(s, x + 1, y) = SubSeq(s, 1, y)
      BY <1>2, <2>1, PartsMeet
    <2>3. SubSeq(s, 1, y) \o SubSeq(s, y + 1, l) = SubSeq(s, 1, l)
      BY <1>2, <2>1, PartsMeet
    <2>4. SubSeq(s, 1, l) = s
      BY <1>2, PartWhole
    <2> QED
      BY <2>2, <2>3, <2>4, Zenon DEF x, y
  <1>4. Points(w, SubSeq(s, 1, e[j - 1])) = SubSeq(Points(w, s), 1, j - 1)
    <2> DEFINE x == j - 1
    <2>1. x \in 0 .. m /\ 0 \in 0 .. x /\ e[0] + 1 = 1 /\ 0 + 1 = 1
      BY <1>1, <1>2
    <2> HIDE DEF x
    <2>2. Points(w, Stretch(s, e[0], e[x])) = Stretch(Points(w, s), 0, x)
      BY <2>1, PointsPart
    <2> QED
      BY <2>1, <2>2, Zenon DEF Stretch, x
  <1>5. Points(w, SubSeq(s, e[j - 1] + 1, e[k])) = SubSeq(Points(w, s), j, k)
    <2> DEFINE x == j - 1
    <2>1. k \in 0 .. m /\ x \in 0 .. k /\ x + 1 = j
      BY <1>1
    <2> HIDE DEF x
    <2>2. Points(w, Stretch(s, e[x], e[k])) = Stretch(Points(w, s), x, k)
      BY <2>1, PointsPart
    <2> QED
      BY <2>1, <2>2, Zenon DEF Stretch, x
  <1>6. Points(w, SubSeq(s, e[k] + 1, l)) = SubSeq(Points(w, s), k + 1, m)
    <2>1. m \in 0 .. m /\ k \in 0 .. m
      BY <1>1
    <2>2. Points(w, Stretch(s, e[k], e[m])) = Stretch(Points(w, s), k, m)
      BY <2>1, PointsPart
    <2> QED
      BY <1>2, <2>2, Zenon DEF Stretch
  <1> QED
    BY <1>3, <1>4, <1>5, <1>6, Zenon DEF l, Parted

(* Cutting the end and then the start of what is left is cutting both.     *)
LEMMA TrimTwice ==
  ASSUME NEW w \in {8, 16, 32}, NEW s \in Seq(UnitsOf(w)), NEW m, NEW e, Walk(w, s, e, m),
         NEW j, NEW k, SomeShown(w, s, e, m, j, k)
  PROVE  String!StartTrimmed(w, String!EndTrimmed(w, s)) = SubSeq(s, e[j - 1] + 1, e[k])
  <1> DEFINE t == SubSeq(s, 1, e[k])
             f == Shifted(e, 0, k)
             p == Points(w, s)
             q == Points(w, t)
             Unit == UnitsOf(w)
  <1>1. /\ m \in Nat /\ j \in Nat /\ k \in Nat /\ 1 <= j /\ j <= k /\ k <= m
        /\ e[j - 1] \in Nat /\ e[k] \in Nat /\ e[j - 1] < e[k] /\ e[k] <= Len(s)
    BY ShownPlaces
  <1>2. e \in [0 .. m -> 0 .. Len(s)] /\ e[0] = 0
    BY DEF Walk
  <1>3. t \in Seq(Unit) /\ Len(t) = e[k] /\ Walk(w, t, f, k)
    <2>1. k \in 0 .. m /\ 0 \in 0 .. k /\ e[0] + 1 = 1 /\ k - 0 = k /\ e[k] - e[0] = e[k]
      BY <1>1, <1>2
    <2>2. SubSeq(s, e[0] + 1, e[k]) \in Seq(Unit)
      BY <2>1, WalkPart
    <2>3. Len(SubSeq(s, e[0] + 1, e[k])) = e[k] - e[0]
      BY <2>1, WalkPart
    <2>4. Walk(w, SubSeq(s, e[0] + 1, e[k]), Shifted(e, 0, k), k - 0)
      BY <2>1, WalkPart
    <2> QED
      BY <2>1, <2>2, <2>3, <2>4, Zenon
  <1>4. q = SubSeq(p, 1, k)
    <2>1. k \in 0 .. m /\ 0 \in 0 .. k /\ e[0] + 1 = 1 /\ 0 + 1 = 1
      BY <1>1, <1>2
    <2>2. Points(w, Stretch(s, e[0], e[k])) = Stretch(Points(w, s), 0, k)
      BY <2>1, PointsPart
    <2> QED
      BY <2>1, <2>2, Zenon DEF Stretch
  <1>5. p \in Seq(Scalars) /\ Len(p) = m
    BY PointsAre
  <1>6. \A i \in 1 .. k : q[i] = p[i]
    <2> HIDE DEF p, q
    <2> QED
      BY <1>1, <1>4, <1>5
  <1>7. f[j - 1] = e[j - 1]
    <2>1. j - 1 \in 0 .. k - 0 /\ 0 + (j - 1) = j - 1 /\ e[j - 1] - e[0] = e[j - 1]
      BY <1>1, <1>2
    <2> QED
      BY <2>1 DEF Shifted
  <1>8. /\ ~IsWs(p[j]) /\ \A i \in 1 .. j - 1 : IsWs(p[i])
        /\ ~IsWs(p[k]) /\ String!last_ws_beg(w, s) = e[k]
    BY DEF SomeShown
  <1>9. String!EndTrimmed(w, s) = t
    BY <1>8, Zenon DEF String!EndTrimmed
  <1>10. \/ \A i \in 1 .. k : IsWs(q[i])
         \/ \E i \in 1 .. k :
              /\ ~IsWs(q[i]) /\ \A h \in 1 .. i - 1 : IsWs(q[h])
              /\ String!first_non_ws_beg(w, t) = f[i - 1]
    <2>1. t \in Seq(UnitsOf(w)) /\ Walk(w, t, f, k)
      BY <1>3
    <2> HIDE DEF t, f, q
    <2>2. \/ /\ \A i \in 1 .. k : IsWs(Points(w, t)[i])
             /\ String!first_non_ws_beg(w, t) = Len(t)
          \/ \E i \in 1 .. k :
               /\ ~IsWs(Points(w, t)[i]) /\ \A h \in 1 .. i - 1 : IsWs(Points(w, t)[h])
               /\ String!first_non_ws_beg(w, t) = f[i - 1]
      BY <2>1, TrimStarts
    <2> QED
      BY <2>2, Zenon DEF q
  <1> HIDE DEF t, f, p, q
  <1>11. ASSUME NEW i \in 1 .. k, ~IsWs(q[i]), \A h \in 1 .. i - 1 : IsWs(q[h])
         PROVE  i = j
    <2>1. CASE i < j
      <3>1. i \in 1 .. j - 1
        BY <1>1, <2>1
      <3> QED
        BY <1>6, <1>8, <1>11, <3>1
    <2>2. CASE j < i
      <3>1. j \in 1 .. i - 1 /\ j \in 1 .. k
        BY <1>1, <2>2
      <3> QED
        BY <1>6, <1>8, <1>11, <3>1
    <2> QED
      BY <1>1, <2>1, <2>2
  <1>12. String!first_non_ws_beg(w, t) = e[j - 1]
    <2>1. k \in 1 .. k
      BY <1>1
    <2> QED
      BY <1>6, <1>7, <1>8, <1>10, <1>11, <2>1
  <1>13. String!StartTrimmed(w, t) = SubSeq(t, e[j - 1] + 1, e[k])
    BY <1>3, <1>12, Zenon DEF String!StartTrimmed
  <1>14. SubSeq(t, e[j - 1] + 1, e[k]) = SubSeq(s, e[j - 1] + 1, e[k])
    <2> DEFINE x == e[j - 1]
               y == e[k]
    <2>1. x \in Nat /\ y \in Nat /\ x <= y /\ y <= Len(s) /\ s \in Seq(Unit)
      BY <1>1
    <2> HIDE DEF x, y, Unit
    <2>2. SubSeq(SubSeq(s, 1, y), x + 1, y) = SubSeq(s, x + 1, y)
      BY <2>1, StretchOfStart
    <2> QED
      BY <2>2, Zenon DEF t, x, y
  <1> QED
    BY <1>9, <1>13, <1>14, Zenon

LEMMA AllWsIs ==
  ASSUME NEW w \in {8, 16, 32}, NEW s \in Seq(UnitsOf(w))
  PROVE  String!AllWs(w, s) <=> \A i \in 1 .. Len(Points(w, s)) : IsWs(Points(w, s)[i])
  <1>1. Points(w, s) \in Seq(Scalars)
    BY PointsScalars
  <1>2. String!Points(w, s) = Points(w, s)
    BY SameDecode, Zenon DEF String!Points, Points
  <1>3. DOMAIN Points(w, s) = 1 .. Len(Points(w, s))
    BY <1>1
  <1> QED
    BY <1>2, <1>3, Zenon DEF String!AllWs, IsWs

TrimsTo(w, s, before, mid, after) ==
  /\ String!Trimmed(w, s) = mid /\ mid # <<>>
  /\ String!StartTrimmed(w, String!EndTrimmed(w, s)) = mid
  /\ SubSeq(s, 1, String!first_non_ws_beg(w, s)) = before
  /\ SubSeq(s, String!last_ws_beg(w, s) + 1, Len(s)) = after
  /\ s = before \o mid \o after
  /\ String!AllWs(w, before) /\ String!AllWs(w, after)
  /\ ~IsWs(Points(w, mid)[1]) /\ ~IsWs(Points(w, mid)[Len(Points(w, mid))])
  /\ Points(w, s) = Points(w, before) \o Points(w, mid) \o Points(w, after)

LEMMA TrimSome ==
  ASSUME NEW w \in {8, 16, 32}, NEW s \in Seq(UnitsOf(w)), NEW m, NEW e, Walk(w, s, e, m),
         NEW j, NEW k, SomeShown(w, s, e, m, j, k)
  PROVE  TrimsTo(w, s, SubSeq(s, 1, e[j - 1]), SubSeq(s, e[j - 1] + 1, e[k]),
                 SubSeq(s, e[k] + 1, Len(s)))
  <1> DEFINE p == Points(w, s)
             before == SubSeq(s, 1, e[j - 1])
             mid == SubSeq(s, e[j - 1] + 1, e[k])
             after == SubSeq(s, e[k] + 1, Len(s))
             Unit == UnitsOf(w)
  <1>1. /\ m \in Nat /\ j \in Nat /\ k \in Nat /\ 1 <= j /\ j <= k /\ k <= m
        /\ e[j - 1] \in Nat /\ e[k] \in Nat /\ e[j - 1] < e[k] /\ e[k] <= Len(s)
    BY ShownPlaces
  <1>2. p \in Seq(Scalars) /\ Len(p) = m
    BY PointsAre
  <1>3. /\ s = before \o mid \o after
        /\ Points(w, before) = SubSeq(p, 1, j - 1)
        /\ Points(w, mid) = SubSeq(p, j, k)
        /\ Points(w, after) = SubSeq(p, k + 1, m)
    <2>1. Parted(w, s, m, j, k, SubSeq(s, 1, e[j - 1]), SubSeq(s, e[j - 1] + 1, e[k]),
                 SubSeq(s, e[k] + 1, Len(s)))
      BY TrimParts
    <2> QED
      BY <2>1, Zenon DEF Parted
  <1>4. /\ ~IsWs(p[j]) /\ \A i \in 1 .. j - 1 : IsWs(p[i])
        /\ ~IsWs(p[k]) /\ \A i \in k + 1 .. m : IsWs(p[i])
        /\ String!first_non_ws_beg(w, s) = e[j - 1] /\ String!last_ws_beg(w, s) = e[k]
    BY DEF SomeShown
  <1>5. String!Trimmed(w, s) = mid
    BY <1>4, Zenon DEF String!Trimmed
  <1>6. String!StartTrimmed(w, String!EndTrimmed(w, s)) = mid
    BY TrimTwice
  <1>7. before \in Seq(Unit) /\ mid \in Seq(Unit) /\ after \in Seq(Unit) /\ mid # <<>>
    <2> DEFINE x == e[j - 1]
               y == e[k]
               l == Len(s)
    <2>1. x \in Nat /\ y \in Nat /\ x < y /\ y <= l /\ l \in Nat /\ s \in Seq(Unit) /\ Len(s) = l
      BY <1>1
    <2> HIDE DEF x, y, l, Unit
    <2>2. SubSeq(s, 1, x) \in Seq(Unit) /\ SubSeq(s, x + 1, y) \in Seq(Unit)
          /\ SubSeq(s, y + 1, l) \in Seq(Unit)
      BY <2>1
    <2>3. Len(SubSeq(s, x + 1, y)) = y - x
      BY <2>1
    <2>4. SubSeq(s, x + 1, y) # <<>>
      BY <2>1, <2>3
    <2> QED
      BY <2>2, <2>4, Zenon DEF x, y, l
  <1> HIDE DEF p, before, mid, after, Unit
  <1>8. String!AllWs(w, before)
    <2> DEFINE q == Points(w, before)
    <2>1. Len(q) = j - 1 /\ \A i \in 1 .. j - 1 : q[i] = p[i]
      BY <1>1, <1>2, <1>3
    <2>2. \A i \in 1 .. Len(q) : IsWs(q[i])
      <3> HIDE DEF q
      <3> QED
        BY <1>4, <2>1
    <2>3. before \in Seq(UnitsOf(w))
      BY <1>7 DEF Unit
    <2> QED
      BY <2>2, <2>3, AllWsIs
  <1>9. String!AllWs(w, after)
    <2> DEFINE q == Points(w, after)
    <2>1. Len(q) = m - k /\ \A i \in 1 .. m - k : q[i] = p[k + i] /\ k + i \in k + 1 .. m
      BY <1>1, <1>2, <1>3
    <2>2. \A i \in 1 .. Len(q) : IsWs(q[i])
      <3> HIDE DEF q
      <3> QED
        BY <1>4, <2>1
    <2>3. after \in Seq(UnitsOf(w))
      BY <1>7 DEF Unit
    <2> QED
      BY <2>2, <2>3, AllWsIs
  <1>10. ~IsWs(Points(w, mid)[1]) /\ ~IsWs(Points(w, mid)[Len(Points(w, mid))])
    <2> DEFINE q == Points(w, mid)
    <2>1. Len(q) = (k + 1) - j /\ q[1] = p[j] /\ q[(k + 1) - j] = p[k]
      BY <1>1, <1>2, <1>3
    <2> HIDE DEF q
    <2>2. ~IsWs(q[1]) /\ ~IsWs(q[Len(q)])
      BY <1>4, <2>1, Zenon
    <2> QED
      BY <2>2 DEF q
  <1>11. p = Points(w, before) \o Points(w, mid) \o Points(w, after)
    <2> DEFINE i == j - 1
    <2>1. /\ i \in Nat /\ 1 \in Nat /\ 1 <= 1 /\ 1 <= i + 1 /\ i + 1 = j /\ i <= k /\ k <= Len(p)
          /\ 1 <= k + 1 /\ k <= m /\ m <= Len(p)
      BY <1>1, <1>2
    <2> HIDE DEF i
    <2>2. SubSeq(p, 1, i) \o SubSeq(p, i + 1, k) = SubSeq(p, 1, k)
      BY <1>1, <1>2, <2>1, PartsMeet, SMTT(30)
    <2>3. SubSeq(p, 1, k) \o SubSeq(p, k + 1, m) = SubSeq(p, 1, m)
      BY <1>1, <1>2, <2>1, PartsMeet
    <2>4. SubSeq(p, 1, m) = p
      BY <1>2, PartWhole
    <2>5. Points(w, mid) = SubSeq(p, i + 1, k) /\ Points(w, before) = SubSeq(p, 1, i)
      BY <1>3, <2>1, Zenon DEF i
    <2> QED
      BY <1>3, <2>2, <2>3, <2>4, <2>5, Zenon
  <1>12. /\ SubSeq(s, 1, String!first_non_ws_beg(w, s)) = before
         /\ SubSeq(s, String!last_ws_beg(w, s) + 1, Len(s)) = after
    BY <1>4, Zenon DEF before, after
  <1>13. TrimsTo(w, s, before, mid, after)
    BY <1>3, <1>5, <1>6, <1>7, <1>8, <1>9, <1>10, <1>11, <1>12, Zenon DEF TrimsTo, p
  <1> QED
    BY <1>13, Zenon DEF before, mid, after

LEMMA TrimNone ==
  ASSUME NEW w \in {8, 16, 32}, NEW s \in Seq(UnitsOf(w)), NoneShown(w, s)
  PROVE  /\ String!Trimmed(w, s) = <<>> /\ String!AllWs(w, s)
         /\ String!StartTrimmed(w, String!EndTrimmed(w, s)) = <<>>
  <1> DEFINE Unit == UnitsOf(w)
             l == Len(s)
             none == SubSeq(s, 1, 0)
  <1>1. l \in Nat /\ s \in Seq(Unit) /\ Len(s) = l
    OBVIOUS
  <1>2. /\ String!first_non_ws_beg(w, s) = l /\ String!last_ws_beg(w, s) = 0
        /\ \A i \in 1 .. Len(Points(w, s)) : IsWs(Points(w, s)[i])
    BY DEF NoneShown
  <1>3. String!AllWs(w, s)
    BY <1>2, AllWsIs
  <1> HIDE DEF Unit, l
  <1>4. SubSeq(s, l + 1, 0) = <<>> /\ none = <<>>
    BY <1>1
  <1>5. String!Trimmed(w, s) = <<>>
    BY <1>2, <1>4, Zenon DEF String!Trimmed
  <1>6. String!EndTrimmed(w, s) = <<>>
    BY <1>2, <1>4, Zenon DEF String!EndTrimmed
  <1>7. String!StartTrimmed(w, <<>>) = <<>>
    <2> DEFINE a == String!first_non_ws_beg(w, <<>>)
    <2>1. <<>> \in Seq(UnitsOf(w)) /\ Len(<<>>) = 0
      OBVIOUS
    <2>2. a \in 0 .. 0
      BY <2>1, TrimRange
    <2> HIDE DEF a
    <2>3. SubSeq(<<>>, a + 1, 0) = <<>>
      BY <2>2
    <2> QED
      BY <2>1, <2>3, Zenon DEF a, String!StartTrimmed
  <1> QED
    BY <1>3, <1>5, <1>6, <1>7, Zenon

LEMMA TrimIsExact ==
  ASSUME swidth \in {8, 16, 32}, str \in Seq(UnitsOf(swidth))
  PROVE  String!TrimExact
  <1> DEFINE mid == String!Trimmed(swidth, str)
             before == SubSeq(str, 1, String!first_non_ws_beg(swidth, str))
             after == SubSeq(str, String!last_ws_beg(swidth, str) + 1, Len(str))
  <1>1. PICK m, e : Walk(swidth, str, e, m)
    BY WalkExists
  <1>2. CASE NoneShown(swidth, str)
    <2>1. /\ mid = <<>> /\ String!AllWs(swidth, str)
          /\ String!StartTrimmed(swidth, String!EndTrimmed(swidth, str)) = <<>>
      BY <1>2, TrimNone
    <2> QED
      BY <2>1, Zenon DEF String!TrimExact
  <1>3. ASSUME NEW j, NEW k, SomeShown(swidth, str, e, m, j, k) PROVE String!TrimExact
    <2> DEFINE x == SubSeq(str, 1, e[j - 1])
               y == SubSeq(str, e[j - 1] + 1, e[k])
               z == SubSeq(str, e[k] + 1, Len(str))
    <2>1. TrimsTo(swidth, str, x, y, z)
      BY <1>1, <1>3, TrimSome
    <2> HIDE DEF x, y, z
    <2>2. /\ mid = y /\ mid # <<>> /\ before = x /\ after = z
          /\ mid = String!StartTrimmed(swidth, String!EndTrimmed(swidth, str))
          /\ str = before \o mid \o after
          /\ String!AllWs(swidth, before) /\ String!AllWs(swidth, after)
          /\ ~IsWs(Points(swidth, mid)[1])
          /\ ~IsWs(Points(swidth, mid)[Len(Points(swidth, mid))])
          /\ Points(swidth, str) =
               Points(swidth, before) \o Points(swidth, mid) \o Points(swidth, after)
      BY <2>1, Zenon DEF TrimsTo
    <2>3. \A s : String!Points(swidth, s) = Points(swidth, s)
      BY SameDecode, Zenon DEF String!Points, Points
    <2>4. String!Last(Points(swidth, mid)) = Points(swidth, mid)[Len(Points(swidth, mid))]
      BY DEF String!Last
    <2>5. /\ String!Points(swidth, str) = Points(swidth, str)
          /\ String!Points(swidth, before) = Points(swidth, before)
          /\ String!Points(swidth, mid) = Points(swidth, mid)
          /\ String!Points(swidth, after) = Points(swidth, after)
      BY <2>3, Zenon
    <2>6. String!TrimExact <=>
            /\ mid = String!StartTrimmed(swidth, String!EndTrimmed(swidth, str))
            /\ IF mid = <<>> THEN String!AllWs(swidth, str)
               ELSE /\ str = before \o mid \o after
                    /\ String!AllWs(swidth, before) /\ String!AllWs(swidth, after)
                    /\ ~IsWs(String!Points(swidth, mid)[1])
                    /\ ~IsWs(String!Last(String!Points(swidth, mid)))
                    /\ String!Points(swidth, str) =
                         String!Points(swidth, before) \o String!Points(swidth, mid)
                           \o String!Points(swidth, after)
      BY Zenon DEF String!TrimExact, IsWs
    <2> HIDE DEF before, mid, after
    <2> QED
      BY <2>2, <2>4, <2>5, <2>6
  <1> QED
    BY <1>1, <1>2, <1>3, TrimCases

-----------------------------------------------------------------------------
(* Case mapping makes a sequence of whatever it is given.                  *)

ShortTuple(t) == \E a, b, c : t = <<a>> \/ t = <<a, b>> \/ t = <<a, b, c>>

LEMMA LowerTuple ==
  ASSUME NEW x, NEW lang, NEW f, NEW l
  PROVE  ShortTuple(String!dchar_to_lower_special(x, lang, f, l))
  BY DEF String!dchar_to_lower_special, ShortTuple

LEMMA UpperTuple ==
  ASSUME NEW x, NEW lang
  PROVE  ShortTuple(String!dchar_to_upper_special(x, lang))
  BY DEF String!dchar_to_upper_special, ShortTuple

LEMMA FoldTuple ==
  ASSUME NEW x, NEW lang
  PROVE  ShortTuple(String!dchar_fold_special(x, lang))
  BY DEF String!dchar_fold_special, ShortTuple

LEMMA TuplesFlatten ==
  ASSUME NEW m \in Nat, NEW parts, parts = [i \in 1 .. m |-> parts[i]],
         \A i \in 1 .. m : ShortTuple(parts[i])
  PROVE  \E V : FlattenSeq(parts) \in Seq(V)
  <1> DEFINE V == {parts[p[1]][p[2]] : p \in (1 .. m) \X (1 .. 3)}
  <1>1. ASSUME NEW i \in 1 .. m PROVE parts[i] \in Seq(V)
    <2>1. \A k \in 1 .. 3 : parts[i][k] \in V
      <3>1. \A k \in 1 .. 3 : <<i, k>> \in (1 .. m) \X (1 .. 3)
        OBVIOUS
      <3> QED
        BY <3>1
    <2>2. PICK a, b, c : parts[i] = <<a>> \/ parts[i] = <<a, b>> \/ parts[i] = <<a, b, c>>
      BY DEF ShortTuple
    <2> HIDE DEF V
    <2> DEFINE t == parts[i]
    <2>3. t[1] \in V /\ t[2] \in V /\ t[3] \in V
      BY <2>1
    <2> HIDE DEF t
    <2>4. t = <<a>> \/ t = <<a, b>> \/ t = <<a, b, c>>
      BY <2>2 DEF t
    <2>5. t \in Seq(V)
      <3>1. CASE t = <<a>>
        <4>1. a \in V
          BY <2>3, <3>1
        <4> QED
          BY <3>1, <4>1
      <3>2. CASE t = <<a, b>>
        <4>1. a \in V /\ b \in V
          BY <2>3, <3>2
        <4> QED
          BY <3>2, <4>1
      <3>3. CASE t = <<a, b, c>>
        <4>1. a \in V /\ b \in V /\ c \in V
          BY <2>3, <3>3
        <4> QED
          BY <3>3, <4>1
      <3> QED
        BY <2>4, <3>1, <3>2, <3>3
    <2> QED
      BY <2>5 DEF t
  <1> HIDE DEF V
  <1>2. parts \in Seq(Seq(V))
    <2>1. parts \in [1 .. m -> Seq(V)]
      BY <1>1
    <2> QED
      BY <2>1
  <1>3. PICK e : Ends(parts, e)
    BY <1>2, EndsExist
  <1>4. FlattenSeq(parts) \in Seq(V)
    BY <1>2, <1>3, FlattenPlaces
  <1> QED
    BY <1>4

LEMMA CasesSeq ==
  ASSUME NEW p \in Seq(Scalars), NEW lang
  PROVE  /\ \E V : String!Lowered(p, lang) \in Seq(V)
         /\ \E V : String!Uppered(p, lang) \in Seq(V)
         /\ \E V : String!Folded(p, lang) \in Seq(V)
  <1> DEFINE m == Len(p)
             ctx == String!lookahead_contexts_for_str(p)
             low == [i \in 1 .. m |->
                      String!dchar_to_lower_special(p[i], lang, String!ForwardContext(p, i), ctx[i])]
             up == [i \in 1 .. m |-> String!dchar_to_upper_special(p[i], lang)]
             fold == [i \in 1 .. m |-> String!dchar_fold_special(p[i], lang)]
  <1>1. m \in Nat /\ DOMAIN p = 1 .. m
    OBVIOUS
  <1> HIDE DEF m, ctx
  <1>2. /\ low = [i \in 1 .. m |-> low[i]] /\ \A i \in 1 .. m : ShortTuple(low[i])
        /\ up = [i \in 1 .. m |-> up[i]] /\ \A i \in 1 .. m : ShortTuple(up[i])
        /\ fold = [i \in 1 .. m |-> fold[i]] /\ \A i \in 1 .. m : ShortTuple(fold[i])
    BY LowerTuple, UpperTuple, FoldTuple
  <1>3. String!Lowered(p, lang) = FlattenSeq(low)
    BY <1>1, SameFlatten, Zenon DEF String!Lowered, ctx
  <1>4. String!Uppered(p, lang) = FlattenSeq(up)
    BY <1>1, SameFlatten, Zenon DEF String!Uppered
  <1>5. String!Folded(p, lang) = FlattenSeq(fold)
    BY <1>1, SameFlatten, Zenon DEF String!Folded
  <1> HIDE DEF low, up, fold
  <1>6. /\ \E V : FlattenSeq(low) \in Seq(V)
        /\ \E V : FlattenSeq(up) \in Seq(V)
        /\ \E V : FlattenSeq(fold) \in Seq(V)
    BY <1>1, <1>2, TuplesFlatten
  <1> QED
    BY <1>3, <1>4, <1>5, <1>6

-----------------------------------------------------------------------------
(* The string that is operated on.                                         *)

StringOk == swidth \in {8, 16, 32} /\ swidth \in DOMAIN Pieces /\ str \in Seq(UnitsOf(swidth))

StringInv == active = "string" => StringOk

LEMMA GivenUnits ==
  ASSUME NEW w \in DOMAIN Pieces
  PROVE  /\ w \in {8, 16, 32}
         /\ Pieces[w] \subseteq Seq(UnitsOf(w)) /\ Separators[w] \subseteq Seq(UnitsOf(w))
  <1>1. /\ w \in {8, 16, 32}
        /\ \A part \in Pieces[w] \cup Separators[w] :
             part \in Seq(Nat) /\ \A i \in DOMAIN part : IsUnit(w, part[i])
    <2>1. \A u : String!IsUnit(w, u) <=> IsUnit(w, u)
      BY DEF String!IsUnit, IsUnit
    <2> QED
      BY <2>1, AlgorithmsAssumption, Zenon DEF String!Assumption
  <1>2. ASSUME NEW part \in Pieces[w] \cup Separators[w] PROVE part \in Seq(UnitsOf(w))
    <2> DEFINE Unit == UnitsOf(w)
    <2>1. part \in Seq(Nat) /\ \A i \in DOMAIN part : IsUnit(w, part[i])
      BY <1>1
    <2>2. \A i \in 1 .. Len(part) : part[i] \in Unit
      <3>1. DOMAIN part = 1 .. Len(part) /\ \A i \in 1 .. Len(part) : part[i] \in Nat
        BY <2>1
      <3> QED
        BY <2>1, <3>1 DEF UnitsOf
    <2> HIDE DEF Unit
    <2>3. part \in Seq(Unit)
      BY <2>1, <2>2
    <2> QED
      BY <2>3 DEF Unit
  <1> QED
    BY <1>1, <1>2

LEMMA TextBecomes ==
  ASSUME StringOk, NEW s \in Seq(UnitsOf(swidth)), String!Becomes(s)
  PROVE  StringOk'
  <1>1. str' = s /\ swidth' = swidth
    BY Zenon DEF String!Becomes
  <1> QED
    BY <1>1 DEF StringOk

LEMMA TextPoints ==
  ASSUME NEW w \in {8, 16, 32}, NEW s \in Seq(UnitsOf(w))
  PROVE  String!Points(w, s) = Points(w, s) /\ Points(w, s) \in Seq(Scalars)
  <1>1. String!Points(w, s) = Points(w, s)
    BY SameDecode, Zenon DEF String!Points, Points
  <1> QED
    BY <1>1, PointsScalars

LEMMA EditKeeps ==
  ASSUME StringOk, \/ String!pop_back \/ String!clear
                   \/ \E piece \in Pieces[swidth] : String!append(piece)
  PROVE  StringOk'
  <1> DEFINE Unit == UnitsOf(swidth)
  <1>1. str \in Seq(Unit) /\ swidth \in DOMAIN Pieces
    BY DEF StringOk
  <1>2. CASE String!pop_back
    <2> DEFINE s == IF str = <<>> THEN str ELSE String!Front(str)
    <2>1. String!Becomes(s)
      BY <1>2, Zenon DEF String!pop_back
    <2>2. s \in Seq(Unit)
      <3>1. String!Front(str) = SubSeq(str, 1, Len(str) - 1)
        BY DEF String!Front
      <3> HIDE DEF Unit
      <3>2. str # <<>> => SubSeq(str, 1, Len(str) - 1) \in Seq(Unit)
        BY <1>1
      <3> QED
        BY <1>1, <3>1, <3>2
    <2> HIDE DEF s
    <2> QED
      BY <2>1, <2>2, TextBecomes
  <1>3. CASE String!clear
    <2>1. String!Becomes(<<>>) /\ <<>> \in Seq(Unit)
      BY <1>3 DEF String!clear
    <2> QED
      BY <2>1, TextBecomes
  <1>4. ASSUME NEW piece \in Pieces[swidth], String!append(piece) PROVE StringOk'
    <2>1. piece \in Seq(Unit)
      BY <1>1, GivenUnits
    <2>2. str \o piece \in Seq(Unit)
      <3> HIDE DEF Unit
      <3> QED
        BY <1>1, <2>1
    <2>3. String!Becomes(str \o piece)
      BY <1>4, Zenon DEF String!append
    <2> QED
      BY <2>2, <2>3, TextBecomes
  <1> QED
    BY <1>2, <1>3, <1>4

LEMMA TrimKeeps ==
  ASSUME StringOk, String!trim \/ String!trim_start \/ String!trim_end
  PROVE  StringOk'
  <1>1. swidth \in {8, 16, 32} /\ str \in Seq(UnitsOf(swidth))
    BY DEF StringOk
  <1> DEFINE t == String!EndTrimmed(swidth, str)
             Unit == UnitsOf(swidth)
  <1>2. t \in Seq(Unit) /\ String!StartTrimmed(swidth, str) \in Seq(Unit)
    BY <1>1, TrimUnits
  <1>3. String!StartTrimmed(swidth, t) \in Seq(Unit)
    <2> HIDE DEF t
    <2> QED
      BY <1>1, <1>2, TrimUnits
  <1>4. \E s \in Seq(Unit) : String!Becomes(s)
    BY <1>2, <1>3, Zenon DEF String!trim, String!trim_start, String!trim_end
  <1> QED
    BY <1>4, TextBecomes

LEMMA WrittenKeeps ==
  ASSUME StringOk,
         \/ String!replace_invalid
         \/ \E lang \in Langs : String!to_lower(lang) \/ String!to_upper(lang) \/ String!fold(lang)
  PROVE  StringOk'
  <1> DEFINE p == Points(swidth, str)
             Unit == UnitsOf(swidth)
  <1>1. swidth \in {8, 16, 32} /\ str \in Seq(UnitsOf(swidth))
    BY DEF StringOk
  <1>2. String!Points(swidth, str) = p /\ p \in Seq(Scalars)
    BY <1>1, TextPoints
  <1> HIDE DEF p
  <1>3. ASSUME NEW q, NEW V, q \in Seq(V) PROVE String!Encode(swidth, q) \in Seq(Unit)
    BY <1>1, <1>3, EncodeUnits, SameEncode
  <1>4. CASE String!replace_invalid
    <2>1. String!Becomes(String!Encode(swidth, p))
      BY <1>2, <1>4, Zenon DEF String!replace_invalid, String!InvalidsReplaced
    <2>2. String!Encode(swidth, p) \in Seq(Unit)
      BY <1>2, <1>3
    <2> QED
      BY <2>1, <2>2, TextBecomes
  <1>5. ASSUME NEW lang \in Langs, String!to_lower(lang) PROVE StringOk'
    <2>1. String!Becomes(String!Encode(swidth, String!Lowered(p, lang)))
      BY <1>2, <1>5, Zenon DEF String!to_lower
    <2>2. String!Encode(swidth, String!Lowered(p, lang)) \in Seq(Unit)
      BY <1>2, <1>3, CasesSeq
    <2> QED
      BY <2>1, <2>2, TextBecomes
  <1>6. ASSUME NEW lang \in Langs, String!to_upper(lang) PROVE StringOk'
    <2>1. String!Becomes(String!Encode(swidth, String!Uppered(p, lang)))
      BY <1>2, <1>6, Zenon DEF String!to_upper
    <2>2. String!Encode(swidth, String!Uppered(p, lang)) \in Seq(Unit)
      BY <1>2, <1>3, CasesSeq
    <2> QED
      BY <2>1, <2>2, TextBecomes
  <1>7. ASSUME NEW lang \in Langs, String!fold(lang) PROVE StringOk'
    <2>1. String!Becomes(String!Encode(swidth, String!Folded(p, lang)))
      BY <1>2, <1>7, Zenon DEF String!fold
    <2>2. String!Encode(swidth, String!Folded(p, lang)) \in Seq(Unit)
      BY <1>2, <1>3, CasesSeq
    <2> QED
      BY <2>1, <2>2, TextBecomes
  <1> QED
    BY <1>4, <1>5, <1>6, <1>7

LEMMA TranscodeKeeps ==
  ASSUME StringOk, NEW w \in DOMAIN Pieces, String!transcode(w)
  PROVE  StringOk'
  <1> DEFINE p == Points(swidth, str)
  <1>1. swidth \in {8, 16, 32} /\ str \in Seq(UnitsOf(swidth)) /\ w \in {8, 16, 32}
    BY GivenUnits DEF StringOk
  <1>2. String!Points(swidth, str) = p /\ p \in Seq(Scalars)
    BY <1>1, TextPoints
  <1>3. swidth' = w /\ str' = String!Encode(w, String!Points(swidth, str))
    BY Zenon DEF String!transcode
  <1> HIDE DEF p
  <1>4. Encode(w, p) \in Seq(UnitsOf(w))
    BY <1>1, <1>2, EncodeUnits
  <1>5. str' = Encode(w, p)
    BY <1>2, <1>3, SameEncode, Zenon
  <1> QED
    BY <1>1, <1>3, <1>4, <1>5 DEF StringOk

LEMMA PartKeeps ==
  ASSUME StringOk,
         \/ \E from, to \in Separators[swidth] : String!replace_separators(from, to)
         \/ \E from \in 0 .. Len(str), sub \in Separators[swidth] : String!take(from, sub)
  PROVE  StringOk'
  <1> DEFINE Unit == UnitsOf(swidth)
  <1>1. str \in Seq(Unit) /\ swidth \in DOMAIN Pieces
    BY DEF StringOk
  <1>2. Separators[swidth] \subseteq Seq(Unit)
    BY <1>1, GivenUnits
  <1>3. ASSUME NEW from \in Separators[swidth], NEW to \in Separators[swidth],
               String!replace_separators(from, to)
        PROVE  StringOk'
    <2> DEFINE s == String!join(String!split(str, from), to)
    <2>1. s \in Seq(Unit)
      <3> HIDE DEF Unit
      <3>1. from \in Seq(Unit) /\ to \in Seq(Unit)
        BY <1>2
      <3>2. String!split(str, from) \in Seq(Seq(Unit))
        BY <1>1, <3>1, SplitSeqs
      <3> QED
        BY <3>1, <3>2, JoinSeq
    <2>2. String!Becomes(s)
      BY <1>3, Zenon DEF String!replace_separators
    <2> HIDE DEF s
    <2> QED
      BY <2>1, <2>2, TextBecomes
  <1>4. ASSUME NEW from \in 0 .. Len(str), NEW sub \in Separators[swidth], String!take(from, sub)
        PROVE  StringOk'
    <2> DEFINE at == String!find_index(str, sub, from)
               s == String!substr(str, from, at - from)
               l == Len(str)
    <2>1. at \in from .. Len(str)
      <3> HIDE DEF Unit
      <3>1. sub \in Seq(Unit)
        BY <1>2
      <3> QED
        BY <1>1, <3>1, FindRange
    <2>2. s = SubSeq(str, from + 1, at)
      <3>1. s = SubSeq(str, from + 1, IF from + (at - from) < l THEN from + (at - from) ELSE l)
        BY Zenon DEF String!substr
      <3>2. at \in from .. l /\ from \in 0 .. l /\ l \in Nat
        BY <1>1, <2>1
      <3> HIDE DEF at, l, s
      <3>3. (IF from + (at - from) < l THEN from + (at - from) ELSE l) = at
        BY <3>2
      <3> QED
        BY <3>1, <3>3, Zenon
    <2>3. String!Becomes(s)
      BY <1>4, Zenon DEF String!take
    <2> HIDE DEF s, at, l, Unit
    <2>4. s \in Seq(Unit)
      BY <1>1, <2>1, <2>2
    <2> QED
      BY <2>3, <2>4, TextBecomes DEF Unit
  <1> QED
    BY <1>3, <1>4

LEMMA StringInit == AllInit => StringInv
  <1> SUFFICES ASSUME AllInit, active = "string" PROVE StringOk
    BY DEF StringInv
  <1>1. String!Init
    BY DEF AllInit
  <1>2. swidth \in DOMAIN Pieces
    BY <1>1 DEF String!Init
  <1>3. PICK pieces \in String!BoundedSeq(Pieces[swidth], MaxPieces) : str = String!FlattenSeq(pieces)
    BY <1>1 DEF String!Init
  <1> DEFINE Unit == UnitsOf(swidth)
  <1>4. swidth \in {8, 16, 32} /\ Pieces[swidth] \subseteq Seq(Unit)
    BY <1>2, GivenUnits
  <1> HIDE DEF Unit
  <1>5. pieces \in Seq(Seq(Unit))
    <2>1. PICK k \in 0 .. MaxPieces : pieces \in [1 .. k -> Pieces[swidth]]
      BY <1>3, Zenon DEF String!BoundedSeq, String!SeqOf
    <2>2. k \in Nat
      BY AlgorithmsAssumption DEF String!Assumption
    <2>3. pieces \in [1 .. k -> Seq(Unit)]
      BY <1>4, <2>1
    <2> QED
      BY <2>2, <2>3
  <1>6. str \in Seq(Unit)
    BY <1>3, <1>5, SameFlatten, FlattenSeqs
  <1> QED
    BY <1>2, <1>4, <1>6 DEF StringOk, Unit

LEMMA StringStep == StringInv /\ [AllNext]_allVars => StringInv'
  <1> SUFFICES ASSUME StringInv, [AllNext]_allVars PROVE StringInv'
    OBVIOUS
  <1>1. CASE UNCHANGED <<active, stringVars>>
    BY <1>1 DEF StringInv, StringOk, stringVars
  <1>2. CASE active' = active /\ active = "string" /\ String!Next
    <2>1. StringOk
      BY <1>2 DEF StringInv
    <2>2. StringOk'
      <3>1. CASE String!pop_back \/ String!clear \/ \E piece \in Pieces[swidth] : String!append(piece)
        BY <2>1, <3>1, EditKeeps
      <3>2. CASE String!trim \/ String!trim_start \/ String!trim_end
        BY <2>1, <3>2, TrimKeeps
      <3>3. CASE \/ String!replace_invalid
                 \/ \E lang \in Langs :
                      String!to_lower(lang) \/ String!to_upper(lang) \/ String!fold(lang)
        BY <2>1, <3>3, WrittenKeeps
      <3>4. CASE \E w \in DOMAIN Pieces : String!transcode(w)
        BY <2>1, <3>4, TranscodeKeeps
      <3>5. CASE \/ \E from, to \in Separators[swidth] : String!replace_separators(from, to)
                 \/ \E from \in 0 .. Len(str), sub \in Separators[swidth] : String!take(from, sub)
        BY <2>1, <3>5, PartKeeps
      <3> QED
        BY <1>2, <3>1, <3>2, <3>3, <3>4, <3>5, Zenon DEF String!Next
    <2> QED
      BY <2>2 DEF StringInv
  <1> QED
    BY <1>1, <1>2 DEF AllNext, allVars

(* Every code point that a transcoded string holds is read back, so that   *)
(* going through any width and back is the repair of the string.           *)
LEMMA TranscodingIsLossless ==
  ASSUME StringOk
  PROVE  String!TranscodingLossless
  <1> DEFINE p == Points(swidth, str)
  <1>1. swidth \in {8, 16, 32} /\ str \in Seq(UnitsOf(swidth))
    BY DEF StringOk
  <1>2. String!Points(swidth, str) = p /\ p \in Seq(Scalars)
    BY <1>1, TextPoints
  <1> HIDE DEF p
  <1>3. ASSUME NEW w \in {8, 16, 32} PROVE String!Points(w, String!Encode(w, p)) = p
    <2> DEFINE t == Encode(w, p)
    <2>1. t \in Seq(UnitsOf(w))
      BY <1>2, EncodeUnits
    <2>2. Points(w, t) = p
      BY <1>2, EncodeRead
    <2>3. String!Encode(w, p) = t
      BY SameEncode
    <2> HIDE DEF t
    <2>4. String!Points(w, t) = Points(w, t)
      BY <2>1, TextPoints
    <2> QED
      BY <2>2, <2>3, <2>4, Zenon
  <1> QED
    BY <1>2, <1>3, Zenon DEF String!TranscodingLossless, String!InvalidsReplaced

LEMMA SplittingIsInverse ==
  ASSUME StringOk
  PROVE  String!SplitJoinInverse
  <1>1. str \in Seq(UnitsOf(swidth)) /\ swidth \in DOMAIN Pieces
    BY DEF StringOk
  <1> SUFFICES ASSUME NEW sep \in Separators[swidth]
               PROVE  LET parts == String!split(str, sep)
                      IN /\ String!join(parts, sep) = str
                         /\ String!TotalSize(parts, sep) = Len(str)
                         /\ sep # <<>> =>
                              /\ \A i \in DOMAIN parts : ~String!Occurs(sep, parts[i])
                              /\ parts[1] = String!substr(str, 0, String!find_index(str, sep, 0))
    BY Zenon DEF String!SplitJoinInverse
  <1>2. sep \in Seq(UnitsOf(swidth))
    BY <1>1, GivenUnits
  <1> QED
    BY <1>1, <1>2, SplitInverse

(* The string is always made of units of its width: no operation leaves    *)
(* anything else behind (trimming, casing, transcoding, splitting, ...).   *)
THEOREM StringTypes == AllSpec => []StringInv
  BY StringInit, StringStep, PTL DEF AllSpec

(* For every string and every separator: joining what split returns gives  *)
(* the string back, no piece holds the separator, the first ends where     *)
(* find_index says, and join reserves exactly what it writes.              *)
THEOREM SplittingIsExact == AllSpec => []SplitJoinInverse
  <1>1. StringInv => SplitJoinInverse
    BY SplittingIsInverse DEF StringInv, SplitJoinInverse
  <1> QED
    BY StringInit, StringStep, <1>1, PTL DEF AllSpec

(* Trimming any string, by copy or in place, removes exactly the code      *)
(* points of whitespace around the rest, tearing and joining none.         *)
THEOREM TrimmingIsExact == AllSpec => []TrimExact
  <1>1. StringInv => TrimExact
    BY TrimIsExact DEF StringInv, StringOk, TrimExact
  <1> QED
    BY StringInit, StringStep, <1>1, PTL DEF AllSpec

(* The transcoding constructors: any string in any units survives the way  *)
(* through any other units, but for what invalids_replaced replaces.       *)
THEOREM TranscodingKeepsText == AllSpec => []TranscodingLossless
  <1>1. StringInv => TranscodingLossless
    BY TranscodingIsLossless DEF StringInv, TranscodingLossless
  <1> QED
    BY StringInit, StringStep, <1>1, PTL DEF AllSpec

-----------------------------------------------------------------------------
(* Code points, in the specification of all computations.                  *)

CopyInv == IF active = "codepoints" THEN Inv ELSE RepairFaithful

LEMMA CopyInit == AllInit => CopyInv
  <1> SUFFICES ASSUME AllInit PROVE CopyInv
    OBVIOUS
  <1>1. CASE active = "codepoints"
    BY <1>1, InitInv DEF AllInit, CopyInv
  <1>2. CASE active # "codepoints"
    <2>1. read = <<>>
      BY <1>2 DEF AllInit
    <2>2. DOMAIN read = {}
      BY <2>1
    <2> QED
      BY <1>2, <2>2 DEF CopyInv, RepairFaithful
  <1> QED
    BY <1>1, <1>2

LEMMA CopyStep == CopyInv /\ [AllNext]_allVars => CopyInv'
  <1> SUFFICES ASSUME CopyInv, [AllNext]_allVars PROVE CopyInv'
    OBVIOUS
  <1>1. active' = active /\ (active = "codepoints" => [Next]_vars)
        /\ (active # "codepoints" => UNCHANGED vars)
    BY DEF AllNext, allVars
  <1>2. CASE active = "codepoints"
    BY <1>1, <1>2, NextInv DEF CopyInv
  <1>3. CASE active # "codepoints"
    <2>1. UNCHANGED vars /\ RepairFaithful
      BY <1>1, <1>3 DEF CopyInv
    <2>2. RepairFaithful'
      BY <2>1 DEF RepairFaithful, vars
    <2> QED
      BY <1>1, <1>3, <2>2 DEF CopyInv
  <1> QED
    BY <1>2, <1>3

(* Whatever else is computed, every copy of a string is faithful.          *)
THEOREM CopiesAreFaithful == AllSpec => []RepairFaithful
  <1>1. CopyInv => RepairFaithful
    BY InvFaithful DEF CopyInv
  <1> QED
    BY CopyInit, CopyStep, <1>1, PTL DEF AllSpec

=============================================================================
