-------------------------------- MODULE Char --------------------------------
(***************************************************************************)
(* Reading and writing one Unicode code point in units of 8, 16 or 32 bits *)
(* (sys.Text/Char.h), and a whole string code point by code point          *)
(* (CodepointIterator.h).  Bit operations are written as arithmetic: no    *)
(* value here reaches 2^32.                                                *)
(***************************************************************************)
EXTENDS Integers, SequencesExt

(* Classes of units and code points.                                       *)

(* A unit of w bits; those of 32 are further restricted where they are read. *)
IsUnit(w, u) == u \in Nat /\ (w = 8 => u <= \hFF) /\ (w = 16 => u <= \hFFFF)

IsContinuation(b) == b \in \h80 .. \hBF
IsHighSurrogate(c) == c \in \hD800 .. \hDBFF
IsLowSurrogate(c) == c \in \hDC00 .. \hDFFF
IsSurrogate(c) == c \in \hD800 .. \hDFFF

IsInRange(c) == c \in Nat /\ c <= \h10FFFF
IsScalar(c) == c \in Nat /\ c <= \h10FFFF /\ ~IsSurrogate(c)

Replacement == \hFFFD

-----------------------------------------------------------------------------
(* read_codepoint: the code point at the start of s, a part of a string of *)
(* units of w bits, and its size.                                          *)

Data(c, size) == [c |-> c, size |-> size]

Fail == Data(Replacement, 1)

Read32(s) == IF IsScalar(s[1]) THEN Data(s[1], 1) ELSE Fail

Read16(s) ==
  IF ~IsSurrogate(s[1]) THEN Data(s[1], 1)
  ELSE IF IsHighSurrogate(s[1]) /\ Len(s) >= 2 /\ IsLowSurrogate(s[2])
  THEN Data(\h10000 + (s[1] - \hD800) * 1024 + (s[2] - \hDC00), 2)
  ELSE Fail

(* How many bytes follow from the first one, and what it contributes.  A   *)
(* byte from 80 to C1 counts as one of three.                              *)
Lead(b) ==
  IF b >= \hC2 /\ b < \hE0 THEN Data(b % 32, 2)
  ELSE IF b < \hF0 THEN Data(b % 16, 3)
  ELSE Data(b % 8, 4)

Smallest == <<0, \h80, \h800, \h10000>>

Read8(s) ==
  LET len == Lead(s[1]).size
      c[i \in 1 .. len] ==
        IF i = 1 THEN Lead(s[1]).c ELSE c[i - 1] * 64 + (s[i] % 64)
  IN IF s[1] < \h80 THEN Data(s[1], 1)
     ELSE IF \/ s[1] >= \hF5
             \/ Len(s) < len
             \/ \E i \in 2 .. len : ~IsContinuation(s[i])
             \/ c[len] < Smallest[len]
             \/ ~IsScalar(c[len])
     THEN Fail ELSE Data(c[len], len)

Read(w, s) ==
  CASE w = 8 -> Read8(s) [] w = 16 -> Read16(s) [] w = 32 -> Read32(s)

-----------------------------------------------------------------------------
(* write_codepoint: the units of w bits written for c.                     *)

Tail5(c) == \h80 + (c % 32)

Tail6(c) == \h80 + (c % 64)

Write8(c) ==
  IF c <= \h7F THEN <<c>>
  ELSE IF c <= \h7FF THEN <<\hC0 + (c \div 64), Tail6(c)>>
  ELSE IF c <= \hFFFF
  THEN <<\hE0 + (c \div 4096), Tail6(c \div 64), Tail6(c)>>
  ELSE <<\hF0 + (c \div 262144), Tail6(c \div 4096), Tail6(c \div 64), Tail6(c)>>

Write16(c) ==
  IF c <= \hFFFF THEN <<c>>
  ELSE <<\hD800 + ((c - \h10000) \div 1024), \hDC00 + ((c - \h10000) % 1024)>>

Write(w, c) ==
  LET scalar == IF IsScalar(c) THEN c ELSE Replacement
  IN CASE w = 8 -> Write8(scalar)
       [] w = 16 -> Write16(scalar)
       [] w = 32 -> <<scalar>>

-----------------------------------------------------------------------------
(* codepoint_view over a whole string, and its copy in units of w bits.    *)

(* The code points of s, each with where it starts and its size.           *)
Decode(w, s) ==
  LET f[at \in 0 .. Len(s)] ==
        IF at = Len(s) THEN <<>>
        ELSE LET data == Read(w, SubSeq(s, at + 1, Len(s)))
             IN <<[at |-> at, c |-> data.c, size |-> data.size]>>
                \o f[at + data.size]
  IN f[0]

Points(w, s) == [i \in DOMAIN Decode(w, s) |-> Decode(w, s)[i].c]

Encode(w, points) ==
  FlattenSeq([i \in DOMAIN points |-> Write(w, points[i])])

-----------------------------------------------------------------------------
(* The well-formed sequences of units for one code point: for bytes, the   *)
(* ranges of the Unicode standard's table 3-7.                             *)
WellFormed8(s) ==
  LET Ranges(first, second) == s[1] \in first /\ s[2] \in second
  IN CASE Len(s) = 1 -> s[1] <= \h7F
       [] Len(s) = 2 -> Ranges(\hC2 .. \hDF, \h80 .. \hBF)
       [] Len(s) = 3 ->
            /\ \/ Ranges({\hE0}, \hA0 .. \hBF)
               \/ Ranges((\hE1 .. \hEC) \cup {\hEE, \hEF}, \h80 .. \hBF)
               \/ Ranges({\hED}, \h80 .. \h9F)
            /\ s[3] \in \h80 .. \hBF
       [] Len(s) = 4 ->
            /\ \/ Ranges({\hF0}, \h90 .. \hBF)
               \/ Ranges(\hF1 .. \hF3, \h80 .. \hBF)
               \/ Ranges({\hF4}, \h80 .. \h8F)
            /\ s[3] \in \h80 .. \hBF /\ s[4] \in \h80 .. \hBF
       [] OTHER -> FALSE

WellFormed16(s) ==
  CASE Len(s) = 1 -> s[1] \notin \hD800 .. \hDFFF
    [] Len(s) = 2 -> s[1] \in \hD800 .. \hDBFF /\ s[2] \in \hDC00 .. \hDFFF
    [] OTHER -> FALSE

WellFormed(w, s) ==
  CASE w = 8 -> WellFormed8(s)
    [] w = 16 -> WellFormed16(s)
    [] w = 32 -> Len(s) = 1 /\ s[1] <= \h10FFFF /\ s[1] \notin \hD800 .. \hDFFF

=============================================================================
