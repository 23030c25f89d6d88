------------------------------ MODULE StringEx ------------------------------
(***************************************************************************)
(* sys::string (sys.Text/StringEx.h): a sequence of units of 8, 16 or 32   *)
(* bits, well-formed or not, with its operations in code points (trimming, *)
(* case) and in units (searching, splitting, joining).                     *)
(***************************************************************************)
EXTENDS Char, Casing

CONSTANTS
  Pieces,     \* Pieces[w]: the sequences of units that strings are put together from
  Separators, \* Separators[w]: the sequences of units to split at
  Langs,
  MaxPieces,  \* bound: pieces of the first string
  MaxSize     \* MaxSize[w], a bound: units in a string

Assumption ==
  /\ DOMAIN Pieces \subseteq {8, 16, 32} /\ DOMAIN Separators = DOMAIN Pieces
  /\ \A w \in DOMAIN Pieces : \A part \in Pieces[w] \cup Separators[w] :
       part \in Seq(Nat) /\ \A i \in DOMAIN part : IsUnit(w, part[i])
  /\ MaxPieces \in Nat
  /\ MaxSize \in [DOMAIN Pieces -> Nat]

VARIABLES
  width, \* of the string's units
  str    \* the string

vars == <<width, str>>

Init ==
  /\ width \in DOMAIN Pieces
  /\ \E pieces \in BoundedSeq(Pieces[width], MaxPieces) : str = FlattenSeq(pieces)

-----------------------------------------------------------------------------
(* Whitespace.                                                             *)

dchar_is_ws(c) ==
  c \in (9 .. 13) \cup {\h20, \h85, \hA0, \h1680} \cup (\h2000 .. \h200A)
        \cup {\h200E, \h200F, \h2028, \h2029, \h202F, \h205F, \h3000}

(* Units before the first code point that is no whitespace.                *)
first_non_ws_beg(w, s) ==
  LET at == SelectInSeq(Decode(w, s), LAMBDA p : ~dchar_is_ws(p.c))
  IN IF at = 0 THEN Len(s) ELSE Decode(w, s)[at].at

LastWsStart(w, s) ==
  LET at == SelectLastInSeq(Decode(w, s), LAMBDA p : ~dchar_is_ws(p.c))
  IN IF at = 0 THEN 0 ELSE Decode(w, s)[at].at + 1

(* Units up to the end of the last code point that is no whitespace.       *)
last_ws_beg(w, s) ==
  LET at == SelectLastInSeq(Decode(w, s), LAMBDA p : ~dchar_is_ws(p.c))
  IN IF at = 0 THEN 0 ELSE Decode(w, s)[at].at + Decode(w, s)[at].size

Trimmed(w, s) == SubSeq(s, first_non_ws_beg(w, s) + 1, last_ws_beg(w, s))
StartTrimmed(w, s) == SubSeq(s, first_non_ws_beg(w, s) + 1, Len(s))
EndTrimmed(w, s) == SubSeq(s, 1, last_ws_beg(w, s))

-----------------------------------------------------------------------------
(* Searching, splitting and joining.                                       *)

HasAt(s, i, sub) == SubSeq(s, i + 1, i + Len(sub)) = sub

find_index(s, sub, from) ==
  LET found == {i \in from .. Len(s) - Len(sub) : HasAt(s, i, sub)}
  IN IF from >= Len(s) \/ found = {} THEN Len(s)
     ELSE CHOOSE i \in found : \A j \in found : i <= j

substr(s, from, count) ==
  SubSeq(s, from + 1, IF from + count < Len(s) THEN from + count ELSE Len(s))

SplitSkipping(s, delimiter) ==
  LET d == Len(delimiter)
      at[p \in (0 .. Len(s) + 1) \X (0 .. Len(s) + 1)] ==
        LET it == p[1]
            from == p[2]
        IN IF it > Len(s) - d THEN <<SubSeq(s, from + 1, Len(s))>>
           ELSE IF HasAt(s, it, delimiter)
           THEN <<SubSeq(s, from + 1, it)>> \o at[<<it + d + 1, it + d>>]
           ELSE at[<<it + 1, from>>]
  IN IF d = 0 THEN [i \in DOMAIN s |-> <<s[i]>>]
     ELSE IF d > Len(s) THEN <<s>>
     ELSE at[<<0, 0>>]

(* The loop of split from it on, with the piece under way begun at from.   *)
split(s, delimiter) ==
  LET d == Len(delimiter)
      at[p \in (0 .. Len(s)) \X (0 .. Len(s))] ==
        LET it == p[1]
            from == p[2]
        IN IF it > Len(s) - d THEN <<SubSeq(s, from + 1, Len(s))>>
           ELSE IF HasAt(s, it, delimiter)
           THEN <<SubSeq(s, from + 1, it)>> \o at[<<it + d, it + d>>]
           ELSE at[<<it + 1, from>>]
  IN IF d = 0 THEN [i \in DOMAIN s |-> <<s[i]>>]
     ELSE IF d > Len(s) THEN <<s>>
     ELSE at[<<0, 0>>]

(* What join reserves: the parts, and a separator between every two.       *)
TotalSize(parts, sep) ==
  LET sizes[i \in 0 .. Len(parts)] ==
        IF i = 0 THEN 0 ELSE sizes[i - 1] + Len(parts[i])
  IN sizes[Len(parts)] + (IF Len(parts) > 1 THEN Len(sep) * (Len(parts) - 1) ELSE 0)

join(parts, sep) ==
  FlattenSeq([i \in DOMAIN parts |-> IF i = 1 THEN parts[i] ELSE sep \o parts[i]])

-----------------------------------------------------------------------------
(* Operations on the string.                                               *)

Becomes(s) == Len(s) <= MaxSize[width] /\ str' = s /\ UNCHANGED width

append(data) == Becomes(str \o data)
pop_back == Becomes(IF str = <<>> THEN str ELSE Front(str))
clear == Becomes(<<>>)

(* trim cuts the end first, and the start of what is left.                 *)
trim == Becomes(StartTrimmed(width, EndTrimmed(width, str)))
trim_start == Becomes(StartTrimmed(width, str))
trim_end == Becomes(EndTrimmed(width, str))

InvalidsReplaced(w, s) == Encode(w, Points(w, s))
replace_invalid == Becomes(InvalidsReplaced(width, str))

to_lower(lang) == Becomes(Encode(width, Lowered(Points(width, str), lang)))
to_upper(lang) == Becomes(Encode(width, Uppered(Points(width, str), lang)))
fold(lang) == Becomes(Encode(width, Folded(Points(width, str), lang)))

(* The string in units of another width, and a piece of it.                *)
transcode(w) ==
  /\ w \in DOMAIN Pieces \ {width}
  /\ width' = w
  /\ str' = Encode(w, Points(width, str))
  /\ Len(str') <= MaxSize[w]

(* What callers make of split and join, and of find_index and substr.      *)
replace_separators(from, to) == Becomes(join(split(str, from), to))

take(from, sub) == Becomes(substr(str, from, find_index(str, sub, from) - from))

Next ==
  \/ pop_back \/ clear \/ trim \/ trim_start \/ trim_end \/ replace_invalid
  \/ \E piece \in Pieces[width] : append(piece)
  \/ \E lang \in Langs : to_lower(lang) \/ to_upper(lang) \/ fold(lang)
  \/ \E w \in DOMAIN Pieces : transcode(w)
  \/ \E from, to \in Separators[width] : replace_separators(from, to)
  \/ \E from \in 0 .. Len(str), sub \in Separators[width] : take(from, sub)

Spec == Init /\ [][Next]_vars

-----------------------------------------------------------------------------
(* Properties.                                                             *)

Occurs(sub, s) == \E i \in 0 .. Len(s) - Len(sub) : HasAt(s, i, sub)

(* Splitting at a separator and joining with it gives the string back (the *)
(* fuzz test of tests/sys.Text/string_fuzz.cpp:20 for every string), no    *)
(* piece holds a separator, the first piece ends where find_index says,    *)
(* and join has reserved exactly what it writes.                           *)
SplitJoinInverse ==
  \A sep \in Separators[width] :
    LET parts == split(str, sep)
    IN /\ join(parts, sep) = str
       /\ TotalSize(parts, sep) = Len(str)
       /\ sep # <<>> =>
            /\ \A i \in DOMAIN parts : ~Occurs(sep, parts[i])
            /\ parts[1] = substr(str, 0, find_index(str, sep, 0))

AllWs(w, s) ==
  LET points == Points(w, s)
  IN \A i \in DOMAIN points : dchar_is_ws(points[i])

(* Trimming in place and by copy agree and remove exactly the whitespace   *)
(* around the rest, by code points: the cut never joins or tears what was  *)
(* read as one, and what is left begins and ends with no whitespace.       *)
TrimExact ==
  LET mid == Trimmed(width, str)
      before == SubSeq(str, 1, first_non_ws_beg(width, str))
      after == SubSeq(str, last_ws_beg(width, str) + 1, Len(str))
      points == Points(width, mid)
  IN /\ mid = StartTrimmed(width, EndTrimmed(width, str))
     /\ IF mid = <<>> THEN AllWs(width, str)
        ELSE /\ str = before \o mid \o after
             /\ AllWs(width, before) /\ AllWs(width, after)
             /\ ~dchar_is_ws(points[1]) /\ ~dchar_is_ws(Last(points))
             /\ Points(width, str) =
                  Points(width, before) \o points \o Points(width, after)

(* Both passes over a text find the contexts that the Unicode standard     *)
(* defines for its casing rules, except that they miss a mark above behind *)
(* a mark of another class, where the standard has More_Above (table 3-17) *)
(* and the code has not; and a text that has been cased stays as it is     *)
(* when it is cased again.  Folding makes no difference between a text and *)
(* its other cases, except where a dotless i has become an I.              *)
CasingExact ==
  LET points == Points(width, str)
  IN /\ ContextsAgree(points)
     /\ \A lang \in Langs :
          LET lower == Lowered(points, lang)
              upper == Uppered(points, lang)
              folded == Folded(points, lang)
          IN /\ Lowered(lower, lang) = lower
             /\ Uppered(upper, lang) = upper
             /\ Folded(folded, lang) = folded
     /\ Folded(Lowered(points, ""), "") = Folded(points, "")
     /\ DotlessI \notin Range(points) =>
          Folded(Uppered(points, ""), "") = Folded(points, "")

(* Going through another width replaces what is invalid and nothing else   *)
(* (tests/sys.Text/string_fuzz.cpp:33-89, for valid strings).              *)
TranscodingLossless ==
  \A w \in {8, 16, 32} :
    Encode(width, Points(w, Encode(w, Points(width, str)))) = InvalidsReplaced(width, str)

=============================================================================
