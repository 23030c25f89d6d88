----------------------------- MODULE Codepoints -----------------------------
(***************************************************************************)
(* The iterator over the code points of a string, with the size that it    *)
(* caches (sys.Text/CodepointIterator.h), and the loops that copy a string *)
(* code point by code point, with its invalid parts replaced, into units   *)
(* of the same or of another width (StringEx.h).                           *)
(***************************************************************************)
EXTENDS Char

CONSTANTS
  Units,     \* Units[w]: the units of w bits that strings are made of
  MaxUnits   \* bound: units in a string

ASSUME CodepointsAssumption ==
  /\ DOMAIN Units \subseteq {8, 16, 32}
  /\ \A w \in DOMAIN Units : \A u \in Units[w] : IsUnit(w, u)
  /\ MaxUnits \in Nat

VARIABLES
  width,     \* of the string's units
  text,      \* the string
  into,      \* width of the copy's units, or 0 while an iterator walks over text
  cur,       \* units behind the iterator
  cp_size,   \* size of the code point at the iterator if it has been read, or 0
  read,      \* the code points copied, each with where it was read
  out        \* the copy, as the units written for each code point

vars == <<width, text, into, cur, cp_size, read, out>>

Init ==
  /\ width \in DOMAIN Units
  /\ text \in BoundedSeq(Units[width], MaxUnits)
  /\ into \in DOMAIN Units \cup {0}
  /\ cur = 0
  /\ cp_size = 0
  /\ read = <<>>
  /\ out = <<>>

-----------------------------------------------------------------------------
(* The iterator, and the loop of invalids_replaced and of the transcoding  *)
(* constructor.                                                            *)

Rest == SubSeq(text, cur + 1, Len(text))

AtEnd == cur = Len(text)

(* A loop that misses the end leaves the text and is undefined: the model  *)
(* stops there, for ever short of the end.                                 *)
Within == cur < Len(text)

Deref ==
  /\ into = 0 /\ Within
  /\ cp_size' = Read(width, Rest).size
  /\ UNCHANGED <<width, text, into, cur, read, out>>

Size == IF cp_size = 0 THEN Read(width, Rest).size ELSE cp_size

AdvanceStale ==
  /\ into = 0 /\ Within
  /\ cur' = cur + Size
  /\ UNCHANGED <<width, text, into, cp_size, read, out>>

Advance ==
  /\ into = 0 /\ Within
  /\ cur' = cur + Size
  /\ cp_size' = 0
  /\ UNCHANGED <<width, text, into, read, out>>

Replace ==
  /\ into # 0 /\ Within
  /\ LET data == Read(width, Rest)
     IN /\ read' = Append(read, [at |-> cur, c |-> data.c, size |-> data.size])
        /\ out' = Append(out, Write(into, data.c))
        /\ cur' = cur + data.size
  /\ UNCHANGED <<width, text, into, cp_size>>

Next == Deref \/ Advance \/ Replace \/ (~Within /\ UNCHANGED vars)

Spec == Init /\ [][Next]_vars

(* Loops over a string go on to its end.                                   *)
FairSpec == Spec /\ WF_vars(Advance \/ Replace)

-----------------------------------------------------------------------------
(* Properties.                                                             *)

InvalidStart(b) == b \in \h80 .. \hC1 \/ b \in \hF5 .. \hFF

(* The copy made by invalids_replaced, or in other units by the            *)
(* transcoding constructor, is well-formed and reads back as what was      *)
(* read; every well-formed part of the string is read as a whole, and kept *)
(* as it is if the units stay the same; units that start none are replaced *)
(* one by one, except where the string has an invalid start byte.  Nothing *)
(* is skipped and nothing is read twice.                                   *)
RepairFaithful ==
  \A i \in DOMAIN read :
    LET r == read[i]
        Part(n) == SubSeq(text, r.at + 1, r.at + n)
        valid == \E n \in 1 .. Len(text) - r.at : WellFormed(width, Part(n))
    IN /\ WellFormed(into, out[i]) /\ Read(into, out[i]) = Data(r.c, Len(out[i]))
       /\ valid => WellFormed(width, Part(r.size)) /\ (into = width => out[i] = Part(r.size))
       /\ ~valid /\ ~(width = 8 /\ InvalidStart(text[r.at + 1])) =>
            r.c = Replacement /\ r.size = 1
       /\ r.at = IF i = 1 THEN 0 ELSE read[i - 1].at + read[i - 1].size

(* A walk reaches the end of any string exactly, whether or not the code   *)
(* points on the way are read before they are passed.                      *)
ReachesEnd == <>[]AtEnd

(* As tests/sys.Text/char.cpp:55-62 has it, a byte that cannot start a     *)
(* sequence is read as the replacement character.                          *)
InvalidStartsReplaced ==
  width = 8 /\ Within /\ InvalidStart(text[cur + 1]) =>
    Read(width, Rest).c = Replacement

=============================================================================
