------------------------------- MODULE Casing -------------------------------
(***************************************************************************)
(* Case mapping of a sequence of code points (sys.Text/StringEx.h) with    *)
(* the tables of sys.Text/data.  The tables are exact for U+0000..U+017F,  *)
(* the combining marks U+0300..U+036F and the others named below.          *)
(***************************************************************************)
EXTENDS Integers, SequencesExt

CapitalI == \h49
SmallI == \h69
CapitalJ == \h4A
SmallJ == \h6A
CapitalS == \h53
SmallS == \h73
SharpS == \hDF
Micro == \hB5
CapitalIOgonek == \h12E
SmallIOgonek == \h12F
CapitalIDot == \h130
DotlessI == \h131
LongS == \h17F
ModifierH == \h2B0
Apostrophe == \h2BC
Grave == \h300
DotAbove == \h307
Ypogegrammeni == \h345
CapitalIota == \h399
CapitalMu == \h39C
CapitalSigma == \h3A3
SmallIota == \h3B9
SmallMu == \h3BC
FinalSigma == \h3C2
SmallSigma == \h3C3

Marks == \h300 .. \h36F

-----------------------------------------------------------------------------
(* Generated tables.                                                       *)

(* The letters with one partner 32 places up, and those with one next door.*)
Alphabets ==
  \h41 .. \h5A \cup (\hC0 .. \hDE \ {\hD7}) \cup {CapitalIota, CapitalMu, CapitalSigma}

Alternating ==
  {c \in \h100 .. \h12E \cup \h132 .. \h136 \cup \h14A .. \h176 : c % 2 = 0}
  \cup {c \in \h139 .. \h147 \cup \h179 .. \h17D : c % 2 = 1}

SmallOf ==
  [c \in Alphabets |-> c + 32] @@ [c \in Alternating |-> c + 1]
  @@ \h178 :> \hFF

Lookup(table, c) == IF c \in DOMAIN table THEN table[c] ELSE c

Lowers == SmallOf @@ CapitalIDot :> SmallI

Uppers ==
  AntiFunction(SmallOf) @@ DotlessI :> CapitalI @@ LongS :> CapitalS
  @@ Micro :> CapitalMu @@ Ypogegrammeni :> CapitalIota @@ FinalSigma :> CapitalSigma

Folds == SmallOf @@ LongS :> SmallS @@ Micro :> SmallMu
  @@ Ypogegrammeni :> SmallIota @@ FinalSigma :> SmallSigma

dchar_to_lower_simple(c) == Lookup(Lowers, c)

dchar_to_upper_simple(c) == Lookup(Uppers, c)

dchar_fold_simple(c) == Lookup(Folds, c)

dchar_is_cased(c) ==
  \/ c \in \h41 .. \h5A \cup \h61 .. \h7A \cup {\hAA, Micro, \hBA}
  \/ c \in \hC0 .. \h17F \ {\hD7, \hF7}
  \/ c \in {ModifierH, Ypogegrammeni, CapitalIota, CapitalMu, CapitalSigma}
  \/ c \in {SmallIota, SmallMu, FinalSigma, SmallSigma}

dchar_is_case_ignorable(c) ==
  \/ c \in {\h27, \h2E, \h3A, \h5E, \h60, \hA8, \hAD, \hAF, \hB4, \hB7, \hB8}
  \/ c \in {ModifierH, Apostrophe} \cup Marks

dchar_is_soft_dotted(c) == c \in {SmallI, SmallJ, SmallIOgonek}

(* The classes the code tells apart: "above", none, and all others.        *)
dchar_ccc(c) ==
  CASE c \notin Marks \/ c \in {\h34F} -> "not_reordered"
    [] c \in \h300 .. \h314 \cup \h33D .. \h344 \cup \h363 .. \h36F
            \cup \h34A .. \h34C \cup \h350 .. \h352 \cup {\h346, \h357, \h35B} -> "above"
    [] OTHER -> "other"

-----------------------------------------------------------------------------
(* Special casing: a code point in its context may map to several.  The    *)
(* forward context f is known from the characters before, the look-ahead   *)
(* context l from those behind.                                            *)

Turkic == {"tr", "az"}

Accented == \hCC :> Grave @@ \hCD :> \h301 @@ \h128 :> \h303

dchar_to_lower_special(c, lang, f, l) ==
  CASE c = CapitalSigma /\ f.is_preceded_by_cased /\ ~l.followed_by_cased -> <<FinalSigma>>
    [] c \in {CapitalI, CapitalJ, CapitalIOgonek} /\ lang = "lt" /\ l.more_above ->
         <<dchar_to_lower_simple(c), DotAbove>>
    [] c \in DOMAIN Accented /\ lang = "lt" -> <<SmallI, DotAbove, Accented[c]>>
    [] c = CapitalIDot /\ lang \in Turkic -> <<SmallI>>
    [] c = CapitalI /\ lang \in Turkic /\ ~l.before_dot -> <<DotlessI>>
    [] c = CapitalIDot /\ lang \notin Turkic -> <<SmallI, DotAbove>>
    [] OTHER -> <<dchar_to_lower_simple(c)>>

dchar_to_upper_special(c, lang) ==
  CASE c = SmallI /\ lang \in Turkic -> <<CapitalIDot>>
    [] c = SharpS -> <<CapitalS, CapitalS>>
    [] c = \h149 -> <<Apostrophe, \h4E>>
    [] OTHER -> <<dchar_to_upper_simple(c)>>

dchar_fold_special(c, lang) ==
  CASE c = CapitalI /\ lang \in Turkic -> <<DotlessI>>
    [] c = CapitalIDot /\ lang \in Turkic -> <<SmallI>>
    [] c = SharpS -> <<SmallS, SmallS>>
    [] c = \h149 -> <<Apostrophe, \h6E>>
    [] c = CapitalIDot /\ lang \notin Turkic -> <<SmallI, DotAbove>>
    [] OTHER -> <<dchar_fold_simple(c)>>

-----------------------------------------------------------------------------
(* The contexts, computed in one pass from the end and one from the start. *)

resets_combining(ccc) == ccc \in {"not_reordered", "above"}

SeesCasedNext(c, was) == dchar_is_cased(c)

(* What a character behind or before makes of a condition on cased ones.   *)
SeesCased(c, was) == dchar_is_cased(c) \/ (dchar_is_case_ignorable(c) /\ was)

(* A condition on a mark, which holds until another such mark or a base.   *)
SeesMark(c, isMark, was) == isMark \/ (~resets_combining(dchar_ccc(c)) /\ was)

NoLookahead == [followed_by_cased |-> FALSE, more_above |-> FALSE, before_dot |-> FALSE]

lookahead_contexts_for_str(s) ==
  LET Step(c, ctxs) ==
        <<[followed_by_cased |-> SeesCased(c, ctxs[1].followed_by_cased),
           more_above |-> dchar_ccc(c) = "above",
           before_dot |-> SeesMark(c, c = DotAbove, ctxs[1].before_dot)]>> \o ctxs
  IN Tail(FoldRight(Step, s, <<NoLookahead>>))

NoForward ==
  [is_preceded_by_cased |-> FALSE, after_soft_dotted |-> FALSE, after_i |-> FALSE]

update_fcontext_for_char(f, c) ==
  [is_preceded_by_cased |-> SeesCased(c, f.is_preceded_by_cased),
   after_soft_dotted |-> SeesMark(c, dchar_is_soft_dotted(c), f.after_soft_dotted),
   after_i |-> SeesMark(c, c = CapitalI, f.after_i)]

ForwardContext(s, i) ==
  FoldLeft(update_fcontext_for_char, NoForward, SubSeq(s, 1, i - 1))

-----------------------------------------------------------------------------
(* as_cased and folded.                                                    *)

Lowered(s, lang) ==
  LET lookaheads == lookahead_contexts_for_str(s)
  IN FlattenSeq([i \in DOMAIN s |->
       dchar_to_lower_special(s[i], lang, ForwardContext(s, i), lookaheads[i])])

Uppered(s, lang) ==
  FlattenSeq([i \in DOMAIN s |-> dchar_to_upper_special(s[i], lang)])

Folded(s, lang) ==
  FlattenSeq([i \in DOMAIN s |-> dchar_fold_special(s[i], lang)])

-----------------------------------------------------------------------------
(* The conditions of the Unicode standard (table 3-17) on the character at *)
(* i of a text, for the passes to agree with.                              *)

FinalSigmaBefore(s, i) ==
  \E j \in 1 .. i - 1 :
    dchar_is_cased(s[j]) /\ \A k \in j + 1 .. i - 1 : dchar_is_case_ignorable(s[k])

FinalSigmaAfter(s, i) ==
  \E j \in i + 1 .. Len(s) :
    dchar_is_cased(s[j]) /\ \A k \in i + 1 .. j - 1 : dchar_is_case_ignorable(s[k])

Between(s, i, j) == \A k \in i + 1 .. j - 1 : dchar_ccc(s[k]) \notin {"not_reordered", "above"}

BeforeDot(s, i) ==
  \E j \in i + 1 .. Len(s) : s[j] = DotAbove /\ Between(s, i, j)

AfterI(s, i) == \E j \in 1 .. i - 1 : s[j] = CapitalI /\ Between(s, j, i)

AfterSoftDotted(s, i) ==
  \E j \in 1 .. i - 1 : dchar_is_soft_dotted(s[j]) /\ Between(s, j, i)

MoreAbove(s, i) ==
  \E j \in i + 1 .. Len(s) : dchar_ccc(s[j]) = "above" /\ Between(s, i, j)

(* A mark that is not above stands next, where the standard looks on for   *)
(* one that is, and the code does not.                                     *)
OtherMarkNext(s, i) == i < Len(s) /\ dchar_ccc(s[i + 1]) = "other"

(* The passes find what the standard defines, but for More_Above: the code *)
(* says it does not hold, whether or not it does, where another mark       *)
(* stands next.                                                            *)
ContextsAgree(s) ==
  \A i \in DOMAIN s :
    /\ lookahead_contexts_for_str(s)[i] =
         [followed_by_cased |-> FinalSigmaAfter(s, i),
          more_above |-> MoreAbove(s, i) /\ ~OtherMarkNext(s, i),
          before_dot |-> BeforeDot(s, i)]
    /\ ForwardContext(s, i) =
         [is_preceded_by_cased |-> FinalSigmaBefore(s, i),
          after_soft_dotted |-> AfterSoftDotted(s, i), after_i |-> AfterI(s, i)]

=============================================================================
