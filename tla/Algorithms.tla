----------------------------- MODULE Algorithms -----------------------------
(***************************************************************************)
(* The computations that have one user and no shared state, side by side:  *)
(* a behaviour picks one and does only that.                               *)
(***************************************************************************)
EXTENDS Codepoints

CONSTANTS
  Kinds, \* the computations to pick from
  Widths, IntWidth, Samples, Precision, NaN, Undefined, Error,
  Pieces, Separators, Langs, MaxPieces, MaxSize

VARIABLES
  active,
  type, n, call,
  swidth, str

numberVars == <<type, n, call>>
stringVars == <<swidth, str>>
allVars == <<vars, active, numberVars, stringVars>>

Number == INSTANCE Integer
String == INSTANCE StringEx WITH width <- swidth

ASSUME AlgorithmsAssumption ==
  /\ Kinds \subseteq {"codepoints", "number", "string"}
  /\ Number!Assumption
  /\ String!Assumption

AllInit ==
  /\ active \in Kinds
  /\ IF active = "codepoints" THEN Init
     ELSE /\ width = 0 /\ text = <<>> /\ into = 0 /\ cur = 0
          /\ cp_size = 0 /\ read = <<>> /\ out = <<>>
  /\ IF active = "number" THEN Number!Init
     ELSE type = [w |-> 0, s |-> FALSE] /\ n = 0 /\ call = Number!NoCall
  /\ IF active = "string" THEN String!Init ELSE swidth = 0 /\ str = <<>>

AllNext ==
  /\ UNCHANGED active
  /\ \/ active = "codepoints" /\ Next
     \/ active # "codepoints" /\ UNCHANGED vars
  /\ \/ active = "number" /\ Number!Next
     \/ active # "number" /\ UNCHANGED numberVars
  /\ \/ active = "string" /\ String!Next
     \/ active # "string" /\ UNCHANGED stringVars

AllSpec ==
  /\ AllInit /\ [][AllNext]_allVars
  /\ WF_allVars(active = "codepoints" /\ (Advance \/ Replace) /\ AllNext)

(* Integers: what the documentation of sys::integer promises.              *)
ArithmeticExact == Number!ArithmeticExact

(* Integers: casts saturate, fail or keep the value.                       *)
CastsExact == Number!CastsExact

(* Strings: splitting, searching and joining fit together.                 *)
SplitJoinInverse == active = "string" => String!SplitJoinInverse

(* Strings: trimming removes whitespace around the rest and nothing else.  *)
TrimExact == active = "string" => String!TrimExact

(* Strings: the casing contexts are those of the Unicode standard, but for *)
(* More_Above behind other marks, and casing twice is casing once.         *)
CasingExact == active = "string" => String!CasingExact

(* Strings: another width and back is a repair.                            *)
TranscodingLossless == active = "string" => String!TranscodingLossless

(* Integers: products wrap (Integer.h:28).                                 *)
ArithmeticWraps == Number!ArithmeticWraps

(* Casts: numbers out of range are refused (Numeric.h:92).                 *)
CheckedFloatDefined == Number!CheckedFloatDefined

=============================================================================
