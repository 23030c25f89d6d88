---------------------------- MODULE MCAlgorithms ----------------------------
(* The algorithms for TLC: up to four units from both sides of every       *)
(* boundary that the decoder tells apart; integers of less than half the   *)
(* width of int, of half of it and as wide, with operands around zero and  *)
(* around every bound; strings put together from whitespace, torn and      *)
(* whole sequences, and characters of each kind that casing tells apart.   *)
EXTENDS Algorithms, TLC

MCUnits ==
  (8 :> {\h41, \h80, \h8F, \h9F, \hA0, \hC1, \hC2, \hE0, \hED, \hF0, \hF4, \hF5})
  @@ (16 :> {\h41, \hD7FF, \hD800, \hDBFF, \hDC00, \hDFFF, \hE000})
  @@ (32 :> {\h41, \hD7FF, \hD800, \hDFFF, \hFFFF, \h10000, \h10FFFF, \h110000})

MCBytes == 8 :> {\h41, \h80, \hA0, \hC1}

MCSamples ==
  (-9 .. 9) \cup {-256, -129, -128, -127, -65, -64, 31, 32, 33, 63, 64, 65,
                  126, 127, 128, 255, 256}

MCPieces ==
  (8 :> {<<\h20>>, <<\h41>>, <<\hC2, \hA0>>, <<\hCE, \hA3>>, <<\hE2, \h80, \h80>>, <<\hC2>>})
  @@ (32 :> {<<c>> : c \in {\h20, \h41, \h49, \hCC, \hDF, \h149, \h17F, \h2B0, \h307, \h323, \h3A3}})

MCSeparators ==
  (8 :> {<<>>, <<\h41>>, <<\h80>>, <<\h41, \h41>>})
  @@ (32 :> {<<>>, <<\h41>>})

MCMaxSize == (8 :> 4) @@ (32 :> 3)

=============================================================================
