---------------------------- MODULE MCPalaceAndLog ----------------------------
(* The palace: more consorts than seats, of equal and of different glamor.    *)
(* The log: two texts, one of a line with a character to spare after the last *)
(* flush, one of two lines; offsets inside, at and behind the end of a text;  *)
(* cards of two and of three digits, and an array without cards.              *)
EXTENDS PalaceAndLog

CONSTANTS c1, c2, c3, c4

MCConsorts == {c1, c2, c3, c4}
MCGlamors == {90, 99}

MCCharacters == {"a", "b", "c", EOL, NUL}
MCTexts   == {<<"a", EOL>>, <<"b", EOL, "c", EOL>>}
MCOffsets == {1, 2, 5}
MCGirls   == {<<>>, <<17, 18>>, <<100, 17>>}
===============================================================================
