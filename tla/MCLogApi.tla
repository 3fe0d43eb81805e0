------------------------------- MODULE MCLogApi -------------------------------
(* Two texts, one of a line with a character to spare after the last flush,   *)
(* one of two lines; offsets inside, at and behind the end of a text; cards   *)
(* of two and of three digits, and an array without cards.                    *)
EXTENDS LogApi

MCCharacters == {"a", "b", "c", EOL, NUL}
MCTexts   == {<<"a", EOL>>, <<"b", EOL, "c", EOL>>}
MCOffsets == {1, 2, 5}
MCGirls   == {<<>>, <<17, 18>>, <<100, 17>>}
===============================================================================
