--------------------------- MODULE MCFamilyTreasury ---------------------------
(* Model values and amounts for TLC: two wives, one earner, two auditors;   *)
(* with small pay, one pay day does not cover a price.                      *)
EXTENDS FamilyTreasury

CONSTANTS w1, w2, a1, a2

MCWives == {w1, w2}
MCAuditors == {a1, a2}

MCSmallPay == {1, 2}
MCDear == {2}
=============================================================================
