----------------------------- MODULE MCBetaNode ------------------------------
(***************************************************************************)
(* Two items by the left and three by the right; p is one object that      *)
(* arrives by both sides.  The test is code (Ordered) or a key (Same).     *)
(***************************************************************************)
EXTENDS BetaNode

CONSTANTS p, q, r, s

PAndQ == {p, q}
PRAndS == {p, r, s}
TwoValues == {1, 2}
Ordered == {<<1, 1>>, <<1, 2>>, <<2, 2>>}
Same == {<<1, 1>>, <<2, 2>>}

AllKinds == {"and", "nand", "oand"}
OnlyAnd == {"and"}
OnlyNand == {"nand"}
OnlyOand == {"oand"}

Everything == {p, q, r, s}
AllPairs == PAndQ \X PRAndS
OnlyQAndR == {q, r}
OnlyRAndS == {r, s}
=============================================================================
