----------------------------- MODULE MCTimedNode -----------------------------
(***************************************************************************)
(* Two items by the left, one of them a compound, and three by the right,  *)
(* one of them an object that arrives by both sides.  The window is 1.     *)
(***************************************************************************)
EXTENDS TimedNode, TLC

CONSTANTS c, p, q, r

CAndP == {c, p}
PQAndR == {p, q, r}
PAndQ == {p, q}
TwoValues == {1, 2}
Ordered == {<<1, 1>>, <<1, 2>>, <<2, 2>>}

(* The compound is made of an object of time 1 and one of time 2.  Each    *)
(* side has an item that some item of the other finds too old.             *)
Starts == c :> 1 @@ p :> 1 @@ q :> 0 @@ r :> 3
Stops == c :> 2 @@ p :> 1 @@ q :> 0 @@ r :> 3

(* Two items by the right of the same time, newer than the one by the left.*)
TiedStarts == c :> 0 @@ p :> 0 @@ q :> 2 @@ r :> 2
TiedStops == c :> 1 @@ p :> 0 @@ q :> 2 @@ r :> 2

AllKinds == {"and", "nand", "oand"}
OnlyAnd == {"and"}
BothSides == {"left", "right"}
=============================================================================
