------------------------------ MODULE MCTimedSet -----------------------------
(***************************************************************************)
(* Four objects, of which two are of the same time, in two contexts and    *)
(* with two keys.                                                          *)
(***************************************************************************)
EXTENDS TimedSet

NoOne == 0
FourObjects == 1..4
TwoContexts == {"c1", "c2"}
Values == {"a1", "a2", "b"}
Keys == [v \in Values |-> IF v = "b" THEN "b" ELSE "a"]
Times == <<0, 1, 1, 3>>
Homes == <<"c1", "c1", "c2", "c1">>
TwoTimes == {2, 3}
Never == {}
Lasting == {4}
Others == {2, 3}
Second == {2}
=============================================================================
