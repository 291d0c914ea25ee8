---------------------------- MODULE MCActionLoop -----------------------------
(***************************************************************************)
(* Objects e1 and e2 of the application, m1 and m2 of the rules, with two  *)
(* contents: enough for a rule to act on an object another action is       *)
(* about, and for a lost modification to show.  Each cfg chooses the       *)
(* objects and what rules and application may do.                          *)
(***************************************************************************)
EXTENDS ActionLoop

CONSTANTS e1, e2, m1, m2, zero, one

OneGiven == {e1}
TwoGiven == {e1, e2}
OneMade == {m1}
TwoMade == {m1, m2}
TwoValues == {zero, one}

Nothing == {}
InsertsInside == {"INSERT"}
BeforeTheEnd == {"created", "modified", "deleted"}
AtTheEnd == {"unused"}

ChangeHabit == {"change"}
TwiceHabit == {"twice"}
PosthumousHabit == {"posthumous"}
=============================================================================
