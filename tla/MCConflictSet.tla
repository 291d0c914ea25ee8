---------------------------- MODULE MCConflictSet ----------------------------
(***************************************************************************)
(* Three rules on two matches: imp implies an object and is HIGH; plain    *)
(* acts on INSERT and RETRACT only and shares the LOW category with trig,  *)
(* a rule on a TRIGGER class, so that one list holds entries of two rules. *)
(***************************************************************************)
EXTENDS ConflictSet

CONSTANTS imp, plain, trig, m1, m2

MCRule == {imp, plain, trig}
OnlyTrig == {trig}
MCMatch == {m1, m2}
MCTrigger == {trig}
MCImplying == {imp}
NoImplying == {}
MCCat == [r \in Rule |-> IF r = imp THEN 0 ELSE 2]
MCFlags == [r \in Rule |-> IF r = plain THEN {"INSERT", "RETRACT"} ELSE Tag]
=============================================================================
