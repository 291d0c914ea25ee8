--------------------------- MODULE RuleActivation ---------------------------
(***************************************************************************)
(* What the conflict set promises about the activations of the rules.      *)
(*                                                                         *)
(* An activation is a rule together with the tuple of objects that matched *)
(* its left-hand side.  Whatever the order in which the net delivers the   *)
(* matches and the priorities choose the rules, the right-hand side of a   *)
(* rule runs on an activation as on a lifecycle: first with INSERT, then   *)
(* any number of times with MODIFY, finally with RETRACT, and RETRACT runs *)
(* exactly when INSERT had run before.  A rule on a TRIGGER class keeps no *)
(* memory: each of its activations ends with the run it causes.            *)
(***************************************************************************)
CONSTANTS
  Activation,   \* pairs <<rule, match>>
  Transient,    \* the activations of rules on TRIGGER classes
  Handled,      \* pairs <<a, tag>>: the rule of a has an action on that tag
  NoRun

VARIABLES
  phase,        \* where each activation is in its lifecycle
  fired         \* the right-hand side run by the last step, or NoRun

vars == <<phase, fired>>

Phase == {"idle", "armed", "active", "changed"}

Run(a, tag) == IF <<a, tag>> \in Handled THEN [act |-> a, tag |-> tag] ELSE NoRun

Init == /\ phase = [a \in Activation |-> "idle"]
        /\ fired = NoRun

(* The match appears: its INSERT run is due, not done. *)
Arm(a) == /\ fired' = NoRun
          /\ phase[a] = "idle"
          /\ phase' = [phase EXCEPT ![a] = "armed"]

(* An object of the match changes: a MODIFY run is due. *)
Change(a) == /\ fired' = NoRun
             /\ phase[a] = IF a \in Transient THEN "idle" ELSE "active"
             /\ phase' = [phase EXCEPT ![a] = "changed"]

(* The run that was due is done. *)
Fire(a) ==
  /\ phase[a] \in {"armed", "changed"}
  /\ phase' = [phase EXCEPT ![a] =
                 IF a \in Transient THEN "idle" ELSE "active"]
  /\ fired' = Run(a, IF phase[a] = "armed" THEN "INSERT" ELSE "MODIFY")

(* The match disappears before its INSERT run: nothing ever happened. *)
Cancel(a) == /\ phase[a] = "armed"
             /\ phase' = [phase EXCEPT ![a] = "idle"]
             /\ fired' = NoRun

(* The match disappears after it: what INSERT did is undone. *)
Withdraw(a) == /\ phase[a] \in {"active", "changed"}
               /\ phase' = [phase EXCEPT ![a] = "idle"]
               /\ fired' = Run(a, "RETRACT")

(* A ruleset is reset, with no run due: some activations are forgotten. *)
Forget == /\ \A a \in Activation : phase[a] \in {"idle", "active"}
          /\ phase' \in [Activation -> {"idle", "active"}]
          /\ \A a \in Activation : phase'[a] \in {"idle", phase[a]}
          /\ fired' = NoRun

(* An event that changes no activation. *)
Ignore == /\ fired' = NoRun
          /\ UNCHANGED phase

Next == \/ Ignore
        \/ \E a \in Activation :
             Arm(a) \/ Change(a) \/ Fire(a) \/ Cancel(a) \/ Withdraw(a)
        \/ Forget

Spec == Init /\ [][Next]_vars
=============================================================================
