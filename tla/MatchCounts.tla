----------------------------- MODULE MatchCounts -----------------------------
(***************************************************************************)
(* The left memory of the asymmetric nodes, NAND and OAND: each item stored*)
(* by the left has a MatchCount, the number of its matches by the right    *)
(* (Node::store_in_asym_node_by_LEFT, class MatchCount).                   *)
(***************************************************************************)
EXTENDS BetaMemory

CONSTANT Nobody   \* Single::null_single(), the partner of who has none

ASSUME NobodyAssumption == Nobody \notin Right

VARIABLES
  count,    \* the counter of each item by the left
  disposed  \* what the last arrival by the left did with the counter

counts == <<count, disposed>>

(* "kept": not deleted; "own": deleted together with its item; "in_use":   *)
(* deleted and still stored; "unset": the pointer was never assigned.      *)
Disposal == {"kept", "own", "in_use", "unset"}

CountsTypeOK == count \in [Left -> Nat] /\ disposed \in Disposal

CountsInit == count = [l \in Left |-> 0] /\ disposed = "kept"

(* After a counter was deleted wrongly the program has no defined state.   *)
Sound == disposed \in {"kept", "own"}

(* delete counter, at the end of the arrival of an item by the left with   *)
(* tag, when the node acted with the tag applied ("none" if it did not).   *)
Disposed(tag, applied) ==
  IF LeftTrigger THEN IF tag = "INSERT" THEN "own" ELSE "unset"
  ELSE IF applied # "RETRACT" THEN "kept"
  ELSE IF tag = "RETRACT" THEN "own" ELSE "in_use"

(* The counter when the arrival begins: a new one for a new item.          *)
Counter(l) == IF l \in lmem THEN count[l] ELSE 0

(* The visited pairs of item l that match in a state.                      *)
Matches(state, l, items) == {r \in items : Passes(state, l, r)}

(* The counter of l after a visit to an item by the right that told tag.   *)
(* Mutant: a MODIFY that goes on matching counts again.                    *)
CountedTwice(n, told) ==
  CASE told \in {"INSERT", "MODIFY"} -> n + 1 [] told = "RETRACT" -> n - 1
    [] OTHER -> n

Counted(n, told) ==
  CASE told = "INSERT" -> n + 1 [] told = "RETRACT" -> n - 1 [] OTHER -> n

(* The counter of each item is the number of its matches, whichever side   *)
(* the arrivals came by ("the number of matchings with the right side",    *)
(* store_in_asym_node_by_LEFT).  A RETRACT by the left relies on it, and   *)
(* so do the moments in which NAND and OAND tell their children.           *)
CountIsExact ==
  due = Settled => \A l \in lmem : count[l] = Cardinality(Partners(l))

(* The counter the node deletes is the one of an item it does not store.   *)
DeletesItsOwn == Sound
=============================================================================
