------------------------------- MODULE NandNode ------------------------------
(***************************************************************************)
(* The NAND node (Node::nand_call_by_left, nand_call_by_right,             *)
(* check_nand_cond): the items by the left that match none by the right.   *)
(* out is the set of items by the left the children hold.                  *)
(***************************************************************************)
EXTENDS MatchCounts

NandVars == <<lmem, rmem, val, due, out, sent, count, disposed>>

NandInit == MemoriesInit /\ CountsInit

(* XOR with 0x3: the tag for the left item of a match with that tag.       *)
Inverted(tag) == CASE tag = "INSERT" -> "RETRACT"
                   [] tag = "RETRACT" -> "INSERT"
                   [] OTHER -> "none"

(* data.tag ^= tag_mask, the mask being the tag of the last visited match. *)
(* Mutant: the MODIFY of an item that matches is a RETRACT.                *)
AppliedBluntly(tag, mask) == IF mask = "none" THEN tag
                             ELSE IF tag = "MODIFY" THEN "RETRACT"
                             ELSE "none"

Applied(tag, mask) == IF mask = "none" THEN tag
                      ELSE IF tag = "MODIFY" THEN Inverted(mask)
                      ELSE "none"

(* The masks an arrival by the left may get, by the order of the walk.     *)
Masks(tag, before, now, l) ==
  LET told == {PairTag(tag, before, now, l, r) : r \in Visited(rmem, now, l)}
  IN IF tag = "RETRACT" \/ told \subseteq {"none"} THEN {"none"}
     ELSE told \ {"none"}

(* The counter of l after the walk: ++ for each match in the NEW state, -- *)
(* for each match in the OLD state when the item is modified.              *)
NandRecount(tag, before, now, l) ==
  LET items == Visited(rmem, now, l)
  IN CASE tag = "RETRACT" -> Counter(l)
       [] tag = "INSERT" -> Counter(l) + Cardinality(Matches(now, l, items))
       [] tag = "MODIFY" -> Counter(l) + Cardinality(Matches(now, l, items))
                                       - Cardinality(Matches(before, l, items))

NandByLeft(l, tag, before, now) ==
  LET stored == StoredTag(tag, l \in lmem, LeftTrigger)
  IN /\ lmem' = Remember(lmem, l, stored, LeftTrigger)
     /\ \/ /\ stored = "none"
           /\ Tell({})
           /\ disposed' = Disposed(tag, "none")
           /\ UNCHANGED count
        \/ /\ stored # "none"
           /\ \E mask \in Masks(stored, before, now, l) :
                LET applied == Applied(stored, mask)
                    n == NandRecount(stored, before, now, l)
                IN /\ Tell(IF n = 0 THEN {Note(applied, l)} ELSE {})
                   /\ disposed' = Disposed(stored, applied)
                   /\ count' = [count EXCEPT ![l] =
                                  IF l \in lmem' THEN n ELSE 0]
     /\ UNCHANGED rmem

(* What l is told of the item by the right: the first match withdraws it,  *)
(* the loss of the last one brings it back.  An INSERT has been counted    *)
(* already and a RETRACT has not been discounted when the node decides.    *)
(* Mutant: the RETRACT is discounted first.                                *)
ToldDiscounted(l, told) ==
  IF Counted(count[l], told) = 1 THEN Note(Inverted(told), l) ELSE Note("none", l)

Told(l, told) ==
  LET n == IF told = "INSERT" THEN count[l] + 1 ELSE count[l]
  IN IF n = 1 THEN Note(Inverted(told), l) ELSE Note("none", l)

NandByRight(r, tag, before, now) ==
  LET stored == StoredTag(tag, r \in rmem, RightTrigger)
      visited == IF stored = "none" THEN {} ELSE Visited(lmem, now, r)
      told(l) == PairTag(stored, before, now, l, r)
  IN /\ rmem' = Remember(rmem, r, stored, RightTrigger)
     /\ Tell({Told(l, told(l)) : l \in visited})
     /\ count' = [l \in Left |->
                    IF l \in visited THEN Counted(count[l], told(l)) ELSE count[l]]
     /\ UNCHANGED <<lmem, disposed>>

NandArriveLeft(l, tag) ==
  \/ \E v \in Arriving(tag, l) : Starts("left", l, tag, v) /\ NandByLeft(l, tag, val, val')
  \/ Ends("left", l, tag) /\ NandByLeft(l, tag, Before, val)

NandArriveRight(r, tag) ==
  \/ \E v \in Arriving(tag, r) : Starts("right", r, tag, v) /\ NandByRight(r, tag, val, val')
  \/ Ends("right", r, tag) /\ NandByRight(r, tag, Before, val)

NandNext == Sound /\ \E tag \in Tag : \/ \E l \in Left : NandArriveLeft(l, tag)
                                  \/ \E r \in Right : NandArriveRight(r, tag)

NandSpec == NandInit /\ [][NandNext]_NandVars

-----------------------------------------------------------------------------
(* Every variable keeps its type. *)
NandTypeOK == /\ MemoriesTypeOK
          /\ CountsTypeOK
          /\ out \subseteq Left
          /\ sent \subseteq [tag : Tag, was : Left, is : Left]

(* The children hold exactly the items that match nothing ("search those L *)
(* that there are not any R such as L and R verify some conditions",       *)
(* nand_call).                                                             *)
NandOutIsUnmatched == due = Settled => out = {l \in lmem : Partners(l) = {}}
=============================================================================
