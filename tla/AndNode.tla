------------------------------- MODULE AndNode -------------------------------
(***************************************************************************)
(* The AND node (Node::and_call_by_left, and_call_by_right,                *)
(* check_and_cond): each item that arrives is stored and paired with the   *)
(* items of the other side; the children are told about the pairs.         *)
(*                                                                         *)
(* The children are abstracted to the set of pairs they hold: those they   *)
(* were told to INSERT and not to RETRACT.  An action is one arrival, with *)
(* everything the node does about it.                                      *)
(***************************************************************************)
EXTENDS BetaMemory

vars == <<lmem, rmem, val, due, out, sent>>

Pair == Left \X Right

Init == MemoriesInit

(* check_and_cond on a visited pair.  Mutants: the OLD state is not tried; *)
(* the Compound is made with its sides swapped.                            *)
AboutNewOnly(tag, before, now, l, r) ==
  Note(PairTag(tag, now, now, l, r), <<l, r>>)

AboutSwapped(tag, before, now, l, r) ==
  Note(PairTag(tag, before, now, l, r), <<r, l>>)

About(tag, before, now, l, r) ==
  Note(PairTag(tag, before, now, l, r), <<l, r>>)

(* and_call by each side. *)
ByLeft(l, tag, before, now) ==
  LET stored == StoredTag(tag, l \in lmem, LeftTrigger)
  IN /\ lmem' = Remember(lmem, l, stored, LeftTrigger)
     /\ Tell({About(stored, before, now, l, r) :
                r \in IF stored = "none" THEN {} ELSE Visited(rmem, now, l)})
     /\ UNCHANGED rmem

ByRight(r, tag, before, now) ==
  LET stored == StoredTag(tag, r \in rmem, RightTrigger)
  IN /\ rmem' = Remember(rmem, r, stored, RightTrigger)
     /\ Tell({About(stored, before, now, l, r) :
                l \in IF stored = "none" THEN {} ELSE Visited(lmem, now, r)})
     /\ UNCHANGED lmem

ArriveLeft(l, tag) ==
  \/ \E v \in Arriving(tag, l) : Starts("left", l, tag, v) /\ ByLeft(l, tag, val, val')
  \/ Ends("left", l, tag) /\ ByLeft(l, tag, Before, val)

ArriveRight(r, tag) ==
  \/ \E v \in Arriving(tag, r) : Starts("right", r, tag, v) /\ ByRight(r, tag, val, val')
  \/ Ends("right", r, tag) /\ ByRight(r, tag, Before, val)

Next == \E tag \in Tag : \/ \E l \in Left : ArriveLeft(l, tag)
                         \/ \E r \in Right : ArriveRight(r, tag)

Spec == Init /\ [][Next]_vars

-----------------------------------------------------------------------------
(* Every variable keeps its type. *)
TypeOK == /\ MemoriesTypeOK
          /\ out \subseteq Pair
          /\ sent \subseteq [tag : Tag, was : Pair, is : Pair]

(* The children hold the join of the two memories: a pair is propagated,   *)
(* kept and retracted with both its items, whatever the order of the       *)
(* arrivals ("If only was in one state the propagations will continue as   *)
(* RETRACT_TAG (old), or INSERT_TAG (new)", check_and_cond).               *)
OutIsJoin ==
  due = Settled => out = {p \in lmem \X rmem : Joined(p[1], p[2])}
=============================================================================
