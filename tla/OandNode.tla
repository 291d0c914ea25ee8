------------------------------- MODULE OandNode ------------------------------
(***************************************************************************)
(* The OAND node, the optional AND (Node::oand_call_by_left,               *)
(* oand_call_by_right, check_oand_cond): the pairs of the AND node, and    *)
(* for an item by the left that matches none a pair with Nobody.           *)
(***************************************************************************)
EXTENDS MatchCounts

OandVars == <<lmem, rmem, val, due, out, sent, count, disposed>>

Pair == Left \X (Right \union {Nobody})

OandInit == MemoriesInit /\ CountsInit

Alone(l) == <<l, Nobody>>

(* check_oand_cond by the left: what the children are told of the visited  *)
(* pairs, or of the pair with Nobody if none matched.                      *)
(* A RETRACT of an item with no matches does not walk the right memory.    *)
AboutLeft(l, stored, before, now) ==
  LET visited == IF stored = "RETRACT" /\ count[l] = 0 THEN {}
                 ELSE Visited(rmem, now, l)
      told == {Note(PairTag(stored, before, now, l, r), <<l, r>>) : r \in visited}
  IN IF \A m \in told : m.tag = "none" THEN {Note(stored, Alone(l))} ELSE told

OandRecount(l, stored, before, now) ==
  LET tells(tag) == {r \in Visited(rmem, now, l) :
                       PairTag(stored, before, now, l, r) = tag}
  IN Counter(l) + Cardinality(tells("INSERT")) - Cardinality(tells("RETRACT"))

OandByLeft(l, tag, before, now) ==
  LET stored == StoredTag(tag, l \in lmem, LeftTrigger)
  IN /\ lmem' = Remember(lmem, l, stored, LeftTrigger)
     /\ \/ /\ stored = "none"
           /\ Tell({})
           /\ disposed' = Disposed(tag, "none")
           /\ UNCHANGED count
        \/ /\ stored # "none"
           /\ Tell(AboutLeft(l, stored, before, now))
           /\ disposed' = Disposed(stored, stored)
           /\ count' = [count EXCEPT ![l] =
                          IF l \in lmem' THEN OandRecount(l, stored, before, now) ELSE 0]
     /\ UNCHANGED rmem

(* check_oand_cond by the right: the first match of l takes the place of   *)
(* Nobody and the last one leaves it to Nobody.                            *)
(* Mutant: the first match is told as one more pair.                       *)
AboutRightPlain(l, r, told) == Note(told, <<l, r>>)

AboutRight(l, r, told) ==
  IF told = "INSERT" /\ count[l] = 0
  THEN [tag |-> "MODIFY", was |-> Alone(l), is |-> <<l, r>>]
  ELSE IF told = "RETRACT" /\ count[l] = 1
  THEN [tag |-> "MODIFY", was |-> <<l, r>>, is |-> Alone(l)]
  ELSE Note(told, <<l, r>>)

OandByRight(r, tag, before, now) ==
  LET stored == StoredTag(tag, r \in rmem, RightTrigger)
      visited == IF stored = "none" THEN {} ELSE Visited(lmem, now, r)
      told(l) == PairTag(stored, before, now, l, r)
  IN /\ rmem' = Remember(rmem, r, stored, RightTrigger)
     /\ Tell({AboutRight(l, r, told(l)) : l \in visited})
     /\ count' = [l \in Left |->
                    IF l \in visited THEN Counted(count[l], told(l)) ELSE count[l]]
     /\ UNCHANGED <<lmem, disposed>>

OandArriveLeft(l, tag) ==
  \/ \E v \in Arriving(tag, l) : Starts("left", l, tag, v) /\ OandByLeft(l, tag, val, val')
  \/ Ends("left", l, tag) /\ OandByLeft(l, tag, Before, val)

OandArriveRight(r, tag) ==
  \/ \E v \in Arriving(tag, r) : Starts("right", r, tag, v) /\ OandByRight(r, tag, val, val')
  \/ Ends("right", r, tag) /\ OandByRight(r, tag, Before, val)

OandNext == Sound /\ \E tag \in Tag : \/ \E l \in Left : OandArriveLeft(l, tag)
                                  \/ \E r \in Right : OandArriveRight(r, tag)

OandSpec == OandInit /\ [][OandNext]_OandVars

-----------------------------------------------------------------------------
(* Every variable keeps its type. *)
OandTypeOK == /\ MemoriesTypeOK
          /\ CountsTypeOK
          /\ out \subseteq Pair
          /\ sent \subseteq [tag : Tag, was : Pair, is : Pair]

(* The children hold the join of the memories and, for each item that      *)
(* matches none, its pair with Nobody, never both: the left outer join     *)
(* ("In case no matching is found, a couple with NULL as right side is     *)
(* propagated", oand_call_by_left).                                        *)
OandOutIsOuterJoin ==
  due = Settled =>
    out = {p \in lmem \X rmem : Joined(p[1], p[2])}
            \union {Alone(l) : l \in {k \in lmem : Partners(k) = {}}}
=============================================================================
