----------------------------- MODULE TimedNode -------------------------------
(***************************************************************************)
(* The two-sided nodes of a rule with a time window (Node::wand_call,      *)
(* nwand_call, owand_call and the functions they call).  They are the AND, *)
(* NAND and OAND nodes with one more test, that the two items are close    *)
(* enough in time, and with a duty: while a walk looks for partners, the   *)
(* items of a TEMPORAL class it meets that are too old are pushed into the *)
(* list of actions, to be retracted from this memory when do_loop comes to *)
(* them.  Until then other arrivals may find them, push them once more,    *)
(* modify them or retract them.                                            *)
(*                                                                         *)
(* The memories are ordered by decreasing t2.  do_loop runs the last batch *)
(* of actions first; here they run in any order.                           *)
(***************************************************************************)
EXTENDS Integers, FiniteSets, Bags

CONSTANTS
  Left, Right, Value, Joins, Keyed, LeftTrigger, RightTrigger, Moves,
  SameObj, Nobody, Kinds, AndMoves,   \* those of BetaNode
  T1, T2,        \* the times of the oldest and of the newest object of an item
  Window,        \* the window of the rule
  Temporal,      \* the sides whose items are of a TEMPORAL class
  Singles,       \* the items that are one object
  MaxRemovals    \* bound: actions of this node that wait

Item == Left \union Right

ASSUME TimeAssumption ==
  /\ T1 \in [Item -> Nat] /\ T2 \in [Item -> Nat]
  /\ \A i \in Item : T1[i] <= T2[i] /\ (i \in Singles => T1[i] = T2[i])
  /\ Window \in Nat /\ MaxRemovals \in Nat
  /\ Temporal \subseteq {"left", "right"}

ASSUME NodeAssumption ==
  /\ Joins \subseteq Value \X Value
  /\ {Keyed, LeftTrigger, RightTrigger, SameObj} \subseteq BOOLEAN
  /\ Keyed => Joins = {<<v, v>> : v \in Value}
  /\ Keyed => Left \intersect Right \intersect (Moves \union AndMoves) = {}
  /\ Nobody \notin Right
  /\ Kinds \subseteq {"and", "nand", "oand"}

VARIABLES
  lmem, rmem, val, due, out, sent, count, disposed, kind,   \* of BetaNode
  removals,   \* the RETRACTs of this node in the list of actions
  latest      \* history: the newest time seen

vars == <<lmem, rmem, val, due, out, sent, count, disposed, kind, removals, latest>>

(* comp_window: the time the pair spans. *)
Span(i, j) == (IF T2[i] > T2[j] THEN T2[i] ELSE T2[j])
              - (IF T1[i] < T1[j] THEN T1[i] ELSE T1[j])

InWindow == {p \in Left \X Right : Span(p[1], p[2]) <= Window}

Node == INSTANCE BetaNode

Init == Node!Init /\ removals = EmptyBag /\ latest = 0

-----------------------------------------------------------------------------
(* The items a walk meets: those with t2 below the limit, and of those at  *)
(* the limit the ones behind the first that the binary search found.       *)
Walked(items, i) ==
  LET limit == T1[i] + Window + 1
  IN {{j \in items : T2[j] < limit} \union ties :
        ties \in {t \in SUBSET {j \in items : T2[j] = limit} :
                    t = {} \/ t # {j \in items : T2[j] = limit}}}

(* push_to_remove_old_item, for what a walk meets and does not join.       *)
(* Mutant: a compound is removed like an object.                           *)
AgedOfAnyItem(side, i, walked) ==
  {<<side, j>> : j \in {k \in walked : Span(i, k) > Window}}

Aged(side, i, walked) ==
  {<<side, j>> : j \in {k \in walked \intersect Singles :
                          side \in Temporal /\ Span(i, k) > Window}}

(* The walk of the other memory, when the node does walk it.               *)
Pushes(side, i, state, walks) ==
  LET other == Node!OtherSide(side)
      mem == IF other = "left" THEN lmem ELSE rmem
  IN IF ~walks THEN {EmptyBag}
     ELSE {SetToBag(Aged(other, i, w)) : w \in Walked(Node!Visited(mem, state, i), i)}

(* The storing functions: the tag with which the node goes on, or "none".  *)
StoredLeft(l, tag) == Node!StoredTag(tag, l \in lmem, LeftTrigger)

StoredRight(r, tag) == Node!StoredTag(tag, r \in rmem, RightTrigger)

(* A NWAND does not walk for a RETRACT by the left; an OWAND for that of an*)
(* item with no match.                                                     *)
WalksLeft(l, tag) ==
  /\ StoredLeft(l, tag) # "none"
  /\ kind = "nand" => StoredLeft(l, tag) # "RETRACT"
  /\ kind = "oand" => ~(StoredLeft(l, tag) = "RETRACT" /\ count[l] = 0)

Walks(side, i, tag) ==
  IF side = "left" THEN WalksLeft(i, tag) ELSE StoredRight(i, tag) # "none"

-----------------------------------------------------------------------------
(* Each kind of node, by each side. *)
WandByLeft(l, tag) ==
  kind = "and" /\ Node!And!ArriveLeft(l, tag) /\ UNCHANGED <<count, disposed>>

WandByRight(r, tag) ==
  kind = "and" /\ Node!And!ArriveRight(r, tag) /\ UNCHANGED <<count, disposed>>

NwandByLeft(l, tag) == kind = "nand" /\ Node!Sound /\ Node!NandArriveLeft(l, tag)

NwandByRight(r, tag) == kind = "nand" /\ Node!Sound /\ Node!NandArriveRight(r, tag)

OwandByLeft(l, tag) == kind = "oand" /\ Node!Sound /\ Node!OandArriveLeft(l, tag)

OwandByRight(r, tag) == kind = "oand" /\ Node!Sound /\ Node!OandArriveRight(r, tag)

Noted(side, i, tag) ==
  /\ \E pushed \in Pushes(side, i, val', Walks(side, i, tag)) :
       removals' = removals (+) pushed
  /\ latest' = IF T2[i] > latest THEN T2[i] ELSE latest

MayArrive == due = Node!Settled => BagCardinality(removals) < MaxRemovals

ArriveLeft(l, tag) ==
  /\ MayArrive
  /\ WandByLeft(l, tag) \/ NwandByLeft(l, tag) \/ OwandByLeft(l, tag)
  /\ Noted("left", l, tag)
  /\ UNCHANGED kind

ArriveRight(r, tag) ==
  /\ MayArrive
  /\ WandByRight(r, tag) \/ NwandByRight(r, tag) \/ OwandByRight(r, tag)
  /\ Noted("right", r, tag)
  /\ UNCHANGED kind

(* do_loop comes to a RETRACT this node pushed.  It starts at the node, so *)
(* it reaches the one memory only, and an object on both sides stays on    *)
(* the other.                                                              *)
(* Mutants: the action carries the tag MODIFY; the item is forgotten and   *)
(* nobody told.                                                            *)
RemovedTagModify(x) == "MODIFY"

RemovedTag(x) == "RETRACT"

RemoveFromWandSilently(side, i, tag) ==
  /\ lmem' = IF side = "left" THEN lmem \ {i} ELSE lmem
  /\ rmem' = IF side = "right" THEN rmem \ {i} ELSE rmem
  /\ UNCHANGED <<out, sent, count, disposed>>

RemoveFromWand(side, i, tag) ==
  /\ IF side = "left" THEN Node!And!ByLeft(i, tag, val, val)
                      ELSE Node!And!ByRight(i, tag, val, val)
  /\ UNCHANGED <<count, disposed>>

RemoveFromNwand(side, i, tag) ==
  /\ Node!Sound
  /\ IF side = "left" THEN Node!NandByLeft(i, tag, val, val)
                      ELSE Node!NandByRight(i, tag, val, val)

RemoveFromOwand(side, i, tag) ==
  /\ Node!Sound
  /\ IF side = "left" THEN Node!OandByLeft(i, tag, val, val)
                      ELSE Node!OandByRight(i, tag, val, val)

Remove(side, i) ==
  LET tag == RemovedTag(<<side, i>>)
  IN /\ due = Node!Settled
     /\ BagIn(<<side, i>>, removals)
     /\ \/ kind = "and" /\ RemoveFromWand(side, i, tag)
        \/ kind = "nand" /\ RemoveFromNwand(side, i, tag)
        \/ kind = "oand" /\ RemoveFromOwand(side, i, tag)
     /\ \E pushed \in Pushes(side, i, val, Walks(side, i, tag)) :
          removals' = (removals (-) SetToBag({<<side, i>>})) (+) pushed
     /\ UNCHANGED <<val, due, kind, latest>>

Waiting == {"left"} \X Left \union {"right"} \X Right

Next == \/ \E tag \in Node!Tag : \/ \E l \in Left : ArriveLeft(l, tag)
                                 \/ \E r \in Right : ArriveRight(r, tag)
        \/ \E x \in Waiting : Remove(x[1], x[2])

Spec == Init /\ [][Next]_vars

(* do_loop ends only when the list is empty, so every action in it runs;   *)
(* between the two arrivals of an object it cannot, but a propagation that *)
(* has begun goes on to the second one.                                    *)
FairSpec == /\ Spec
            /\ WF_vars(due # Node!Settled /\ Next)
            /\ \A x \in Waiting : SF_vars(Remove(x[1], x[2]))

-----------------------------------------------------------------------------
(* The children hold what the memories say, also after old items left by   *)
(* one side only: WAND the pairs that satisfy the test within the window,  *)
(* NWAND the items by the left without a match in it, OWAND the left outer *)
(* join; and each counter is the number of such matches (check_wand_cond,  *)
(* check_nwand_cond, check_owand_cond).                                    *)
OutFollowsMemories == /\ Node!OutIsJoin
                      /\ Node!OutIsUnmatched
                      /\ Node!OutIsOuterJoin
                      /\ Node!CountsAreExact

(* What waits to be removed is older than the newest time seen minus the   *)
(* window ("removed from the memories, when their timestamps are older     *)
(* than current time minus the rule time window", README.md:96).           *)
OnlyOldLeave == \A x \in DOMAIN removals : T2[x[2]] < latest - Window

(* An item that was found too old does leave its memory.                   *)
OldLeaves ==
  \A x \in Waiting :
    BagIn(x, removals) ~> x[2] \notin (IF x[1] = "left" THEN lmem ELSE rmem)
=============================================================================
