----------------------------- MODULE BetaMemory ------------------------------
(***************************************************************************)
(* What the two-sided nodes of the net have in common: two side memories,  *)
(* the join test and the tags (Node::store_in_and_node_by_LEFT, _by_RIGHT, *)
(* Node::store_in_asym_node_by_LEFT, Node::getInterKeysInCode, keys.cpp).  *)
(*                                                                         *)
(* An item is what arrives by a side: an object by the right, a compound   *)
(* or an object by the left.  Only the value of the attributes in the join *)
(* test counts.  The test is either code, run on every item of the other   *)
(* side, or a key: then the code of the test is removed from the node and  *)
(* the BTree only visits the items filed under the key the arriving item   *)
(* has NOW.  An object in both Left and Right (a rule with two patterns of *)
(* a class) arrives by one side and then by the other, and no other item   *)
(* arrives in between.                                                     *)
(***************************************************************************)
EXTENDS Integers, FiniteSets

CONSTANTS
  Left, Right,      \* the items that arrive by each side
  Value,            \* contents of the attributes in the join test
  Joins,            \* the pairs of values that satisfy the test
  Keyed,            \* the test is an equality, compiled into a key
  LeftTrigger,      \* the items of that side are of a TRIGGER class
  RightTrigger,
  Moves,            \* the items whose value a modification may change
  InWindow,         \* the pairs that are close in time; all, in a node without time
  SameObj           \* allow_same_obj() was called

Tag == {"INSERT", "MODIFY", "RETRACT"}

ASSUME BetaAssumption ==
  /\ Joins \subseteq Value \X Value
  /\ InWindow \subseteq Left \X Right
  /\ {Keyed, LeftTrigger, RightTrigger, SameObj} \subseteq BOOLEAN
  /\ Keyed => Joins = {<<v, v>> : v \in Value}
  /\ Keyed => Left \intersect Right \intersect Moves = {}

VARIABLES
  lmem, rmem,   \* the items stored in each memory
  val,          \* the value of each item
  due,          \* the arrival by the other side that is still to come
  out,          \* what the children of the node hold
  sent          \* history: what the last arrival told them

Settled == [side |-> "none"]

Second == [side : {"left", "right"}, item : Left \union Right, tag : Tag, old : Value]

MemoriesTypeOK == /\ lmem \subseteq Left
                  /\ rmem \subseteq Right
                  /\ val \in [Left \union Right -> Value]
                  /\ due \in {Settled} \union Second

MemoriesInit == /\ lmem = {}
                /\ rmem = {}
                /\ val \in [Left \union Right -> Value]
                /\ due = Settled
                /\ out = {}
                /\ sent = {}

-----------------------------------------------------------------------------
(* The items of the other side that FindByKeys and Walk visit. *)
Visited(items, now, i) ==
  IF Keyed THEN {j \in items : now[j] = now[i]} ELSE items

(* The code of the node on two visited items, in the state they have.  By  *)
(* default it starts with TNSOBJ: an object does not match itself.  A node *)
(* with a window does not run it on items too far apart in time.           *)
Tested(l, r) == (SameObj \/ l # r) /\ <<l, r>> \in InWindow

Passes(state, l, r) ==
  Tested(l, r) /\ (Keyed \/ <<state[l], state[r]>> \in Joins)

(* The tag for a visited pair: for MODIFY the code runs on the OLD and on  *)
(* the NEW state, (res2<<1) | res.                                         *)
PairTag(tag, before, now, l, r) ==
  IF tag # "MODIFY" THEN IF Passes(now, l, r) THEN tag ELSE "none"
  ELSE IF Passes(before, l, r)
       THEN IF Passes(now, l, r) THEN "MODIFY" ELSE "RETRACT"
       ELSE IF Passes(now, l, r) THEN "INSERT" ELSE "none"

(* The tag with which a node goes on after storing the item, or "none".  A *)
(* MODIFY of an item that is not there turns into an INSERT.  A TRIGGER    *)
(* item is never stored and goes on with INSERT only.                      *)
(* Mutant: the INSERT of an item already stored goes on.                   *)
StoredTagUnchecked(tag, found, trigger) ==
  IF trigger THEN IF tag = "INSERT" THEN tag ELSE "none"
  ELSE IF found THEN tag
  ELSE IF tag = "RETRACT" THEN "none" ELSE "INSERT"

StoredTag(tag, found, trigger) ==
  IF trigger THEN IF tag = "INSERT" THEN tag ELSE "none"
  ELSE IF found THEN IF tag = "INSERT" THEN "none" ELSE tag
  ELSE IF tag = "RETRACT" THEN "none" ELSE "INSERT"

(* The memory of a side after storing item i with the tag of StoredTag.    *)
Remember(items, i, stored, trigger) ==
  IF trigger \/ stored = "none" THEN items
  ELSE IF stored = "RETRACT" THEN items \ {i} ELSE items \union {i}

-----------------------------------------------------------------------------
(* A message to the children.  It is about one thing, except where a node  *)
(* modifies what it sent before into something else.                       *)
Note(tag, thing) == [tag |-> tag, was |-> thing, is |-> thing]

(* The children after some messages; nothing of a TRIGGER is stored.       *)
Held(msgs) ==
  IF LeftTrigger \/ RightTrigger THEN out
  ELSE (out \ {m.was : m \in {n \in msgs : n.tag # "INSERT"}})
         \union {m.is : m \in {n \in msgs : n.tag # "RETRACT"}}

Tell(notes) == LET msgs == {m \in notes : m.tag \in Tag}
               IN sent' = msgs /\ out' = Held(msgs)

-----------------------------------------------------------------------------
(* The values an arriving item may have: a RETRACT comes in the state the  *)
(* memory knows; a MODIFY changes the value of the items that move.        *)
Arriving(tag, i) ==
  IF i \notin lmem \union rmem \/ (tag = "MODIFY" /\ i \in Moves)
  THEN Value ELSE {val[i]}

OtherSide(side) == IF side = "left" THEN "right" ELSE "left"

(* An item arrives by its first side; by its second one.                   *)
Starts(side, i, tag, v) ==
  /\ due = Settled
  /\ val' = [val EXCEPT ![i] = v]
  /\ due' = IF i \in Left \intersect Right
            THEN [side |-> OtherSide(side), item |-> i, tag |-> tag, old |-> val[i]]
            ELSE Settled

Ends(side, i, tag) ==
  /\ due # Settled
  /\ <<due.side, due.item, due.tag>> = <<side, i, tag>>
  /\ due' = Settled
  /\ UNCHANGED val

Before == [val EXCEPT ![due.item] = due.old]

-----------------------------------------------------------------------------
(* The matches of the two memories. *)
Joined(l, r) == Tested(l, r) /\ <<val[l], val[r]>> \in Joins
Partners(l) == {r \in rmem : Joined(l, r)}

(* The children are told what fits what they hold: INSERT of a thing they  *)
(* do not have, MODIFY and RETRACT of one they have.  prod_call relies on  *)
(* it ("This never should happen", nodes_exec.cpp:4325, 4356, 4392).       *)
Fits(m) == IF m.tag = "INSERT" THEN m.is \notin out ELSE m.was \in out

EachFits == LeftTrigger \/ RightTrigger \/ \A m \in sent' : Fits(m)
=============================================================================
