------------------------------- MODULE ItemSet --------------------------------
(***************************************************************************)
(* What the users of a BTree rely on: it is a set of items.  Insert stores *)
(* an item unless an equal one is there and points at the one stored,      *)
(* Delete gives back the item it removed, Free each item once, and the set *)
(* tells its size.                                                         *)
(***************************************************************************)
EXTENDS Naturals, FiniteSets, Sequences

CONSTANTS
  Item,
  Nothing   \* NULL, for an item that was not found

VARIABLES
  items,    \* the items stored
  size,     \* what numItems() returns
  answer    \* what the last call returned

Init == items \subseteq Item /\ size = Cardinality(items) /\ answer = <<>>

Insert(i) == /\ items' = items \union {i}
             /\ answer' = <<i, i \in items>>

Delete(i) == /\ items' = items \ {i}
             /\ answer' = <<IF i \in items THEN i ELSE Nothing>>

Free == /\ items' = {}
        /\ Len(answer') = Cardinality(items)
        /\ {answer'[n] : n \in DOMAIN answer'} = items

Next == /\ Free \/ \E i \in Item : Insert(i) \/ Delete(i)
        /\ size' = Cardinality(items')

Spec == Init /\ [][Next]_<<items, size, answer>>
=============================================================================
