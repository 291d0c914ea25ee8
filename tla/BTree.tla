-------------------------------- MODULE BTree ---------------------------------
(***************************************************************************)
(* The B-trees that every memory of the net and the conflict set are made  *)
(* of (btree.cpp), with the keys and the orders the memories give them     *)
(* (KeyManager::compareKey, MetaObj::compare_t).                           *)
(*                                                                         *)
(* A tree with numKeys = 0 holds items, ordered by the function of the     *)
(* caller.  With keys it is a tree of trees: at level n, when n keys are   *)
(* still to be compared, the entry of a node is the root of a tree of the  *)
(* items that share the key, and it is compared by the first item below    *)
(* it; at level 0 it is an item.  Functions of the program that change a   *)
(* node in place return it here.                                           *)
(***************************************************************************)
EXTENDS Integers, FiniteSets, SequencesExt

CONSTANTS
  MinKeys,    \* of a node but the root; 5 in the program
  Width,      \* the bits of an int
  Item,       \* records: keys, a value for each level; t2; address
  Nothing,
  Starts,     \* how many keys, the items inserted before, and then deleted
  MaxCalls

ASSUME BTreeAssumption ==
  /\ MinKeys \in Nat /\ MinKeys >= 2
  /\ Width \in Nat \ {0}
  /\ \A i \in Item : i.t2 \in Int /\ i.address \in Int
  /\ \A i, j \in Item : i.address = j.address => i = j

VARIABLES
  numKeys,    \* KeysMgr->numKeys()
  root,
  numItems,
  answer,     \* what the last call returned
  calls       \* bounds the number of calls

vars == <<numKeys, root, numItems, answer, calls>>

MaxKeys == 2 * MinKeys + 1

(* NULL is a node without keys.  kids[p] is on the left of keys[p].        *)
NoNode == [keys |-> <<>>, kids |-> <<>>]
Empty(node) == node.keys = <<>>
Count(node) == Len(node.keys)

-----------------------------------------------------------------------------
(* Orders.  Differences of long are returned as int: the high bits are     *)
(* lost.                                                                   *)
Narrow(d) == LET half == 2 ^ (Width - 1) IN ((d + half) % (2 * half)) - half

CompareKey(target, item, level) == Narrow(target.keys[level] - item.keys[level])

(* Decreasing t2, and for the same t2 the address of the object.           *)
CompareT(target, item) ==
  LET res == Narrow(item.t2 - target.t2)
  IN IF res # 0 THEN res ELSE Narrow(target.address - item.address)

CompareTw(limit, item) == Narrow(item.t2 - limit)

(* The item an entry is compared by: the first key of its root, and so on. *)
RECURSIVE Internal(_, _)
Internal(entry, level) ==
  IF level = 0 THEN entry ELSE Internal(entry.keys[1], level - 1)

(* "any" is EQUALITY_FUNC; it never compares keys.                         *)
Signs(target, node, level, func) ==
  [p \in DOMAIN node.keys |->
     IF level > 0 THEN CompareKey(target, Internal(node.keys[p], level), level)
     ELSE IF func = "any" THEN 0 ELSE CompareT(target, node.keys[p])]

(* Binary search between the positions i and j: the place of an equal key, *)
(* or the last one that goes before the target.                            *)
RECURSIVE Bisect(_, _, _)
Bisect(signs, i, j) ==
  LET mid == i + (j - i) \div 2
  IN IF j - i <= 1 THEN [found |-> FALSE, loc |-> i]
     ELSE IF signs[mid] = 0 THEN [found |-> TRUE, loc |-> mid]
     ELSE IF signs[mid] > 0 THEN Bisect(signs, mid, j) ELSE Bisect(signs, i, mid)

SearchNode(target, node, level, func) ==
  Bisect(Signs(target, node, level, func), 0, Count(node) + 1)

-----------------------------------------------------------------------------
(* A key and the branch on one side of it go in or out at position p.      *)
AddItemToRight(node, entry, right, p) ==
  [keys |-> InsertAt(node.keys, p, entry), kids |-> InsertAt(node.kids, p + 1, right)]

AddItemToLeft(node, entry, left, p) ==
  [keys |-> InsertAt(node.keys, p, entry), kids |-> InsertAt(node.kids, p, left)]

DeleteItemToRight(node, p) ==
  [keys |-> RemoveAt(node.keys, p), kids |-> RemoveAt(node.kids, p + 1)]

DeleteItemToLeft(node, p) ==
  [keys |-> RemoveAt(node.keys, p), kids |-> RemoveAt(node.kids, p)]

(* A full node takes one more key, keeps MinKeys of them, gives the next   *)
(* one to its parent and the rest to a new node.                           *)
Split(node, entry, right, p) ==
  LET whole == AddItemToRight(node, entry, right, p)
  IN [left |-> [keys |-> SubSeq(whole.keys, 1, MinKeys),
                kids |-> SubSeq(whole.kids, 1, MinKeys + 1)],
      entry |-> whole.keys[MinKeys + 1],
      right |-> [keys |-> SubSeq(whole.keys, MinKeys + 2, MaxKeys + 1),
                 kids |-> SubSeq(whole.kids, MinKeys + 2, MaxKeys + 2)]]

(* Mutant: the branch that goes with the key is left behind.               *)
RotateLeftWrongBranch(node, p) ==
  LET right == node.kids[p + 1]
  IN [keys |-> [node.keys EXCEPT ![p] = right.keys[1]],
      kids |-> [node.kids EXCEPT
                  ![p] = AddItemToRight(@, node.keys[p], right.kids[1], Count(@) + 1),
                  ![p + 1] = DeleteItemToRight(@, 1)]]

(* Mutant: the key that goes up is the first of the left child.            *)
RotateRightWrongKey(node, p) ==
  LET left == node.kids[p]
  IN [keys |-> [node.keys EXCEPT ![p] = left.keys[1]],
      kids |-> [node.kids EXCEPT
                  ![p] = DeleteItemToRight(@, Count(@)),
                  ![p + 1] = AddItemToLeft(@, node.keys[p], Last(left.kids), 1)]]

(* The key at p goes down to the child on one side of it, which lost one,  *)
(* and the nearest key of the child on the other side takes its place.     *)
RotateLeft(node, p) ==
  LET right == node.kids[p + 1]
  IN [keys |-> [node.keys EXCEPT ![p] = right.keys[1]],
      kids |-> [node.kids EXCEPT
                  ![p] = AddItemToRight(@, node.keys[p], right.kids[1], Count(@) + 1),
                  ![p + 1] = DeleteItemToLeft(@, 1)]]

RotateRight(node, p) ==
  LET left == node.kids[p]
  IN [keys |-> [node.keys EXCEPT ![p] = Last(left.keys)],
      kids |-> [node.kids EXCEPT
                  ![p] = DeleteItemToRight(@, Count(@)),
                  ![p + 1] = AddItemToLeft(@, node.keys[p], Last(left.kids), 1)]]

(* The children on both sides of p and the key between them become one     *)
(* node, which takes the place of the root if that was its only key.       *)
Join(node, p) ==
  LET left == node.kids[p]
      right == node.kids[p + 1]
      joined == [keys |-> left.keys \o <<node.keys[p]>> \o right.keys,
                 kids |-> left.kids \o right.kids]
  IN IF Count(node) = 1 THEN joined
     ELSE DeleteItemToRight([node EXCEPT !.kids[p] = joined], p)

(* Mutant: a rotation takes a key from a sibling that has none to spare.   *)
ReorderGreedily(node, loc) ==
  IF loc < Count(node) /\ Count(node.kids[loc + 2]) >= MinKeys
  THEN RotateLeft(node, loc + 1)
  ELSE IF loc >= 1 /\ Count(node.kids[loc]) > MinKeys
  THEN RotateRight(node, loc)
  ELSE Join(node, IF loc = 0 THEN 1 ELSE loc)

(* The child on the right of loc lost a key.                               *)
Reorder(node, loc) ==
  IF loc < Count(node) /\ Count(node.kids[loc + 2]) > MinKeys
  THEN RotateLeft(node, loc + 1)
  ELSE IF loc >= 1 /\ Count(node.kids[loc]) > MinKeys
  THEN RotateRight(node, loc)
  ELSE Join(node, IF loc = 0 THEN 1 ELSE loc)

-----------------------------------------------------------------------------
(* Mutant: of the new node only the first place is known.                  *)
WhereSplitFirst(halves, loc) ==
  IF loc < MinKeys THEN halves.left.keys[loc + 1]
  ELSE IF loc = MinKeys THEN halves.entry ELSE halves.right.keys[1]

(* What a full node was given to store after loc is in one of the halves,  *)
(* or on its way up between them.                                          *)
WhereSplit(halves, loc) ==
  IF loc < MinKeys THEN halves.left.keys[loc + 1]
  ELSE IF loc = MinKeys THEN halves.entry
  ELSE halves.right.keys[loc - MinKeys]

(* The item goes down to the leaf it belongs to and splits push a key up.  *)
(* up: entry and right are for the parent.  at is what is stored where     *)
(* BTItemPos points.                                                       *)
RECURSIVE PushDown(_, _, _), InsertList(_, _, _)
PushDown(node, item, level) ==
  LET s == SearchNode(item, node, level, "t")
      below == InsertList(node.keys[s.loc], item, level - 1)
      own == IF level = 0 THEN item ELSE InsertList(NoNode, item, level - 1).root
      p == PushDown(node.kids[s.loc + 1], item, level)
      grown == [node EXCEPT !.kids[s.loc + 1] = p.node]
      roomy == AddItemToRight(grown, p.entry, p.right, s.loc + 1)
      halves == Split(grown, p.entry, p.right, s.loc + 1)
      isTheObject == p.up /\ p.entry = own
      Placed(at) == IF isTheObject /\ level = 0 THEN at ELSE p.at
  IN IF Empty(node)
     THEN [up |-> TRUE, node |-> NoNode, entry |-> own, right |-> NoNode,
           at |-> item, found |-> FALSE]
     ELSE IF s.found /\ level = 0
     THEN [up |-> FALSE, node |-> node, at |-> node.keys[s.loc], found |-> TRUE]
     ELSE IF s.found
     THEN [up |-> FALSE, node |-> [node EXCEPT !.keys[s.loc] = below.root],
           at |-> below.at, found |-> below.found]
     ELSE IF ~p.up
     THEN [up |-> FALSE, node |-> grown, at |-> p.at, found |-> p.found]
     ELSE IF Count(node) < MaxKeys
     THEN [up |-> FALSE, node |-> roomy, at |-> Placed(roomy.keys[s.loc + 1]),
           found |-> FALSE]
     ELSE [up |-> TRUE, node |-> halves.left, entry |-> halves.entry,
           right |-> halves.right, found |-> FALSE,
           at |-> Placed(WhereSplit(halves, s.loc))]

(* From a root: a key pushed up makes a new one.                           *)
InsertList(top, item, level) ==
  LET p == PushDown(top, item, level)
  IN [root |-> IF p.up THEN [keys |-> <<p.entry>>, kids |-> <<p.node, p.right>>]
               ELSE p.node,
      at |-> p.at, found |-> p.found]

(* Removes the item, or with nextItemSearch the first entry; ItemFound is  *)
(* what was removed.  The key of an inner node is replaced by the next.    *)
RECURSIVE DeleteNode(_, _, _, _, _)
DeleteNode(node, item, level, func, nextItemSearch) ==
  LET s == IF nextItemSearch
           THEN [found |-> Empty(node.kids[1]), loc |-> IF Empty(node.kids[1]) THEN 1 ELSE 0]
           ELSE SearchNode(item, node, level, func)
      inside == s.found /\ ~nextItemSearch /\ level > 0
      sub == DeleteNode(node.keys[s.loc], item, level - 1, func, FALSE)
      ItemFound == IF inside THEN sub.ItemFound ELSE node.keys[s.loc]
      next == DeleteNode(node.kids[s.loc + 1], item, level, func, nextItemSearch \/ s.found)
      shrunk == [node EXCEPT !.kids[s.loc + 1] = next.node]
      replaced == [shrunk EXCEPT !.keys[s.loc] = next.ItemFound]
      result == IF s.found THEN replaced ELSE shrunk
  IN IF inside /\ ~Empty(sub.node)
     THEN [node |-> [node EXCEPT !.keys[s.loc] = sub.node], ItemFound |-> ItemFound]
     ELSE IF Empty(node.kids[s.loc + 1])
     THEN IF s.found THEN [node |-> DeleteItemToRight(node, s.loc), ItemFound |-> ItemFound]
          ELSE [node |-> node, ItemFound |-> Nothing]
     ELSE [node |-> IF Count(next.node) < MinKeys THEN Reorder(result, s.loc) ELSE result,
           ItemFound |-> IF s.found THEN ItemFound ELSE next.ItemFound]

DeleteList(top, item, level, func) ==
  LET d == DeleteNode(top, item, level, func, FALSE)
  IN IF Empty(top) THEN [root |-> NoNode, ItemFound |-> Nothing]
     ELSE [root |-> IF Empty(d.node) THEN NoNode ELSE d.node, ItemFound |-> d.ItemFound]

(* What Free hands to the function of the caller, in that order.           *)
RECURSIVE FreeList(_)
FreeList(top) ==
  LET d == DeleteList(top, Nothing, 0, "any")
  IN IF Empty(top) THEN <<>> ELSE <<d.ItemFound>> \o FreeList(d.root)

-----------------------------------------------------------------------------
(* The entry found at a level, NoNode or Nothing if there is none.         *)
RECURSIVE FindNode(_, _, _)
FindNode(node, item, level) ==
  LET s == SearchNode(item, node, level, "t")
  IN IF Empty(node) THEN IF level = 0 THEN Nothing ELSE NoNode
     ELSE IF s.found THEN node.keys[s.loc]
     ELSE FindNode(node.kids[s.loc + 1], item, level)

(* The root of the items that share the keys of the given one.             *)
RECURSIVE RootOf(_, _, _)
RootOf(top, item, level) ==
  IF level = 0 \/ Empty(top) THEN top
  ELSE RootOf(FindNode(top, item, level), item, level - 1)

Find(item) == FindNode(RootOf(root, item, numKeys), item, 0)

(* BTState: the nodes on the way down and the place in each of them.       *)
Push(state, node) == Append(state, [node |-> node, loc |-> 1])
Iterator(top) == IF Empty(top) THEN <<>> ELSE Push(<<>>, top)

FindByKeys(item) == Iterator(RootOf(root, item, numKeys))

RECURSIVE Descended(_), Ascended(_)
Descended(state) ==
  LET branch == Last(state).node.kids[Last(state).loc]
  IN IF Empty(branch) THEN state ELSE Descended(Push(state, branch))

Ascended(state) ==
  IF state # <<>> /\ Last(state).loc > Count(Last(state).node)
  THEN Ascended(Front(state)) ELSE state

(* Every key that Walk returns, one call after the other.                  *)
RECURSIVE Walk(_)
Walk(state) ==
  LET next == Ascended(Descended(state))
      top == Last(next)
  IN IF state = <<>> \/ next = <<>> THEN <<>>
     ELSE <<top.node.keys[top.loc]>>
            \o Walk([next EXCEPT ![Len(next)].loc = @ + 1])

(* Mutant: the walk starts at the branch before the key it found.          *)
NextToVisitFromFound(s) == IF s.found THEN s.loc ELSE s.loc + 1

NextToVisit(s) == s.loc + 1

(* Where compare_tw finds the limit, or between those before and after it. *)
RECURSIVE SearchNodeBiggerThan(_, _, _)
SearchNodeBiggerThan(node, limit, state) ==
  LET s == Bisect([p \in DOMAIN node.keys |-> CompareTw(limit, node.keys[p])],
                  0, Count(node) + 1)
      here == Append(state, [node |-> node, loc |-> NextToVisit(s)])
  IN IF Empty(node) THEN state
     ELSE IF s.found THEN here
     ELSE SearchNodeBiggerThan(node.kids[s.loc + 1], limit, here)

FindBiggerThan(item, limit) ==
  SearchNodeBiggerThan(RootOf(root, item, numKeys), limit, <<>>)

-----------------------------------------------------------------------------
(* A tree after some calls of Insert; after some of Delete.                *)
RECURSIVE Grown(_, _), Pruned(_, _, _)
Grown(n, seq) ==
  IF seq = <<>> THEN NoNode
  ELSE InsertList(Grown(n, Front(seq)), Last(seq), n).root

Pruned(top, n, seq) ==
  IF seq = <<>> THEN top
  ELSE DeleteList(Pruned(top, n, Front(seq)), Last(seq), n, "t").root

Init == \E start \in Starts :
          /\ numKeys = start.numKeys
          /\ root = Pruned(Grown(start.numKeys, start.inserted),
                           start.numKeys, start.deleted)
          /\ numItems = Len(start.inserted) - Len(start.deleted)
          /\ answer = <<>>
          /\ calls = 0

Call == calls < MaxCalls /\ calls' = calls + 1 /\ UNCHANGED numKeys

Insert(item) ==
  LET in == InsertList(root, item, numKeys)
  IN /\ Call
     /\ root' = in.root
     /\ numItems' = IF in.found THEN numItems ELSE numItems + 1
     /\ answer' = <<in.at, in.found>>

Delete(item) ==
  LET d == DeleteList(root, item, numKeys, "t")
  IN /\ Call
     /\ root' = d.root
     /\ numItems' = IF d.ItemFound = Nothing THEN numItems ELSE numItems - 1
     /\ answer' = <<d.ItemFound>>

(* The item Free looks for is NULL: a tree with keys and something in it   *)
(* would read the attributes of NULL, and there the program ends.          *)
Free ==
  /\ Call
  /\ numKeys = 0 \/ Empty(root)
  /\ root' = NoNode
  /\ answer' = FreeList(root)
  /\ numItems' = numItems - Len(answer')

Next == Free \/ \E i \in Item : Insert(i) \/ Delete(i)

Spec == Init /\ [][Next]_vars

-----------------------------------------------------------------------------
RECURSIVE ItemsIn(_, _), Height(_), Shaped(_, _, _)
ItemsIn(node, level) ==
  UNION ({ItemsIn(node.kids[p], level) : p \in DOMAIN node.kids}
          \union {IF level = 0 THEN {node.keys[p]}
                  ELSE ItemsIn(node.keys[p], level - 1) : p \in DOMAIN node.keys})

Stored == ItemsIn(root, numKeys)

Height(node) == IF Empty(node) THEN 0 ELSE 1 + Height(node.kids[1])

(* A node with as many keys as it may have, and a root below each key of a *)
(* tree of trees.                                                          *)
Shaped(node, level, fewest) ==
  /\ Count(node) \in fewest .. MaxKeys
  /\ Len(node.kids) = Count(node) + 1
  /\ \A kid \in Range(node.kids) :
        Height(kid) = Height(node) - 1 /\ (Empty(kid) \/ Shaped(kid, level, MinKeys))
  /\ IF level = 0 THEN Range(node.keys) \subseteq Item
     ELSE \A top \in Range(node.keys) : Shaped(top, level - 1, 1)

Before(i, j) == i.t2 > j.t2 \/ (i.t2 = j.t2 /\ i.address < j.address)

KeysOf(i) == SubSeq(i.keys, 1, numKeys)
SameKeys(i) == {j \in Stored : KeysOf(j) = KeysOf(i)}
OneOfEachKeys == {CHOOSE i \in Item : KeysOf(i) = k : k \in {KeysOf(i) : i \in Item}}

(* The number of keys of each node and the height of its branches are      *)
(* right after every split, rotation and join, at every level ("auto-      *)
(* balanced", btree.cpp:4; SearchNode and Walk read the branches they      *)
(* count on).                                                              *)
Balanced == Empty(root) \/ Shaped(root, numKeys, 1)

(* A search ends at the item if it is stored, and nowhere otherwise.       *)
FindsEach == LET stored == Stored
             IN \A i \in Item : Find(i) = IF i \in stored THEN i ELSE Nothing

(* A node visits each item under a key once, in the order of the tree.     *)
WalksInOrder ==
  \A i \in OneOfEachKeys :
    LET walk == Walk(FindByKeys(i))
    IN /\ Range(walk) = SameKeys(i)
       /\ \A n \in 1 .. Len(walk) - 1 : Before(walk[n], walk[n + 1])

(* A timed node visits every item under the key older than the limit and   *)
(* none newer; of those of the limit itself, it may visit some.            *)
WindowIsVisited ==
  \A i \in OneOfEachKeys :
    LET same == SameKeys(i)
    IN \A limit \in {j.t2 : j \in Item} :
         LET walk == Range(Walk(FindBiggerThan(i, limit)))
         IN /\ {j \in same : j.t2 < limit} \subseteq walk
            /\ walk \subseteq {j \in same : j.t2 <= limit}

S == INSTANCE ItemSet WITH items <- Stored, size <- numItems

(* The tree of nodes implements the set of items: Insert, Delete and Free  *)
(* change it and answer as a set would, whatever node the item was in, and *)
(* numItems() is its size, by which a set of the net tells its own and that*)
(* it became empty.                                                        *)
ImplementsSet == S!Spec
=============================================================================
