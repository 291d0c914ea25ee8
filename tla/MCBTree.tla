------------------------------- MODULE MCBTree --------------------------------
(***************************************************************************)
(* Trees of up to 25 items, most of them three nodes high, that got there  *)
(* so that two more calls meet every split, rotation and join; and a tree  *)
(* of trees.                                                               *)
(***************************************************************************)
EXTENDS BTree

Made(n) == [keys |-> <<IF n <= 7 THEN 1 ELSE n \div 3>>, t2 |-> n % 5, address |-> n]

Items == {Made(n) : n \in 1 .. 26}

Mixed == [n \in 1 .. 22 |-> Made(n)]
Rising == SortSeq([n \in 1 .. 25 |-> Made(n)], Before)
Start(n, inserted, deleted) ==
  [numKeys |-> n, inserted |-> inserted, deleted |-> deleted]

(* The last but one has more nodes on the left than on the right.          *)
Trees == {Start(0, Mixed, <<>>),
          Start(0, SubSeq(Rising, 1, 21), <<>>),
          Start(0, Reverse(Rising), <<>>),
          Start(0, SubSeq(Rising, 5, 25) \o Reverse(SubSeq(Rising, 1, 4)),
                   <<Last(Rising)>>),
          Start(1, Mixed, <<>>)}
=============================================================================
