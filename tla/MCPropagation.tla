---------------------------- MODULE MCPropagation ----------------------------
(***************************************************************************)
(* A net of fifteen nodes, with any tests in six of them: a test shared by *)
(* two joins, a join entered by both sides from two tests of which one is  *)
(* below the other, a test with only tests below, a join with a SET by one *)
(* side and a test of that SET by the other, a TIMER above a SET.          *)
(***************************************************************************)
EXTENDS Propagation

Nodes == 1..15
One == 1
Kinds == <<"test", "test", "test", "test", "inter", "inter", "set", "test", "inter",
           "timer", "test", "set", "test", "inter", "inter">>

(* A link: from, to, by. *)
L == "left"
R == "right"
Net == << <<1, 2, L>>, <<1, 4, L>>, <<1, 10, L>>,      \* the root
          <<2, 3, L>>, <<2, 5, L>>,                    \* a test
          <<3, 5, R>>, <<3, 6, R>>, <<3, 7, L>>,       \* a test
          <<4, 6, L>>,                                 \* a test
          <<7, 8, L>>, <<7, 9, R>>,                    \* a SET
          <<8, 9, L>>,                                 \* a test
          <<10, 11, L>>, <<10, 14, R>>,                \* a TIMER
          <<11, 12, L>>, <<11, 15, L>>,                \* a test
          <<12, 13, L>>, <<12, 15, R>>,                \* a SET
          <<13, 14, L>> >>                             \* a test
Count == 19
Froms == [l \in 1..Count |-> Net[l][1]]
Tos == [l \in 1..Count |-> Net[l][2]]
Bys == [l \in 1..Count |-> Net[l][3]]
Afters == [l \in 1..Count |-> IF l < Count /\ Net[l][1] = Net[l + 1][1] THEN l + 1 ELSE 0]
Forks == <<1, 4, 6, 9, 0, 0, 10, 12, 0, 13, 15, 17, 19, 0, 0>>
Values == 1..2
=============================================================================
