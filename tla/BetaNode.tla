------------------------------ MODULE BetaNode -------------------------------
(***************************************************************************)
(* A two-sided node of any of the three kinds (Node::and_call, nand_call,  *)
(* oand_call).  Which kind it is was decided when the net was built.  What *)
(* may move is chosen apart for the AND node: the other two keep their     *)
(* promises only when the items by the left do not move.                   *)
(***************************************************************************)
EXTENDS NandNode, OandNode

CONSTANTS
  Kinds,      \* the kinds of node considered
  AndMoves    \* Moves for the AND node

ASSUME KindsAssumption ==
  /\ Kinds \subseteq {"and", "nand", "oand"}
  /\ Keyed => Left \intersect Right \intersect AndMoves = {}

VARIABLE kind

vars == <<lmem, rmem, val, due, out, sent, count, disposed, kind>>

And == INSTANCE AndNode WITH Moves <- AndMoves

Init == /\ kind \in Kinds
        /\ MemoriesInit
        /\ CountsInit

Next == /\ UNCHANGED kind
        /\ \/ kind = "and" /\ And!Next /\ UNCHANGED counts
           \/ kind = "nand" /\ NandNext
           \/ kind = "oand" /\ OandNext

Spec == Init /\ [][Next]_vars

-----------------------------------------------------------------------------
(* Every variable keeps its type. *)
TypeOK == /\ kind = "and" => And!TypeOK
          /\ kind = "nand" => NandTypeOK
          /\ kind = "oand" => OandTypeOK
          /\ CountsTypeOK

(* AND: the children hold the join of the two memories (AndNode).          *)
OutIsJoin == kind = "and" => And!OutIsJoin

(* NAND: they hold the items by the left that match nothing (NandNode).    *)
OutIsUnmatched == kind = "nand" => NandOutIsUnmatched

(* OAND: they hold the left outer join of the memories (OandNode).         *)
OutIsOuterJoin == kind = "oand" => OandOutIsOuterJoin

(* NAND and OAND: each MatchCount holds the number of matches of its item  *)
(* (MatchCounts).                                                          *)
CountsAreExact == kind \in {"nand", "oand"} => CountIsExact

(* Each arrival tells the children what fits what they hold: the nodes     *)
(* below, and prod_call, never see a stray tag (BetaMemory).               *)
NoStrays == [][EachFits]_vars
=============================================================================
