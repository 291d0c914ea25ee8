---------------------------- MODULE TimedNodeProofs ---------------------------
(***************************************************************************)
(* Proof that the children of a timed node hold what its memories say also *)
(* while old items wait to be removed, are removed from one side only, are *)
(* modified or come back in the meantime; and that nothing is removed that *)
(* is not older than the newest time seen minus the window, if no two items*)
(* of a side have the same time.                                           *)
(*                                                                         *)
(* The first is what is proved of each node without time, with the window  *)
(* as one more test, and the arrivals by one side alone.  AndP is the node *)
(* of Node!And, and NodeP has the NAND and the OAND node of Node (see      *)
(* SameAnd of BetaNodeProofs).                                             *)
(***************************************************************************)
EXTENDS TimedNode, TLAPS

AndP == INSTANCE AndNodeProofs WITH Moves <- AndMoves
NodeP == INSTANCE BetaNodeProofs

(* How the node is used: as in BetaNodeProofs.                             *)
Kept == /\ ~LeftTrigger /\ ~RightTrigger /\ ~SameObj
        /\ Keyed => Moves = {} /\ AndMoves = {}
        /\ Moves \intersect Left = {}
        /\ IsFiniteSet(Right)

IInv == /\ kind \in Kinds
        /\ kind = "and" => AndP!IInv
        /\ kind = "nand" => NodeP!NandIInv
        /\ kind = "oand" => NodeP!OandIInv

-----------------------------------------------------------------------------
(* The WAND node. *)
LEMMA SameAndSteps ==
  ASSUME NEW i, NEW tag
  PROVE  /\ Node!And!ArriveLeft(i, tag) <=> AndP!ArriveLeft(i, tag)
         /\ Node!And!ArriveRight(i, tag) <=> AndP!ArriveRight(i, tag)
         /\ Node!And!ByLeft(i, tag, val, val) <=> AndP!ByLeft(i, tag, val, val)
         /\ Node!And!ByRight(i, tag, val, val) <=> AndP!ByRight(i, tag, val, val)
<1> USE DEF
     Node!And!ArriveLeft, AndP!ArriveLeft, Node!And!ByLeft, AndP!ByLeft,
     Node!And!About, AndP!About, Node!And!Tag, AndP!Tag, Node!And!Settled,
     AndP!Settled, Node!And!Visited, AndP!Visited, Node!And!Tested,
     AndP!Tested, Node!And!Passes, AndP!Passes, Node!And!PairTag,
     AndP!PairTag, Node!And!StoredTag, AndP!StoredTag, Node!And!Remember,
     AndP!Remember, Node!And!Note, AndP!Note, Node!And!Held, AndP!Held,
     Node!And!Tell, AndP!Tell, Node!And!Arriving, AndP!Arriving,
     Node!And!OtherSide, AndP!OtherSide, Node!And!Starts, AndP!Starts,
     Node!And!Ends, AndP!Ends, Node!And!Before, AndP!Before,
     Node!And!ArriveRight, AndP!ArriveRight, Node!And!ByRight, AndP!ByRight
<1>1. Node!And!ArriveLeft(i, tag) <=> AndP!ArriveLeft(i, tag)
  OBVIOUS
<1>2. Node!And!ArriveRight(i, tag) <=> AndP!ArriveRight(i, tag)
  OBVIOUS
<1>3. Node!And!ByLeft(i, tag, val, val) <=> AndP!ByLeft(i, tag, val, val)
  OBVIOUS
<1>4. Node!And!ByRight(i, tag, val, val) <=> AndP!ByRight(i, tag, val, val)
  OBVIOUS
<1> QED BY <1>1, <1>2, <1>3, <1>4

(* What the WAND node and the AND node of its proofs promise is the same. *)
LEMMA SameAnd ==
  /\ Node!And!OutIsJoin <=> AndP!OutIsJoin
  /\ Node!MemoriesInit <=> AndP!Init
  /\ Kept => AndP!KeysStay
  /\ Node!Settled = AndP!Settled
  /\ Node!Tag = AndP!Tag
<1> USE DEF
     Node!And!OutIsJoin, AndP!OutIsJoin, Node!And!Settled, AndP!Settled,
     Node!And!Joined, AndP!Joined, Node!And!Tested, AndP!Tested, AndP!Init,
     Node!MemoriesInit, AndP!MemoriesInit, Node!Settled, Kept, AndP!KeysStay,
     Node!Tag, AndP!Tag
<1>1. Node!And!OutIsJoin <=> AndP!OutIsJoin
  OBVIOUS
<1>2. Node!MemoriesInit <=> AndP!Init
  OBVIOUS
<1>3. Kept => AndP!KeysStay
  OBVIOUS
<1>4. Node!Settled = AndP!Settled
  OBVIOUS
<1>5. Node!Tag = AndP!Tag
  OBVIOUS
<1> QED BY <1>1, <1>2, <1>3, <1>4, <1>5

(* The NWAND node. *)
LEMMA SameNandSteps ==
  ASSUME NEW i, NEW tag
  PROVE  /\ Node!NandArriveLeft(i, tag) <=> NodeP!NandArriveLeft(i, tag)
         /\ Node!NandArriveRight(i, tag) <=> NodeP!NandArriveRight(i, tag)
         /\ Node!NandByLeft(i, tag, val, val) <=> NodeP!NandByLeft(i, tag, val, val)
         /\ Node!NandByRight(i, tag, val, val) <=> NodeP!NandByRight(i, tag, val, val)
<1> USE DEF
     Node!NandArriveLeft, NodeP!NandArriveLeft, Node!NandByLeft, NodeP!NandByLeft,
     Node!Inverted, NodeP!Inverted, Node!Applied, NodeP!Applied,
     Node!Masks, NodeP!Masks, Node!NandRecount, NodeP!NandRecount,
     Node!Told, NodeP!Told, Node!Tag, NodeP!Tag, Node!Settled,
     NodeP!Settled, Node!Visited, NodeP!Visited, Node!Tested,
     NodeP!Tested, Node!Passes, NodeP!Passes, Node!PairTag,
     NodeP!PairTag, Node!StoredTag, NodeP!StoredTag, Node!Remember,
     NodeP!Remember, Node!Note, NodeP!Note, Node!Held, NodeP!Held,
     Node!Tell, NodeP!Tell, Node!Arriving, NodeP!Arriving,
     Node!OtherSide, NodeP!OtherSide, Node!Starts, NodeP!Starts,
     Node!Ends, NodeP!Ends, Node!Before, NodeP!Before,
     Node!Sound, NodeP!Sound, Node!Disposed, NodeP!Disposed,
     Node!Counter, NodeP!Counter, Node!Matches, NodeP!Matches,
     Node!Counted, NodeP!Counted, Node!Cardinality,
     NodeP!Cardinality, Node!NandArriveRight, NodeP!NandArriveRight,
     Node!NandByRight, NodeP!NandByRight
<1>1. Node!NandArriveLeft(i, tag) <=> NodeP!NandArriveLeft(i, tag)
  OBVIOUS
<1>2. Node!NandArriveRight(i, tag) <=> NodeP!NandArriveRight(i, tag)
  OBVIOUS
<1>3. Node!NandByLeft(i, tag, val, val) <=> NodeP!NandByLeft(i, tag, val, val)
  OBVIOUS
<1>4. Node!NandByRight(i, tag, val, val) <=> NodeP!NandByRight(i, tag, val, val)
  OBVIOUS
<1> QED BY <1>1, <1>2, <1>3, <1>4

(* What the NWAND node and the NAND node of its proofs promise. *)
LEMMA SameNand ==
  /\ Node!NandOutIsUnmatched <=> NodeP!NandOutIsUnmatched
  /\ Node!MemoriesInit /\ Node!CountsInit <=> NodeP!NandInit
  /\ Node!CountIsExact <=> NodeP!CountIsExact
  /\ Kept => NodeP!AsymKept
  /\ Node!Sound <=> NodeP!Sound
  /\ Node!Settled = NodeP!Settled
  /\ Node!Tag = NodeP!Tag
<1> USE DEF
     Node!NandOutIsUnmatched, NodeP!NandOutIsUnmatched, Node!Settled,
     NodeP!Settled, Node!Partners, NodeP!Partners, Node!Joined,
     NodeP!Joined, Node!Tested, NodeP!Tested, NodeP!NandInit,
     Node!MemoriesInit, NodeP!MemoriesInit, Node!CountsInit,
     NodeP!CountsInit, Node!CountIsExact, NodeP!CountIsExact,
     Node!Cardinality, NodeP!Cardinality, Kept, NodeP!AsymKept,
     IsFiniteSet, NodeP!IsFiniteSet, Node!Sound, NodeP!Sound, Node!Tag,
     NodeP!Tag
<1>1. Node!NandOutIsUnmatched <=> NodeP!NandOutIsUnmatched
  OBVIOUS
<1>2. Node!MemoriesInit /\ Node!CountsInit <=> NodeP!NandInit
  OBVIOUS
<1>3. Node!CountIsExact <=> NodeP!CountIsExact
  OBVIOUS
<1>4. Kept => NodeP!AsymKept
  OBVIOUS
<1>5. Node!Sound <=> NodeP!Sound
  OBVIOUS
<1>6. Node!Settled = NodeP!Settled
  OBVIOUS
<1>7. Node!Tag = NodeP!Tag
  OBVIOUS
<1> QED BY <1>1, <1>2, <1>3, <1>4, <1>5, <1>6, <1>7

(* The OWAND node. *)
LEMMA SameOandSteps ==
  ASSUME NEW i, NEW tag
  PROVE  /\ Node!OandArriveLeft(i, tag) <=> NodeP!OandArriveLeft(i, tag)
         /\ Node!OandArriveRight(i, tag) <=> NodeP!OandArriveRight(i, tag)
         /\ Node!OandByLeft(i, tag, val, val) <=> NodeP!OandByLeft(i, tag, val, val)
         /\ Node!OandByRight(i, tag, val, val) <=> NodeP!OandByRight(i, tag, val, val)
<1> USE DEF
     Node!OandArriveLeft, NodeP!OandArriveLeft, Node!OandByLeft, NodeP!OandByLeft,
     Node!Alone, NodeP!Alone, Node!AboutLeft, NodeP!AboutLeft,
     Node!OandRecount, NodeP!OandRecount, Node!AboutRight, NodeP!AboutRight,
     Node!Tag, NodeP!Tag, Node!Settled, NodeP!Settled,
     Node!Visited, NodeP!Visited, Node!Tested, NodeP!Tested,
     Node!Passes, NodeP!Passes, Node!PairTag, NodeP!PairTag,
     Node!StoredTag, NodeP!StoredTag, Node!Remember, NodeP!Remember,
     Node!Note, NodeP!Note, Node!Held, NodeP!Held, Node!Tell,
     NodeP!Tell, Node!Arriving, NodeP!Arriving, Node!OtherSide,
     NodeP!OtherSide, Node!Starts, NodeP!Starts, Node!Ends,
     NodeP!Ends, Node!Before, NodeP!Before, Node!Sound, NodeP!Sound,
     Node!Disposed, NodeP!Disposed, Node!Counter, NodeP!Counter,
     Node!Matches, NodeP!Matches, Node!Counted, NodeP!Counted,
     Node!Cardinality, NodeP!Cardinality, Node!OandArriveRight,
     NodeP!OandArriveRight, Node!OandByRight, NodeP!OandByRight
<1>1. Node!OandArriveLeft(i, tag) <=> NodeP!OandArriveLeft(i, tag)
  OBVIOUS
<1>2. Node!OandArriveRight(i, tag) <=> NodeP!OandArriveRight(i, tag)
  OBVIOUS
<1>3. Node!OandByLeft(i, tag, val, val) <=> NodeP!OandByLeft(i, tag, val, val)
  OBVIOUS
<1>4. Node!OandByRight(i, tag, val, val) <=> NodeP!OandByRight(i, tag, val, val)
  OBVIOUS
<1> QED BY <1>1, <1>2, <1>3, <1>4

(* What the OWAND node and the OAND node of its proofs promise. *)
LEMMA SameOand ==
  /\ Node!OandOutIsOuterJoin <=> NodeP!OandOutIsOuterJoin
  /\ Node!MemoriesInit /\ Node!CountsInit <=> NodeP!OandInit
  /\ Node!CountIsExact <=> NodeP!CountIsExact
  /\ Kept => NodeP!AsymKept
  /\ Node!Sound <=> NodeP!Sound
  /\ Node!Settled = NodeP!Settled
  /\ Node!Tag = NodeP!Tag
<1> USE DEF
     Node!OandOutIsOuterJoin, NodeP!OandOutIsOuterJoin, Node!Alone,
     NodeP!Alone, Node!Settled, NodeP!Settled, Node!Partners,
     NodeP!Partners, Node!Joined, NodeP!Joined, Node!Tested,
     NodeP!Tested, NodeP!OandInit, Node!MemoriesInit, NodeP!MemoriesInit,
     Node!CountsInit, NodeP!CountsInit, Node!CountIsExact,
     NodeP!CountIsExact, Node!Cardinality, NodeP!Cardinality, Kept,
     NodeP!AsymKept, IsFiniteSet, NodeP!IsFiniteSet, Node!Sound,
     NodeP!Sound, Node!Tag, NodeP!Tag
<1>1. Node!OandOutIsOuterJoin <=> NodeP!OandOutIsOuterJoin
  OBVIOUS
<1>2. Node!MemoriesInit /\ Node!CountsInit <=> NodeP!OandInit
  OBVIOUS
<1>3. Node!CountIsExact <=> NodeP!CountIsExact
  OBVIOUS
<1>4. Kept => NodeP!AsymKept
  OBVIOUS
<1>5. Node!Sound <=> NodeP!Sound
  OBVIOUS
<1>6. Node!Settled = NodeP!Settled
  OBVIOUS
<1>7. Node!Tag = NodeP!Tag
  OBVIOUS
<1> QED BY <1>1, <1>2, <1>3, <1>4, <1>5, <1>6, <1>7

-----------------------------------------------------------------------------
(* What the assumptions of the nodes ask of the window and the keys.       *)
LEMMA Fitting ==
  /\ InWindow \subseteq Left \X Right
  /\ Keyed => Left \intersect Right \intersect Moves = {}
  /\ Keyed => Left \intersect Right \intersect AndMoves = {}
BY NodeAssumption DEF InWindow

(* An arrival by the left. *)
LEMMA ArriveLeftOK ==
  ASSUME Kept, IInv, NEW tag \in Node!Tag, NEW l \in Left, ArriveLeft(l, tag)
  PROVE  IInv'
<1>1. kind' = kind
  BY DEF ArriveLeft
<1>2. CASE WandByLeft(l, tag)
  <2>1. kind = "and" /\ AndP!Next
    BY <1>2, SameAnd, SameAndSteps DEF WandByLeft, AndP!Next
  <2>2. AndP!IInv'
    BY <2>1, SameAnd, Fitting, NodeAssumption, AndP!NextOK DEF IInv
  <2> QED BY <1>1, <2>1, <2>2 DEF IInv
<1>3. CASE NwandByLeft(l, tag)
  <2>1. kind = "nand" /\ NodeP!NandNext
    BY <1>3, SameNand, SameNandSteps DEF NwandByLeft, NodeP!NandNext
  <2>2. NodeP!NandIInv'
    BY <2>1, SameNand, Fitting, NodeAssumption, NodeP!NandNextOK DEF IInv
  <2> QED BY <1>1, <2>1, <2>2 DEF IInv
<1>4. CASE OwandByLeft(l, tag)
  <2>1. kind = "oand" /\ NodeP!OandNext
    BY <1>4, SameOand, SameOandSteps DEF OwandByLeft, NodeP!OandNext
  <2>2. NodeP!OandIInv'
    BY <2>1, SameOand, Fitting, NodeAssumption, NodeP!OandNextOK DEF IInv
  <2> QED BY <1>1, <2>1, <2>2 DEF IInv
<1> QED BY <1>2, <1>3, <1>4 DEF ArriveLeft

(* An arrival by the right. *)
LEMMA ArriveRightOK ==
  ASSUME Kept, IInv, NEW tag \in Node!Tag, NEW r \in Right, ArriveRight(r, tag)
  PROVE  IInv'
<1>1. kind' = kind
  BY DEF ArriveRight
<1>2. CASE WandByRight(r, tag)
  <2>1. kind = "and" /\ AndP!Next
    BY <1>2, SameAnd, SameAndSteps DEF WandByRight, AndP!Next
  <2>2. AndP!IInv'
    BY <2>1, SameAnd, Fitting, NodeAssumption, AndP!NextOK DEF IInv
  <2> QED BY <1>1, <2>1, <2>2 DEF IInv
<1>3. CASE NwandByRight(r, tag)
  <2>1. kind = "nand" /\ NodeP!NandNext
    BY <1>3, SameNand, SameNandSteps DEF NwandByRight, NodeP!NandNext
  <2>2. NodeP!NandIInv'
    BY <2>1, SameNand, Fitting, NodeAssumption, NodeP!NandNextOK DEF IInv
  <2> QED BY <1>1, <2>1, <2>2 DEF IInv
<1>4. CASE OwandByRight(r, tag)
  <2>1. kind = "oand" /\ NodeP!OandNext
    BY <1>4, SameOand, SameOandSteps DEF OwandByRight, NodeP!OandNext
  <2>2. NodeP!OandIInv'
    BY <2>1, SameOand, Fitting, NodeAssumption, NodeP!OandNextOK DEF IInv
  <2> QED BY <1>1, <2>1, <2>2 DEF IInv
<1> QED BY <1>2, <1>3, <1>4 DEF ArriveRight

(* What do_loop removes from one side. *)
LEMMA RemoveOK ==
  ASSUME Kept, IInv, NEW x \in Waiting, Remove(x[1], x[2])
  PROVE  IInv'
<1> PICK side, i : side = x[1] /\ i = x[2]
  OBVIOUS
<1>0. \/ side = "left" /\ i \in Left
      \/ side = "right" /\ i \in Right
  BY DEF Waiting
<1>1. kind' = kind /\ due = Node!Settled /\ due' = due /\ val' = val
  BY DEF Remove
<1> DEFINE tag == RemovedTag(<<side, i>>)
<1>2. tag \in Node!Tag
  BY DEF RemovedTag, Node!Tag
<1>3. \/ kind = "and" /\ RemoveFromWand(side, i, tag)
      \/ kind = "nand" /\ RemoveFromNwand(side, i, tag)
      \/ kind = "oand" /\ RemoveFromOwand(side, i, tag)
  BY DEF Remove
<1> HIDE DEF tag
<1>4. CASE kind = "and" /\ RemoveFromWand(side, i, tag)
  <2>1. CASE side = "left" /\ i \in Left
    <3>1. AndP!ByLeft(i, tag, val, val)
      BY <1>4, <2>1, SameAndSteps DEF RemoveFromWand
    <3>2. AndP!IInv'
      BY <1>1, <1>2, <1>4, <2>1, <3>1, SameAnd, Fitting, NodeAssumption, AndP!LoneLeftOK DEF IInv
    <3> QED BY <1>1, <1>4, <3>2 DEF IInv
  <2>2. CASE side = "right" /\ i \in Right
    <3>1. AndP!ByRight(i, tag, val, val)
      BY <1>4, <2>2, SameAndSteps DEF RemoveFromWand
    <3>2. AndP!IInv'
      BY <1>1, <1>2, <1>4, <2>2, <3>1, SameAnd, Fitting, NodeAssumption, AndP!LoneRightOK DEF IInv
    <3> QED BY <1>1, <1>4, <3>2 DEF IInv
  <2> QED BY <1>0, <2>1, <2>2
<1>5. CASE kind = "nand" /\ RemoveFromNwand(side, i, tag)
  <2>1. CASE side = "left" /\ i \in Left
    <3>1. NodeP!NandByLeft(i, tag, val, val)
      BY <1>5, <2>1, SameNandSteps DEF RemoveFromNwand
    <3>2. NodeP!NandIInv'
      BY <1>1, <1>2, <1>5, <2>1, <3>1, SameNand, Fitting, NodeAssumption, NodeP!NandLoneLeftOK DEF IInv
    <3> QED BY <1>1, <1>5, <3>2 DEF IInv
  <2>2. CASE side = "right" /\ i \in Right
    <3>1. NodeP!NandByRight(i, tag, val, val)
      BY <1>5, <2>2, SameNandSteps DEF RemoveFromNwand
    <3>2. NodeP!NandIInv'
      BY <1>1, <1>2, <1>5, <2>2, <3>1, SameNand, Fitting, NodeAssumption, NodeP!NandLoneRightOK DEF IInv
    <3> QED BY <1>1, <1>5, <3>2 DEF IInv
  <2> QED BY <1>0, <2>1, <2>2
<1>6. CASE kind = "oand" /\ RemoveFromOwand(side, i, tag)
  <2>1. CASE side = "left" /\ i \in Left
    <3>1. NodeP!OandByLeft(i, tag, val, val)
      BY <1>6, <2>1, SameOandSteps DEF RemoveFromOwand
    <3>2. NodeP!OandIInv'
      BY <1>1, <1>2, <1>6, <2>1, <3>1, SameOand, Fitting, NodeAssumption, NodeP!OandLoneLeftOK DEF IInv
    <3> QED BY <1>1, <1>6, <3>2 DEF IInv
  <2>2. CASE side = "right" /\ i \in Right
    <3>1. NodeP!OandByRight(i, tag, val, val)
      BY <1>6, <2>2, SameOandSteps DEF RemoveFromOwand
    <3>2. NodeP!OandIInv'
      BY <1>1, <1>2, <1>6, <2>2, <3>1, SameOand, Fitting, NodeAssumption, NodeP!OandLoneRightOK DEF IInv
    <3> QED BY <1>1, <1>6, <3>2 DEF IInv
  <2> QED BY <1>0, <2>1, <2>2
<1> QED BY <1>3, <1>4, <1>5, <1>6

(* Every step, and everything that is not one. *)
LEMMA NextOK ==
  ASSUME Kept, IInv, [Next]_vars
  PROVE  IInv'
<1>1. CASE UNCHANGED vars
  <2>1. kind = "and" => AndP!IInv'
    <3>1. UNCHANGED AndP!vars
      BY <1>1 DEF vars, AndP!vars
    <3> QED BY <3>1, SameAnd, Fitting, NodeAssumption, AndP!NextOK DEF IInv
  <2>2. kind = "nand" => NodeP!NandIInv'
    <3>1. UNCHANGED NodeP!NandVars
      BY <1>1 DEF vars, NodeP!NandVars
    <3> QED BY <3>1, SameNand, Fitting, NodeAssumption, NodeP!NandNextOK DEF IInv
  <2>3. kind = "oand" => NodeP!OandIInv'
    <3>1. UNCHANGED NodeP!OandVars
      BY <1>1 DEF vars, NodeP!OandVars
    <3> QED BY <3>1, SameOand, Fitting, NodeAssumption, NodeP!OandNextOK DEF IInv
  <2> QED BY <1>1, <2>1, <2>2, <2>3 DEF IInv, vars
<1>2. CASE Next
  BY <1>2, ArriveLeftOK, ArriveRightOK, RemoveOK DEF Next
<1> QED BY <1>1, <1>2

(* A new node satisfies the invariant. *)
LEMMA InitOK == Init => IInv
<1> SUFFICES ASSUME Init PROVE IInv
  OBVIOUS
<1>1. kind \in Kinds /\ Node!MemoriesInit /\ Node!CountsInit
  BY DEF Init, Node!Init
<1>2. AndP!IInv
  BY <1>1, SameAnd, Fitting, NodeAssumption, AndP!InitOK
<1>3. NodeP!NandIInv
  BY <1>1, SameNand, Fitting, NodeAssumption, NodeP!NandInitOK
<1>4. NodeP!OandIInv
  BY <1>1, SameOand, Fitting, NodeAssumption, NodeP!OandInitOK
<1> QED BY <1>1, <1>2, <1>3, <1>4 DEF IInv

(* The children of a timed node hold what its memories say, whenever no    *)
(* second arrival is outstanding, however many old items wait.             *)
THEOREM MemoriesFollowed == ASSUME Kept PROVE Spec => []OutFollowsMemories
<1>1. ASSUME AndP!IInv PROVE AndP!OutIsJoin
  BY <1>1 DEF AndP!IInv, AndP!OutIsJoin, AndP!OutIsPartlyJoin, AndP!Matched,
     AndP!Outdated, AndP!TypeOK, AndP!MemoriesTypeOK, AndP!Pair
<1>2. ASSUME NodeP!NandIInv PROVE NodeP!NandOutIsUnmatched /\ NodeP!CountIsExact
  BY <1>2 DEF NodeP!NandIInv, NodeP!NandOutFollows, NodeP!NandOutIsUnmatched, NodeP!AsymInv,
     NodeP!CountsMatch, NodeP!CountIsExact, NodeP!NandTypeOK, NodeP!MemoriesTypeOK
<1>3. ASSUME NodeP!OandIInv PROVE NodeP!CountIsExact
  BY <1>3 DEF NodeP!OandIInv, NodeP!AsymInv, NodeP!CountsMatch, NodeP!CountIsExact,
     NodeP!OandTypeOK, NodeP!MemoriesTypeOK
<1>4. ASSUME NodeP!OandIInv PROVE NodeP!OandOutIsOuterJoin
  BY <1>4, NodeP!OuterJoinOK, Fitting, NodeAssumption
<1>5. IInv => OutFollowsMemories
  BY <1>1, <1>2, <1>3, <1>4, SameAnd, SameNand, SameOand
     DEF IInv, OutFollowsMemories, Node!OutIsJoin, Node!OutIsUnmatched,
         Node!OutIsOuterJoin, Node!CountsAreExact
<1>6. Kept /\ IInv /\ [Next]_vars => IInv'
  BY NextOK
<1> QED BY InitOK, <1>5, <1>6, PTL DEF Spec

-----------------------------------------------------------------------------
(* Objects and compounds within the window, one item of a side at a time.  *)
TimesKept == /\ \A i \in Item : T2[i] - T1[i] <= Window
             /\ \A i, j \in Left : T2[i] = T2[j] => i = j
             /\ \A i, j \in Right : T2[i] = T2[j] => i = j

AgeInv == /\ latest \in Nat
          /\ lmem \subseteq Left /\ rmem \subseteq Right
          /\ \A i \in lmem \union rmem : T2[i] <= latest
          /\ \A x \in DOMAIN removals : x[2] \in Item
          /\ OnlyOldLeave

(* The walk of an item removes only what is older than its time minus the  *)
(* window: what is newer by more than that is not met, except among ties.  *)
LEMMA AgedIsOld ==
  ASSUME TimesKept, NEW i \in Item, NEW items, items \subseteq Left \/ items \subseteq Right,
         NEW w \in Walked(items, i), NEW side, NEW x \in Aged(side, i, w)
  PROVE  x[2] \in Item /\ T2[x[2]] < T2[i] - Window
<1>1. PICK j \in w : x = <<side, j>> /\ j \in Singles /\ Span(i, j) > Window
  BY DEF Aged
<1>2. PICK ties : /\ ties \subseteq {k \in items : T2[k] = T1[i] + Window + 1}
                  /\ ties = {} \/ ties # {k \in items : T2[k] = T1[i] + Window + 1}
                  /\ w = {k \in items : T2[k] < T1[i] + Window + 1} \union ties
  BY DEF Walked
<1>3. ties = {}
  BY <1>2 DEF TimesKept
<1>4. j \in Item /\ T2[j] < T1[i] + Window + 1
  BY <1>2, <1>3 DEF Item
<1>5. /\ T1[i] \in Nat /\ T2[i] \in Nat /\ T1[j] \in Nat /\ T2[j] \in Nat
      /\ T1[i] <= T2[i] /\ T1[j] = T2[j] /\ Window \in Nat
      /\ T2[i] - T1[i] <= Window
  BY <1>1, <1>4, TimeAssumption DEF TimesKept
<1>6. T2[j] < T2[i] - Window
  BY <1>1, <1>4, <1>5 DEF Span
<1> QED BY <1>1, <1>4, <1>6

(* So does all that an arrival, or a removal, pushes.                      *)
LEMMA PushedIsOld ==
  ASSUME TimesKept, AgeInv, NEW side \in {"left", "right"}, NEW i \in Item,
         NEW state, NEW walks, NEW pushed \in Pushes(side, i, state, walks),
         NEW x \in DOMAIN pushed
  PROVE  walks /\ x[2] \in Item /\ T2[x[2]] < T2[i] - Window
<1> DEFINE mem == IF Node!OtherSide(side) = "left" THEN lmem ELSE rmem
<1>1. walks
  BY DEF Pushes, EmptyBag, SetToBag
<1>2. PICK w \in Walked(Node!Visited(mem, state, i), i) :
        pushed = SetToBag(Aged(Node!OtherSide(side), i, w))
  BY <1>1 DEF Pushes
<1>3. x \in Aged(Node!OtherSide(side), i, w)
  BY <1>2 DEF SetToBag
<1>4. Node!Visited(mem, state, i) \subseteq Left \/ Node!Visited(mem, state, i) \subseteq Right
  BY DEF AgeInv, Node!Visited
<1> HIDE DEF mem
<1> QED BY <1>1, <1>3, <1>4, AgedIsOld

(* What an arrival does to the list and to the newest time.                *)
LEMMA NotedOK ==
  ASSUME TimesKept, AgeInv, NEW side \in {"left", "right"}, NEW i \in Item,
         NEW tag, Noted(side, i, tag)
  PROVE  /\ latest' \in Nat /\ latest' >= latest /\ latest' >= T2[i]
         /\ \A x \in DOMAIN removals' : x[2] \in Item
         /\ OnlyOldLeave'
<1>1. T2[i] \in Nat /\ latest \in Nat /\ Window \in Nat /\ T2 \in [Item -> Nat]
  BY TimeAssumption DEF AgeInv
<1>2. latest' \in Nat /\ latest' >= latest /\ latest' >= T2[i]
  BY <1>1 DEF Noted
<1>3. PICK pushed \in Pushes(side, i, val', Walks(side, i, tag)) : removals' = removals (+) pushed
  BY DEF Noted
<1>4. ASSUME NEW x \in DOMAIN removals'
      PROVE  x[2] \in Item /\ T2[x[2]] < latest' - Window
  <2>1. x \in DOMAIN removals \/ x \in DOMAIN pushed
    BY <1>3 DEF (+)
  <2>2. CASE x \in DOMAIN removals
    <3>1. x[2] \in Item /\ T2[x[2]] < latest - Window
      BY <2>2 DEF AgeInv, OnlyOldLeave
    <3> QED BY <1>1, <1>2, <3>1
  <2>3. CASE x \in DOMAIN pushed
    <3>1. x[2] \in Item /\ T2[x[2]] < T2[i] - Window
      BY <2>3, PushedIsOld
    <3> QED BY <1>1, <1>2, <3>1
  <2> QED BY <2>1, <2>2, <2>3
<1> QED BY <1>2, <1>4 DEF OnlyOldLeave

(* Only the item that arrives is stored, and a removal stores nothing.     *)
LEMMA LeftStores ==
  ASSUME NEW l, NEW tag, ArriveLeft(l, tag)
  PROVE  lmem' \subseteq lmem \union {l} /\ rmem' = rmem
BY DEF
     ArriveLeft, WandByLeft, NwandByLeft, OwandByLeft,
     Node!And!ArriveLeft, Node!And!ByLeft, Node!And!Remember,
     Node!NandArriveLeft, Node!NandByLeft, Node!Remember,
     Node!OandArriveLeft, Node!OandByLeft

(* The same by the right. *)
LEMMA RightStores ==
  ASSUME NEW r, NEW tag, ArriveRight(r, tag)
  PROVE  rmem' \subseteq rmem \union {r} /\ lmem' = lmem
BY DEF
     ArriveRight, WandByRight, NwandByRight, OwandByRight,
     Node!And!ArriveRight, Node!And!ByRight, Node!And!Remember,
     Node!NandArriveRight, Node!NandByRight, Node!Remember,
     Node!OandArriveRight, Node!OandByRight

(* A removal stores nothing. *)
LEMMA NothingStored ==
  ASSUME NEW x \in Waiting, Remove(x[1], x[2])
  PROVE  lmem' \subseteq lmem /\ rmem' \subseteq rmem
<1> PICK side, i : side = x[1] /\ i = x[2]
  OBVIOUS
<1>1. \/ RemoveFromWand(side, i, "RETRACT")
      \/ RemoveFromNwand(side, i, "RETRACT")
      \/ RemoveFromOwand(side, i, "RETRACT")
  BY DEF Remove, RemovedTag
<1>2. CASE RemoveFromWand(side, i, "RETRACT")
  BY <1>2 DEF RemoveFromWand, Node!And!ByLeft, Node!And!ByRight, Node!And!Remember,
     Node!And!StoredTag
<1>3. CASE RemoveFromNwand(side, i, "RETRACT")
  BY <1>3 DEF RemoveFromNwand, Node!NandByLeft, Node!NandByRight, Node!Remember,
     Node!StoredTag
<1>4. CASE RemoveFromOwand(side, i, "RETRACT")
  BY <1>4 DEF RemoveFromOwand, Node!OandByLeft, Node!OandByRight, Node!Remember,
     Node!StoredTag
<1> QED BY <1>1, <1>2, <1>3, <1>4

(* What a removal meets is older than the item removed, and that one was   *)
(* in the memory.                                                          *)
LEMMA RemovalAge ==
  ASSUME TimesKept, AgeInv, NEW x \in Waiting, Remove(x[1], x[2])
  PROVE  AgeInv'
<1> PICK side, i : side = x[1] /\ i = x[2]
  OBVIOUS
<1>1. /\ side \in {"left", "right"} /\ i \in Item
      /\ side = "left" \/ side = "right"
  BY DEF Waiting, Item
<1>2. PICK pushed \in Pushes(side, i, val, Walks(side, i, "RETRACT")) :
        removals' = (removals (-) SetToBag({<<side, i>>})) (+) pushed
  BY DEF Remove, RemovedTag
<1>3. latest' = latest
  BY DEF Remove
<1>4. Walks(side, i, "RETRACT") => T2[i] <= latest
  BY <1>1 DEF Walks, WalksLeft, StoredLeft, StoredRight, Node!StoredTag, AgeInv
<1>5. T2[i] \in Nat /\ latest \in Nat /\ Window \in Nat /\ T2 \in [Item -> Nat]
  BY <1>1, TimeAssumption DEF AgeInv
<1>6. ASSUME NEW y \in DOMAIN removals'
      PROVE  y[2] \in Item /\ T2[y[2]] < latest - Window
  <2>1. y \in DOMAIN removals \/ y \in DOMAIN pushed
    BY <1>2 DEF (+), (-)
  <2>2. CASE y \in DOMAIN removals
    BY <2>2 DEF AgeInv, OnlyOldLeave
  <2>3. CASE y \in DOMAIN pushed
    <3>1. /\ Walks(side, i, "RETRACT")
          /\ y[2] \in Item /\ T2[y[2]] < T2[i] - Window
      BY <1>1, <2>3, PushedIsOld
    <3> QED BY <1>4, <1>5, <3>1
  <2> QED BY <2>1, <2>2, <2>3
<1>7. lmem' \subseteq lmem /\ rmem' \subseteq rmem
  BY NothingStored
<1> QED BY <1>3, <1>6, <1>7 DEF AgeInv, OnlyOldLeave

(* An arrival keeps the ages in order: what it pushes out is old. *)
LEMMA ArrivalAge ==
  ASSUME TimesKept, AgeInv, NEW tag,
         \/ \E l \in Left : ArriveLeft(l, tag)
         \/ \E r \in Right : ArriveRight(r, tag)
  PROVE  AgeInv'
<1>1. ASSUME NEW i \in Item, NEW side \in {"left", "right"}, Noted(side, i, tag),
             lmem' \subseteq Left, rmem' \subseteq Right,
             lmem' \union rmem' \subseteq lmem \union rmem \union {i}
      PROVE  AgeInv'
  <2>1. /\ latest' \in Nat /\ latest' >= latest /\ latest' >= T2[i]
        /\ \A x \in DOMAIN removals' : x[2] \in Item
        /\ OnlyOldLeave'
    BY <1>1, NotedOK
  <2>2. ASSUME NEW j \in lmem' \union rmem' PROVE T2[j] <= latest'
    <3>1. j \in Item /\ i \in Item /\ latest \in Nat
      BY <1>1 DEF Item, AgeInv
    <3>2. T2[j] \in Nat /\ T2[i] \in Nat
      BY <3>1, TimeAssumption
    <3>3. T2[j] <= latest \/ j = i
      BY <1>1 DEF AgeInv
    <3> QED BY <2>1, <3>1, <3>2, <3>3
  <2> QED BY <1>1, <2>1, <2>2 DEF AgeInv
<1>2. ASSUME NEW l \in Left, ArriveLeft(l, tag) PROVE AgeInv'
  <2>1. lmem' \subseteq lmem \union {l} /\ rmem' = rmem
    BY <1>2, LeftStores
  <2>2. Noted("left", l, tag) /\ l \in Item
    BY <1>2 DEF ArriveLeft, Item
  <2> QED BY <1>1, <2>1, <2>2 DEF AgeInv
<1>3. ASSUME NEW r \in Right, ArriveRight(r, tag) PROVE AgeInv'
  <2>1. rmem' \subseteq rmem \union {r} /\ lmem' = lmem
    BY <1>3, RightStores
  <2>2. Noted("right", r, tag) /\ r \in Item
    BY <1>3 DEF ArriveRight, Item
  <2> QED BY <1>1, <2>1, <2>2 DEF AgeInv
<1> QED BY <1>2, <1>3

(* Nothing leaves the window that is not older than it, when no two items  *)
(* of a side have the same time.                                           *)
THEOREM NothingRemovedEarly == ASSUME TimesKept PROVE Spec => []OnlyOldLeave
<1>1. Init => AgeInv
  BY DEF Init, AgeInv, OnlyOldLeave, Node!Init, Node!MemoriesInit, EmptyBag, SetToBag
<1>2. AgeInv /\ [Next]_vars => AgeInv'
  <2> SUFFICES ASSUME AgeInv, [Next]_vars PROVE AgeInv'
    OBVIOUS
  <2>1. CASE UNCHANGED vars
    BY <2>1 DEF vars, AgeInv, OnlyOldLeave
  <2>2. CASE Next
    BY <2>2, ArrivalAge, RemovalAge DEF Next
  <2> QED BY <2>1, <2>2
<1>3. AgeInv => OnlyOldLeave
  BY DEF AgeInv
<1> QED BY <1>1, <1>2, <1>3, PTL DEF Spec
=============================================================================
