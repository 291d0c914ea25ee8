---------------------------- MODULE BetaNodeProofs ----------------------------
(***************************************************************************)
(* Proof that a two-sided node, of any kind, keeps its promise: the        *)
(* children of an AND node hold the join of its memories, those of a NAND  *)
(* node the items by the left that match nothing and those of an OAND node *)
(* the left outer join; the counters of the last two are exact and neither *)
(* deletes one in use.                                                     *)
(*                                                                         *)
(* First the NAND and the OAND node, when they are used as AsymKept asks:  *)
(* what an arrival does to the values and to what is due, and how the      *)
(* matches of an item by the left, and so their number, change with an     *)
(* arrival by the right.  Items by the left do not move, so an object on   *)
(* both sides shows its new value only when neither memory knows it: what  *)
(* the children hold and the counters are right also between its two       *)
(* arrivals.                                                               *)
(*                                                                         *)
(* Then the node of each kind, put together as BetaNode states it:         *)
(* modifications may change any item of an AND node, except its keys, and  *)
(* the items by the right of the other two.  AndP is the AND node of       *)
(* BetaNode, with what is proved of it.  SameAnd says that it is the same  *)
(* node: each pair of definitions is expanded until the two sides are one  *)
(* formula.                                                                *)
(***************************************************************************)
EXTENDS BetaNode, FiniteSetTheorems, TLAPS

AndP == INSTANCE AndNodeProofs WITH Moves <- AndMoves

(* No TRIGGER class on either side, modifications that leave alone the     *)
(* items by the left and the keys, and finitely many items by the right.   *)
AsymKept == /\ ~LeftTrigger
            /\ ~RightTrigger
            /\ Keyed => Moves = {}
            /\ Moves \intersect Left = {}
            /\ IsFiniteSet(Right)

(* The counter of an item that is not stored is 0, in the model.           *)
CountsMatch ==
  count = [l \in Left |-> IF l \in lmem THEN Cardinality(Partners(l)) ELSE 0]

(* What is noted of the arrival to come is right for the memory it is for. *)
DueIsFaithful ==
  due # Settled =>
    /\ due.item \in Left \intersect Right
    /\ \/ due.old = val[due.item]
       \/ due.item \notin (IF due.side = "left" THEN lmem ELSE rmem)

AsymInv == /\ MemoriesTypeOK
           /\ DueIsFaithful
           /\ CountsMatch
           /\ Sound

-----------------------------------------------------------------------------
(* What an arriving item may show: anything if no memory knows it, another *)
(* value than before only by the right, in a MODIFY of a node without keys.*)
Shows(i, tag) ==
  /\ val' \in [Left \union Right -> Value]
  /\ \A x \in Left \union Right : x # i => val'[x] = val[x]
  /\ i \in lmem => val'[i] = val[i]
  /\ i \in rmem /\ (i \in Left \/ Keyed \/ tag # "MODIFY") => val'[i] = val[i]

(* The first arrival of an object, or the only one. *)
LEMMA StartsOK ==
  ASSUME MemoriesTypeOK, AsymKept, NEW side \in {"left", "right"},
         NEW i \in Left \union Right,
         side = "left" => i \in Left /\ rmem' = rmem,
         side = "right" => i \in Right /\ lmem' = lmem,
         NEW tag \in Tag, NEW v \in Arriving(tag, i), Starts(side, i, tag, v)
  PROVE  /\ Shows(i, tag)
         /\ due' \in {Settled} \union Second
         /\ DueIsFaithful'
<1>1. /\ val \in [Left \union Right -> Value]
      /\ lmem \subseteq Left /\ rmem \subseteq Right
  BY DEF MemoriesTypeOK
<1>2. v \in Value
  BY <1>1 DEF Arriving
<1>3. /\ val' \in [Left \union Right -> Value]
      /\ val'[i] = v
      /\ \A x \in Left \union Right : x # i => val'[x] = val[x]
  BY <1>1, <1>2 DEF Starts
<1>4. \/ i \notin lmem \union rmem
      \/ tag = "MODIFY" /\ i \in Moves
      \/ val'[i] = val[i]
  BY <1>3 DEF Arriving
<1>5. i \in Left => i \notin lmem \union rmem \/ val'[i] = val[i]
  BY <1>4 DEF AsymKept
<1>6. Shows(i, tag)
  BY <1>1, <1>3, <1>4, <1>5 DEF Shows, AsymKept
<1>7. \/ /\ i \in Left \intersect Right
         /\ due' = [side |-> OtherSide(side), item |-> i, tag |-> tag, old |-> val[i]]
      \/ due' = Settled
  BY DEF Starts
<1>8. due' \in {Settled} \union Second
  BY <1>1, <1>7 DEF Second, OtherSide
<1>9. DueIsFaithful'
  BY <1>1, <1>5, <1>7 DEF DueIsFaithful, OtherSide
<1> QED BY <1>6, <1>8, <1>9

(* The second arrival of an object on both sides. *)
LEMMA EndsOK ==
  ASSUME MemoriesTypeOK, DueIsFaithful, NEW side \in {"left", "right"},
         NEW i \in Left \union Right, NEW tag \in Tag, Ends(side, i, tag)
  PROVE  /\ Shows(i, tag)
         /\ due' \in {Settled} \union Second
         /\ DueIsFaithful'
         /\ i \in (IF side = "left" THEN lmem ELSE rmem) => Before = val
<1>1. /\ due # Settled /\ due \in Second /\ due.side = side /\ due.item = i
      /\ val \in [Left \union Right -> Value] /\ val' = val /\ due' = Settled
  BY DEF MemoriesTypeOK, Ends
<1>2. i \in (IF side = "left" THEN lmem ELSE rmem) => due.old = val[i]
  BY <1>1 DEF DueIsFaithful
<1> QED BY <1>1, <1>2 DEF Before, Shows, DueIsFaithful

-----------------------------------------------------------------------------
(* The matches of an item are some of the items stored by the right.       *)
LEMMA PartnersFinite ==
  ASSUME MemoriesTypeOK, AsymKept, NEW l
  PROVE  IsFiniteSet(Partners(l)) /\ Cardinality(Partners(l)) \in Nat
<1>1. Partners(l) \subseteq Right
  BY DEF Partners, MemoriesTypeOK
<1> QED BY <1>1, FS_Subset, FS_CardinalityType DEF AsymKept

(* What is visited and passes the code of the node is what matches, with   *)
(* the test in the code and with the test in the key.                      *)
LEMMA VisitedMatch ==
  ASSUME NEW l \in Left, NEW r \in Right, NEW now \in [Left \union Right -> Value]
  PROVE  /\ r \in Visited(rmem, now, l) /\ Passes(now, l, r) <=>
              r \in rmem /\ Tested(l, r) /\ <<now[l], now[r]>> \in Joins
         /\ l \in Visited(lmem, now, r) /\ Passes(now, l, r) <=>
              l \in lmem /\ Tested(l, r) /\ <<now[l], now[r]>> \in Joins
BY BetaAssumption DEF Visited, Passes

(* The items an arrival by the left is not about keep their matches.       *)
LEMMA OthersKeepPartners ==
  ASSUME MemoriesTypeOK, NEW l \in Left, NEW tag, Shows(l, tag), rmem' = rmem,
         NEW x \in Left, x # l
  PROVE  Partners(x)' = Partners(x)
<1>1. \A r \in rmem : val'[r] = val[r]
  BY DEF MemoriesTypeOK, Shows
<1>2. val'[x] = val[x]
  BY DEF Shows
<1> QED BY <1>1, <1>2 DEF Partners, Joined, Tested

(* So does an item by the left when it is modified or retracted.           *)
LEMMA StoredKeepsPartners ==
  ASSUME MemoriesTypeOK, NEW l \in lmem, NEW tag, Shows(l, tag), rmem' = rmem
  PROVE  Partners(l)' = Partners(l) /\ val' = val
<1>1. val' = val
  BY DEF MemoriesTypeOK, Shows
<1> QED BY <1>1 DEF Partners, Joined, Tested

(* How the matches of l change when it is told t of r. *)
PartnersChange(l, r, t) ==
  /\ t = "INSERT" => r \notin Partners(l) /\ Partners(l)' = Partners(l) \union {r}
  /\ t = "MODIFY" => r \in Partners(l) /\ Partners(l)' = Partners(l)
  /\ t = "RETRACT" => r \in Partners(l) /\ Partners(l)' = Partners(l) \ {r}
  /\ t = "none" => Partners(l)' = Partners(l)

(* The tag an item by the left gets from an arrival by the right says how  *)
(* its matches change: by that one item at most.                           *)
LEMMA ByRightSettles ==
  ASSUME MemoriesTypeOK, AsymKept, NEW r \in Right, NEW tag \in Tag, Shows(r, tag),
         NEW before, r \in rmem => before = val, NEW stored,
         stored = StoredTag(tag, r \in rmem, RightTrigger),
         rmem' = Remember(rmem, r, stored, RightTrigger),
         NEW l \in lmem, NEW t,
         t = IF l \in (IF stored = "none" THEN {} ELSE Visited(lmem, val', r))
             THEN PairTag(stored, before, val', l, r) ELSE "none"
  PROVE  t \in Tag \union {"none"} /\ PartnersChange(l, r, t)
<1> DEFINE Now == Tested(l, r) /\ <<val'[l], val'[r]>> \in Joins
           Was == Tested(l, r) /\ <<val[l], val[r]>> \in Joins
<1>1. \/ stored = "none" /\ tag = "INSERT" /\ r \in rmem
      \/ stored = "none" /\ tag = "RETRACT" /\ r \notin rmem
      \/ stored = "INSERT" /\ tag # "RETRACT" /\ r \notin rmem
      \/ stored = "MODIFY" /\ tag = "MODIFY" /\ r \in rmem
      \/ stored = "RETRACT" /\ tag = "RETRACT" /\ r \in rmem
  BY DEF StoredTag, Tag, AsymKept
<1>2. /\ stored \in {"INSERT", "MODIFY"} => rmem' = rmem \union {r}
      /\ stored = "RETRACT" => rmem' = rmem \ {r}
      /\ stored = "none" => rmem' = rmem
  BY <1>1 DEF Remember, AsymKept
<1>3. /\ val'[l] = val[l] /\ l \in Left /\ rmem \subseteq Right
      /\ val \in [Left \union Right -> Value] /\ val' \in [Left \union Right -> Value]
  BY DEF Shows, MemoriesTypeOK
<1>4. \A x \in Right : x # r => val'[x] = val[x]
  BY DEF Shows
<1>5. \A x : x # r => (x \in Partners(l)' <=> x \in Partners(l))
  BY <1>1, <1>2, <1>3, <1>4 DEF Partners, Joined, Tested
<1>6. /\ r \in Partners(l) <=> r \in rmem /\ Was
      /\ r \in Partners(l)' <=> r \in rmem' /\ Now
  BY DEF Partners, Joined, Tested
<1>7. /\ stored # "none" /\ t \in Tag => l \in Visited(lmem, val', r)
      /\ l \in Visited(lmem, val', r) /\ Passes(val', l, r) <=> Now
  BY <1>3, VisitedMatch DEF Tag
<1> HIDE DEF Now, Was
<1>8. CASE stored = "none"
  <2>1. t = "none" /\ rmem' = rmem
    BY <1>8, <1>2
  <2>2. r \in rmem => (Now <=> Was)
    BY <1>1, <1>3, <1>8 DEF Shows, Now, Was
  <2>3. Partners(l)' = Partners(l)
    BY <2>1, <2>2, <1>5, <1>6
  <2> QED BY <2>1, <2>3 DEF PartnersChange
<1>9. CASE stored = "INSERT"
  <2>1. t = IF Now THEN "INSERT" ELSE "none"
    BY <1>9, <1>7 DEF PairTag
  <2>2. r \notin rmem /\ r \in rmem'
    BY <1>1, <1>2, <1>9
  <2> QED BY <2>1, <2>2, <1>5, <1>6 DEF PartnersChange, Tag
<1>10. CASE stored = "RETRACT"
  <2>1. t = IF Now THEN "RETRACT" ELSE "none"
    BY <1>10, <1>7 DEF PairTag
  <2>2. r \in rmem /\ r \notin rmem'
    BY <1>1, <1>2, <1>10
  <2>3. Now <=> Was
    BY <2>2, <1>1, <1>3, <1>10 DEF Shows, Now, Was
  <2> QED BY <2>1, <2>2, <2>3, <1>5, <1>6 DEF PartnersChange, Tag
<1>11. CASE stored = "MODIFY"
  <2>1. r \in rmem /\ r \in rmem' /\ before = val
    BY <1>1, <1>2, <1>11
  <2>2. Keyed => val'[r] = val[r]
    BY <2>1 DEF Shows
  <2>3. l \in Visited(lmem, val', r) => (Passes(val, l, r) <=> Was)
    BY <2>2, <1>3, BetaAssumption DEF Visited, Passes, Was
  <2>4. l \notin Visited(lmem, val', r) => ~Now /\ ~Was
    <3>1. l \notin Visited(lmem, val', r) => Keyed /\ val'[l] # val'[r]
      BY DEF Visited
    <3> QED BY <3>1, <2>2, <1>3, BetaAssumption DEF Now, Was
  <2>5. t = IF Was THEN IF Now THEN "MODIFY" ELSE "RETRACT"
            ELSE IF Now THEN "INSERT" ELSE "none"
    BY <1>11, <1>7, <2>1, <2>3, <2>4 DEF PairTag
  <2> QED BY <2>1, <2>5, <1>5, <1>6 DEF PartnersChange, Tag
<1> QED BY <1>1, <1>8, <1>9, <1>10, <1>11

(* And the counter follows them. *)
LEMMA ByRightCounts ==
  ASSUME MemoriesTypeOK, AsymKept, NEW l, NEW r, NEW t \in Tag \union {"none"},
         PartnersChange(l, r, t)
  PROVE  /\ Cardinality(Partners(l)') = Counted(Cardinality(Partners(l)), t)
         /\ Cardinality(Partners(l)') \in Nat
         /\ t \in {"MODIFY", "RETRACT"} => Cardinality(Partners(l)) # 0
<1>1. IsFiniteSet(Partners(l)) /\ Cardinality(Partners(l)) \in Nat
  BY PartnersFinite
<1>2. t \in {"MODIFY", "RETRACT"} => Cardinality(Partners(l)) # 0
  BY <1>1, FS_EmptySet DEF PartnersChange
<1>3. CASE t = "INSERT"
  <2>1. Partners(l)' = Partners(l) \union {r}
    BY <1>3 DEF PartnersChange
  <2>2. Cardinality(Partners(l)') = Cardinality(Partners(l)) + 1
    BY <2>1, <1>1, <1>3, FS_AddElement DEF PartnersChange
  <2> QED BY <2>2, <1>1, <1>2, <1>3 DEF Counted
<1>4. CASE t = "RETRACT"
  <2>1. Partners(l)' = Partners(l) \ {r} /\ r \in Partners(l)
    BY <1>4 DEF PartnersChange
  <2>2. Cardinality(Partners(l)') = Cardinality(Partners(l)) - 1
    BY <2>1, <1>1, FS_RemoveElement
  <2> QED BY <2>2, <1>1, <1>2, <1>4 DEF Counted
<1>5. CASE t \notin {"INSERT", "RETRACT"}
  BY <1>1, <1>2, <1>5 DEF Counted, PartnersChange, Tag
<1> QED BY <1>3, <1>4, <1>5

-----------------------------------------------------------------------------
(* The messages are one about each thing of V, with the tags of T. *)
EachAbout(notes, V, T) ==
  /\ \A x \in V : T[x] \in Tag \union {"none"}
  /\ \A m : m \in notes <=> \E x \in V : m = Note(T[x], x)

(* What the children hold, and were told, then.                            *)
Settle(V, T) ==
  /\ \A x : x \in out' <=> IF x \in V THEN \/ T[x] \in {"INSERT", "MODIFY"}
                                           \/ T[x] = "none" /\ x \in out
                           ELSE x \in out
  /\ \A m \in sent' : \E x \in V : m = Note(T[x], x) /\ T[x] \in Tag

(* Messages that are each about one thing settle it and leave the rest.    *)
LEMMA NotesTold ==
  ASSUME ~LeftTrigger, ~RightTrigger, NEW notes, Tell(notes), NEW V, NEW T,
         EachAbout(notes, V, T)
  PROVE  Settle(V, T)
<1> USE DEF EachAbout
<1>1. \A x : Note(T[x], x).tag = T[x] /\ Note(T[x], x).was = x /\ Note(T[x], x).is = x
  BY DEF Note
<1>2. PICK msgs : msgs = {m \in notes : m.tag \in Tag} /\ sent' = msgs /\ out' = Held(msgs)
  BY DEF Tell
<1>3. \A m : m \in msgs <=> \E x \in V : m = Note(T[x], x) /\ T[x] \in Tag
  BY <1>1, <1>2
<1>4. ASSUME NEW x
      PROVE  x \in out' <=> IF x \in V THEN \/ T[x] \in {"INSERT", "MODIFY"}
                                            \/ T[x] = "none" /\ x \in out
                            ELSE x \in out
  <2>1. x \in {m.was : m \in {n \in msgs : n.tag # "INSERT"}}
          <=> x \in V /\ T[x] \in {"MODIFY", "RETRACT"}
    <3>1. x \in {m.was : m \in {n \in msgs : n.tag # "INSERT"}}
            <=> \E m \in msgs : m.tag # "INSERT" /\ m.was = x
      OBVIOUS
    <3>2. (\E m \in msgs : m.tag # "INSERT" /\ m.was = x)
            <=> \E y \in V : T[y] \in Tag /\ T[y] # "INSERT" /\ y = x
      BY <1>1, <1>3
    <3> QED BY <3>1, <3>2 DEF Tag
  <2>2. x \in {m.is : m \in {n \in msgs : n.tag # "RETRACT"}}
          <=> x \in V /\ T[x] \in {"INSERT", "MODIFY"}
    <3>1. x \in {m.is : m \in {n \in msgs : n.tag # "RETRACT"}}
            <=> \E m \in msgs : m.tag # "RETRACT" /\ m.is = x
      OBVIOUS
    <3>2. (\E m \in msgs : m.tag # "RETRACT" /\ m.is = x)
            <=> \E y \in V : T[y] \in Tag /\ T[y] # "RETRACT" /\ y = x
      BY <1>1, <1>3
    <3> QED BY <3>1, <3>2 DEF Tag
  <2>3. x \in out' <=> \/ x \in out /\ ~(x \in V /\ T[x] \in {"MODIFY", "RETRACT"})
                       \/ x \in V /\ T[x] \in {"INSERT", "MODIFY"}
    BY <1>2, <2>1, <2>2 DEF Held
  <2> QED BY <2>3 DEF Tag
<1> QED BY <1>2, <1>3, <1>4 DEF Settle

(* No message, no change. *)
LEMMA NothingTold ==
  ASSUME Tell({}) PROVE out' = out /\ sent' = {}
BY DEF Tell, Held

-----------------------------------------------------------------------------
(* The NAND node. *)
NandOutFollows == out = {l \in lmem : Partners(l) = {}}

NandIInv == /\ NandTypeOK
        /\ AsymInv
        /\ NandOutFollows

(* What an arrival leaves right, besides the values and what is due.       *)
NandNodeOK == /\ lmem \subseteq Left /\ rmem \subseteq Right
          /\ CountsTypeOK
          /\ out \subseteq Left
          /\ sent \subseteq [tag : Tag, was : Left, is : Left]
          /\ CountsMatch
          /\ Sound
          /\ NandOutFollows

-----------------------------------------------------------------------------
(* An arrival by the left. *)
LEMMA NandByLeftOK ==
  ASSUME NandIInv, AsymKept, NEW l \in Left, NEW tag \in Tag, Shows(l, tag),
         NEW before, l \in lmem => before = val, NandByLeft(l, tag, before, val')
  PROVE  NandNodeOK' /\ EachFits
<1> DEFINE stored == StoredTag(tag, l \in lmem, LeftTrigger)
<1>1. /\ lmem \subseteq Left /\ rmem \subseteq Right /\ MemoriesTypeOK
      /\ count \in [Left -> Nat] /\ out \subseteq Left /\ out = {x \in lmem : Partners(x) = {}}
      /\ CountsMatch /\ ~LeftTrigger /\ ~RightTrigger
      /\ val' \in [Left \union Right -> Value]
  BY DEF NandIInv, AsymInv, NandOutFollows, NandTypeOK, MemoriesTypeOK, CountsTypeOK, AsymKept, Shows
<1>2. \/ stored = "none" /\ tag = "INSERT" /\ l \in lmem
      \/ stored = "none" /\ tag = "RETRACT" /\ l \notin lmem
      \/ stored = "INSERT" /\ tag # "RETRACT" /\ l \notin lmem
      \/ stored = "MODIFY" /\ tag = "MODIFY" /\ l \in lmem
      \/ stored = "RETRACT" /\ tag = "RETRACT" /\ l \in lmem
  BY <1>1 DEF StoredTag, Tag
<1>3. /\ lmem' = Remember(lmem, l, stored, LeftTrigger)
      /\ rmem' = rmem
  BY DEF NandByLeft
<1>4. /\ stored \in {"INSERT", "MODIFY"} => lmem' = lmem \union {l}
      /\ stored = "RETRACT" => lmem' = lmem \ {l}
      /\ stored = "none" => lmem' = lmem
  BY <1>1, <1>2, <1>3 DEF Remember
<1>5. lmem' \subseteq Left /\ \A x : x # l => (x \in lmem' <=> x \in lmem)
  BY <1>1, <1>2, <1>4
<1>6. \A x \in Left : x # l => Partners(x)' = Partners(x)
  BY <1>1, <1>3, OthersKeepPartners
<1>7. l \in lmem => Partners(l)' = Partners(l) /\ val' = val /\ before = val
  BY <1>1, <1>3, StoredKeepsPartners
<1>8. \A x : x \in Partners(l)' <=> x \in Visited(rmem, val', l) /\ Passes(val', l, x)
  <2>1. \A x \in Right : x \in Visited(rmem, val', l) /\ Passes(val', l, x) <=>
                           x \in rmem /\ Tested(l, x) /\ <<val'[l], val'[x]>> \in Joins
    BY <1>1, VisitedMatch
  <2>2. Visited(rmem, val', l) \subseteq Right
    BY <1>1 DEF Visited
  <2>3. \A x : x \in Partners(l)' <=>
                 x \in rmem /\ Tested(l, x) /\ <<val'[l], val'[x]>> \in Joins
    BY <1>3 DEF Partners, Joined, Tested
  <2> QED BY <1>1, <2>1, <2>2, <2>3
<1>9. IsFiniteSet(Partners(l)') /\ Cardinality(Partners(l)') \in Nat
  <2>1. Partners(l)' \subseteq Right
    BY <1>1, <1>3 DEF Partners
  <2> QED BY <2>1, FS_Subset, FS_CardinalityType DEF AsymKept
<1>10. CountsMatch' <=> count' = [x \in Left |-> IF x \in lmem'
                                                 THEN Cardinality(Partners(x)') ELSE 0]
  BY DEF CountsMatch
<1> HIDE DEF stored
<1>11. CASE stored = "none"
  <2>1. Tell({}) /\ disposed' = Disposed(tag, "none") /\ count' = count
    BY <1>11 DEF NandByLeft, stored
  <2>2. out' = out /\ sent' = {}
    BY <2>1, NothingTold
  <2>3. disposed' = "kept"
    BY <1>1, <2>1 DEF Disposed
  <2>4. \A x \in lmem : Partners(x)' = Partners(x)
    BY <1>1, <1>6, <1>7
  <2>5. CountsMatch'
    BY <1>1, <1>4, <1>10, <1>11, <2>1, <2>4 DEF CountsMatch
  <2>6. NandOutFollows'
    BY <1>1, <1>4, <1>11, <2>2, <2>4 DEF NandOutFollows
  <2> QED BY <1>1, <1>3, <1>5, <2>1, <2>2, <2>3, <2>5, <2>6
          DEF NandNodeOK, CountsTypeOK, Disposal, Sound, EachFits
<1>12. CASE stored # "none"
  <2>1. PICK mask \in Masks(stored, before, val', l) :
          LET applied == Applied(stored, mask)
              n == NandRecount(stored, before, val', l)
          IN /\ Tell(IF n = 0 THEN {Note(applied, l)} ELSE {})
             /\ disposed' = Disposed(stored, applied)
             /\ count' = [count EXCEPT ![l] = IF l \in lmem' THEN n ELSE 0]
    BY <1>12 DEF NandByLeft, stored
  <2> DEFINE applied == Applied(stored, mask)
             n == NandRecount(stored, before, val', l)
  <2>2. n = Cardinality(Partners(l)')
    <3>1. Matches(val', l, Visited(rmem, val', l)) = Partners(l)'
      BY <1>8 DEF Matches
    <3>2. l \in lmem => Matches(before, l, Visited(rmem, val', l)) = Partners(l)'
      BY <1>7, <3>1
    <3>3. Counter(l) = IF l \in lmem THEN Cardinality(Partners(l)) ELSE 0
      BY <1>1 DEF Counter, CountsMatch
    <3>4. CASE stored = "INSERT"
      <4>1. n = Counter(l) + Cardinality(Partners(l)') /\ Counter(l) = 0
        BY <1>2, <3>1, <3>3, <3>4 DEF NandRecount
      <4> QED BY <4>1, <1>9
    <3>5. CASE stored = "MODIFY"
      <4>1. n = Cardinality(Partners(l)') + Cardinality(Partners(l)') - Cardinality(Partners(l)')
        BY <1>2, <1>7, <3>1, <3>2, <3>3, <3>5 DEF NandRecount
      <4> QED BY <4>1, <1>9
    <3>6. CASE stored = "RETRACT"
      BY <1>2, <1>7, <3>3, <3>6 DEF NandRecount
    <3> QED BY <1>2, <1>12, <3>4, <3>5, <3>6
  <2> HIDE DEF n
  <2>3. n \in Nat /\ (n = 0 <=> Partners(l)' = {})
    BY <1>9, <2>2, FS_EmptySet
  <2>4. ASSUME NEW x \in Visited(rmem, val', l)
        PROVE  PairTag(stored, before, val', l, x) =
                 IF x \in Partners(l)' THEN stored ELSE "none"
    <3>1. Passes(val', l, x) <=> x \in Partners(l)'
      BY <1>8
    <3>2. stored = "MODIFY" => before = val'
      BY <1>2, <1>7
    <3> QED BY <3>1, <3>2 DEF PairTag
  <2>5. mask \in {"none", stored} /\ (stored = "RETRACT" \/ n = 0 => mask = "none")
    BY <2>3, <2>4 DEF Masks
  <2>6. applied \in {"none", stored} /\ (stored = "RETRACT" \/ n = 0 => applied = stored)
    BY <1>2, <1>12, <2>5 DEF Applied, Inverted
  <2>7. disposed' = IF stored = "RETRACT" THEN "own" ELSE "kept"
    BY <1>1, <1>2, <1>12, <2>1, <2>6 DEF Disposed
  <2>8. count' = [x \in Left |-> IF x \in lmem' THEN Cardinality(Partners(x)') ELSE 0]
    <3>1. count' = [count EXCEPT ![l] = IF l \in lmem' THEN n ELSE 0]
      BY <2>1 DEF n
    <3>2. \A x \in Left : count'[x] = IF x \in lmem' THEN Cardinality(Partners(x)') ELSE 0
      BY <1>1, <1>5, <1>6, <2>2, <3>1 DEF CountsMatch
    <3> QED BY <1>1, <3>1, <3>2
  <2>9. count' \in [Left -> Nat]
    BY <1>1, <2>1, <2>3 DEF n
  <2> HIDE DEF applied
  <2>10. /\ \A x : x \in out' <=> IF x = l THEN l \in lmem' /\ Partners(l)' = {}
                                  ELSE x \in out
         /\ sent' \subseteq [tag : Tag, was : Left, is : Left]
         /\ EachFits
    <3>1. CASE n = 0
      <4> PICK V, T, notes : /\ V = {l} /\ T = [x \in {l} |-> stored]
                             /\ notes = {Note(stored, l)}
        OBVIOUS
      <4>1. ~LeftTrigger /\ ~RightTrigger /\ Tell(notes)
        BY <1>1, <2>1, <2>6, <3>1 DEF n, applied
      <4>2. EachAbout(notes, V, T)
        <5>1. \A x \in V : T[x] \in Tag \union {"none"}
          BY <1>2 DEF Tag
        <5>2. \A m : m \in notes <=> \E x \in V : m = Note(T[x], x)
          OBVIOUS
        <5> QED BY <5>1, <5>2 DEF EachAbout
      <4>3. T[l] = stored
        OBVIOUS
      <4>4. Settle(V, T)
        BY <4>1, <4>2, NotesTold
      <4>5. l \in out' <=> stored \in {"INSERT", "MODIFY"}
        BY <4>3, <4>4, <1>2, <1>12 DEF Settle
      <4>6. \A m \in sent' : m = Note(stored, l) /\ stored \in Tag
        BY <4>3, <4>4 DEF Settle
      <4>7. sent' \subseteq [tag : Tag, was : Left, is : Left]
        BY <4>6 DEF Note
      <4>8. EachFits
        <5>1. stored = "INSERT" => l \notin out
          BY <1>1, <1>2
        <5>2. stored \in {"MODIFY", "RETRACT"} => l \in out
          BY <1>1, <1>2, <1>7, <2>3, <3>1
        <5>3. \A m \in sent' : m.tag = stored /\ m.was = l /\ m.is = l
          BY <4>6 DEF Note
        <5> QED BY <5>1, <5>2, <5>3, <1>2, <1>12 DEF EachFits, Fits
      <4>9. l \in lmem' <=> stored \in {"INSERT", "MODIFY"}
        BY <1>2, <1>4, <1>12
      <4>10. \A x : x # l => (x \in out' <=> x \in out)
        BY <4>4 DEF Settle
      <4> QED BY <4>5, <4>7, <4>8, <4>9, <4>10, <2>3, <3>1
    <3>2. CASE n # 0
      <4>1. Tell({})
        BY <2>1, <3>2 DEF n
      <4>2. out' = out /\ sent' = {}
        BY <4>1, NothingTold
      <4>3. l \notin out
        BY <1>1, <1>7, <2>3, <3>2
      <4> QED BY <4>2, <4>3, <2>3, <3>2 DEF EachFits
    <3> QED BY <3>1, <3>2
  <2>11. out' = {x \in lmem' : Partners(x)' = {}}
    BY <1>1, <1>5, <1>6, <2>10
  <2>12. NandOutFollows' /\ out' \subseteq Left
    BY <1>5, <2>11 DEF NandOutFollows
  <2> QED BY <1>1, <1>3, <1>5, <1>10, <2>7, <2>8, <2>9, <2>10, <2>12
          DEF NandNodeOK, CountsTypeOK, Disposal, Sound
<1> QED BY <1>11, <1>12

(* An arrival by the right. *)
LEMMA NandByRightOK ==
  ASSUME NandIInv, AsymKept, NEW r \in Right, NEW tag \in Tag, Shows(r, tag),
         NEW before, r \in rmem => before = val, NandByRight(r, tag, before, val')
  PROVE  NandNodeOK' /\ EachFits
<1> DEFINE stored == StoredTag(tag, r \in rmem, RightTrigger)
           visited == IF stored = "none" THEN {} ELSE Visited(lmem, val', r)
           told(l) == PairTag(stored, before, val', l, r)
<1>1. /\ lmem \subseteq Left /\ rmem \subseteq Right /\ MemoriesTypeOK
      /\ count \in [Left -> Nat] /\ out \subseteq Left /\ out = {x \in lmem : Partners(x) = {}}
      /\ CountsMatch /\ ~LeftTrigger /\ ~RightTrigger /\ Sound
  BY DEF NandIInv, AsymInv, NandOutFollows, NandTypeOK, MemoriesTypeOK, CountsTypeOK, AsymKept
<1>2. /\ rmem' = Remember(rmem, r, stored, RightTrigger)
      /\ Tell({Told(l, told(l)) : l \in visited})
      /\ count' = [l \in Left |->
                     IF l \in visited THEN Counted(count[l], told(l)) ELSE count[l]]
      /\ lmem' = lmem /\ disposed' = disposed
  BY DEF NandByRight
<1>3. rmem' \subseteq Right
  BY <1>1, <1>2 DEF Remember
<1>4. PICK t : t = [l \in lmem |-> IF l \in visited THEN told(l) ELSE "none"]
  OBVIOUS
<1>5. visited \subseteq lmem
  BY DEF Visited
<1>6. ASSUME NEW l \in lmem
      PROVE  /\ t[l] \in Tag \union {"none"}
             /\ PartnersChange(l, r, t[l])
  <2>1. t[l] = IF l \in (IF stored = "none" THEN {} ELSE Visited(lmem, val', r))
               THEN PairTag(stored, before, val', l, r) ELSE "none"
    BY <1>4
  <2> HIDE DEF visited, told
  <2>2. stored = StoredTag(tag, r \in rmem, RightTrigger)
    OBVIOUS
  <2> HIDE DEF stored
  <2> QED BY <1>1, <1>2, <2>1, <2>2, ByRightSettles
<1> HIDE DEF stored, visited, told
<1>7. ASSUME NEW l \in lmem
      PROVE  /\ Cardinality(Partners(l)') = Counted(count[l], t[l])
             /\ Cardinality(Partners(l)') \in Nat
             /\ Partners(l)' = {} <=> Cardinality(Partners(l)') = 0
             /\ t[l] \in {"MODIFY", "RETRACT"} => count[l] # 0
             /\ l \in out <=> count[l] = 0
  <2>1. count[l] = Cardinality(Partners(l))
    BY <1>1 DEF CountsMatch
  <2>2. /\ Cardinality(Partners(l)') = Counted(Cardinality(Partners(l)), t[l])
        /\ Cardinality(Partners(l)') \in Nat
        /\ t[l] \in {"MODIFY", "RETRACT"} => Cardinality(Partners(l)) # 0
    BY <1>1, <1>6, ByRightCounts
  <2>3. IsFiniteSet(Partners(l)) /\ (l \in out <=> Partners(l) = {})
    BY <1>1, PartnersFinite
  <2>4. Partners(l)' \subseteq Right
    BY <1>3 DEF Partners
  <2>5. IsFiniteSet(Partners(l)')
    BY <2>4, FS_Subset DEF AsymKept
  <2> QED BY <2>1, <2>2, <2>3, <2>5, FS_EmptySet
<1>8. \A l \in lmem : count'[l] = Cardinality(Partners(l)')
  <2>1. ASSUME NEW l \in lmem
        PROVE  count'[l] = Counted(count[l], t[l])
    <3>1. count'[l] = IF l \in visited THEN Counted(count[l], told(l)) ELSE count[l]
      BY <1>1, <1>2
    <3>2. t[l] = IF l \in visited THEN told(l) ELSE "none"
      BY <1>4
    <3>3. Counted(count[l], "none") = count[l]
      BY DEF Counted
    <3> QED BY <3>1, <3>2, <3>3
  <2> QED BY <2>1, <1>7
<1>9. count' = [l \in Left |-> IF l \in lmem' THEN Cardinality(Partners(l)') ELSE 0]
  <2>1. \A l \in Left : l \notin lmem => count'[l] = 0
    BY <1>1, <1>2, <1>5 DEF CountsMatch
  <2> QED BY <1>2, <1>8, <2>1
<1>10. CountsMatch' /\ count' \in [Left -> Nat]
  BY <1>2, <1>7, <1>9 DEF CountsMatch
<1>11. PICK T, notes :
         /\ T = [l \in visited |-> IF (IF t[l] = "INSERT" THEN count[l] + 1 ELSE count[l]) = 1
                                   THEN Inverted(t[l]) ELSE "none"]
         /\ notes = {Told(l, told(l)) : l \in visited}
  OBVIOUS
<1>12. ASSUME NEW l \in visited
       PROVE  /\ Told(l, told(l)) = Note(T[l], l)
              /\ T[l] = IF t[l] = "INSERT" /\ count[l] = 0 THEN "RETRACT"
                        ELSE IF t[l] = "RETRACT" /\ count[l] = 1 THEN "INSERT" ELSE "none"
  <2>1. l \in lmem /\ t[l] = told(l)
    BY <1>4, <1>5
  <2>2. T[l] = IF (IF t[l] = "INSERT" THEN count[l] + 1 ELSE count[l]) = 1
               THEN Inverted(t[l]) ELSE "none"
    BY <1>11
  <2>3. count[l] \in Nat
    BY <1>1, <2>1
  <2>4. Told(l, told(l)) = Note(T[l], l)
    BY <2>1, <2>2 DEF Told
  <2> QED BY <2>2, <2>3, <2>4 DEF Inverted
<1>13. EachAbout(notes, visited, T)
  <2>1. \A x \in visited : T[x] \in Tag \union {"none"}
    BY <1>12 DEF Tag
  <2>2. \A m : m \in notes <=> \E x \in visited : m = Note(T[x], x)
    BY <1>11, <1>12
  <2> QED BY <2>1, <2>2 DEF EachAbout
<1>14. Settle(visited, T)
  <2>1. Tell(notes)
    BY <1>2, <1>11
  <2> QED BY <1>1, <1>13, <2>1, NotesTold
<1>15. ASSUME NEW l \in lmem
       PROVE  l \in out' <=> Partners(l)' = {}
  <2>1. /\ count[l] \in Nat /\ (l \in out <=> count[l] = 0)
        /\ t[l] \in Tag \union {"none"}
        /\ t[l] \in {"MODIFY", "RETRACT"} => count[l] # 0
    BY <1>1, <1>6, <1>7
  <2>2. Partners(l)' = {} <=> Counted(count[l], t[l]) = 0
    BY <1>7
  <2>3. CASE l \in visited
    <3>1. T[l] = IF t[l] = "INSERT" /\ count[l] = 0 THEN "RETRACT"
                 ELSE IF t[l] = "RETRACT" /\ count[l] = 1 THEN "INSERT" ELSE "none"
      BY <1>12, <2>3
    <3>2. l \in out' <=> (T[l] \in {"INSERT", "MODIFY"} \/ (T[l] = "none" /\ l \in out))
      BY <1>14, <2>3 DEF Settle
    <3> QED BY <2>1, <2>2, <3>1, <3>2 DEF Counted, Tag
  <2>4. CASE l \notin visited
    <3>1. t[l] = "none" /\ (l \in out' <=> l \in out)
      BY <1>4, <1>14, <2>4 DEF Settle
    <3> QED BY <2>1, <2>2, <3>1 DEF Counted
  <2> QED BY <2>3, <2>4
<1>16. \A x : x \in out' => x \in lmem
  BY <1>1, <1>5, <1>14 DEF Settle
<1>17. NandOutFollows' /\ out' \subseteq Left
  BY <1>1, <1>2, <1>15, <1>16 DEF NandOutFollows
<1>18. sent' \subseteq [tag : Tag, was : Left, is : Left]
  <2>1. \A m \in sent' : \E x \in Left : \E g \in Tag : m = Note(g, x)
    BY <1>1, <1>5, <1>14 DEF Settle
  <2> QED BY <2>1 DEF Note
<1>19. EachFits
  <2>1. ASSUME NEW m \in sent' PROVE Fits(m)
    <3>1. PICK x \in visited : m = Note(T[x], x) /\ T[x] \in Tag
      BY <1>14 DEF Settle
    <3>2. m.tag = T[x] /\ m.was = x /\ m.is = x
      BY <3>1 DEF Note
    <3>3. x \in lmem /\ (x \in out <=> count[x] = 0)
      BY <1>5, <1>7
    <3>4. \/ T[x] = "RETRACT" /\ count[x] = 0
          \/ T[x] = "INSERT" /\ count[x] = 1
      BY <1>12, <3>1 DEF Tag
    <3> QED BY <3>2, <3>3, <3>4 DEF Fits
  <2> QED BY <2>1 DEF EachFits
<1>20. disposed' \in Disposal /\ Sound'
  BY <1>1, <1>2 DEF Disposal, Sound
<1>21. lmem' \subseteq Left
  BY <1>1, <1>2
<1> QED BY <1>3, <1>10, <1>17, <1>18, <1>19, <1>20, <1>21 DEF NandNodeOK, CountsTypeOK

-----------------------------------------------------------------------------
(* Every arrival, by its first and by its second side. *)
LEMMA NandArriveLeftOK ==
  ASSUME NandIInv, AsymKept, NEW l \in Left, NEW tag \in Tag, NandArriveLeft(l, tag)
  PROVE  NandIInv' /\ EachFits
<1>1. MemoriesTypeOK /\ DueIsFaithful
  BY DEF NandIInv, AsymInv
<1>2. CASE \E v \in Arriving(tag, l) :
             Starts("left", l, tag, v) /\ NandByLeft(l, tag, val, val')
  <2>1. PICK v \in Arriving(tag, l) : Starts("left", l, tag, v)
    BY <1>2
  <2>2. rmem' = rmem /\ NandByLeft(l, tag, val, val')
    BY <1>2 DEF NandByLeft
  <2>3. Shows(l, tag) /\ due' \in {Settled} \union Second /\ DueIsFaithful'
    BY <1>1, <2>1, <2>2, StartsOK
  <2>4. NandNodeOK' /\ EachFits
    BY <2>2, <2>3, NandByLeftOK
  <2> QED BY <2>3, <2>4 DEF NandIInv, AsymInv, NandNodeOK, NandTypeOK, MemoriesTypeOK, Shows
<1>3. CASE Ends("left", l, tag) /\ NandByLeft(l, tag, Before, val)
  <2>1. /\ Shows(l, tag) /\ due' \in {Settled} \union Second /\ DueIsFaithful'
        /\ l \in lmem => Before = val
    BY <1>1, <1>3, EndsOK
  <2>2. val' = val
    BY <1>3 DEF Ends
  <2>3. NandByLeft(l, tag, Before, val')
    BY <1>3, <2>2
  <2>4. NandNodeOK' /\ EachFits
    BY <2>1, <2>3, NandByLeftOK
  <2> QED BY <2>1, <2>4 DEF NandIInv, AsymInv, NandNodeOK, NandTypeOK, MemoriesTypeOK, Shows
<1> QED BY <1>2, <1>3 DEF NandArriveLeft

(* The same by the right. *)
LEMMA NandArriveRightOK ==
  ASSUME NandIInv, AsymKept, NEW r \in Right, NEW tag \in Tag, NandArriveRight(r, tag)
  PROVE  NandIInv' /\ EachFits
<1>1. MemoriesTypeOK /\ DueIsFaithful
  BY DEF NandIInv, AsymInv
<1>2. CASE \E v \in Arriving(tag, r) :
             Starts("right", r, tag, v) /\ NandByRight(r, tag, val, val')
  <2>1. PICK v \in Arriving(tag, r) : Starts("right", r, tag, v)
    BY <1>2
  <2>2. lmem' = lmem /\ NandByRight(r, tag, val, val')
    BY <1>2 DEF NandByRight
  <2>3. Shows(r, tag) /\ due' \in {Settled} \union Second /\ DueIsFaithful'
    BY <1>1, <2>1, <2>2, StartsOK
  <2>4. NandNodeOK' /\ EachFits
    BY <2>2, <2>3, NandByRightOK
  <2> QED BY <2>3, <2>4 DEF NandIInv, AsymInv, NandNodeOK, NandTypeOK, MemoriesTypeOK, Shows
<1>3. CASE Ends("right", r, tag) /\ NandByRight(r, tag, Before, val)
  <2>1. /\ Shows(r, tag) /\ due' \in {Settled} \union Second /\ DueIsFaithful'
        /\ r \in rmem => Before = val
    BY <1>1, <1>3, EndsOK
  <2>2. val' = val
    BY <1>3 DEF Ends
  <2>3. NandByRight(r, tag, Before, val')
    BY <1>3, <2>2
  <2>4. NandNodeOK' /\ EachFits
    BY <2>1, <2>3, NandByRightOK
  <2> QED BY <2>1, <2>4 DEF NandIInv, AsymInv, NandNodeOK, NandTypeOK, MemoriesTypeOK, Shows
<1> QED BY <1>2, <1>3 DEF NandArriveRight

(* An item that arrives by the left alone, in the state it is known in.  *)
LEMMA NandLoneLeftOK ==
  ASSUME NandIInv, AsymKept, NEW l \in Left, NEW tag \in Tag, due = Settled,
         due' = due, val' = val, NandByLeft(l, tag, val, val)
  PROVE  NandIInv' /\ EachFits
<1>1. MemoriesTypeOK /\ DueIsFaithful
  BY DEF NandIInv, AsymInv
<1>2. Shows(l, tag)
  BY <1>1 DEF Shows, MemoriesTypeOK
<1>3. NandByLeft(l, tag, val, val') /\ rmem' = rmem
  BY DEF NandByLeft
<1>4. NandNodeOK' /\ EachFits
  BY <1>2, <1>3, NandByLeftOK
<1>5. DueIsFaithful'
  BY DEF DueIsFaithful, Settled
<1> QED BY <1>1, <1>4, <1>5 DEF NandIInv, AsymInv, NandNodeOK, NandTypeOK, MemoriesTypeOK

(* An item that arrives by the right alone, in the state it is known in.  *)
LEMMA NandLoneRightOK ==
  ASSUME NandIInv, AsymKept, NEW r \in Right, NEW tag \in Tag, due = Settled,
         due' = due, val' = val, NandByRight(r, tag, val, val)
  PROVE  NandIInv' /\ EachFits
<1>1. MemoriesTypeOK /\ DueIsFaithful
  BY DEF NandIInv, AsymInv
<1>2. Shows(r, tag)
  BY <1>1 DEF Shows, MemoriesTypeOK
<1>3. NandByRight(r, tag, val, val') /\ lmem' = lmem
  BY DEF NandByRight
<1>4. NandNodeOK' /\ EachFits
  BY <1>2, <1>3, NandByRightOK
<1>5. DueIsFaithful'
  BY DEF DueIsFaithful, Settled
<1> QED BY <1>1, <1>4, <1>5 DEF NandIInv, AsymInv, NandNodeOK, NandTypeOK, MemoriesTypeOK

(* Every step, and everything that is not one. *)
LEMMA NandNextOK ==
  ASSUME NandIInv, AsymKept, [NandNext]_NandVars
  PROVE  NandIInv' /\ [EachFits]_NandVars
<1>1. CASE UNCHANGED NandVars
  BY <1>1 DEF NandVars, NandIInv, AsymInv, NandTypeOK, MemoriesTypeOK, CountsTypeOK, DueIsFaithful,
     CountsMatch, Sound, NandOutFollows, Partners, Joined, Tested
<1>2. CASE NandNext
  BY <1>2, NandArriveLeftOK, NandArriveRightOK DEF NandNext
<1> QED BY <1>1, <1>2

(* The empty memories of a new node satisfy the invariant. *)
LEMMA NandInitOK == NandInit => NandIInv
BY DEF NandInit, MemoriesInit, CountsInit, NandIInv, AsymInv, NandTypeOK, MemoriesTypeOK, CountsTypeOK,
   DueIsFaithful, CountsMatch, Disposal, Sound, NandOutFollows

(* Whatever arrives, nand_call_by_left and nand_call_by_right keep the     *)
(* inductive invariant.                                                    *)
THEOREM NandInvariance == ASSUME AsymKept PROVE NandSpec => []NandIInv
<1>1. NandIInv /\ [NandNext]_NandVars => NandIInv'
  BY NandNextOK
<1> QED BY NandInitOK, <1>1, PTL DEF NandSpec

(* The variables of a NAND node keep their types: no counter is negative.  *)
THEOREM NandTypeCorrect == ASSUME AsymKept PROVE NandSpec => []NandTypeOK
<1>1. NandIInv => NandTypeOK
  BY DEF NandIInv
<1> QED BY NandInvariance, <1>1, PTL

(* The children of a NAND node hold the items by the left that match none  *)
(* by the right.                                                           *)
THEOREM NandUnmatchedCorrect == ASSUME AsymKept PROVE NandSpec => []NandOutIsUnmatched
<1>1. NandIInv => NandOutIsUnmatched
  BY DEF NandIInv, NandOutFollows, NandOutIsUnmatched
<1> QED BY NandInvariance, <1>1, PTL

(* The MatchCount of each item by the left is the number of its matches.   *)
THEOREM NandCountsCorrect == ASSUME AsymKept PROVE NandSpec => []CountIsExact
<1>1. NandIInv => CountIsExact
  BY DEF NandIInv, AsymInv, CountsMatch, CountIsExact, NandTypeOK, MemoriesTypeOK
<1> QED BY NandInvariance, <1>1, PTL

(* nand_call_by_left deletes no counter but the one of an item it forgets. *)
THEOREM NandNeverDeletesInUse == ASSUME AsymKept PROVE NandSpec => []DeletesItsOwn
<1>1. NandIInv => DeletesItsOwn
  BY DEF NandIInv, AsymInv, DeletesItsOwn
<1> QED BY NandInvariance, <1>1, PTL

(* check_nand_cond tells the children to INSERT what they do not hold and  *)
(* to MODIFY or RETRACT what they hold.                                    *)
THEOREM NandNeverStray == ASSUME AsymKept PROVE NandSpec => [][EachFits]_NandVars
<1>1. NandIInv /\ [NandNext]_NandVars => [EachFits]_NandVars
  BY NandNextOK
<1> QED BY NandInvariance, <1>1, PTL DEF NandSpec

-----------------------------------------------------------------------------
(* The OAND node. *)
(* What the children hold, told of each thing apart.                       *)
OandOutFollows ==
  /\ out \subseteq Pair
  /\ \A l \in Left :
       /\ Alone(l) \in out <=> (l \in lmem /\ Partners(l) = {})
       /\ \A r \in Right : <<l, r>> \in out <=> (l \in lmem /\ r \in Partners(l))

OandIInv == /\ OandTypeOK
        /\ AsymInv
        /\ OandOutFollows

(* What an arrival leaves right, besides the values and what is due.       *)
OandNodeOK == /\ lmem \subseteq Left /\ rmem \subseteq Right
          /\ CountsTypeOK
          /\ sent \subseteq [tag : Tag, was : Pair, is : Pair]
          /\ CountsMatch
          /\ Sound
          /\ OandOutFollows

-----------------------------------------------------------------------------
(* The messages about the matches P, all of them items in V, of an item or,*)
(* if it has none, about its pair with Nobody.                             *)
LeftNotes(l, g, P, V) ==
  IF P = {} THEN {Note(g, Alone(l))}
  ELSE {Note(IF x \in P THEN g ELSE "none", <<l, x>>) : x \in V}

(* What the children hold, and were told, then.                            *)
LeftSettled(l, g, P) ==
  /\ Alone(l) \in out' <=> IF P = {} THEN g # "RETRACT" ELSE Alone(l) \in out
  /\ \A x \in Right : <<l, x>> \in out' <=>
       IF x \in P THEN g # "RETRACT" ELSE <<l, x>> \in out
  /\ \A p : p[1] # l => (p \in out' <=> p \in out)
  /\ \A m \in sent' : \/ P = {} /\ m = Note(g, Alone(l))
                      \/ \E x \in P : m = Note(g, <<l, x>>)
  /\ \A p \in out' : p \in out \/ p \in Pair

(* An arrival by the left settles the pairs of its item.                   *)
LEMMA LeftTold ==
  ASSUME ~LeftTrigger, ~RightTrigger, NEW l \in Left, NEW g \in Tag, NEW P, NEW V,
         P \subseteq V, V \subseteq Right, NEW notes, Tell(notes),
         notes = LeftNotes(l, g, P, V)
  PROVE  LeftSettled(l, g, P)
<1> USE DEF LeftNotes, LeftSettled
<1>1. Nobody \notin P
  BY NobodyAssumption
<1>2. CASE P = {}
  <2> PICK S, T : S = {Alone(l)} /\ T = [p \in {Alone(l)} |-> g]
    OBVIOUS
  <2>1. EachAbout(notes, S, T)
    <3>1. \A m : m \in notes <=> m = Note(g, Alone(l))
      BY <1>2
    <3> QED BY <3>1 DEF EachAbout
  <2>2. Settle(S, T)
    BY <2>1, NotesTold
  <2>3. \A p : p \in out' <=> IF p = Alone(l) THEN g # "RETRACT" ELSE p \in out
    BY <2>2 DEF Settle, Tag
  <2>4. \A m \in sent' : m = Note(g, Alone(l))
    BY <2>2 DEF Settle
  <2>5. Alone(l)[1] = l /\ Alone(l) \in Pair /\ \A x \in Right : <<l, x>> # Alone(l)
    BY NobodyAssumption DEF Alone, Pair
  <2>6. Alone(l) \in out' <=> g # "RETRACT"
    BY <2>3
  <2>7. \A x \in Right : <<l, x>> \in out' <=> <<l, x>> \in out
    BY <2>3, <2>5
  <2>8. \A p : p[1] # l => (p \in out' <=> p \in out)
    BY <2>3, <2>5
  <2>9. \A p \in out' : p \in out \/ p \in Pair
    BY <2>3, <2>5
  <2> QED BY <1>2, <2>4, <2>6, <2>7, <2>8, <2>9
<1>3. CASE P # {}
  <2> PICK S, T : S = {<<l, x>> : x \in V}
                  /\ T = [p \in S |-> IF p[2] \in P THEN g ELSE "none"]
    OBVIOUS
  <2>0. \A x \in V : <<l, x>> \in S /\ T[<<l, x>>] = IF x \in P THEN g ELSE "none"
    OBVIOUS
  <2>1. EachAbout(notes, S, T)
    <3>1. \A p \in S : T[p] \in Tag \union {"none"}
      OBVIOUS
    <3>2. ASSUME NEW m PROVE m \in notes <=> \E p \in S : m = Note(T[p], p)
      <4>1. m \in notes <=> \E x \in V : m = Note(IF x \in P THEN g ELSE "none", <<l, x>>)
        BY <1>3
      <4>2. \A x \in V : Note(IF x \in P THEN g ELSE "none", <<l, x>>)
                          = Note(T[<<l, x>>], <<l, x>>)
        BY <2>0
      <4>3. (\E p \in S : m = Note(T[p], p)) <=> \E x \in V : m = Note(T[<<l, x>>], <<l, x>>)
        OBVIOUS
      <4> QED BY <4>1, <4>2, <4>3
    <3> QED BY <3>1, <3>2 DEF EachAbout
  <2>2. Settle(S, T)
    BY <2>1, NotesTold
  <2>3. \A p : p \in out' <=> IF p \in S THEN (T[p] \in {"INSERT", "MODIFY"}
                                               \/ (T[p] = "none" /\ p \in out))
                              ELSE p \in out
    BY <2>2 DEF Settle
  <2>4. \A x \in Right : <<l, x>> \in out' <=>
              IF x \in P THEN g # "RETRACT" ELSE <<l, x>> \in out
    <3> TAKE x \in Right
    <3>1. CASE x \in V
      BY <2>0, <2>3, <3>1 DEF Tag
    <3>2. CASE x \notin V
      <4>1. <<l, x>> \notin S
        BY <3>2
      <4> QED BY <2>3, <3>2, <4>1
    <3> QED BY <3>1, <3>2
  <2>5. Alone(l) \in out' <=> Alone(l) \in out
    <3>1. Alone(l) \notin S
      BY NobodyAssumption DEF Alone
    <3> QED BY <2>3, <3>1
  <2>6. \A p : p[1] # l => (p \in out' <=> p \in out)
    BY <2>3
  <2>7. \A m \in sent' : \E x \in P : m = Note(g, <<l, x>>)
    <3> TAKE m \in sent'
    <3>1. PICK p \in S : m = Note(T[p], p) /\ T[p] \in Tag
      BY <2>2 DEF Settle
    <3>2. PICK x \in V : p = <<l, x>>
      OBVIOUS
    <3>3. x \in P /\ T[p] = g
      BY <2>0, <3>1, <3>2 DEF Tag
    <3> QED BY <3>1, <3>2, <3>3
  <2>8. \A p \in out' : p \in out \/ p \in Pair
    <3>1. \A x \in V : <<l, x>> \in Pair
      BY DEF Pair
    <3>2. \A p \in S : p \in Pair
      BY <3>1
    <3> QED BY <2>3, <3>2
  <2> QED BY <1>3, <2>4, <2>5, <2>6, <2>7, <2>8
<1> QED BY <1>2, <1>3

(* What the children hold, and were told, after messages about the pair of *)
(* each item of V with r: the first match takes the place of Nobody, the   *)
(* last one leaves it to Nobody.                                           *)
RightSettled(r, V, t) ==
  /\ \A l \in Left : Alone(l) \in out' <=>
       IF l \in V /\ t[l] = "RETRACT" /\ count[l] = 1 THEN TRUE
       ELSE IF l \in V /\ t[l] = "INSERT" /\ count[l] = 0 THEN FALSE
       ELSE Alone(l) \in out
  /\ \A l \in Left : <<l, r>> \in out' <=>
       IF l \in V /\ t[l] \in Tag THEN t[l] # "RETRACT" ELSE <<l, r>> \in out
  /\ \A l \in Left, x \in Right : x # r => (<<l, x>> \in out' <=> <<l, x>> \in out)
  /\ \A p \in out' : p \in out \/ p \in Pair
  /\ \A m \in sent' : \E l \in V : m = AboutRight(l, r, t[l]) /\ t[l] \in Tag

(* An arrival by the right settles the pairs of the items it visits.       *)
LEMMA RightTold ==
  ASSUME ~LeftTrigger, ~RightTrigger, NEW r \in Right, NEW V, V \subseteq Left, NEW t,
         \A l \in V : t[l] \in Tag \union {"none"},
         NEW notes, Tell(notes), notes = {AboutRight(l, r, t[l]) : l \in V}
  PROVE  RightSettled(r, V, t)
<1> DEFINE Gone(l) == IF t[l] = "INSERT" THEN IF count[l] = 0 THEN {Alone(l)} ELSE {}
                      ELSE {<<l, r>>}
           Come(l) == IF t[l] = "RETRACT" THEN IF count[l] = 1 THEN {Alone(l)} ELSE {}
                      ELSE {<<l, r>>}
<1>1. PICK msgs : msgs = {m \in notes : m.tag \in Tag} /\ sent' = msgs /\ out' = Held(msgs)
  BY DEF Tell
<1>2. ASSUME NEW l \in V
      PROVE  /\ AboutRight(l, r, t[l]).tag \in Tag <=> t[l] \in Tag
             /\ t[l] \in Tag => \A p :
                  /\ p \in Gone(l) <=> (AboutRight(l, r, t[l]).tag # "INSERT"
                                        /\ AboutRight(l, r, t[l]).was = p)
                  /\ p \in Come(l) <=> (AboutRight(l, r, t[l]).tag # "RETRACT"
                                        /\ AboutRight(l, r, t[l]).is = p)
  BY DEF AboutRight, Note, Tag
<1>3. \A m : m \in msgs <=> (\E l \in V : m = AboutRight(l, r, t[l]) /\ t[l] \in Tag)
  BY <1>1, <1>2
<1> HIDE DEF Gone, Come
<1>4. ASSUME NEW p
      PROVE  p \in out' <=> \/ p \in out /\ ~\E l \in V : t[l] \in Tag /\ p \in Gone(l)
                            \/ \E l \in V : t[l] \in Tag /\ p \in Come(l)
  <2>1. p \in {m.was : m \in {n \in msgs : n.tag # "INSERT"}}
          <=> \E l \in V : t[l] \in Tag /\ p \in Gone(l)
    <3>1. p \in {m.was : m \in {n \in msgs : n.tag # "INSERT"}}
            <=> \E m \in msgs : m.tag # "INSERT" /\ m.was = p
      OBVIOUS
    <3> QED BY <3>1, <1>2, <1>3
  <2>2. p \in {m.is : m \in {n \in msgs : n.tag # "RETRACT"}}
          <=> \E l \in V : t[l] \in Tag /\ p \in Come(l)
    <3>1. p \in {m.is : m \in {n \in msgs : n.tag # "RETRACT"}}
            <=> \E m \in msgs : m.tag # "RETRACT" /\ m.is = p
      OBVIOUS
    <3> QED BY <3>1, <1>2, <1>3
  <2> QED BY <1>1, <2>1, <2>2 DEF Held
<1>5. \A l \in V : /\ Alone(l) \in Gone(l) <=> (t[l] = "INSERT" /\ count[l] = 0)
                   /\ Alone(l) \in Come(l) <=> (t[l] = "RETRACT" /\ count[l] = 1)
                   /\ <<l, r>> \in Gone(l) <=> t[l] # "INSERT"
                   /\ <<l, r>> \in Come(l) <=> t[l] # "RETRACT"
  BY NobodyAssumption DEF Gone, Come, Alone, Pair
<1>6. \A l \in V : \A p : p \in Gone(l) \/ p \in Come(l) =>
                              p[1] = l /\ p[2] \in {r, Nobody} /\ p \in Pair
  BY DEF Gone, Come, Alone, Pair
<1>7. ASSUME NEW l \in Left, NEW p, p[1] = l
      PROVE  p \in out' <=> \/ p \in out /\ ~(l \in V /\ t[l] \in Tag /\ p \in Gone(l))
                            \/ l \in V /\ t[l] \in Tag /\ p \in Come(l)
  <2>1. \A k \in V : p \in Gone(k) \/ p \in Come(k) => k = l
    BY <1>7, <1>6
  <2> QED BY <1>4, <2>1
<1>8. ASSUME NEW l \in Left
      PROVE  Alone(l) \in out' <=>
              IF l \in V /\ t[l] = "RETRACT" /\ count[l] = 1 THEN TRUE
              ELSE IF l \in V /\ t[l] = "INSERT" /\ count[l] = 0 THEN FALSE
              ELSE Alone(l) \in out
  <2>1. Alone(l) \in out' <=> \/ Alone(l) \in out /\ ~(l \in V /\ t[l] \in Tag /\ Alone(l) \in Gone(l))
                              \/ l \in V /\ t[l] \in Tag /\ Alone(l) \in Come(l)
    BY <1>7 DEF Alone
  <2> QED BY <2>1, <1>5 DEF Tag
<1>9. ASSUME NEW l \in Left
      PROVE  <<l, r>> \in out' <=>
              IF l \in V /\ t[l] \in Tag THEN t[l] # "RETRACT" ELSE <<l, r>> \in out
  <2>1. <<l, r>> \in out' <=> \/ <<l, r>> \in out /\ ~(l \in V /\ t[l] \in Tag /\ <<l, r>> \in Gone(l))
                              \/ l \in V /\ t[l] \in Tag /\ <<l, r>> \in Come(l)
    BY <1>7
  <2> QED BY <2>1, <1>5 DEF Tag
<1>10. ASSUME NEW l \in Left, NEW x \in Right, x # r
      PROVE  <<l, x>> \in out' <=> <<l, x>> \in out
  <2>1. l \in V => <<l, x>> \notin Gone(l) /\ <<l, x>> \notin Come(l)
    BY <1>10, NobodyAssumption DEF Gone, Come, Alone
  <2>2. <<l, x>> \in out' <=> \/ <<l, x>> \in out /\ ~(l \in V /\ t[l] \in Tag /\ <<l, x>> \in Gone(l))
                              \/ l \in V /\ t[l] \in Tag /\ <<l, x>> \in Come(l)
    BY <1>7
  <2> QED BY <2>1, <2>2
<1>11. \A p \in out' : p \in out \/ p \in Pair
  BY <1>4, <1>6
<1>12. \A m \in sent' : \E l \in V : m = AboutRight(l, r, t[l]) /\ t[l] \in Tag
  BY <1>1, <1>3
<1> QED BY <1>8, <1>9, <1>10, <1>11, <1>12 DEF RightSettled

-----------------------------------------------------------------------------
(* An arrival by the left. *)
LEMMA OandByLeftOK ==
  ASSUME OandIInv, AsymKept, NEW l \in Left, NEW tag \in Tag, Shows(l, tag),
         NEW before, l \in lmem => before = val, OandByLeft(l, tag, before, val')
  PROVE  OandNodeOK' /\ EachFits
<1> DEFINE stored == StoredTag(tag, l \in lmem, LeftTrigger)
<1>1. /\ lmem \subseteq Left /\ rmem \subseteq Right /\ MemoriesTypeOK
      /\ count \in [Left -> Nat] /\ OandOutFollows
      /\ CountsMatch /\ ~LeftTrigger /\ ~RightTrigger
      /\ val' \in [Left \union Right -> Value]
  BY DEF OandIInv, AsymInv, OandTypeOK, MemoriesTypeOK, CountsTypeOK, AsymKept, Shows
<1>2. \/ stored = "none" /\ tag = "INSERT" /\ l \in lmem
      \/ stored = "none" /\ tag = "RETRACT" /\ l \notin lmem
      \/ stored = "INSERT" /\ tag # "RETRACT" /\ l \notin lmem
      \/ stored = "MODIFY" /\ tag = "MODIFY" /\ l \in lmem
      \/ stored = "RETRACT" /\ tag = "RETRACT" /\ l \in lmem
  BY <1>1 DEF StoredTag, Tag
<1>3. /\ lmem' = Remember(lmem, l, stored, LeftTrigger)
      /\ rmem' = rmem
  BY DEF OandByLeft
<1>4. /\ stored \in {"INSERT", "MODIFY"} => lmem' = lmem \union {l}
      /\ stored = "RETRACT" => lmem' = lmem \ {l}
      /\ stored = "none" => lmem' = lmem
  BY <1>1, <1>2, <1>3 DEF Remember
<1>5. lmem' \subseteq Left /\ \A x : x # l => (x \in lmem' <=> x \in lmem)
  BY <1>1, <1>2, <1>4
<1>6. \A x \in Left : x # l => Partners(x)' = Partners(x)
  BY <1>1, <1>3, OthersKeepPartners
<1>7. l \in lmem => Partners(l)' = Partners(l) /\ val' = val /\ before = val
  BY <1>1, <1>3, StoredKeepsPartners
<1>8. \A x : x \in Partners(l)' <=> x \in Visited(rmem, val', l) /\ Passes(val', l, x)
  <2>1. \A x \in Right : x \in Visited(rmem, val', l) /\ Passes(val', l, x) <=>
                           x \in rmem /\ Tested(l, x) /\ <<val'[l], val'[x]>> \in Joins
    BY <1>1, VisitedMatch
  <2>2. Visited(rmem, val', l) \subseteq Right
    BY <1>1 DEF Visited
  <2>3. \A x : x \in Partners(l)' <=>
                 x \in rmem /\ Tested(l, x) /\ <<val'[l], val'[x]>> \in Joins
    BY <1>3 DEF Partners, Joined, Tested
  <2> QED BY <1>1, <2>1, <2>2, <2>3
<1>9. /\ IsFiniteSet(Partners(l)') /\ Cardinality(Partners(l)') \in Nat
      /\ Partners(l)' \subseteq Right
  <2>1. Partners(l)' \subseteq Right
    BY <1>1, <1>3 DEF Partners
  <2> QED BY <2>1, FS_Subset, FS_CardinalityType DEF AsymKept
<1>10. CountsMatch' <=> count' = [x \in Left |-> IF x \in lmem'
                                                 THEN Cardinality(Partners(x)') ELSE 0]
  BY DEF CountsMatch
<1> HIDE DEF stored
<1>11. CASE stored = "none"
  <2>1. Tell({}) /\ disposed' = Disposed(tag, "none") /\ count' = count
    BY <1>11 DEF OandByLeft, stored
  <2>2. out' = out /\ sent' = {}
    BY <2>1, NothingTold
  <2>3. disposed' = "kept"
    BY <1>1, <2>1 DEF Disposed
  <2>4. \A x \in lmem : Partners(x)' = Partners(x)
    BY <1>1, <1>6, <1>7
  <2>5. CountsMatch'
    BY <1>1, <1>4, <1>10, <1>11, <2>1, <2>4 DEF CountsMatch
  <2>6. OandOutFollows'
    BY <1>1, <1>4, <1>11, <2>2, <2>4 DEF OandOutFollows, Pair, Alone
  <2> QED BY <1>1, <1>3, <1>5, <2>1, <2>2, <2>3, <2>5, <2>6
          DEF OandNodeOK, CountsTypeOK, Disposal, Sound, EachFits
<1>12. CASE stored # "none"
  <2>1. /\ Tell(AboutLeft(l, stored, before, val'))
        /\ disposed' = Disposed(stored, stored)
        /\ count' = [count EXCEPT ![l] =
                       IF l \in lmem' THEN OandRecount(l, stored, before, val') ELSE 0]
        /\ stored \in Tag
    BY <1>2, <1>12 DEF OandByLeft, stored, Tag
  <2>2. ASSUME NEW x \in Visited(rmem, val', l)
        PROVE  PairTag(stored, before, val', l, x) =
                 IF x \in Partners(l)' THEN stored ELSE "none"
    <3>1. Passes(val', l, x) <=> x \in Partners(l)'
      BY <1>8
    <3>2. stored = "MODIFY" => before = val'
      BY <1>2, <1>7
    <3> QED BY <3>1, <3>2 DEF PairTag
  <2>3. Counter(l) = IF l \in lmem THEN Cardinality(Partners(l)) ELSE 0
    BY <1>1 DEF Counter, CountsMatch
  <2>4. l \in lmem' => OandRecount(l, stored, before, val') = Cardinality(Partners(l)')
    <3> DEFINE tells(g) == {x \in Visited(rmem, val', l) :
                              PairTag(stored, before, val', l, x) = g}
    <3>1. OandRecount(l, stored, before, val')
            = Counter(l) + Cardinality(tells("INSERT")) - Cardinality(tells("RETRACT"))
      BY DEF OandRecount
    <3>2. CASE stored = "INSERT"
      <4>1. tells("INSERT") = Partners(l)' /\ tells("RETRACT") = {}
        BY <1>8, <2>2, <3>2
      <4>2. Counter(l) = 0
        BY <1>2, <2>3, <3>2
      <4>3. Cardinality({}) = 0
        BY FS_EmptySet
      <4> HIDE DEF tells
      <4>4. OandRecount(l, stored, before, val') = Cardinality(Partners(l)')
        BY <1>9, <3>1, <4>1, <4>2, <4>3
      <4> QED BY <4>4
    <3>3. CASE stored = "MODIFY"
      <4>1. tells("INSERT") = {} /\ tells("RETRACT") = {}
        BY <2>2, <3>3
      <4>2. Counter(l) = Cardinality(Partners(l)')
        BY <1>2, <1>7, <2>3, <3>3
      <4>3. Cardinality({}) = 0
        BY FS_EmptySet
      <4> HIDE DEF tells
      <4>4. Cardinality(tells("INSERT")) = 0 /\ Cardinality(tells("RETRACT")) = 0
        BY <4>1, <4>3
      <4>5. Counter(l) + Cardinality(tells("INSERT")) - Cardinality(tells("RETRACT"))
              = Cardinality(Partners(l)') + 0 - 0
        BY <4>2, <4>4
      <4> QED BY <1>9, <3>1, <4>5
    <3>4. CASE stored = "RETRACT"
      BY <1>4, <3>4
    <3> QED BY <1>2, <1>12, <3>2, <3>3, <3>4
  <2>5. count' = [x \in Left |-> IF x \in lmem' THEN Cardinality(Partners(x)') ELSE 0]
    <3>1. count' = [count EXCEPT ![l] = IF l \in lmem' THEN Cardinality(Partners(l)') ELSE 0]
      BY <2>1, <2>4
    <3>2. \A x \in Left : count'[x] = IF x \in lmem' THEN Cardinality(Partners(x)') ELSE 0
      BY <1>1, <1>5, <1>6, <3>1 DEF CountsMatch
    <3> QED BY <1>1, <3>1, <3>2
  <2>6. count' \in [Left -> Nat]
    BY <1>1, <1>9, <2>1, <2>4
  <2>7. disposed' = IF stored = "RETRACT" THEN "own" ELSE "kept"
    BY <1>1, <2>1 DEF Disposed
  <2> PICK P, V, notes :
        /\ P = Partners(l)' /\ V = P \union Visited(rmem, val', l)
        /\ notes = AboutLeft(l, stored, before, val')
    OBVIOUS
  <2>8. P \subseteq V /\ V \subseteq Right
    BY <1>1, <1>9 DEF Visited
  <2>9. notes = LeftNotes(l, stored, P, V)
    <3> DEFINE visited == IF stored = "RETRACT" /\ count[l] = 0 THEN {}
                          ELSE Visited(rmem, val', l)
               told == {Note(PairTag(stored, before, val', l, x), <<l, x>>) : x \in visited}
    <3>1. notes = IF \A m \in told : m.tag = "none" THEN {Note(stored, Alone(l))} ELSE told
      BY DEF AboutLeft
    <3>2. \A x \in visited : /\ PairTag(stored, before, val', l, x)
                                  = IF x \in P THEN stored ELSE "none"
                             /\ Note(PairTag(stored, before, val', l, x), <<l, x>>).tag
                                  = IF x \in P THEN stored ELSE "none"
      BY <2>2 DEF Note
    <3>3. CASE P = {}
      <4>1. \A m \in told : m.tag = "none"
        BY <3>2, <3>3
      <4> QED BY <3>1, <3>3, <4>1 DEF LeftNotes
    <3>4. CASE P # {}
      <4>1. stored = "RETRACT" => count[l] # 0
        BY <1>1, <1>2, <1>7, <1>9, <2>3, <3>4, FS_EmptySet DEF Counter
      <4>2. visited = V
        BY <1>8, <4>1
      <4>3. PICK x \in V : x \in P
        BY <3>4
      <4>4. ~\A m \in told : m.tag = "none"
        BY <2>1, <3>2, <4>2, <4>3 DEF Tag
      <4>5. told = {Note(IF y \in P THEN stored ELSE "none", <<l, y>>) : y \in V}
        BY <3>2, <4>2
      <4> QED BY <3>1, <3>4, <4>4, <4>5 DEF LeftNotes
    <3> QED BY <3>3, <3>4
  <2>10. Tell(notes)
    BY <2>1
  <2>20. LeftSettled(l, stored, P)
    BY <1>1, <2>1, <2>8, <2>9, <2>10, LeftTold
  <2>11. /\ Alone(l) \in out' <=> IF P = {} THEN stored # "RETRACT" ELSE Alone(l) \in out
         /\ \A x \in Right : <<l, x>> \in out' <=>
              IF x \in P THEN stored # "RETRACT" ELSE <<l, x>> \in out
         /\ \A p : p[1] # l => (p \in out' <=> p \in out)
         /\ \A m \in sent' : \/ P = {} /\ m = Note(stored, Alone(l))
                             \/ \E x \in P : m = Note(stored, <<l, x>>)
         /\ \A p \in out' : p \in out \/ p \in Pair
    BY <2>20 DEF LeftSettled
  <2>12. /\ Alone(l) \in out <=> l \in lmem /\ Partners(l) = {}
         /\ \A x \in Right : <<l, x>> \in out <=> l \in lmem /\ x \in Partners(l)
    BY <1>1 DEF OandOutFollows
  <2>13. l \in lmem' <=> stored # "RETRACT"
    BY <1>2, <1>4, <1>12
  <2>14. OandOutFollows'
    <3>1. out' \subseteq Pair
      BY <1>1, <2>11 DEF OandOutFollows
    <3>2. ASSUME NEW k \in Left
          PROVE  /\ Alone(k) \in out' <=> (k \in lmem' /\ Partners(k)' = {})
                 /\ \A x \in Right : <<k, x>> \in out' <=> (k \in lmem' /\ x \in Partners(k)')
      <4>1. CASE k = l
        <5>1. l \in lmem => P = Partners(l)
          BY <1>7
        <5> QED BY <2>11, <2>12, <2>13, <4>1, <5>1
      <4>2. CASE k # l
        <5>1. Alone(k)[1] = k /\ \A x \in Right : <<k, x>>[1] = k
          BY DEF Alone
        <5>2. /\ Alone(k) \in out' <=> Alone(k) \in out
              /\ \A x \in Right : <<k, x>> \in out' <=> <<k, x>> \in out
          BY <2>11, <4>2, <5>1
        <5> QED BY <1>1, <1>5, <1>6, <4>2, <5>2 DEF OandOutFollows
      <4> QED BY <4>1, <4>2
    <3> QED BY <3>1, <3>2 DEF OandOutFollows, Pair, Alone
  <2>15. sent' \subseteq [tag : Tag, was : Pair, is : Pair]
    <3>1. \A m \in sent' : \E p \in Pair : m = Note(stored, p)
      BY <1>9, <2>11 DEF Pair, Alone
    <3> QED BY <2>1, <3>1 DEF Note
  <2>16. EachFits
    <3>1. ASSUME NEW m \in sent' PROVE Fits(m)
      <4>1. PICK p : /\ m = Note(stored, p)
                     /\ \/ P = {} /\ p = Alone(l)
                        \/ \E x \in P : p = <<l, x>>
        BY <2>11
      <4>2. m.tag = stored /\ m.was = p /\ m.is = p
        BY <4>1 DEF Note
      <4>3. p \in out <=> l \in lmem
        BY <1>7, <1>9, <2>12, <4>1
      <4>4. l \in lmem <=> stored # "INSERT"
        BY <1>2, <1>12
      <4> QED BY <4>2, <4>3, <4>4 DEF Fits
    <3> QED BY <3>1 DEF EachFits
  <2> QED BY <1>1, <1>3, <1>5, <1>10, <2>5, <2>6, <2>7, <2>14, <2>15, <2>16
          DEF OandNodeOK, CountsTypeOK, Disposal, Sound
<1> QED BY <1>11, <1>12

(* An arrival by the right. *)
LEMMA OandByRightOK ==
  ASSUME OandIInv, AsymKept, NEW r \in Right, NEW tag \in Tag, Shows(r, tag),
         NEW before, r \in rmem => before = val, OandByRight(r, tag, before, val')
  PROVE  OandNodeOK' /\ EachFits
<1> DEFINE stored == StoredTag(tag, r \in rmem, RightTrigger)
           visited == IF stored = "none" THEN {} ELSE Visited(lmem, val', r)
           told(l) == PairTag(stored, before, val', l, r)
<1>1. /\ lmem \subseteq Left /\ rmem \subseteq Right /\ MemoriesTypeOK
      /\ count \in [Left -> Nat] /\ OandOutFollows
      /\ CountsMatch /\ ~LeftTrigger /\ ~RightTrigger /\ Sound
  BY DEF OandIInv, AsymInv, OandTypeOK, MemoriesTypeOK, CountsTypeOK, AsymKept
<1>2. /\ rmem' = Remember(rmem, r, stored, RightTrigger)
      /\ Tell({AboutRight(l, r, told(l)) : l \in visited})
      /\ count' = [l \in Left |->
                     IF l \in visited THEN Counted(count[l], told(l)) ELSE count[l]]
      /\ lmem' = lmem /\ disposed' = disposed
  BY DEF OandByRight
<1>3. rmem' \subseteq Right
  BY <1>1, <1>2 DEF Remember
<1>4. PICK t : t = [l \in lmem |-> IF l \in visited THEN told(l) ELSE "none"]
  OBVIOUS
<1>5. visited \subseteq lmem
  BY DEF Visited
<1>6. ASSUME NEW l \in lmem
      PROVE  /\ t[l] \in Tag \union {"none"}
             /\ PartnersChange(l, r, t[l])
  <2>1. t[l] = IF l \in (IF stored = "none" THEN {} ELSE Visited(lmem, val', r))
               THEN PairTag(stored, before, val', l, r) ELSE "none"
    BY <1>4
  <2> HIDE DEF visited, told
  <2>2. stored = StoredTag(tag, r \in rmem, RightTrigger)
    OBVIOUS
  <2> HIDE DEF stored
  <2> QED BY <1>1, <1>2, <2>1, <2>2, ByRightSettles
<1> HIDE DEF stored, visited, told
<1>7. ASSUME NEW l \in lmem
      PROVE  /\ Cardinality(Partners(l)') = Counted(count[l], t[l])
             /\ Cardinality(Partners(l)') \in Nat
             /\ Partners(l)' = {} <=> Cardinality(Partners(l)') = 0
             /\ t[l] \in {"MODIFY", "RETRACT"} => count[l] # 0
             /\ Partners(l) = {} <=> count[l] = 0
  <2>1. count[l] = Cardinality(Partners(l))
    BY <1>1 DEF CountsMatch
  <2>2. /\ Cardinality(Partners(l)') = Counted(Cardinality(Partners(l)), t[l])
        /\ Cardinality(Partners(l)') \in Nat
        /\ t[l] \in {"MODIFY", "RETRACT"} => Cardinality(Partners(l)) # 0
    BY <1>1, <1>6, ByRightCounts
  <2>3. IsFiniteSet(Partners(l))
    BY <1>1, PartnersFinite
  <2>4. Partners(l)' \subseteq Right
    BY <1>3 DEF Partners
  <2>5. IsFiniteSet(Partners(l)')
    BY <2>4, FS_Subset DEF AsymKept
  <2> QED BY <2>1, <2>2, <2>3, <2>5, FS_EmptySet
<1>8. \A l \in lmem : count'[l] = Cardinality(Partners(l)')
  <2>1. ASSUME NEW l \in lmem
        PROVE  count'[l] = Counted(count[l], t[l])
    <3>1. count'[l] = IF l \in visited THEN Counted(count[l], told(l)) ELSE count[l]
      BY <1>1, <1>2
    <3>2. t[l] = IF l \in visited THEN told(l) ELSE "none"
      BY <1>4
    <3>3. Counted(count[l], "none") = count[l]
      BY DEF Counted
    <3> QED BY <3>1, <3>2, <3>3
  <2> QED BY <2>1, <1>7
<1>9. count' = [l \in Left |-> IF l \in lmem' THEN Cardinality(Partners(l)') ELSE 0]
  <2>1. \A l \in Left : l \notin lmem => count'[l] = 0
    BY <1>1, <1>2, <1>5 DEF CountsMatch
  <2> QED BY <1>2, <1>8, <2>1
<1>10. CountsMatch' /\ count' \in [Left -> Nat]
  BY <1>2, <1>7, <1>9 DEF CountsMatch
<1>11. PICK notes : notes = {AboutRight(l, r, t[l]) : l \in visited}
  OBVIOUS
<1>12. \A l \in visited : l \in lmem /\ t[l] = told(l) /\ t[l] \in Tag \union {"none"}
  BY <1>4, <1>5, <1>6
<1>13. Tell(notes)
  <2>1. notes = {AboutRight(l, r, told(l)) : l \in visited}
    BY <1>11, <1>12
  <2> QED BY <1>2, <2>1
<1>14. RightSettled(r, visited, t)
  BY <1>1, <1>5, <1>11, <1>12, <1>13, RightTold
<1>15. ASSUME NEW l \in Left
       PROVE  /\ Alone(l) \in out' <=> (l \in lmem' /\ Partners(l)' = {})
              /\ \A x \in Right : <<l, x>> \in out' <=> (l \in lmem' /\ x \in Partners(l)')
  <2>1. /\ Alone(l) \in out <=> (l \in lmem /\ Partners(l) = {})
        /\ \A x \in Right : <<l, x>> \in out <=> (l \in lmem /\ x \in Partners(l))
    BY <1>1 DEF OandOutFollows
  <2>2. /\ Alone(l) \in out' <=>
             IF l \in visited /\ t[l] = "RETRACT" /\ count[l] = 1 THEN TRUE
             ELSE IF l \in visited /\ t[l] = "INSERT" /\ count[l] = 0 THEN FALSE
             ELSE Alone(l) \in out
        /\ <<l, r>> \in out' <=>
             IF l \in visited /\ t[l] \in Tag THEN t[l] # "RETRACT" ELSE <<l, r>> \in out
        /\ \A x \in Right : x # r => (<<l, x>> \in out' <=> <<l, x>> \in out)
    BY <1>14 DEF RightSettled
  <2>3. CASE l \notin lmem
    BY <1>2, <1>5, <2>1, <2>2, <2>3
  <2>4. CASE l \in lmem
    <3>1. /\ count[l] \in Nat
          /\ t[l] \in Tag \union {"none"}
          /\ t[l] \in {"MODIFY", "RETRACT"} => count[l] # 0
          /\ Partners(l) = {} <=> count[l] = 0
          /\ Partners(l)' = {} <=> Counted(count[l], t[l]) = 0
          /\ l \in visited \/ t[l] = "none"
      BY <1>1, <1>4, <1>6, <1>7, <2>4
    <3>2. Alone(l) \in out' <=> Partners(l)' = {}
      BY <2>1, <2>2, <2>4, <3>1 DEF Counted, Tag
    <3>3. \A x : x # r => (x \in Partners(l)' <=> x \in Partners(l))
      BY <1>6, <2>4, <3>1 DEF PartnersChange, Tag
    <3>4. r \in Partners(l)' <=> IF t[l] \in Tag THEN t[l] # "RETRACT" ELSE r \in Partners(l)
      BY <1>6, <2>4, <3>1 DEF PartnersChange, Tag
    <3>5. <<l, r>> \in out' <=> r \in Partners(l)'
      BY <2>1, <2>2, <2>4, <3>1, <3>4 DEF Tag
    <3>6. \A x \in Right : <<l, x>> \in out' <=> x \in Partners(l)'
      BY <2>1, <2>2, <2>4, <3>3, <3>5
    <3> QED BY <1>2, <2>4, <3>2, <3>6
  <2> QED BY <2>3, <2>4
<1>16. OandOutFollows'
  <2>1. out' \subseteq Pair
    BY <1>1, <1>14 DEF RightSettled, OandOutFollows
  <2> QED BY <1>15, <2>1 DEF OandOutFollows, Pair, Alone
<1>17. ASSUME NEW m \in sent'
       PROVE  m \in [tag : Tag, was : Pair, is : Pair] /\ Fits(m)
  <2>1. PICK l \in visited : m = AboutRight(l, r, t[l]) /\ t[l] \in Tag
    BY <1>14 DEF RightSettled
  <2>2. /\ l \in lmem /\ l \in Left /\ Alone(l) \in Pair /\ <<l, r>> \in Pair
        /\ Partners(l) = {} <=> count[l] = 0
    BY <1>1, <1>5, <1>7 DEF Alone, Pair
  <2>3. /\ Alone(l) \in out <=> Partners(l) = {}
        /\ <<l, r>> \in out <=> r \in Partners(l)
    BY <1>1, <2>2 DEF OandOutFollows
  <2>4. r \in Partners(l) <=> t[l] # "INSERT"
    BY <1>6, <2>1, <2>2 DEF PartnersChange, Tag
  <2>5. CASE t[l] = "INSERT" /\ count[l] = 0
    BY <2>1, <2>2, <2>3, <2>5 DEF AboutRight, Fits, Tag
  <2>6. CASE t[l] = "RETRACT" /\ count[l] = 1
    BY <2>1, <2>2, <2>3, <2>4, <2>6 DEF AboutRight, Fits, Tag
  <2>7. CASE ~(t[l] = "INSERT" /\ count[l] = 0) /\ ~(t[l] = "RETRACT" /\ count[l] = 1)
    BY <2>1, <2>2, <2>3, <2>4, <2>7 DEF AboutRight, Note, Fits, Tag
  <2> QED BY <2>5, <2>6, <2>7
<1>18. sent' \subseteq [tag : Tag, was : Pair, is : Pair] /\ EachFits
  BY <1>17 DEF EachFits
<1>19. disposed' \in Disposal /\ Sound'
  BY <1>1, <1>2 DEF Disposal, Sound
<1>20. lmem' \subseteq Left
  BY <1>1, <1>2
<1> QED
  <2>1. [tag : Tag, was : Pair, is : Pair]' = [tag : Tag, was : Pair, is : Pair]
    BY DEF Tag, Pair
  <2> QED BY <1>3, <1>10, <1>16, <1>18, <1>19, <1>20, <2>1 DEF OandNodeOK, CountsTypeOK

-----------------------------------------------------------------------------
(* Every arrival, by its first and by its second side. *)
LEMMA OandArriveLeftOK ==
  ASSUME OandIInv, AsymKept, NEW l \in Left, NEW tag \in Tag, OandArriveLeft(l, tag)
  PROVE  OandIInv' /\ EachFits
<1>1. MemoriesTypeOK /\ DueIsFaithful
  BY DEF OandIInv, AsymInv
<1>2. CASE \E v \in Arriving(tag, l) :
             Starts("left", l, tag, v) /\ OandByLeft(l, tag, val, val')
  <2>1. PICK v \in Arriving(tag, l) : Starts("left", l, tag, v)
    BY <1>2
  <2>2. rmem' = rmem /\ OandByLeft(l, tag, val, val')
    BY <1>2 DEF OandByLeft
  <2>3. Shows(l, tag) /\ due' \in {Settled} \union Second /\ DueIsFaithful'
    BY <1>1, <2>1, <2>2, StartsOK
  <2>4. OandNodeOK' /\ EachFits
    BY <2>2, <2>3, OandByLeftOK
  <2> QED BY <2>3, <2>4 DEF OandIInv, AsymInv, OandNodeOK, OandTypeOK, MemoriesTypeOK, Shows, OandOutFollows
<1>3. CASE Ends("left", l, tag) /\ OandByLeft(l, tag, Before, val)
  <2>1. /\ Shows(l, tag) /\ due' \in {Settled} \union Second /\ DueIsFaithful'
        /\ l \in lmem => Before = val
    BY <1>1, <1>3, EndsOK
  <2>2. val' = val
    BY <1>3 DEF Ends
  <2>3. OandByLeft(l, tag, Before, val')
    BY <1>3, <2>2
  <2>4. OandNodeOK' /\ EachFits
    BY <2>1, <2>3, OandByLeftOK
  <2> QED BY <2>1, <2>4 DEF OandIInv, AsymInv, OandNodeOK, OandTypeOK, MemoriesTypeOK, Shows, OandOutFollows
<1> QED BY <1>2, <1>3 DEF OandArriveLeft

(* The same by the right. *)
LEMMA OandArriveRightOK ==
  ASSUME OandIInv, AsymKept, NEW r \in Right, NEW tag \in Tag, OandArriveRight(r, tag)
  PROVE  OandIInv' /\ EachFits
<1>1. MemoriesTypeOK /\ DueIsFaithful
  BY DEF OandIInv, AsymInv
<1>2. CASE \E v \in Arriving(tag, r) :
             Starts("right", r, tag, v) /\ OandByRight(r, tag, val, val')
  <2>1. PICK v \in Arriving(tag, r) : Starts("right", r, tag, v)
    BY <1>2
  <2>2. lmem' = lmem /\ OandByRight(r, tag, val, val')
    BY <1>2 DEF OandByRight
  <2>3. Shows(r, tag) /\ due' \in {Settled} \union Second /\ DueIsFaithful'
    BY <1>1, <2>1, <2>2, StartsOK
  <2>4. OandNodeOK' /\ EachFits
    BY <2>2, <2>3, OandByRightOK
  <2> QED BY <2>3, <2>4 DEF OandIInv, AsymInv, OandNodeOK, OandTypeOK, MemoriesTypeOK, Shows, OandOutFollows
<1>3. CASE Ends("right", r, tag) /\ OandByRight(r, tag, Before, val)
  <2>1. /\ Shows(r, tag) /\ due' \in {Settled} \union Second /\ DueIsFaithful'
        /\ r \in rmem => Before = val
    BY <1>1, <1>3, EndsOK
  <2>2. val' = val
    BY <1>3 DEF Ends
  <2>3. OandByRight(r, tag, Before, val')
    BY <1>3, <2>2
  <2>4. OandNodeOK' /\ EachFits
    BY <2>1, <2>3, OandByRightOK
  <2> QED BY <2>1, <2>4 DEF OandIInv, AsymInv, OandNodeOK, OandTypeOK, MemoriesTypeOK, Shows, OandOutFollows
<1> QED BY <1>2, <1>3 DEF OandArriveRight

(* An item that arrives by the left alone, in the state it is known in.  *)
LEMMA OandLoneLeftOK ==
  ASSUME OandIInv, AsymKept, NEW l \in Left, NEW tag \in Tag, due = Settled,
         due' = due, val' = val, OandByLeft(l, tag, val, val)
  PROVE  OandIInv' /\ EachFits
<1>1. MemoriesTypeOK /\ DueIsFaithful
  BY DEF OandIInv, AsymInv
<1>2. Shows(l, tag)
  BY <1>1 DEF Shows, MemoriesTypeOK
<1>3. OandByLeft(l, tag, val, val') /\ rmem' = rmem
  BY DEF OandByLeft
<1>4. OandNodeOK' /\ EachFits
  BY <1>2, <1>3, OandByLeftOK
<1>5. DueIsFaithful'
  BY DEF DueIsFaithful, Settled
<1> QED BY <1>1, <1>4, <1>5 DEF OandIInv, AsymInv, OandNodeOK, OandTypeOK, MemoriesTypeOK, OandOutFollows

(* An item that arrives by the right alone, in the state it is known in.  *)
LEMMA OandLoneRightOK ==
  ASSUME OandIInv, AsymKept, NEW r \in Right, NEW tag \in Tag, due = Settled,
         due' = due, val' = val, OandByRight(r, tag, val, val)
  PROVE  OandIInv' /\ EachFits
<1>1. MemoriesTypeOK /\ DueIsFaithful
  BY DEF OandIInv, AsymInv
<1>2. Shows(r, tag)
  BY <1>1 DEF Shows, MemoriesTypeOK
<1>3. OandByRight(r, tag, val, val') /\ lmem' = lmem
  BY DEF OandByRight
<1>4. OandNodeOK' /\ EachFits
  BY <1>2, <1>3, OandByRightOK
<1>5. DueIsFaithful'
  BY DEF DueIsFaithful, Settled
<1> QED BY <1>1, <1>4, <1>5 DEF OandIInv, AsymInv, OandNodeOK, OandTypeOK, MemoriesTypeOK, OandOutFollows

(* Every step, and everything that is not one. *)
LEMMA OandNextOK ==
  ASSUME OandIInv, AsymKept, [OandNext]_OandVars
  PROVE  OandIInv' /\ [EachFits]_OandVars
<1>1. CASE UNCHANGED OandVars
  BY <1>1 DEF OandVars, OandIInv, AsymInv, OandTypeOK, MemoriesTypeOK, CountsTypeOK, DueIsFaithful,
     CountsMatch, Sound, OandOutFollows, Alone, Partners, Joined, Tested
<1>2. CASE OandNext
  BY <1>2, OandArriveLeftOK, OandArriveRightOK DEF OandNext
<1> QED BY <1>1, <1>2

(* The empty memories of a new node satisfy the invariant. *)
LEMMA OandInitOK == OandInit => OandIInv
BY DEF OandInit, MemoriesInit, CountsInit, OandIInv, AsymInv, OandTypeOK, MemoriesTypeOK, CountsTypeOK,
   DueIsFaithful, CountsMatch, Disposal, Sound, OandOutFollows

(* Whatever arrives, oand_call_by_left and oand_call_by_right keep the     *)
(* inductive invariant.                                                    *)
THEOREM OandInvariance == ASSUME AsymKept PROVE OandSpec => []OandIInv
<1>1. OandIInv /\ [OandNext]_OandVars => OandIInv'
  BY OandNextOK
<1> QED BY OandInitOK, <1>1, PTL DEF OandSpec

(* The variables of an OAND node keep their types: no counter is negative. *)
THEOREM OandTypeCorrect == ASSUME AsymKept PROVE OandSpec => []OandTypeOK
<1>1. OandIInv => OandTypeOK
  BY DEF OandIInv
<1> QED BY OandInvariance, <1>1, PTL

(* The invariant gives the outer join as a whole. *)
LEMMA OuterJoinOK == OandIInv => OandOutIsOuterJoin
<1> SUFFICES ASSUME OandIInv PROVE OandOutIsOuterJoin
  OBVIOUS
<1> PICK held : held = {p \in lmem \X rmem : Joined(p[1], p[2])}
                         \union {Alone(l) : l \in {k \in lmem : Partners(k) = {}}}
  OBVIOUS
<1>1. /\ lmem \subseteq Left /\ rmem \subseteq Right /\ OandOutFollows
      /\ \A l \in Left : Partners(l) \subseteq rmem
  BY DEF OandIInv, OandTypeOK, MemoriesTypeOK, Partners
<1>2. \A p \in out : p \in held
  <2> TAKE p \in out
  <2>1. PICK l \in Left, x \in Right \union {Nobody} : p = <<l, x>>
    BY <1>1 DEF OandOutFollows, Pair
  <2>2. CASE x \in Right
    BY <1>1, <2>1, <2>2 DEF OandOutFollows, Partners
  <2>3. CASE x = Nobody
    BY <1>1, <2>1, <2>3 DEF OandOutFollows, Alone
  <2> QED BY <2>2, <2>3
<1>3. \A p \in held : p \in out
  <2> TAKE p \in held
  <2>1. CASE p \in lmem \X rmem /\ Joined(p[1], p[2])
    BY <1>1, <2>1 DEF OandOutFollows, Partners
  <2>2. CASE \E l \in lmem : Partners(l) = {} /\ p = Alone(l)
    BY <1>1, <2>2 DEF OandOutFollows
  <2> QED BY <2>1, <2>2
<1> QED BY <1>2, <1>3 DEF OandOutIsOuterJoin

(* The children of an OAND node hold the pairs that match and, for each    *)
(* item by the left that matches none, its pair with Nobody.               *)
THEOREM OandOuterJoinCorrect == ASSUME AsymKept PROVE OandSpec => []OandOutIsOuterJoin
<1> QED BY OandInvariance, OuterJoinOK, PTL

(* The MatchCount of each item by the left is the number of its matches.   *)
THEOREM OandCountsCorrect == ASSUME AsymKept PROVE OandSpec => []CountIsExact
<1>1. OandIInv => CountIsExact
  BY DEF OandIInv, AsymInv, CountsMatch, CountIsExact, OandTypeOK, MemoriesTypeOK
<1> QED BY OandInvariance, <1>1, PTL

(* oand_call_by_left deletes no counter but the one of an item it forgets. *)
THEOREM OandNeverDeletesInUse == ASSUME AsymKept PROVE OandSpec => []DeletesItsOwn
<1>1. OandIInv => DeletesItsOwn
  BY DEF OandIInv, AsymInv, DeletesItsOwn
<1> QED BY OandInvariance, <1>1, PTL

(* check_oand_cond tells the children to INSERT what they do not hold and  *)
(* to MODIFY or RETRACT what they hold.                                    *)
THEOREM OandNeverStray == ASSUME AsymKept PROVE OandSpec => [][EachFits]_OandVars
<1>1. OandIInv /\ [OandNext]_OandVars => [EachFits]_OandVars
  BY OandNextOK
<1> QED BY OandInvariance, <1>1, PTL DEF OandSpec

-----------------------------------------------------------------------------
(* How the node is used: no TRIGGER class on its sides, no modification of *)
(* a key or, in a NAND or OAND node, of an item by the left, no item       *)
(* matched with itself and finitely many by the right.                     *)
Kept == AsymKept /\ (Keyed => AndMoves = {}) /\ ~SameObj

IInv == /\ kind \in Kinds
        /\ CountsTypeOK
        /\ Sound
        /\ kind = "and" => AndP!IInv
        /\ kind = "nand" => NandIInv
        /\ kind = "oand" => OandIInv

-----------------------------------------------------------------------------
(* The AND node. *)
LEMMA SameAnd ==
  /\ And!Next <=> AndP!Next
  /\ MemoriesInit <=> AndP!Init
  /\ And!TypeOK <=> AndP!TypeOK
  /\ And!OutIsJoin <=> AndP!OutIsJoin
  /\ EachFits <=> AndP!EachFits
<1> USE DEF
     And!Next, AndP!Next, And!ArriveLeft, AndP!ArriveLeft, And!ArriveRight,
     AndP!ArriveRight, And!ByLeft, AndP!ByLeft, And!ByRight, AndP!ByRight,
     And!About, AndP!About, And!Tag, AndP!Tag, And!Settled, AndP!Settled,
     And!Visited, AndP!Visited, And!Tested, AndP!Tested, And!Passes,
     AndP!Passes, And!PairTag, AndP!PairTag, And!StoredTag, AndP!StoredTag,
     And!Remember, AndP!Remember, And!Note, AndP!Note, And!Held, AndP!Held,
     And!Tell, AndP!Tell, And!Arriving, AndP!Arriving, And!OtherSide,
     AndP!OtherSide, And!Starts, AndP!Starts, And!Ends, AndP!Ends, And!Before,
     AndP!Before, AndP!Init, MemoriesInit, AndP!MemoriesInit, Settled,
     And!TypeOK, AndP!TypeOK, And!Pair, AndP!Pair, And!MemoriesTypeOK,
     AndP!MemoriesTypeOK, And!Second, AndP!Second, And!OutIsJoin,
     AndP!OutIsJoin, And!Joined, AndP!Joined, EachFits, AndP!EachFits, Fits,
     AndP!Fits
<1>1. And!Next <=> AndP!Next
  OBVIOUS
<1>2. MemoriesInit <=> AndP!Init
  OBVIOUS
<1>3. And!TypeOK <=> AndP!TypeOK
  OBVIOUS
<1>4. And!OutIsJoin <=> AndP!OutIsJoin
  OBVIOUS
<1>5. EachFits <=> AndP!EachFits
  OBVIOUS
<1> QED BY <1>1, <1>2, <1>3, <1>4, <1>5

-----------------------------------------------------------------------------
(* A step of a node of each kind. *)
LEMMA StepOK ==
  ASSUME Kept, IInv, [Next]_vars
  PROVE  IInv' /\ [EachFits]_vars
<1>1. CASE UNCHANGED vars
  <2>1. kind = "and" => AndP!IInv'
    <3>1. UNCHANGED AndP!vars
      BY <1>1 DEF vars, AndP!vars
    <3> QED BY <3>1, AndP!NextOK, BetaAssumption, KindsAssumption DEF IInv, Kept, AsymKept, AndP!KeysStay
  <2>2. kind = "nand" => NandIInv'
    <3>1. UNCHANGED NandVars
      BY <1>1 DEF vars, NandVars
    <3> QED BY <3>1, NandNextOK DEF IInv, Kept
  <2>3. kind = "oand" => OandIInv'
    <3>1. UNCHANGED OandVars
      BY <1>1 DEF vars, OandVars
    <3> QED BY <3>1, OandNextOK DEF IInv, Kept
  <2>4. kind' = kind /\ count' = count /\ disposed' = disposed
    BY <1>1 DEF vars
  <2> QED BY <1>1, <2>1, <2>2, <2>3, <2>4 DEF IInv, CountsTypeOK, Sound
<1>2. CASE kind = "and" /\ And!Next /\ UNCHANGED counts /\ UNCHANGED kind
  <2>1. AndP!IInv' /\ [AndP!EachFits]_AndP!vars
    BY <1>2, SameAnd, AndP!NextOK, BetaAssumption, KindsAssumption DEF IInv, Kept, AsymKept, AndP!KeysStay
  <2> QED BY <1>2, <2>1, SameAnd DEF IInv, CountsTypeOK, Sound, counts, vars, AndP!vars
<1>3. CASE kind = "nand" /\ NandNext /\ UNCHANGED kind
  <2>1. NandIInv' /\ [EachFits]_NandVars
    BY <1>3, NandNextOK DEF IInv, Kept
  <2>2. NandTypeOK' /\ Sound'
    BY <2>1 DEF NandIInv, AsymInv
  <2> QED BY <1>3, <2>1, <2>2 DEF IInv, NandTypeOK, vars, NandVars
<1>4. CASE kind = "oand" /\ OandNext /\ UNCHANGED kind
  <2>1. OandIInv' /\ [EachFits]_OandVars
    BY <1>4, OandNextOK DEF IInv, Kept
  <2>2. OandTypeOK' /\ Sound'
    BY <2>1 DEF OandIInv, AsymInv
  <2> QED BY <1>4, <2>1, <2>2 DEF IInv, OandTypeOK, vars, OandVars
<1> QED BY <1>1, <1>2, <1>3, <1>4 DEF Next

(* A new node, of any kind, satisfies the invariant. *)
LEMMA InitOK == Init => IInv
<1> SUFFICES ASSUME Init PROVE IInv
  OBVIOUS
<1>1. kind \in Kinds /\ MemoriesInit /\ CountsInit
  BY DEF Init
<1>2. CountsTypeOK /\ Sound
  BY <1>1 DEF CountsInit, CountsTypeOK, Disposal, Sound
<1>3. AndP!IInv
  BY <1>1, SameAnd, AndP!InitOK, BetaAssumption, KindsAssumption
<1>4. NandIInv
  BY <1>1, NandInitOK DEF NandInit
<1>5. OandIInv
  BY <1>1, OandInitOK DEF OandInit
<1> QED BY <1>1, <1>2, <1>3, <1>4, <1>5 DEF IInv

(* Whatever arrives, a node of each kind keeps its inductive invariant.    *)
THEOREM Invariance == ASSUME Kept PROVE Spec => []IInv
<1>1. IInv /\ [Next]_vars => IInv'
  BY StepOK
<1> QED BY InitOK, <1>1, PTL DEF Spec

(* The variables of a two-sided node keep their types, whatever its kind:  *)
(* no MatchCount is negative.                                              *)
THEOREM TypeCorrect == ASSUME Kept PROVE Spec => []TypeOK
<1>1. IInv => TypeOK
  BY SameAnd DEF IInv, TypeOK, AndP!IInv, NandIInv, OandIInv
<1> QED BY Invariance, <1>1, PTL

(* The children of an AND node hold the join of its two memories, also     *)
(* with an object in both.                                                 *)
THEOREM JoinCorrect == ASSUME Kept PROVE Spec => []OutIsJoin
<1>1. ASSUME AndP!IInv PROVE AndP!OutIsJoin
  BY <1>1 DEF AndP!IInv, AndP!OutIsJoin, AndP!OutIsPartlyJoin, AndP!Matched,
     AndP!Outdated, AndP!TypeOK, AndP!MemoriesTypeOK, AndP!Pair
<1>2. IInv => OutIsJoin
  BY <1>1, SameAnd DEF IInv, OutIsJoin
<1> QED BY Invariance, <1>2, PTL

(* The children of a NAND node hold the items by the left that match none  *)
(* by the right.                                                           *)
THEOREM UnmatchedCorrect == ASSUME Kept PROVE Spec => []OutIsUnmatched
<1>1. ASSUME NandIInv PROVE NandOutIsUnmatched
  BY <1>1 DEF NandIInv, NandOutFollows, NandOutIsUnmatched
<1>2. IInv => OutIsUnmatched
  BY <1>1 DEF IInv, OutIsUnmatched
<1> QED BY Invariance, <1>2, PTL

(* The children of an OAND node hold the left outer join of its memories.  *)
THEOREM OuterJoinCorrect == ASSUME Kept PROVE Spec => []OutIsOuterJoin
<1>1. IInv => OutIsOuterJoin
  BY OuterJoinOK DEF IInv, OutIsOuterJoin
<1> QED BY Invariance, <1>1, PTL

(* Each MatchCount of a NAND or OAND node is the number of matches of its  *)
(* item.                                                                   *)
THEOREM CountsCorrect == ASSUME Kept PROVE Spec => []CountsAreExact
<1>1. ASSUME NandIInv PROVE CountIsExact
  BY <1>1 DEF NandIInv, AsymInv, CountsMatch, CountIsExact,
     NandTypeOK, MemoriesTypeOK
<1>2. ASSUME OandIInv PROVE CountIsExact
  BY <1>2 DEF OandIInv, AsymInv, CountsMatch, CountIsExact,
     OandTypeOK, MemoriesTypeOK
<1>3. IInv => CountsAreExact
  BY <1>1, <1>2 DEF IInv, CountsAreExact
<1> QED BY Invariance, <1>3, PTL

(* No arrival by the left deletes the MatchCount of an item still stored.  *)
THEOREM NeverDeletesInUse == ASSUME Kept PROVE Spec => []DeletesItsOwn
<1>1. IInv => DeletesItsOwn
  BY DEF IInv, DeletesItsOwn
<1> QED BY Invariance, <1>1, PTL

(* A node of any kind tells its children to INSERT what they do not hold   *)
(* and to MODIFY or RETRACT what they hold.                                *)
THEOREM NeverStray == ASSUME Kept PROVE Spec => NoStrays
<1>1. IInv /\ [Next]_vars => [EachFits]_vars
  BY StepOK
<1> QED BY Invariance, <1>1, PTL DEF Spec, NoStrays
=============================================================================
