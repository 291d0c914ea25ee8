---------------------------- MODULE AndNodeProofs -----------------------------
(***************************************************************************)
(* Proof that the children of an AND node hold the join of its memories,   *)
(* for any items, values and test, an item on both sides and TRIGGER sides *)
(* included, when no stored item changes the key it is filed under         *)
(* (KeysStay).                                                             *)
(*                                                                         *)
(* OutIsJoin speaks of the moments when no second arrival is outstanding.  *)
(* Between the two arrivals of an object (OutIsPartlyJoin) the pairs of    *)
(* the side it has not reached yet are still those of its old value, and   *)
(* what the second arrival is told of that old value must be right for     *)
(* what the other memory has (DueIsFaithful).                              *)
(***************************************************************************)
EXTENDS AndNode, TLAPS

(* The keys of an equality test are not changed by modifications. *)
KeysStay == Keyed => Moves = {}

TriggersForget == /\ LeftTrigger => lmem = {}
                  /\ RightTrigger => rmem = {}
                  /\ LeftTrigger \/ RightTrigger => out = {}

(* The pair was not reached yet by the second arrival of one of its items. *)
Outdated(l, r) ==
  /\ due # Settled
  /\ l # r
  /\ due.item = (IF due.side = "left" THEN l ELSE r)

Matched(l, r) ==
  IF Outdated(l, r)
  THEN Tested(l, r) /\ <<Before[l], Before[r]>> \in Joins
  ELSE Joined(l, r)

OutIsPartlyJoin ==
  \A l \in Left, r \in Right :
     <<l, r>> \in out <=> l \in lmem /\ r \in rmem /\ Matched(l, r)

DueIsFaithful ==
  due # Settled =>
    /\ due.item \in Left \intersect Right
    /\ \/ due.old = val[due.item]
       \/ due.tag = "MODIFY" /\ due.item \in Moves
       \/ due.item \notin (IF due.side = "left" THEN lmem ELSE rmem)

IInv == /\ TypeOK
        /\ TriggersForget
        /\ OutIsPartlyJoin
        /\ DueIsFaithful

-----------------------------------------------------------------------------
Matches(state, l, r) == Tested(l, r) /\ <<state[l], state[r]>> \in Joins

(* The two evaluations of the test give one of the three tags, or none.    *)
LEMMA PairTagType ==
  ASSUME NEW tag \in Tag, NEW before, NEW now, NEW l, NEW r
  PROVE  PairTag(tag, before, now, l, r) \in Tag \union {"none"}
BY DEF PairTag, Tag

(* What a message is about.                                                *)
LEMMA NoteFields ==
  ASSUME NEW t, NEW p
  PROVE  Note(t, p).tag = t /\ Note(t, p).was = p /\ Note(t, p).is = p
BY DEF Note

(* A pair no message is about stays. *)
LEMMA ToldOthers ==
  ASSUME NEW notes, Tell(notes), NEW p,
         \A m \in notes : m.was # p /\ m.is # p
  PROVE  p \in out' <=> p \in out
BY DEF Tell, Held

(* A message about a pair settles it. *)
LEMMA ToldByLeft ==
  ASSUME NEW l, NEW S, NEW stored \in Tag, NEW before, NEW now,
         ~LeftTrigger, ~RightTrigger,
         NEW notes, Tell(notes),
         \A m : m \in notes <=> \E r \in S : m = About(stored, before, now, l, r),
         NEW a, NEW b, a = l /\ b \in S, NEW t, t = PairTag(stored, before, now, a, b)
  PROVE  <<a, b>> \in out' <=>
           \/ t \in {"INSERT", "MODIFY"}
           \/ t = "none" /\ <<a, b>> \in out
<1>1. PICK T : T = [r \in S |-> PairTag(stored, before, now, l, r)]
  OBVIOUS
<1>2. \A r \in S : T[r] \in Tag \union {"none"}
  BY <1>1, PairTagType
<1>3. PICK msgs : msgs = {m \in notes : m.tag \in Tag} /\ out' = Held(msgs)
  BY DEF Tell
<1>4. \A r \in S : /\ About(stored, before, now, l, r).tag = T[r]
                   /\ About(stored, before, now, l, r).was = <<l, r>>
                   /\ About(stored, before, now, l, r).is = <<l, r>>
  BY <1>1, NoteFields DEF About
<1>5. <<a, b>> \in {m.was : m \in {n \in msgs : n.tag # "INSERT"}}
        <=> T[b] \in {"MODIFY", "RETRACT"}
  <2>1. <<a, b>> \in {m.was : m \in {n \in msgs : n.tag # "INSERT"}}
          <=> \E m \in msgs : m.tag # "INSERT" /\ m.was = <<a, b>>
    OBVIOUS
  <2>2. <<a, b>> \in {m.was : m \in {n \in msgs : n.tag # "INSERT"}}
          <=> \E r \in S : T[r] \in Tag /\ T[r] # "INSERT" /\ <<l, r>> = <<a, b>>
    BY <2>1, <1>3, <1>4
  <2> QED BY <2>2, <1>2 DEF Tag
<1>6. <<a, b>> \in {m.is : m \in {n \in msgs : n.tag # "RETRACT"}}
        <=> T[b] \in {"INSERT", "MODIFY"}
  <2>1. <<a, b>> \in {m.is : m \in {n \in msgs : n.tag # "RETRACT"}}
          <=> \E m \in msgs : m.tag # "RETRACT" /\ m.is = <<a, b>>
    OBVIOUS
  <2>2. <<a, b>> \in {m.is : m \in {n \in msgs : n.tag # "RETRACT"}}
          <=> \E r \in S : T[r] \in Tag /\ T[r] # "RETRACT" /\ <<l, r>> = <<a, b>>
    BY <2>1, <1>3, <1>4
  <2> QED BY <2>2, <1>2 DEF Tag
<1>7. <<a, b>> \in out' <=>
        \/ <<a, b>> \in out /\ T[b] \notin {"MODIFY", "RETRACT"}
        \/ T[b] \in {"INSERT", "MODIFY"}
  BY <1>3, <1>5, <1>6 DEF Held
<1>8. T[b] = PairTag(stored, before, now, a, b)
  BY <1>1
<1> QED BY <1>2, <1>7, <1>8 DEF Tag

(* The same for an arrival by the right.                                   *)
LEMMA ToldByRight ==
  ASSUME NEW r, NEW S, NEW stored \in Tag, NEW before, NEW now,
         ~LeftTrigger, ~RightTrigger,
         NEW notes, Tell(notes),
         \A m : m \in notes <=> \E l \in S : m = About(stored, before, now, l, r),
         NEW a, NEW b, b = r /\ a \in S, NEW t, t = PairTag(stored, before, now, a, b)
  PROVE  <<a, b>> \in out' <=>
           \/ t \in {"INSERT", "MODIFY"}
           \/ t = "none" /\ <<a, b>> \in out
<1>1. PICK T : T = [l \in S |-> PairTag(stored, before, now, l, r)]
  OBVIOUS
<1>2. \A l \in S : T[l] \in Tag \union {"none"}
  BY <1>1, PairTagType
<1>3. PICK msgs : msgs = {m \in notes : m.tag \in Tag} /\ out' = Held(msgs)
  BY DEF Tell
<1>4. \A l \in S : /\ About(stored, before, now, l, r).tag = T[l]
                   /\ About(stored, before, now, l, r).was = <<l, r>>
                   /\ About(stored, before, now, l, r).is = <<l, r>>
  BY <1>1, NoteFields DEF About
<1>5. <<a, b>> \in {m.was : m \in {n \in msgs : n.tag # "INSERT"}}
        <=> T[a] \in {"MODIFY", "RETRACT"}
  <2>1. <<a, b>> \in {m.was : m \in {n \in msgs : n.tag # "INSERT"}}
          <=> \E m \in msgs : m.tag # "INSERT" /\ m.was = <<a, b>>
    OBVIOUS
  <2>2. <<a, b>> \in {m.was : m \in {n \in msgs : n.tag # "INSERT"}}
          <=> \E l \in S : T[l] \in Tag /\ T[l] # "INSERT" /\ <<l, r>> = <<a, b>>
    BY <2>1, <1>3, <1>4
  <2> QED BY <2>2, <1>2 DEF Tag
<1>6. <<a, b>> \in {m.is : m \in {n \in msgs : n.tag # "RETRACT"}}
        <=> T[a] \in {"INSERT", "MODIFY"}
  <2>1. <<a, b>> \in {m.is : m \in {n \in msgs : n.tag # "RETRACT"}}
          <=> \E m \in msgs : m.tag # "RETRACT" /\ m.is = <<a, b>>
    OBVIOUS
  <2>2. <<a, b>> \in {m.is : m \in {n \in msgs : n.tag # "RETRACT"}}
          <=> \E l \in S : T[l] \in Tag /\ T[l] # "RETRACT" /\ <<l, r>> = <<a, b>>
    BY <2>1, <1>3, <1>4
  <2> QED BY <2>2, <1>2 DEF Tag
<1>7. <<a, b>> \in out' <=>
        \/ <<a, b>> \in out /\ T[a] \notin {"MODIFY", "RETRACT"}
        \/ T[a] \in {"INSERT", "MODIFY"}
  BY <1>3, <1>5, <1>6 DEF Held
<1>8. T[a] = PairTag(stored, before, now, a, b)
  BY <1>1
<1> QED BY <1>2, <1>7, <1>8 DEF Tag

-----------------------------------------------------------------------------
(* What the children hold of an item by the left is right for its old      *)
(* state; of the pair with itself, for the old or the new one.             *)
HeldLeft(l, before, now) ==
  \A r \in Right :
    /\ <<l, r>> \in out =>
         /\ l \in lmem /\ r \in rmem
         /\ Matches(before, l, r) \/ (l = r /\ Matches(now, l, r))
    /\ /\ l \in lmem /\ r \in rmem
       /\ Matches(before, l, r) /\ (Matches(now, l, r) \/ l # r)
       => <<l, r>> \in out

(* Then its arrival brings its pairs up to date, touches no other, and     *)
(* tells the children what fits what they hold.                            *)
LEMMA ByLeftPairs ==
  ASSUME NEW l \in Left, NEW tag \in Tag,
         NEW before \in [Left \union Right -> Value],
         NEW now \in [Left \union Right -> Value],
         ~LeftTrigger, ~RightTrigger, lmem \subseteq Left, rmem \subseteq Right,
         ByLeft(l, tag, before, now),
         \A x \in Left \union Right : x # l => before[x] = now[x],
         l \in lmem /\ (Keyed \/ tag # "MODIFY") => before[l] = now[l],
         HeldLeft(l, before, now)
  PROVE  /\ lmem' \subseteq Left /\ rmem' = rmem
         /\ \A x : x # l => (x \in lmem' <=> x \in lmem)
         /\ \A r \in Right :
              <<l, r>> \in out' <=> l \in lmem' /\ r \in rmem /\ Matches(now, l, r)
         /\ \A x, y : x # l => (<<x, y>> \in out' <=> <<x, y>> \in out)
         /\ ~SameObj => EachFits
<1> DEFINE stored == StoredTag(tag, l \in lmem, LeftTrigger)
           S == IF stored = "none" THEN {} ELSE Visited(rmem, now, l)
<1>1. /\ lmem' = Remember(lmem, l, stored, LeftTrigger)
      /\ Tell({About(stored, before, now, l, r) : r \in S})
      /\ rmem' = rmem
  BY DEF ByLeft
<1>2. \/ stored = "none" /\ tag = "INSERT" /\ l \in lmem
      \/ stored = "none" /\ tag = "RETRACT" /\ l \notin lmem
      \/ stored = "INSERT" /\ tag # "RETRACT" /\ l \notin lmem
      \/ stored = "MODIFY" /\ tag = "MODIFY" /\ l \in lmem
      \/ stored = "RETRACT" /\ tag = "RETRACT" /\ l \in lmem
  BY DEF StoredTag, Tag
<1>3. /\ lmem' \subseteq Left
      /\ \A x : x # l => (x \in lmem' <=> x \in lmem)
      /\ stored = "none" => lmem' = lmem
      /\ stored \in {"INSERT", "MODIFY"} => l \in lmem'
      /\ stored = "RETRACT" => l \notin lmem'
  BY <1>1 DEF Remember
<1> HIDE DEF stored, S
<1>4. CASE stored = "none"
  <2>1. S = {}
    BY <1>4 DEF S
  <2>2. out' = out
    BY <2>1, <1>1 DEF Tell, Held
  <2>3. \A r \in Right : <<l, r>> \in out <=>
             l \in lmem /\ r \in rmem /\ Matches(now, l, r)
    <3>1. l \in lmem => \A x \in Left \union Right : before[x] = now[x]
      BY <1>2, <1>4
    <3> QED BY <3>1 DEF Matches, HeldLeft
  <2>4. EachFits
    BY <2>1, <1>1 DEF EachFits, Tell
  <2> QED BY <2>2, <2>3, <2>4, <1>1, <1>3, <1>4
<1>5. CASE stored # "none"
  <2>1. stored \in Tag /\ S = Visited(rmem, now, l)
    BY <1>2, <1>5 DEF S, Tag
  <2> PICK notes : /\ notes = {About(stored, before, now, l, r) : r \in S}
                   /\ Tell(notes)
    BY <1>1
  <2>2. \A m : m \in notes <=> \E r \in S : m = About(stored, before, now, l, r)
    OBVIOUS
  <2>3. \A m \in notes : \E r \in S : m.was = <<l, r>> /\ m.is = <<l, r>>
    BY <2>2 DEF About, Note
  <2>4. ASSUME NEW x, NEW y, x # l
        PROVE  <<x, y>> \in out' <=> <<x, y>> \in out
    <3>1. \A m \in notes : m.was # <<x, y>> /\ m.is # <<x, y>>
      BY <2>3, <2>4
    <3> QED BY <3>1, ToldOthers
  <2>5. ASSUME NEW r \in Right
        PROVE  <<l, r>> \in out' <=>
                 l \in lmem' /\ r \in rmem /\ Matches(now, l, r)
    <3>1. PICK t : t = PairTag(stored, before, now, l, r)
      OBVIOUS
    <3>2. r \in S =>
            (<<l, r>> \in out' <=>
               \/ t \in {"INSERT", "MODIFY"}
               \/ t = "none" /\ <<l, r>> \in out)
      BY <3>1, <2>2, <2>1, ToldByLeft
    <3>3. r \notin S => (<<l, r>> \in out' <=> <<l, r>> \in out)
      <4>1. r \notin S => \A m \in notes : m.was # <<l, r>> /\ m.is # <<l, r>>
        BY <2>3
      <4> QED BY <4>1, ToldOthers
    <3>4. r \in S <=> r \in rmem /\ (Keyed => now[r] = now[l])
      BY <2>1 DEF Visited
    <3>5. Matches(now, l, r) => (Keyed => now[r] = now[l])
      BY BetaAssumption DEF Matches
    <3>6. r \in S => (Passes(now, l, r) <=> Matches(now, l, r))
      BY <3>4, BetaAssumption DEF Matches, Passes
    <3>7. CASE stored = "INSERT"
      BY <3>1, <3>2, <3>3, <3>4, <3>5, <3>6, <3>7, <1>2, <1>3
         DEF PairTag, HeldLeft
    <3>8. CASE stored = "RETRACT"
      <4>1. \A x \in Left \union Right : before[x] = now[x]
        BY <1>2, <3>8
      <4>2. Matches(before, l, r) => Matches(now, l, r)
        BY <4>1 DEF Matches
      <4> QED BY <3>1, <3>2, <3>3, <3>4, <3>5, <3>6, <3>8, <4>2, <1>2, <1>3
         DEF PairTag, HeldLeft
    <3>9. CASE stored = "MODIFY"
      <4>1. Keyed => \A x \in Left \union Right : before[x] = now[x]
        BY <1>2, <3>9
      <4>2. r \in S => (Passes(before, l, r) <=> Matches(before, l, r))
        BY <4>1, <3>4, BetaAssumption DEF Matches, Passes
      <4>3. Keyed => (Matches(before, l, r) <=> Matches(now, l, r))
        BY <4>1 DEF Matches
      <4> QED BY <3>1, <3>2, <3>3, <3>4, <3>5, <3>6, <3>9, <4>2, <4>3, <1>2, <1>3
         DEF PairTag, HeldLeft
    <3> QED BY <3>7, <3>8, <3>9, <2>1 DEF Tag
  <2>6. ASSUME NEW m \in sent', ~SameObj PROVE Fits(m)
    <3>1. PICK r \in S : m = About(stored, before, now, l, r)
      BY <2>2 DEF Tell
    <3>2. /\ m.tag = PairTag(stored, before, now, l, r) /\ m.tag \in Tag
          /\ m.was = <<l, r>> /\ m.is = <<l, r>>
      BY <3>1, NoteFields DEF Tell, About
    <3>3. r \in rmem /\ (Keyed => now[r] = now[l])
      BY <2>1 DEF Visited
    <3>4. l # r
      BY <3>2, <2>6 DEF PairTag, Passes, Tested, Tag
    <3>5. stored # "INSERT" =>
            (<<l, r>> \in out <=> l \in lmem /\ r \in rmem /\ Matches(before, l, r))
      BY <3>3, <3>4 DEF HeldLeft
    <3>6. stored = "INSERT" => m.tag = "INSERT" /\ <<l, r>> \notin out
      BY <3>2, <3>3, <1>2 DEF PairTag, Tag, HeldLeft
    <3>7. stored # "INSERT" /\ (Keyed \/ stored = "RETRACT") =>
            \A x \in Left \union Right : before[x] = now[x]
      BY <1>2, <2>1 DEF Tag
    <3>8. stored # "INSERT" => (Passes(before, l, r) <=> Matches(before, l, r))
      BY <3>3, <3>7, BetaAssumption DEF Passes, Matches
    <3>9. stored = "RETRACT" => (Passes(now, l, r) <=> Matches(before, l, r))
      BY <3>3, <3>7, BetaAssumption DEF Passes, Matches
    <3> QED BY <3>2, <3>3, <3>5, <3>6, <3>8, <3>9, <1>2, <2>1 DEF Fits, PairTag, Tag
  <2> QED BY <2>4, <2>5, <2>6, <1>1, <1>3 DEF EachFits
<1> QED BY <1>4, <1>5

(* The same of an item by the right. *)
HeldRight(r, before, now) ==
  \A l \in Left :
    /\ <<l, r>> \in out =>
         /\ r \in rmem /\ l \in lmem
         /\ Matches(before, l, r) \/ (l = r /\ Matches(now, l, r))
    /\ /\ r \in rmem /\ l \in lmem
       /\ Matches(before, l, r) /\ (Matches(now, l, r) \/ l # r)
       => <<l, r>> \in out

(* And so does an arrival by the right. *)
LEMMA ByRightPairs ==
  ASSUME NEW r \in Right, NEW tag \in Tag,
         NEW before \in [Left \union Right -> Value],
         NEW now \in [Left \union Right -> Value],
         ~LeftTrigger, ~RightTrigger, lmem \subseteq Left, rmem \subseteq Right,
         ByRight(r, tag, before, now),
         \A x \in Left \union Right : x # r => before[x] = now[x],
         r \in rmem /\ (Keyed \/ tag # "MODIFY") => before[r] = now[r],
         HeldRight(r, before, now)
  PROVE  /\ rmem' \subseteq Right /\ lmem' = lmem
         /\ \A x : x # r => (x \in rmem' <=> x \in rmem)
         /\ \A l \in Left :
              <<l, r>> \in out' <=> r \in rmem' /\ l \in lmem /\ Matches(now, l, r)
         /\ \A x, y : x # r => (<<y, x>> \in out' <=> <<y, x>> \in out)
         /\ ~SameObj => EachFits
<1> DEFINE stored == StoredTag(tag, r \in rmem, RightTrigger)
           S == IF stored = "none" THEN {} ELSE Visited(lmem, now, r)
<1>1. /\ rmem' = Remember(rmem, r, stored, RightTrigger)
      /\ Tell({About(stored, before, now, l, r) : l \in S})
      /\ lmem' = lmem
  BY DEF ByRight
<1>2. \/ stored = "none" /\ tag = "INSERT" /\ r \in rmem
      \/ stored = "none" /\ tag = "RETRACT" /\ r \notin rmem
      \/ stored = "INSERT" /\ tag # "RETRACT" /\ r \notin rmem
      \/ stored = "MODIFY" /\ tag = "MODIFY" /\ r \in rmem
      \/ stored = "RETRACT" /\ tag = "RETRACT" /\ r \in rmem
  BY DEF StoredTag, Tag
<1>3. /\ rmem' \subseteq Right
      /\ \A x : x # r => (x \in rmem' <=> x \in rmem)
      /\ stored = "none" => rmem' = rmem
      /\ stored \in {"INSERT", "MODIFY"} => r \in rmem'
      /\ stored = "RETRACT" => r \notin rmem'
  BY <1>1 DEF Remember
<1> HIDE DEF stored, S
<1>4. CASE stored = "none"
  <2>1. S = {}
    BY <1>4 DEF S
  <2>2. out' = out
    BY <2>1, <1>1 DEF Tell, Held
  <2>3. \A l \in Left : <<l, r>> \in out <=>
             r \in rmem /\ l \in lmem /\ Matches(now, l, r)
    <3>1. r \in rmem => \A x \in Left \union Right : before[x] = now[x]
      BY <1>2, <1>4
    <3> QED BY <3>1 DEF Matches, HeldRight
  <2>4. EachFits
    BY <2>1, <1>1 DEF EachFits, Tell
  <2> QED BY <2>2, <2>3, <2>4, <1>1, <1>3, <1>4
<1>5. CASE stored # "none"
  <2>1. stored \in Tag /\ S = Visited(lmem, now, r)
    BY <1>2, <1>5 DEF S, Tag
  <2> PICK notes : /\ notes = {About(stored, before, now, l, r) : l \in S}
                   /\ Tell(notes)
    BY <1>1
  <2>2. \A m : m \in notes <=> \E l \in S : m = About(stored, before, now, l, r)
    OBVIOUS
  <2>3. \A m \in notes : \E l \in S : m.was = <<l, r>> /\ m.is = <<l, r>>
    BY <2>2 DEF About, Note
  <2>4. ASSUME NEW x, NEW y, x # r
        PROVE  <<y, x>> \in out' <=> <<y, x>> \in out
    <3>1. \A m \in notes : m.was # <<y, x>> /\ m.is # <<y, x>>
      BY <2>3, <2>4
    <3> QED BY <3>1, ToldOthers
  <2>5. ASSUME NEW l \in Left
        PROVE  <<l, r>> \in out' <=>
                 r \in rmem' /\ l \in lmem /\ Matches(now, l, r)
    <3>1. PICK t : t = PairTag(stored, before, now, l, r)
      OBVIOUS
    <3>2. l \in S =>
            (<<l, r>> \in out' <=>
               \/ t \in {"INSERT", "MODIFY"}
               \/ t = "none" /\ <<l, r>> \in out)
      BY <3>1, <2>2, <2>1, ToldByRight
    <3>3. l \notin S => (<<l, r>> \in out' <=> <<l, r>> \in out)
      <4>1. l \notin S => \A m \in notes : m.was # <<l, r>> /\ m.is # <<l, r>>
        BY <2>3
      <4> QED BY <4>1, ToldOthers
    <3>4. l \in S <=> l \in lmem /\ (Keyed => now[l] = now[r])
      BY <2>1 DEF Visited
    <3>5. Matches(now, l, r) => (Keyed => now[l] = now[r])
      BY BetaAssumption DEF Matches
    <3>6. l \in S => (Passes(now, l, r) <=> Matches(now, l, r))
      BY <3>4, BetaAssumption DEF Matches, Passes
    <3>7. CASE stored = "INSERT"
      BY <3>1, <3>2, <3>3, <3>4, <3>5, <3>6, <3>7, <1>2, <1>3
         DEF PairTag, HeldRight
    <3>8. CASE stored = "RETRACT"
      <4>1. \A x \in Left \union Right : before[x] = now[x]
        BY <1>2, <3>8
      <4>2. Matches(before, l, r) => Matches(now, l, r)
        BY <4>1 DEF Matches
      <4> QED BY <3>1, <3>2, <3>3, <3>4, <3>5, <3>6, <3>8, <4>2, <1>2, <1>3
         DEF PairTag, HeldRight
    <3>9. CASE stored = "MODIFY"
      <4>1. Keyed => \A x \in Left \union Right : before[x] = now[x]
        BY <1>2, <3>9
      <4>2. l \in S => (Passes(before, l, r) <=> Matches(before, l, r))
        BY <4>1, <3>4, BetaAssumption DEF Matches, Passes
      <4>3. Keyed => (Matches(before, l, r) <=> Matches(now, l, r))
        BY <4>1 DEF Matches
      <4> QED BY <3>1, <3>2, <3>3, <3>4, <3>5, <3>6, <3>9, <4>2, <4>3, <1>2, <1>3
         DEF PairTag, HeldRight
    <3> QED BY <3>7, <3>8, <3>9, <2>1 DEF Tag
  <2>6. ASSUME NEW m \in sent', ~SameObj PROVE Fits(m)
    <3>1. PICK l \in S : m = About(stored, before, now, l, r)
      BY <2>2 DEF Tell
    <3>2. /\ m.tag = PairTag(stored, before, now, l, r) /\ m.tag \in Tag
          /\ m.was = <<l, r>> /\ m.is = <<l, r>>
      BY <3>1, NoteFields DEF Tell, About
    <3>3. l \in lmem /\ (Keyed => now[l] = now[r])
      BY <2>1 DEF Visited
    <3>4. l # r
      BY <3>2, <2>6 DEF PairTag, Passes, Tested, Tag
    <3>5. stored # "INSERT" =>
            (<<l, r>> \in out <=> r \in rmem /\ l \in lmem /\ Matches(before, l, r))
      BY <3>3, <3>4 DEF HeldRight
    <3>6. stored = "INSERT" => m.tag = "INSERT" /\ <<l, r>> \notin out
      BY <3>2, <3>3, <1>2 DEF PairTag, Tag, HeldRight
    <3>7. stored # "INSERT" /\ (Keyed \/ stored = "RETRACT") =>
            \A x \in Left \union Right : before[x] = now[x]
      BY <1>2, <2>1 DEF Tag
    <3>8. stored # "INSERT" => (Passes(before, l, r) <=> Matches(before, l, r))
      BY <3>3, <3>7, BetaAssumption DEF Passes, Matches
    <3>9. stored = "RETRACT" => (Passes(now, l, r) <=> Matches(before, l, r))
      BY <3>3, <3>7, BetaAssumption DEF Passes, Matches
    <3> QED BY <3>2, <3>3, <3>5, <3>6, <3>8, <3>9, <1>2, <2>1 DEF Fits, PairTag, Tag
  <2> QED BY <2>4, <2>5, <2>6, <1>1, <1>3 DEF EachFits
<1> QED BY <1>4, <1>5

-----------------------------------------------------------------------------
(* Types, and what a TRIGGER side forgets. *)
LEMMA ByLeftType ==
  ASSUME NEW l \in Left, NEW tag \in Tag, NEW before, NEW now,
         lmem \subseteq Left, rmem \subseteq Right, out \subseteq Pair,
         TriggersForget, ByLeft(l, tag, before, now)
  PROVE  /\ lmem' \subseteq Left /\ rmem' \subseteq Right
         /\ out' \subseteq Pair
         /\ sent' \subseteq [tag : Tag, was : Pair, is : Pair]
         /\ TriggersForget'
<1> DEFINE stored == StoredTag(tag, l \in lmem, LeftTrigger)
           S == IF stored = "none" THEN {} ELSE Visited(rmem, now, l)
<1>1. /\ lmem' = Remember(lmem, l, stored, LeftTrigger)
      /\ Tell({About(stored, before, now, l, r) : r \in S})
      /\ rmem' = rmem
  BY DEF ByLeft
<1>2. S \subseteq Right
  BY DEF Visited
<1>3. lmem' \subseteq Left /\ (LeftTrigger => lmem' = lmem)
  BY <1>1 DEF Remember
<1> HIDE DEF S, stored
<1>4. PICK notes : /\ notes = {About(stored, before, now, l, r) : r \in S}
                   /\ Tell(notes)
  BY <1>1
<1>5. ASSUME NEW m \in notes, m.tag \in Tag
      PROVE  m \in [tag : Tag, was : Pair, is : Pair] /\ m.was \in Pair /\ m.is \in Pair
  BY <1>4, <1>5, <1>2 DEF About, Note, Pair
<1>6. /\ sent' = {m \in notes : m.tag \in Tag}
      /\ out' = Held(sent')
  BY <1>4 DEF Tell
<1>7. sent' \subseteq [tag : Tag, was : Pair, is : Pair]
  BY <1>5, <1>6
<1>8. out' \subseteq Pair
  BY <1>5, <1>6 DEF Held
<1>9. TriggersForget'
  BY <1>1, <1>3, <1>6 DEF TriggersForget, Held
<1> QED BY <1>1, <1>3, <1>7, <1>8, <1>9

(* The first of its two arrivals, or the only one. *)
LEMMA StartsLeftOK ==
  ASSUME IInv, KeysStay, NEW l \in Left, NEW tag \in Tag,
         NEW v \in Arriving(tag, l),
         Starts("left", l, tag, v), ByLeft(l, tag, val, val')
  PROVE  IInv' /\ (~SameObj => EachFits)
<1>1. /\ val \in [Left \union Right -> Value]
      /\ lmem \subseteq Left /\ rmem \subseteq Right /\ out \subseteq Pair
      /\ due = Settled
  BY DEF IInv, TypeOK, MemoriesTypeOK, Starts
<1>2. v \in Value
  BY <1>1 DEF Arriving
<1>3. /\ val' \in [Left \union Right -> Value]
      /\ val'[l] = v
      /\ \A x \in Left \union Right : x # l => val[x] = val'[x]
  BY <1>1, <1>2 DEF Starts
<1>4. /\ lmem' \subseteq Left /\ rmem' \subseteq Right
      /\ out' \subseteq Pair
      /\ sent' \subseteq [tag : Tag, was : Pair, is : Pair]
      /\ TriggersForget'
      /\ rmem' = rmem
  <2>1. rmem' = rmem
    BY DEF ByLeft
  <2>2. TriggersForget
    BY DEF IInv
  <2> QED BY <2>1, <2>2, <1>1, ByLeftType
<1>5. \/ /\ l \in Left \intersect Right
         /\ due' = [side |-> "right", item |-> l, tag |-> tag, old |-> val[l]]
      \/ l \notin Left \intersect Right /\ due' = Settled
  BY DEF Starts, OtherSide
<1>6. due' \in {Settled} \union Second
  BY <1>1, <1>5 DEF Second
<1>7. TypeOK'
  BY <1>3, <1>4, <1>6 DEF TypeOK, MemoriesTypeOK
<1>8. \/ l \notin lmem \union rmem
      \/ tag = "MODIFY" /\ l \in Moves
      \/ val'[l] = val[l]
  BY <1>3 DEF Arriving
<1>9. DueIsFaithful'
  <2>1. CASE due' = Settled
    BY <2>1 DEF DueIsFaithful
  <2>2. CASE /\ l \in Left \intersect Right
             /\ due' = [side |-> "right", item |-> l, tag |-> tag, old |-> val[l]]
    BY <2>2, <1>4, <1>8 DEF DueIsFaithful
  <2> QED BY <2>1, <2>2, <1>5
<1>10. OutIsPartlyJoin' /\ (~SameObj => EachFits)
  <2>1. CASE LeftTrigger \/ RightTrigger
    BY <2>1, <1>4 DEF TriggersForget, OutIsPartlyJoin, EachFits
  <2>2. CASE ~LeftTrigger /\ ~RightTrigger
    <3>1. \A l1 \in Left, r1 \in Right :
             <<l1, r1>> \in out <=> l1 \in lmem /\ r1 \in rmem /\ Matches(val, l1, r1)
      BY <1>1 DEF IInv, OutIsPartlyJoin, Matched, Outdated, Joined, Matches
    <3>2. l \in lmem /\ (Keyed \/ tag # "MODIFY") => val[l] = val'[l]
      BY <1>8 DEF KeysStay
    <3>3. HeldLeft(l, val, val')
      BY <3>1 DEF HeldLeft
    <3>4. /\ lmem' \subseteq Left /\ rmem' = rmem
          /\ \A x : x # l => (x \in lmem' <=> x \in lmem)
          /\ \A r \in Right :
               <<l, r>> \in out' <=> l \in lmem' /\ r \in rmem /\ Matches(val', l, r)
          /\ \A x, y : x # l => (<<x, y>> \in out' <=> <<x, y>> \in out)
          /\ ~SameObj => EachFits
      BY <3>2, <3>3, <2>2, <1>1, <1>3, ByLeftPairs
    <3>5. ASSUME NEW x \in Left, NEW y \in Right
          PROVE  <<x, y>> \in out' <=> x \in lmem' /\ y \in rmem' /\ Matched(x, y)'
      <4>1. CASE x = l
        <5>1. Matched(x, y)' <=> Matches(val', x, y)
          BY <4>1, <1>5 DEF Matched, Outdated, Joined, Matches, Settled
        <5> QED BY <4>1, <5>1, <3>4
      <4>2. CASE x # l
        <5>1. Matched(x, y)' <=> Matches(val, x, y)
          <6>1. CASE y = l
            <7>1. Before'[x] = val[x] /\ Before'[y] = val[y]
              BY <6>1, <4>2, <1>3, <1>5 DEF Before
            <7>2. Outdated(x, y)'
              BY <6>1, <4>2, <1>5 DEF Outdated, Settled
            <7> QED BY <7>1, <7>2 DEF Matched, Matches
          <6>2. CASE y # l
            <7>1. ~Outdated(x, y)'
              BY <6>2, <4>2, <1>5 DEF Outdated
            <7>2. val'[x] = val[x] /\ val'[y] = val[y]
              BY <6>2, <4>2, <1>3
            <7> QED BY <7>1, <7>2 DEF Matched, Joined, Matches
          <6> QED BY <6>1, <6>2
        <5>2. <<x, y>> \in out' <=> <<x, y>> \in out
          BY <3>4, <4>2
        <5>3. <<x, y>> \in out <=> x \in lmem /\ y \in rmem /\ Matches(val, x, y)
          BY <3>1
        <5>4. (x \in lmem' <=> x \in lmem) /\ rmem' = rmem
          BY <3>4, <4>2
        <5> QED BY <5>1, <5>2, <5>3, <5>4
      <4> QED BY <4>1, <4>2
    <3> QED BY <3>5, <3>4 DEF OutIsPartlyJoin
  <2> QED BY <2>1, <2>2
<1> QED BY <1>4, <1>7, <1>9, <1>10 DEF IInv

(* The second of its two arrivals. *)
LEMMA EndsLeftOK ==
  ASSUME IInv, KeysStay, NEW l \in Left, NEW tag \in Tag,
         Ends("left", l, tag), ByLeft(l, tag, Before, val)
  PROVE  IInv' /\ (~SameObj => EachFits)
<1>1. /\ val \in [Left \union Right -> Value]
      /\ lmem \subseteq Left /\ rmem \subseteq Right /\ out \subseteq Pair
      /\ due # Settled /\ due \in Second
      /\ due.side = "left" /\ due.item = l /\ due.tag = tag
      /\ due' = Settled /\ val' = val
  BY DEF IInv, TypeOK, MemoriesTypeOK, Ends
<1>2. due.old \in Value
  BY <1>1 DEF Second
<1>3. /\ Before \in [Left \union Right -> Value]
      /\ Before[l] = due.old
      /\ \A x \in Left \union Right : x # l => Before[x] = val[x]
  BY <1>1, <1>2 DEF Before
<1>4. /\ lmem' \subseteq Left /\ rmem' \subseteq Right
      /\ out' \subseteq Pair
      /\ sent' \subseteq [tag : Tag, was : Pair, is : Pair]
      /\ TriggersForget'
      /\ rmem' = rmem
  <2>1. rmem' = rmem
    BY DEF ByLeft
  <2>2. TriggersForget
    BY DEF IInv
  <2> QED BY <2>1, <2>2, <1>1, ByLeftType
<1>5. TypeOK'
  BY <1>1, <1>4 DEF TypeOK, MemoriesTypeOK
<1>6. DueIsFaithful'
  BY <1>1 DEF DueIsFaithful
<1>7. OutIsPartlyJoin' /\ (~SameObj => EachFits)
  <2>1. CASE LeftTrigger \/ RightTrigger
    BY <2>1, <1>4 DEF TriggersForget, OutIsPartlyJoin, EachFits
  <2>2. CASE ~LeftTrigger /\ ~RightTrigger
    <3>1. ASSUME NEW r \in Right, r # l
          PROVE  <<l, r>> \in out <=> l \in lmem /\ r \in rmem /\ Matches(Before, l, r)
      BY <3>1, <1>1 DEF IInv, OutIsPartlyJoin, Matched, Outdated, Matches
    <3>2. l \in Right =>
            (<<l, l>> \in out <=> l \in lmem /\ l \in rmem /\ Matches(val, l, l))
      BY <1>1 DEF IInv, OutIsPartlyJoin, Matched, Outdated, Joined, Matches
    <3>3. l \in lmem /\ (Keyed \/ tag # "MODIFY") => Before[l] = val[l]
      BY <1>1, <1>3 DEF IInv, DueIsFaithful, KeysStay
    <3>4. HeldLeft(l, Before, val)
      BY <3>1, <3>2 DEF HeldLeft
    <3>5. /\ val \in [Left \union Right -> Value]
          /\ lmem \subseteq Left /\ rmem \subseteq Right
      BY <1>1
    <3>6. /\ Before \in [Left \union Right -> Value]
          /\ \A x \in Left \union Right : x # l => Before[x] = val[x]
          /\ ByLeft(l, tag, Before, val)
      BY <1>3
    <3>7. /\ lmem' \subseteq Left /\ rmem' = rmem
          /\ \A x : x # l => (x \in lmem' <=> x \in lmem)
          /\ \A r \in Right :
               <<l, r>> \in out' <=> l \in lmem' /\ r \in rmem /\ Matches(val, l, r)
          /\ \A x, y : x # l => (<<x, y>> \in out' <=> <<x, y>> \in out)
          /\ ~SameObj => EachFits
      BY <3>3, <3>4, <3>5, <3>6, <2>2, ByLeftPairs
    <3>8. ASSUME NEW x \in Left, NEW y \in Right
          PROVE  <<x, y>> \in out' <=> x \in lmem' /\ y \in rmem' /\ Matched(x, y)'
      <4>1. Matched(x, y)' <=> Matches(val, x, y)
        BY <1>1 DEF Matched, Outdated, Joined, Matches
      <4>2. x # l =>
              (<<x, y>> \in out <=> x \in lmem /\ y \in rmem /\ Matches(val, x, y))
        BY <1>1 DEF IInv, OutIsPartlyJoin, Matched, Outdated, Joined, Matches
      <4> QED BY <4>1, <4>2, <3>7
    <3> QED BY <3>8, <3>7 DEF OutIsPartlyJoin
  <2> QED BY <2>1, <2>2
<1> QED BY <1>4, <1>5, <1>6, <1>7 DEF IInv

(* Types, and what a TRIGGER side forgets. *)
LEMMA ByRightType ==
  ASSUME NEW r \in Right, NEW tag \in Tag, NEW before, NEW now,
         lmem \subseteq Left, rmem \subseteq Right, out \subseteq Pair,
         TriggersForget, ByRight(r, tag, before, now)
  PROVE  /\ lmem' \subseteq Left /\ rmem' \subseteq Right
         /\ out' \subseteq Pair
         /\ sent' \subseteq [tag : Tag, was : Pair, is : Pair]
         /\ TriggersForget'
<1> DEFINE stored == StoredTag(tag, r \in rmem, RightTrigger)
           S == IF stored = "none" THEN {} ELSE Visited(lmem, now, r)
<1>1. /\ rmem' = Remember(rmem, r, stored, RightTrigger)
      /\ Tell({About(stored, before, now, l, r) : l \in S})
      /\ lmem' = lmem
  BY DEF ByRight
<1>2. S \subseteq Left
  BY DEF Visited
<1>3. rmem' \subseteq Right /\ (RightTrigger => rmem' = rmem)
  BY <1>1 DEF Remember
<1> HIDE DEF S, stored
<1>4. PICK notes : /\ notes = {About(stored, before, now, l, r) : l \in S}
                   /\ Tell(notes)
  BY <1>1
<1>5. ASSUME NEW m \in notes, m.tag \in Tag
      PROVE  m \in [tag : Tag, was : Pair, is : Pair] /\ m.was \in Pair /\ m.is \in Pair
  BY <1>4, <1>5, <1>2 DEF About, Note, Pair
<1>6. /\ sent' = {m \in notes : m.tag \in Tag}
      /\ out' = Held(sent')
  BY <1>4 DEF Tell
<1>7. sent' \subseteq [tag : Tag, was : Pair, is : Pair]
  BY <1>5, <1>6
<1>8. out' \subseteq Pair
  BY <1>5, <1>6 DEF Held
<1>9. TriggersForget'
  BY <1>1, <1>3, <1>6 DEF TriggersForget, Held
<1> QED BY <1>1, <1>3, <1>7, <1>8, <1>9

(* The first of its two arrivals, or the only one. *)
LEMMA StartsRightOK ==
  ASSUME IInv, KeysStay, NEW r \in Right, NEW tag \in Tag,
         NEW v \in Arriving(tag, r),
         Starts("right", r, tag, v), ByRight(r, tag, val, val')
  PROVE  IInv' /\ (~SameObj => EachFits)
<1>1. /\ val \in [Left \union Right -> Value]
      /\ lmem \subseteq Left /\ rmem \subseteq Right /\ out \subseteq Pair
      /\ due = Settled
  BY DEF IInv, TypeOK, MemoriesTypeOK, Starts
<1>2. v \in Value
  BY <1>1 DEF Arriving
<1>3. /\ val' \in [Left \union Right -> Value]
      /\ val'[r] = v
      /\ \A x \in Left \union Right : x # r => val[x] = val'[x]
  BY <1>1, <1>2 DEF Starts
<1>4. /\ lmem' \subseteq Left /\ rmem' \subseteq Right
      /\ out' \subseteq Pair
      /\ sent' \subseteq [tag : Tag, was : Pair, is : Pair]
      /\ TriggersForget'
      /\ lmem' = lmem
  <2>1. lmem' = lmem
    BY DEF ByRight
  <2>2. TriggersForget
    BY DEF IInv
  <2> QED BY <2>1, <2>2, <1>1, ByRightType
<1>5. \/ /\ r \in Left \intersect Right
         /\ due' = [side |-> "left", item |-> r, tag |-> tag, old |-> val[r]]
      \/ r \notin Left \intersect Right /\ due' = Settled
  BY DEF Starts, OtherSide
<1>6. due' \in {Settled} \union Second
  BY <1>1, <1>5 DEF Second
<1>7. TypeOK'
  BY <1>3, <1>4, <1>6 DEF TypeOK, MemoriesTypeOK
<1>8. \/ r \notin lmem \union rmem
      \/ tag = "MODIFY" /\ r \in Moves
      \/ val'[r] = val[r]
  BY <1>3 DEF Arriving
<1>9. DueIsFaithful'
  <2>1. CASE due' = Settled
    BY <2>1 DEF DueIsFaithful
  <2>2. CASE /\ r \in Left \intersect Right
             /\ due' = [side |-> "left", item |-> r, tag |-> tag, old |-> val[r]]
    BY <2>2, <1>4, <1>8 DEF DueIsFaithful
  <2> QED BY <2>1, <2>2, <1>5
<1>10. OutIsPartlyJoin' /\ (~SameObj => EachFits)
  <2>1. CASE LeftTrigger \/ RightTrigger
    BY <2>1, <1>4 DEF TriggersForget, OutIsPartlyJoin, EachFits
  <2>2. CASE ~LeftTrigger /\ ~RightTrigger
    <3>1. \A l1 \in Left, r1 \in Right :
             <<l1, r1>> \in out <=> l1 \in lmem /\ r1 \in rmem /\ Matches(val, l1, r1)
      BY <1>1 DEF IInv, OutIsPartlyJoin, Matched, Outdated, Joined, Matches
    <3>2. r \in rmem /\ (Keyed \/ tag # "MODIFY") => val[r] = val'[r]
      BY <1>8 DEF KeysStay
    <3>3. HeldRight(r, val, val')
      BY <3>1 DEF HeldRight
    <3>4. /\ rmem' \subseteq Right /\ lmem' = lmem
          /\ \A x : x # r => (x \in rmem' <=> x \in rmem)
          /\ \A l \in Left :
               <<l, r>> \in out' <=> r \in rmem' /\ l \in lmem /\ Matches(val', l, r)
          /\ \A x, y : x # r => (<<y, x>> \in out' <=> <<y, x>> \in out)
          /\ ~SameObj => EachFits
      BY <3>2, <3>3, <2>2, <1>1, <1>3, ByRightPairs
    <3>5. ASSUME NEW x \in Right, NEW y \in Left
          PROVE  <<y, x>> \in out' <=> x \in rmem' /\ y \in lmem' /\ Matched(y, x)'
      <4>1. CASE x = r
        <5>1. Matched(y, x)' <=> Matches(val', y, x)
          BY <4>1, <1>5 DEF Matched, Outdated, Joined, Matches, Settled
        <5> QED BY <4>1, <5>1, <3>4
      <4>2. CASE x # r
        <5>1. Matched(y, x)' <=> Matches(val, y, x)
          <6>1. CASE y = r
            <7>1. Before'[x] = val[x] /\ Before'[y] = val[y]
              BY <6>1, <4>2, <1>3, <1>5 DEF Before
            <7>2. Outdated(y, x)'
              BY <6>1, <4>2, <1>5 DEF Outdated, Settled
            <7> QED BY <7>1, <7>2 DEF Matched, Matches
          <6>2. CASE y # r
            <7>1. ~Outdated(y, x)'
              BY <6>2, <4>2, <1>5 DEF Outdated
            <7>2. val'[x] = val[x] /\ val'[y] = val[y]
              BY <6>2, <4>2, <1>3
            <7> QED BY <7>1, <7>2 DEF Matched, Joined, Matches
          <6> QED BY <6>1, <6>2
        <5>2. <<y, x>> \in out' <=> <<y, x>> \in out
          BY <3>4, <4>2
        <5>3. <<y, x>> \in out <=> x \in rmem /\ y \in lmem /\ Matches(val, y, x)
          BY <3>1
        <5>4. (x \in rmem' <=> x \in rmem) /\ lmem' = lmem
          BY <3>4, <4>2
        <5> QED BY <5>1, <5>2, <5>3, <5>4
      <4> QED BY <4>1, <4>2
    <3> QED BY <3>5, <3>4 DEF OutIsPartlyJoin
  <2> QED BY <2>1, <2>2
<1> QED BY <1>4, <1>7, <1>9, <1>10 DEF IInv

(* The second of its two arrivals. *)
LEMMA EndsRightOK ==
  ASSUME IInv, KeysStay, NEW r \in Right, NEW tag \in Tag,
         Ends("right", r, tag), ByRight(r, tag, Before, val)
  PROVE  IInv' /\ (~SameObj => EachFits)
<1>1. /\ val \in [Left \union Right -> Value]
      /\ lmem \subseteq Left /\ rmem \subseteq Right /\ out \subseteq Pair
      /\ due # Settled /\ due \in Second
      /\ due.side = "right" /\ due.item = r /\ due.tag = tag
      /\ due' = Settled /\ val' = val
  BY DEF IInv, TypeOK, MemoriesTypeOK, Ends
<1>2. due.old \in Value
  BY <1>1 DEF Second
<1>3. /\ Before \in [Left \union Right -> Value]
      /\ Before[r] = due.old
      /\ \A x \in Left \union Right : x # r => Before[x] = val[x]
  BY <1>1, <1>2 DEF Before
<1>4. /\ lmem' \subseteq Left /\ rmem' \subseteq Right
      /\ out' \subseteq Pair
      /\ sent' \subseteq [tag : Tag, was : Pair, is : Pair]
      /\ TriggersForget'
      /\ lmem' = lmem
  <2>1. lmem' = lmem
    BY DEF ByRight
  <2>2. TriggersForget
    BY DEF IInv
  <2> QED BY <2>1, <2>2, <1>1, ByRightType
<1>5. TypeOK'
  BY <1>1, <1>4 DEF TypeOK, MemoriesTypeOK
<1>6. DueIsFaithful'
  BY <1>1 DEF DueIsFaithful
<1>7. OutIsPartlyJoin' /\ (~SameObj => EachFits)
  <2>1. CASE LeftTrigger \/ RightTrigger
    BY <2>1, <1>4 DEF TriggersForget, OutIsPartlyJoin, EachFits
  <2>2. CASE ~LeftTrigger /\ ~RightTrigger
    <3>1. ASSUME NEW l \in Left, l # r
          PROVE  <<l, r>> \in out <=> r \in rmem /\ l \in lmem /\ Matches(Before, l, r)
      BY <3>1, <1>1 DEF IInv, OutIsPartlyJoin, Matched, Outdated, Matches
    <3>2. r \in Left =>
            (<<r, r>> \in out <=> r \in rmem /\ r \in lmem /\ Matches(val, r, r))
      BY <1>1 DEF IInv, OutIsPartlyJoin, Matched, Outdated, Joined, Matches
    <3>3. r \in rmem /\ (Keyed \/ tag # "MODIFY") => Before[r] = val[r]
      BY <1>1, <1>3 DEF IInv, DueIsFaithful, KeysStay
    <3>4. HeldRight(r, Before, val)
      BY <3>1, <3>2 DEF HeldRight
    <3>5. /\ val \in [Left \union Right -> Value]
          /\ lmem \subseteq Left /\ rmem \subseteq Right
      BY <1>1
    <3>6. /\ Before \in [Left \union Right -> Value]
          /\ \A x \in Left \union Right : x # r => Before[x] = val[x]
          /\ ByRight(r, tag, Before, val)
      BY <1>3
    <3>7. /\ rmem' \subseteq Right /\ lmem' = lmem
          /\ \A x : x # r => (x \in rmem' <=> x \in rmem)
          /\ \A l \in Left :
               <<l, r>> \in out' <=> r \in rmem' /\ l \in lmem /\ Matches(val, l, r)
          /\ \A x, y : x # r => (<<y, x>> \in out' <=> <<y, x>> \in out)
          /\ ~SameObj => EachFits
      BY <3>3, <3>4, <3>5, <3>6, <2>2, ByRightPairs
    <3>8. ASSUME NEW x \in Right, NEW y \in Left
          PROVE  <<y, x>> \in out' <=> x \in rmem' /\ y \in lmem' /\ Matched(y, x)'
      <4>1. Matched(y, x)' <=> Matches(val, y, x)
        BY <1>1 DEF Matched, Outdated, Joined, Matches
      <4>2. x # r =>
              (<<y, x>> \in out <=> x \in rmem /\ y \in lmem /\ Matches(val, y, x))
        BY <1>1 DEF IInv, OutIsPartlyJoin, Matched, Outdated, Joined, Matches
      <4> QED BY <4>1, <4>2, <3>7
    <3> QED BY <3>8, <3>7 DEF OutIsPartlyJoin
  <2> QED BY <2>1, <2>2
<1> QED BY <1>4, <1>5, <1>6, <1>7 DEF IInv

-----------------------------------------------------------------------------
(* An item that arrives by the left alone, in the state it is known in.  *)
LEMMA LoneLeftOK ==
  ASSUME IInv, KeysStay, NEW l \in Left, NEW tag \in Tag, due = Settled,
         due' = due, val' = val, ByLeft(l, tag, val, val)
  PROVE  IInv' /\ (~SameObj => EachFits)
<1>1. /\ val \in [Left \union Right -> Value]
      /\ lmem \subseteq Left /\ rmem \subseteq Right /\ out \subseteq Pair
  BY DEF IInv, TypeOK, MemoriesTypeOK
<1>2. /\ lmem' \subseteq Left /\ rmem' \subseteq Right
      /\ out' \subseteq Pair
      /\ sent' \subseteq [tag : Tag, was : Pair, is : Pair]
      /\ TriggersForget'
  <2>1. TriggersForget
    BY DEF IInv
  <2> QED BY <2>1, <1>1, ByLeftType
<1>3. TypeOK' /\ DueIsFaithful'
  BY <1>1, <1>2 DEF TypeOK, MemoriesTypeOK, DueIsFaithful
<1>4. CASE LeftTrigger \/ RightTrigger
  BY <1>2, <1>3, <1>4 DEF IInv, TriggersForget, OutIsPartlyJoin, EachFits
<1>5. CASE ~LeftTrigger /\ ~RightTrigger
  <2>1. \A a \in Left, b \in Right :
           <<a, b>> \in out <=> a \in lmem /\ b \in rmem /\ Matches(val, a, b)
    BY DEF IInv, OutIsPartlyJoin, Matched, Outdated, Joined, Matches
  <2>2. HeldLeft(l, val, val)
    BY <2>1 DEF HeldLeft
  <2>3. /\ rmem' = rmem
        /\ \A x : x # l => (x \in lmem' <=> x \in lmem)
        /\ \A r \in Right : <<l, r>> \in out' <=>
             l \in lmem' /\ r \in rmem /\ Matches(val, l, r)
        /\ \A x, y : x # l => (<<x, y>> \in out' <=> <<x, y>> \in out)
        /\ ~SameObj => EachFits
    BY <2>2, <1>1, <1>5, ByLeftPairs
  <2>4. \A a \in Left, b \in Right :
           <<a, b>> \in out' <=> a \in lmem' /\ b \in rmem' /\ Matches(val, a, b)
    BY <2>1, <2>3
  <2>5. OutIsPartlyJoin'
    BY <2>4 DEF OutIsPartlyJoin, Matched, Outdated, Joined, Matches
  <2> QED BY <1>2, <1>3, <2>3, <2>5 DEF IInv
<1> QED BY <1>4, <1>5

(* An item that arrives by the right alone, in the state it is known in.  *)
LEMMA LoneRightOK ==
  ASSUME IInv, KeysStay, NEW r \in Right, NEW tag \in Tag, due = Settled,
         due' = due, val' = val, ByRight(r, tag, val, val)
  PROVE  IInv' /\ (~SameObj => EachFits)
<1>1. /\ val \in [Left \union Right -> Value]
      /\ lmem \subseteq Left /\ rmem \subseteq Right /\ out \subseteq Pair
  BY DEF IInv, TypeOK, MemoriesTypeOK
<1>2. /\ lmem' \subseteq Left /\ rmem' \subseteq Right
      /\ out' \subseteq Pair
      /\ sent' \subseteq [tag : Tag, was : Pair, is : Pair]
      /\ TriggersForget'
  <2>1. TriggersForget
    BY DEF IInv
  <2> QED BY <2>1, <1>1, ByRightType
<1>3. TypeOK' /\ DueIsFaithful'
  BY <1>1, <1>2 DEF TypeOK, MemoriesTypeOK, DueIsFaithful
<1>4. CASE LeftTrigger \/ RightTrigger
  BY <1>2, <1>3, <1>4 DEF IInv, TriggersForget, OutIsPartlyJoin, EachFits
<1>5. CASE ~LeftTrigger /\ ~RightTrigger
  <2>1. \A a \in Left, b \in Right :
           <<a, b>> \in out <=> a \in lmem /\ b \in rmem /\ Matches(val, a, b)
    BY DEF IInv, OutIsPartlyJoin, Matched, Outdated, Joined, Matches
  <2>2. HeldRight(r, val, val)
    BY <2>1 DEF HeldRight
  <2>3. /\ lmem' = lmem
        /\ \A x : x # r => (x \in rmem' <=> x \in rmem)
        /\ \A l \in Left : <<l, r>> \in out' <=>
             r \in rmem' /\ l \in lmem /\ Matches(val, l, r)
        /\ \A x, y : x # r => (<<y, x>> \in out' <=> <<y, x>> \in out)
        /\ ~SameObj => EachFits
    BY <2>2, <1>1, <1>5, ByRightPairs
  <2>4. \A a \in Left, b \in Right :
           <<a, b>> \in out' <=> a \in lmem' /\ b \in rmem' /\ Matches(val, a, b)
    BY <2>1, <2>3
  <2>5. OutIsPartlyJoin'
    BY <2>4 DEF OutIsPartlyJoin, Matched, Outdated, Joined, Matches
  <2> QED BY <1>2, <1>3, <2>3, <2>5 DEF IInv
<1> QED BY <1>4, <1>5

-----------------------------------------------------------------------------
(* Every arrival, and everything that is not one. *)
LEMMA NextOK ==
  ASSUME IInv, KeysStay, [Next]_vars
  PROVE  IInv' /\ (~SameObj => [EachFits]_vars)
<1>1. CASE UNCHANGED vars
  BY <1>1 DEF vars, IInv, TypeOK, MemoriesTypeOK, TriggersForget, OutIsPartlyJoin,
     DueIsFaithful, Matched, Outdated, Joined, Before
<1>2. ASSUME NEW tag \in Tag, NEW l \in Left, ArriveLeft(l, tag)
      PROVE  IInv' /\ (~SameObj => EachFits)
  BY <1>2, StartsLeftOK, EndsLeftOK DEF ArriveLeft
<1>3. ASSUME NEW tag \in Tag, NEW r \in Right, ArriveRight(r, tag)
      PROVE  IInv' /\ (~SameObj => EachFits)
  BY <1>3, StartsRightOK, EndsRightOK DEF ArriveRight
<1> QED BY <1>1, <1>2, <1>3 DEF Next

(* The empty memories of a new node satisfy the invariant.                 *)
LEMMA InitOK == Init => IInv
BY DEF Init, MemoriesInit, IInv, TypeOK, MemoriesTypeOK, TriggersForget,
   OutIsPartlyJoin, DueIsFaithful, Pair

(* Whatever arrives, and in whatever state the other arrival of the object *)
(* finds the node, and_call keeps the inductive invariant.                 *)
THEOREM Invariance == ASSUME KeysStay PROVE Spec => []IInv
<1>1. IInv /\ [Next]_vars => IInv'
  BY NextOK
<1> QED BY InitOK, <1>1, PTL DEF Spec

(* No arrival at an AND node leaves a memory, a value or a pair handed to  *)
(* the children outside its type.                                          *)
THEOREM TypeCorrect == ASSUME KeysStay PROVE Spec => []TypeOK
<1>1. IInv => TypeOK
  BY DEF IInv
<1> QED BY Invariance, <1>1, PTL

(* The children of an AND node hold the join of its two memories, for any  *)
(* memories and test, if modifications do not change the keys.             *)
THEOREM JoinCorrect == ASSUME KeysStay PROVE Spec => []OutIsJoin
<1>1. IInv => OutIsJoin
  BY DEF IInv, OutIsJoin, OutIsPartlyJoin, Matched, Outdated, TypeOK,
     MemoriesTypeOK, Pair
<1> QED BY Invariance, <1>1, PTL

(* check_and_cond only tells them to INSERT pairs they do not hold and to  *)
(* MODIFY or RETRACT pairs they hold, when no item is to be paired with    *)
(* itself.                                                                 *)
THEOREM NeverStray ==
  ASSUME KeysStay, ~SameObj PROVE Spec => [][EachFits]_vars
<1>1. IInv /\ [Next]_vars => [EachFits]_vars
  BY NextOK
<1> QED BY Invariance, <1>1, PTL DEF Spec
=============================================================================
