-------------------------- MODULE ConflictSetProofs --------------------------
(***************************************************************************)
(* Proofs about ConflictSet, for any rules, matches and priorities.        *)
(*                                                                         *)
(* The invariants of the runs are inductive together, with one addition:   *)
(* trigger rules remember no match.  The lemmas on the lists say what the  *)
(* three operations of ConflictSet do to the agreement of a list with its  *)
(* tree; those on Found say what they do to the pending entries; then each *)
(* action is one lemma.                                                    *)
(***************************************************************************)
EXTENDS ConflictSet, TLAPS

TriggersForget == \A r \in Trigger : memory[r] = {}

IInv == /\ TypeOK
        /\ QueuesAgree
        /\ PendingIsRemembered
        /\ LinksBalance
        /\ ImpliedFollowsMatch
        /\ TriggersForget

-----------------------------------------------------------------------------
(* Putting an entry with a new key at the head keeps list and tree agreed. *)
LEMMA PushAgrees ==
  ASSUME NEW c \in Category, NEW s \in Seq(Entry), NEW t, NEW e \in Entry,
         QueueAgrees(c, s, t), Cat[e.rule] = c,
         \A x \in t : KeyOf(x) # KeyOf(e)
  PROVE  /\ <<e>> \o s \in Seq(Entry)
         /\ QueueAgrees(c, <<e>> \o s, t \union {e})
<1> DEFINE p == <<e>> \o s
<1>1. p \in Seq(Entry) /\ Len(p) = Len(s) + 1
  OBVIOUS
<1>2. p[1] = e /\ \A i \in 2..Len(p) : p[i] = s[i - 1] /\ i - 1 \in 1..Len(s)
  OBVIOUS
<1>3. \A i \in 1..Len(s) : p[i + 1] = s[i] /\ i + 1 \in 2..Len(p)
  OBVIOUS
<1> HIDE DEF p
<1>4. t \union {e} = {p[i] : i \in 1..Len(p)}
  <2>1. \A x \in t : \E i \in 1..Len(p) : x = p[i]
    BY <1>1, <1>3 DEF QueueAgrees
  <2>2. \A i \in 2..Len(p) : p[i] \in t
    BY <1>1, <1>2 DEF QueueAgrees
  <2>3. 1 \in 1..Len(p) /\ \A i \in 1..Len(p) : i = 1 \/ i \in 2..Len(p)
    BY <1>1
  <2> QED BY <2>1, <2>2, <2>3, <1>2
<1>5. ASSUME NEW i \in 1..Len(p), NEW j \in 1..Len(p), KeyOf(p[i]) = KeyOf(p[j])
      PROVE  i = j
  <2>1. \A k \in 2..Len(p) : KeyOf(p[k]) # KeyOf(p[1])
    BY <1>2 DEF QueueAgrees
  <2>2. CASE i = 1 \/ j = 1
    BY <2>1, <2>2, <1>1, <1>5
  <2>3. CASE i # 1 /\ j # 1
    <3>1. i \in 2..Len(p) /\ j \in 2..Len(p)
      BY <2>3, <1>1
    <3>2. i - 1 = j - 1
      BY <3>1, <1>2, <1>5 DEF QueueAgrees
    <3> QED BY <3>2
  <2> QED BY <2>2, <2>3
<1>6. ASSUME NEW i \in 1..Len(p) PROVE Cat[p[i].rule] = c
  <2>1. i = 1 \/ i \in 2..Len(p)
    BY <1>1
  <2> QED BY <2>1, <1>2 DEF QueueAgrees
<1> QED BY <1>1, <1>4, <1>5, <1>6 DEF QueueAgrees, p

(* So does taking the entry at place k out of both. *)
LEMMA UnlinkAgrees ==
  ASSUME NEW c \in Category, NEW s \in Seq(Entry), NEW t,
         QueueAgrees(c, s, t), NEW k \in 1..Len(s)
  PROVE  /\ Unlinked(s, k) \in Seq(Entry)
         /\ QueueAgrees(c, Unlinked(s, k), t \ {s[k]})
<1> DEFINE u == Unlinked(s, k)
           Old(i) == IF i < k THEN i ELSE i + 1
<1>1. u \in Seq(Entry) /\ Len(u) = Len(s) - 1
  BY DEF Unlinked
<1>2. \A i \in 1..Len(u) : u[i] = s[Old(i)] /\ Old(i) \in 1..Len(s) /\ Old(i) # k
  BY <1>1 DEF Unlinked
<1>3. \A j \in 1..Len(s) : j # k => \E i \in 1..Len(u) : Old(i) = j
  <2> SUFFICES ASSUME NEW j \in 1..Len(s), j # k
               PROVE  \E i \in 1..Len(u) : Old(i) = j
    OBVIOUS
  <2>1. CASE j < k
    BY <2>1, <1>1
  <2>2. CASE j > k
    <3>1. j - 1 \in 1..Len(u) /\ Old(j - 1) = j
      BY <2>2, <1>1
    <3> QED BY <3>1
  <2> QED BY <2>1, <2>2
<1>4. \A i, j \in 1..Len(u) : Old(i) = Old(j) => i = j
  BY <1>1
<1> HIDE DEF u, Old
<1>5. t \ {s[k]} = {u[i] : i \in 1..Len(u)}
  <2>1. \A x \in t \ {s[k]} : \E j \in 1..Len(s) : x = s[j] /\ j # k
    BY DEF QueueAgrees
  <2>2. \A x \in t \ {s[k]} : \E i \in 1..Len(u) : x = u[i]
    BY <2>1, <1>2, <1>3
  <2>3. \A i \in 1..Len(u) : u[i] \in t /\ u[i] # s[k]
    BY <1>2 DEF QueueAgrees
  <2> QED BY <2>2, <2>3
<1>6. \A i, j \in 1..Len(u) : KeyOf(u[i]) = KeyOf(u[j]) => i = j
  BY <1>2, <1>4 DEF QueueAgrees
<1>7. \A i \in 1..Len(u) : Cat[u[i].rule] = c
  BY <1>2 DEF QueueAgrees
<1> QED BY <1>1, <1>5, <1>6, <1>7 DEF QueueAgrees, u

(* What the head of a list is. *)
LEMMA HeadListed ==
  ASSUME NEW c \in Category, NEW s \in Seq(Entry), NEW t,
         QueueAgrees(c, s, t), s # <<>>
  PROVE  Head(s) \in t /\ Head(s) \in Entry /\ CatOf(KeyOf(Head(s))) = c
<1>1. Head(s) = s[1] /\ 1 \in 1..Len(s) /\ s[1] \in Entry
  OBVIOUS
<1> QED BY <1>1 DEF QueueAgrees, CatOf, KeyOf

-----------------------------------------------------------------------------
(* The pending entries of an activation lie in the tree of its category,   *)
(* and there is at most one.                                               *)
LEMMA FoundFacts ==
  ASSUME TypeOK, QueuesAgree, NEW a \in Activation
  PROVE  /\ CatOf(a) \in Category
         /\ \A e \in Found(a) : /\ e \in Entry /\ e \in tree[CatOf(a)]
                              /\ KeyOf(e) = a
         /\ \A e, f \in Found(a) : e = f
<1>1. CatOf(a) \in Category
  BY ConstantsAssumption DEF CatOf, Activation
<1>2. QueueAgrees(CatOf(a), list[CatOf(a)], tree[CatOf(a)])
  BY <1>1 DEF QueuesAgree
<1>3. \A e \in tree[CatOf(a)] : e \in Entry
  BY <1>1 DEF TypeOK
<1>4. \A e, f \in tree[CatOf(a)] : KeyOf(e) = KeyOf(f) => e = f
  BY <1>2 DEF QueueAgrees
<1> QED BY <1>1, <1>3, <1>4 DEF Found

(* ConflictSet::insert of a new entry: it is found, nothing else changes.  *)
LEMMA InsertFound ==
  ASSUME TypeOK, QueuesAgree,
         NEW a \in Activation, NEW tag \in {"INSERT", "MODIFY"},
         Found(a) = {}, InsertCs(CatOf(a), NewEntry(a, tag))
  PROVE  /\ list' \in [Category -> Seq(Entry)]
         /\ tree' \in [Category -> SUBSET Entry]
         /\ QueuesAgree'
         /\ Found(a)' = {NewEntry(a, tag)}
         /\ \A b \in Activation : b # a => Found(b)' = Found(b)
<1> DEFINE c == CatOf(a)
           e == NewEntry(a, tag)
<1>1. c \in Category /\ e \in Entry /\ KeyOf(e) = a /\ Cat[e.rule] = c
  BY ConstantsAssumption DEF CatOf, NewEntry, KeyOf, Entry, Activation
<1>2. QueueAgrees(c, list[c], tree[c]) /\ list[c] \in Seq(Entry)
  BY <1>1 DEF QueuesAgree, TypeOK
<1>3. \A x \in tree[c] : KeyOf(x) # KeyOf(e)
  BY <1>1 DEF Found
<1> HIDE DEF c, e
<1>4. /\ <<e>> \o list[c] \in Seq(Entry)
      /\ QueueAgrees(c, <<e>> \o list[c], tree[c] \union {e})
  BY <1>1, <1>2, <1>3, PushAgrees
<1>5. /\ tree' = [tree EXCEPT ![c] = tree[c] \union {e}]
      /\ list' = [list EXCEPT ![c] = <<e>> \o list[c]]
  BY DEF InsertCs, c, e
<1>6. list' \in [Category -> Seq(Entry)] /\ tree' \in [Category -> SUBSET Entry]
  BY <1>1, <1>4, <1>5 DEF TypeOK
<1>7. \A d \in Category : QueueAgrees(d, list'[d], tree'[d])
  BY <1>1, <1>4, <1>5 DEF TypeOK, QueuesAgree
<1>8. \A b \in Activation : CatOf(b) \in Category
  BY ConstantsAssumption DEF CatOf, Activation
<1>9. \A b \in Activation :
        tree'[CatOf(b)] = IF CatOf(b) = c THEN tree[c] \union {e} ELSE tree[CatOf(b)]
  BY <1>5, <1>8 DEF TypeOK
<1>10. Found(a)' = {e}
  BY <1>1, <1>9 DEF Found, c
<1>11. \A b \in Activation : b # a => Found(b)' = Found(b)
  BY <1>1, <1>9 DEF Found, c
<1> QED BY <1>6, <1>7, <1>10, <1>11 DEF QueuesAgree, e

(* ConflictSet::remove of a pending entry: it alone is no more found.      *)
LEMMA RemoveFound ==
  ASSUME TypeOK, QueuesAgree, NEW a \in Activation, NEW e \in Found(a),
         RemoveCs(CatOf(a), e)
  PROVE  /\ list' \in [Category -> Seq(Entry)]
         /\ tree' \in [Category -> SUBSET Entry]
         /\ QueuesAgree'
         /\ Found(a)' = {}
         /\ \A b \in Activation : b # a => Found(b)' = Found(b)
<1> DEFINE c == CatOf(a)
<1>1. c \in Category /\ e \in Entry /\ e \in tree[c] /\ KeyOf(e) = a
      /\ \A f \in Found(a) : f = e
  BY FoundFacts
<1>2. QueueAgrees(c, list[c], tree[c]) /\ list[c] \in Seq(Entry)
  BY <1>1 DEF QueuesAgree, TypeOK
<1>3. PICK k \in 1..Len(list[c]) :
        list[c][k] = e /\ list' = [list EXCEPT ![c] = Unlinked(list[c], k)]
  BY DEF RemoveCs
<1>4. tree' = [tree EXCEPT ![c] = tree[c] \ {e}]
  BY DEF RemoveCs
<1> HIDE DEF c
<1>5. /\ Unlinked(list[c], k) \in Seq(Entry)
      /\ QueueAgrees(c, Unlinked(list[c], k), tree[c] \ {e})
  BY <1>1, <1>2, <1>3, UnlinkAgrees
<1>6. list' \in [Category -> Seq(Entry)] /\ tree' \in [Category -> SUBSET Entry]
  BY <1>1, <1>3, <1>4, <1>5 DEF TypeOK
<1>7. \A d \in Category : QueueAgrees(d, list'[d], tree'[d])
  BY <1>1, <1>3, <1>4, <1>5 DEF TypeOK, QueuesAgree
<1>8. \A b \in Activation : CatOf(b) \in Category
  BY ConstantsAssumption DEF CatOf, Activation
<1>9. \A b \in Activation :
        tree'[CatOf(b)] = IF CatOf(b) = c THEN tree[c] \ {e} ELSE tree[CatOf(b)]
  BY <1>4, <1>8 DEF TypeOK
<1>10. Found(a)' = {}
  BY <1>1, <1>9 DEF Found, c
<1>11. \A b \in Activation : b # a => Found(b)' = Found(b)
  BY <1>1, <1>9 DEF Found, c
<1> QED BY <1>6, <1>7, <1>10, <1>11 DEF QueuesAgree

(* A step that leaves lists and trees alone leaves what is found alone.    *)
LEMMA SameFound ==
  ASSUME UNCHANGED <<list, tree>>
  PROVE  /\ TypeOK => /\ list' \in [Category -> Seq(Entry)]
                      /\ tree' \in [Category -> SUBSET Entry]
         /\ QueuesAgree => QueuesAgree'
         /\ \A b \in Activation : Found(b)' = Found(b)
BY DEF TypeOK, QueuesAgree, Found

-----------------------------------------------------------------------------
(* The invariant of one activation: the invariants of the runs, read at a. *)
ActOK(a) ==
  /\ Pending(a) /\ a[1] \notin Trigger => Remembered(a)
  /\ IF a[1] \in Trigger THEN Pending(a) => links[a] >= 1
     ELSE links[a] = IF Remembered(a) THEN 1 ELSE 0
  /\ a \in implied <=> a[1] \in Implying /\ Remembered(a) /\ ~PendingInsert(a)

(* But for the queues, the invariant speaks of one activation at a time.   *)
LEMMA ActivationWise ==
  IInv <=> /\ TypeOK /\ QueuesAgree /\ TriggersForget
           /\ \A a \in Activation : ActOK(a)
BY DEF IInv, PendingIsRemembered, LinksBalance, ImpliedFollowsMatch, ActOK

(* So it holds after a step that leaves it true of each of them.           *)
LEMMA ActivationWiseNext ==
  ASSUME TypeOK', QueuesAgree', TriggersForget',
         \A a \in Activation : ActOK(a)'
  PROVE  IInv'
BY DEF IInv, PendingIsRemembered, LinksBalance, ImpliedFollowsMatch, ActOK

(* A step leaves the activation b alone. *)
Unmoved(b) == /\ Found(b)' = Found(b)
              /\ Remembered(b)' <=> Remembered(b)
              /\ links'[b] = links[b]
              /\ b \in implied' <=> b \in implied

(* An activation that a step leaves alone keeps its invariant and phase.   *)
LEMMA UnmovedOK ==
  ASSUME NEW b \in Activation, ActOK(b), Unmoved(b)
  PROVE  ActOK(b)' /\ PhaseOf'[b] = PhaseOf[b]
BY DEF ActOK, Unmoved, Pending, PendingInsert, PhaseOf

(* Adding and removing one match in the memories moves that match only.    *)
LEMMA MemoryMoves ==
  ASSUME TypeOK, NEW a \in Activation
  PROVE  /\ memory' = [memory EXCEPT ![a[1]] = @ \union {a[2]}] =>
              /\ memory' \in [Rule -> SUBSET Match]
              /\ Remembered(a)'
              /\ \A b \in Activation : b # a => (Remembered(b)' <=> Remembered(b))
              /\ \A r \in Rule : r # a[1] => memory'[r] = memory[r]
         /\ memory' = [memory EXCEPT ![a[1]] = @ \ {a[2]}] =>
              /\ memory' \in [Rule -> SUBSET Match]
              /\ ~Remembered(a)'
              /\ \A b \in Activation : b # a => (Remembered(b)' <=> Remembered(b))
              /\ \A r \in Rule : memory'[r] \subseteq memory[r]
         /\ memory' = memory =>
              /\ memory' \in [Rule -> SUBSET Match]
              /\ \A b \in Activation : Remembered(b)' <=> Remembered(b)
<1>1. a[1] \in Rule /\ a[2] \in Match
  BY DEF Activation
<1>2. \A b \in Activation : /\ b[1] \in Rule
                            /\ b # a => b[1] # a[1] \/ b[2] # a[2]
  BY DEF Activation
<1>3. memory \in [Rule -> SUBSET Match]
  BY DEF TypeOK
<1>4. ASSUME memory' = [memory EXCEPT ![a[1]] = @ \union {a[2]}]
      PROVE  /\ memory' \in [Rule -> SUBSET Match]
             /\ Remembered(a)'
             /\ \A b \in Activation : b # a => (Remembered(b)' <=> Remembered(b))
             /\ \A r \in Rule : r # a[1] => memory'[r] = memory[r]
  BY <1>1, <1>2, <1>3, <1>4 DEF Remembered
<1>5. ASSUME memory' = [memory EXCEPT ![a[1]] = @ \ {a[2]}]
      PROVE  /\ memory' \in [Rule -> SUBSET Match]
             /\ ~Remembered(a)'
             /\ \A b \in Activation : b # a => (Remembered(b)' <=> Remembered(b))
             /\ \A r \in Rule : memory'[r] \subseteq memory[r]
  BY <1>1, <1>2, <1>3, <1>5 DEF Remembered
<1>6. memory' = memory =>
         /\ memory' \in [Rule -> SUBSET Match]
         /\ \A b \in Activation : Remembered(b)' <=> Remembered(b)
  BY <1>3 DEF Remembered
<1> QED BY <1>4, <1>5, <1>6

(* What a run leaves behind: the implied object of a and nothing else.     *)
LEMMA Executed ==
  ASSUME TypeOK, NEW a \in Activation, NEW tag \in Tag,
         PerformExecution(a, tag)
  PROVE  /\ implied' \subseteq Activation
         /\ fired' \in [act : Activation, tag : Tag] \union {NoRun}
         /\ \A b \in Activation : b # a => (b \in implied' <=> b \in implied)
         /\ a[1] \notin Implying => implied' = implied
         /\ a[1] \in Implying /\ tag = "INSERT" => a \in implied'
         /\ a[1] \in Implying /\ tag = "RETRACT" => a \notin implied'
         /\ a[1] \in Implying /\ tag = "MODIFY" => implied' = implied
         /\ fired' = RA!Run(a, tag)
<1>1. <<a, tag>> \in {h \in Activation \X Tag : h[2] \in Flags[h[1][1]]}
        <=> tag \in Flags[a[1]]
  OBVIOUS
<1> QED BY <1>1 DEF PerformExecution, TypeOK, RA!Run

(* What fired records: a right-hand side with its tag, or nothing.         *)
LEMMA TypeFired == NoRun \in [act : Activation, tag : Tag] \union {NoRun}
OBVIOUS

-----------------------------------------------------------------------------
(* Empty memories and queues satisfy the invariant.                        *)
LEMMA InitOK == Init => IInv
<1> SUFFICES ASSUME Init PROVE IInv
  OBVIOUS
<1>1. TypeOK
  BY DEF Init, TypeOK
<1>2. \A c \in Category : list[c] = <<>> /\ tree[c] = {}
  BY DEF Init
<1>3. QueuesAgree
  BY <1>2 DEF QueuesAgree, QueueAgrees
<1>4. \A a \in Activation : Found(a) = {} /\ ~Remembered(a) /\ links[a] = 0
                           /\ a \notin implied
  BY <1>2, ConstantsAssumption DEF Init, Found, Remembered, CatOf, Activation
<1>5. TriggersForget
  BY ConstantsAssumption DEF Init, TriggersForget
<1>6. \A a \in Activation : ActOK(a)
  BY <1>4 DEF ActOK, Pending, PendingInsert
<1> QED BY <1>1, <1>3, <1>5, <1>6, ActivationWise

(* One lemma per action: it keeps the invariant, and it is the step of the *)
(* lifecycle its comment names.                                            *)
Moves(a, old, new) == /\ PhaseOf[a] \in old
                      /\ PhaseOf' = [PhaseOf EXCEPT ![a] = new]

(* A step that changes the phase of one activation is a move of it.        *)
LEMMA MovesOne ==
  ASSUME NEW a \in Activation, NEW old, NEW new,
         \A b \in Activation : b # a => PhaseOf'[b] = PhaseOf[b],
         PhaseOf[a] \in old, PhaseOf'[a] = new
  PROVE  Moves(a, old, new)
BY DEF PhaseOf, Moves

(* INSERT of a match: entry, memory and link come together.                *)
LEMMA ProdInsertOK ==
  ASSUME IInv, NEW a \in Activation, ProdInsert(a)
  PROVE  IInv' /\ RA!Next
<1>1. TypeOK /\ QueuesAgree /\ TriggersForget /\ \A b \in Activation : ActOK(b)
  BY ActivationWise
<1>2. /\ memory' \in [Rule -> SUBSET Match]
      /\ \A b \in Activation : b # a => (Remembered(b)' <=> Remembered(b))
      /\ Remembered(a)' <=> a[1] \notin Trigger \/ Remembered(a)
      /\ \A r \in Trigger : memory'[r] = memory[r]
  BY <1>1, MemoryMoves, ConstantsAssumption DEF ProdInsert, Remembered
<1>3. TriggersForget'
  BY <1>1, <1>2 DEF TriggersForget
<1>4. implied' = implied /\ fired' = NoRun
  BY DEF ProdInsert
<1>5. CASE Found(a) = {}
  <2>1. /\ InsertCs(CatOf(a), NewEntry(a, "INSERT"))
        /\ links' = [links EXCEPT ![a] = @ + 1]
    BY <1>5 DEF ProdInsert
  <2>2. /\ list' \in [Category -> Seq(Entry)]
        /\ tree' \in [Category -> SUBSET Entry]
        /\ QueuesAgree'
        /\ Found(a)' = {NewEntry(a, "INSERT")}
        /\ \A b \in Activation : b # a => Found(b)' = Found(b)
    BY <1>1, <1>5, <2>1, InsertFound
  <2>3. TypeOK'
    BY <1>1, <1>2, <1>4, <2>1, <2>2 DEF TypeOK
  <2>4. \A b \in Activation : b # a => Unmoved(b)
    BY <1>1, <1>2, <1>4, <2>1, <2>2 DEF Unmoved, TypeOK
  <2>5. Pending(a)' /\ PendingInsert(a)' /\ ~Pending(a) /\ ~PendingInsert(a)
    BY <1>5, <2>2 DEF Pending, PendingInsert, NewEntry
  <2>6. a[1] \notin Trigger => ~Remembered(a)
    BY DEF ProdInsert, Remembered
  <2>7. ActOK(a)'
    <3>1. links[a] \in Nat /\ links'[a] = links[a] + 1
      BY <1>1, <2>1 DEF TypeOK
    <3>2. links'[a] >= 1
      BY <3>1
    <3>3. a[1] \notin Trigger => Remembered(a)' /\ links'[a] = 1
      BY <1>1, <1>2, <2>6, <3>1 DEF ActOK
    <3>4. a \notin implied'
      BY <1>1, <1>4, <2>6, ConstantsAssumption DEF ActOK
    <3> QED BY <2>5, <3>2, <3>3, <3>4 DEF ActOK
  <2>8. \A b \in Activation : ActOK(b)'
    BY <1>1, <2>4, <2>7, UnmovedOK
  <2>9. PhaseOf[a] = "idle" /\ PhaseOf'[a] = "armed"
    BY <1>1, <2>5, <2>6 DEF PhaseOf, TriggersForget, Remembered
  <2>10. Moves(a, {"idle"}, "armed")
    BY <1>1, <2>4, <2>9, UnmovedOK, MovesOne
  <2>11. RA!Arm(a)
    BY <1>4, <2>10 DEF Moves, RA!Arm
  <2> QED BY <1>3, <2>2, <2>3, <2>8, <2>11, ActivationWiseNext DEF RA!Next
<1>6. CASE Found(a) # {}
  <2>1. a[1] \in Trigger
    BY <1>1, <1>6 DEF ProdInsert, ActOK, Pending, Remembered
  <2>2. UNCHANGED <<list, tree, links, memory>>
    BY <1>6, <2>1 DEF ProdInsert
  <2>3. TypeOK' /\ QueuesAgree' /\ \A b \in Activation : Unmoved(b)
    BY <1>1, <1>4, <2>2, SameFound DEF TypeOK, Unmoved, Remembered
  <2>4. \A b \in Activation : ActOK(b)' /\ PhaseOf'[b] = PhaseOf[b]
    BY <1>1, <2>3, UnmovedOK
  <2>5. PhaseOf' = PhaseOf
    BY <2>4 DEF PhaseOf
  <2> QED BY <1>3, <1>4, <2>3, <2>4, <2>5, ActivationWiseNext DEF RA!Next, RA!Ignore
<1> QED BY <1>5, <1>6

(* MODIFY of a match: it is queued unless an entry already waits.          *)
LEMMA ProdModifyOK ==
  ASSUME IInv, NEW a \in Activation, ProdModify(a)
  PROVE  IInv' /\ RA!Next
<1>1. TypeOK /\ QueuesAgree /\ TriggersForget /\ \A b \in Activation : ActOK(b)
  BY ActivationWise
<1>2. memory' = memory /\ implied' = implied /\ fired' = NoRun
  BY DEF ProdModify
<1>3. TriggersForget' /\ \A b \in Activation : Remembered(b)' <=> Remembered(b)
  BY <1>1, <1>2 DEF TriggersForget, Remembered
<1>4. CASE Found(a) = {}
  <2>1. /\ InsertCs(CatOf(a), NewEntry(a, "MODIFY"))
        /\ links' = [links EXCEPT ![a] = IF a[1] \in Trigger THEN @ + 1 ELSE @]
    BY <1>1, <1>4 DEF ProdModify, TypeOK
  <2>2. /\ list' \in [Category -> Seq(Entry)]
        /\ tree' \in [Category -> SUBSET Entry]
        /\ QueuesAgree'
        /\ Found(a)' = {NewEntry(a, "MODIFY")}
        /\ \A b \in Activation : b # a => Found(b)' = Found(b)
    BY <1>1, <1>4, <2>1, InsertFound
  <2>3. TypeOK'
    BY <1>1, <1>2, <2>1, <2>2 DEF TypeOK
  <2>4. \A b \in Activation : b # a => Unmoved(b)
    BY <1>1, <1>2, <1>3, <2>1, <2>2 DEF Unmoved, TypeOK
  <2>5. Pending(a)' /\ ~PendingInsert(a)' /\ ~Pending(a) /\ ~PendingInsert(a)
    BY <1>4, <2>2 DEF Pending, PendingInsert, NewEntry
  <2>6. a[1] \notin Trigger => Remembered(a)
    BY DEF ProdModify, Remembered
  <2>7. ActOK(a)'
    <3>1. links[a] \in Nat
          /\ links'[a] = IF a[1] \in Trigger THEN links[a] + 1 ELSE links[a]
      BY <1>1, <2>1 DEF TypeOK
    <3>2. a[1] \in Trigger => links'[a] >= 1
      BY <3>1
    <3>3. a[1] \notin Trigger => Remembered(a)' /\ links'[a] = 1
      BY <1>1, <1>3, <2>6, <3>1 DEF ActOK
    <3>4. a \in implied' <=> a[1] \in Implying /\ Remembered(a)'
      BY <1>1, <1>2, <1>3, <2>5 DEF ActOK
    <3> QED BY <2>5, <3>2, <3>3, <3>4 DEF ActOK
  <2>8. \A b \in Activation : ActOK(b)'
    BY <1>1, <2>4, <2>7, UnmovedOK
  <2>9. a[1] \in Trigger => ~Remembered(a)
    BY <1>1 DEF TriggersForget, Remembered
  <2>10. /\ PhaseOf[a] = IF a[1] \in Trigger THEN "idle" ELSE "active"
         /\ PhaseOf'[a] = "changed"
    BY <2>5, <2>6, <2>9 DEF PhaseOf
  <2>11. Moves(a, {IF a[1] \in Trigger THEN "idle" ELSE "active"}, "changed")
    BY <1>1, <2>4, <2>10, UnmovedOK, MovesOne
  <2>12. RA!Change(a)
    BY <1>2, <2>11 DEF Moves, RA!Change
  <2> QED BY <1>3, <2>2, <2>3, <2>8, <2>12, ActivationWiseNext DEF RA!Next
<1>5. CASE Found(a) # {}
  <2>1. UNCHANGED <<list, tree, links>>
    BY <1>5 DEF ProdModify
  <2>2. TypeOK' /\ QueuesAgree' /\ \A b \in Activation : Unmoved(b)
    BY <1>1, <1>2, <1>3, <2>1, SameFound DEF TypeOK, Unmoved
  <2>3. \A b \in Activation : ActOK(b)' /\ PhaseOf'[b] = PhaseOf[b]
    BY <1>1, <2>2, UnmovedOK
  <2>4. PhaseOf' = PhaseOf
    BY <2>3 DEF PhaseOf
  <2> QED BY <1>2, <1>3, <2>2, <2>3, <2>4, ActivationWiseNext DEF RA!Next, RA!Ignore
<1> QED BY <1>4, <1>5

(* What a RETRACT does to the memories, whatever becomes of the entry.     *)
LEMMA RetractMemory ==
  ASSUME IInv, NEW a \in Activation, ProdRetract(a)
  PROVE  /\ memory' \in [Rule -> SUBSET Match]
         /\ TriggersForget'
         /\ ~Remembered(a)'
         /\ \A b \in Activation : b # a => (Remembered(b)' <=> Remembered(b))
         /\ Remembered(a) <=> a[1] \notin Trigger
<1>1. TypeOK /\ TriggersForget
  BY DEF IInv
<1>2. /\ memory' \in [Rule -> SUBSET Match]
      /\ ~Remembered(a)'
      /\ \A b \in Activation : b # a => (Remembered(b)' <=> Remembered(b))
      /\ \A r \in Rule : memory'[r] \subseteq memory[r]
  BY <1>1, MemoryMoves DEF ProdRetract
<1>3. Remembered(a) <=> a[1] \notin Trigger
  BY <1>1 DEF ProdRetract, TriggersForget, Remembered
<1>4. TriggersForget'
  BY <1>1, <1>2, ConstantsAssumption DEF TriggersForget
<1> QED BY <1>2, <1>3, <1>4

(* RETRACT of a match whose INSERT waits: entry, memory and link go.       *)
LEMMA CancelInsertOK ==
  ASSUME IInv, NEW a \in Activation, ProdRetract(a),
         NEW e \in Found(a), CancelInsert(a, e)
  PROVE  IInv' /\ RA!Next
<1>1. TypeOK /\ QueuesAgree /\ TriggersForget /\ \A b \in Activation : ActOK(b)
  BY ActivationWise
<1>2. /\ implied' = implied /\ fired' = NoRun /\ e.tag = "INSERT"
      /\ links' = [links EXCEPT ![a] = @ - 1]
  BY DEF CancelInsert
<1>3. /\ list' \in [Category -> Seq(Entry)]
      /\ tree' \in [Category -> SUBSET Entry]
      /\ QueuesAgree'
      /\ Found(a)' = {}
      /\ \A b \in Activation : b # a => Found(b)' = Found(b)
  BY <1>1, RemoveFound DEF CancelInsert
<1>4. Pending(a) /\ PendingInsert(a) /\ ~Pending(a)' /\ ~PendingInsert(a)'
  BY <1>2, <1>3 DEF Pending, PendingInsert
<1>5. links[a] \in Nat /\ links[a] >= 1 /\ links'[a] = links[a] - 1
  BY <1>1, <1>2, <1>4 DEF ActOK, TypeOK
<1>6. TypeOK'
  BY <1>1, <1>2, <1>3, <1>5, RetractMemory DEF TypeOK
<1>7. \A b \in Activation : b # a => Unmoved(b)
  BY <1>1, <1>2, <1>3, RetractMemory DEF Unmoved, TypeOK
<1>8. ActOK(a)'
  <2>1. a[1] \notin Trigger => links'[a] = 0
    BY <1>1, <1>4, <1>5 DEF ActOK
  <2>2. a \notin implied'
    BY <1>1, <1>2, <1>4 DEF ActOK
  <2> QED BY <1>4, <2>1, <2>2, RetractMemory DEF ActOK
<1>9. \A b \in Activation : ActOK(b)'
  BY <1>1, <1>7, <1>8, UnmovedOK
<1>10. PhaseOf[a] = "armed" /\ PhaseOf'[a] = "idle"
  BY <1>4, RetractMemory DEF PhaseOf
<1>11. Moves(a, {"armed"}, "idle")
  BY <1>1, <1>7, <1>10, UnmovedOK, MovesOne
<1>12. RA!Cancel(a)
  BY <1>2, <1>11 DEF Moves, RA!Cancel
<1> QED BY <1>3, <1>6, <1>9, <1>12, RetractMemory, ActivationWiseNext DEF RA!Next

(* RETRACT of a match whose MODIFY waits: the entry goes, the rule runs.   *)
LEMMA RetractModifiedOK ==
  ASSUME IInv, NEW a \in Activation, ProdRetract(a),
         NEW e \in Found(a), RetractModified(a, e)
  PROVE  IInv' /\ RA!Next
<1>1. TypeOK /\ QueuesAgree /\ TriggersForget /\ \A b \in Activation : ActOK(b)
  BY ActivationWise
<1>2. /\ e.tag = "MODIFY"
      /\ links' = [links EXCEPT ![a] = IF a[1] \in Trigger THEN @ + 1 - 1
                                      ELSE @ - 1]
  BY DEF RetractModified
<1>3. /\ list' \in [Category -> Seq(Entry)]
      /\ tree' \in [Category -> SUBSET Entry]
      /\ QueuesAgree'
      /\ Found(a)' = {}
      /\ \A b \in Activation : b # a => Found(b)' = Found(b)
  BY <1>1, RemoveFound DEF RetractModified
<1>4. Pending(a) /\ ~PendingInsert(a) /\ ~Pending(a)' /\ ~PendingInsert(a)'
  BY <1>1, <1>2, <1>3, FoundFacts DEF Pending, PendingInsert
<1>5. /\ implied' \subseteq Activation
      /\ fired' \in [act : Activation, tag : Tag] \union {NoRun}
      /\ \A b \in Activation : b # a => (b \in implied' <=> b \in implied)
      /\ a[1] \notin Implying => implied' = implied
      /\ a[1] \in Implying => a \notin implied'
      /\ fired' = RA!Run(a, "RETRACT")
  BY <1>1, Executed DEF RetractModified, Tag
<1>6. /\ links[a] \in Nat /\ links[a] >= 1
      /\ links'[a] = IF a[1] \in Trigger THEN links[a] ELSE links[a] - 1
  <2>1. links[a] \in Nat /\ links[a] >= 1
    BY <1>1, <1>4 DEF ActOK, TypeOK
  <2>2. links'[a] = IF a[1] \in Trigger THEN links[a] + 1 - 1 ELSE links[a] - 1
    BY <1>1, <1>2 DEF TypeOK
  <2> QED BY <2>1, <2>2
<1>7. TypeOK'
  BY <1>1, <1>2, <1>3, <1>5, <1>6, RetractMemory DEF TypeOK
<1>8. \A b \in Activation : b # a => Unmoved(b)
  BY <1>1, <1>2, <1>3, <1>5, RetractMemory DEF Unmoved, TypeOK
<1>9. ActOK(a)'
  <2>1. a[1] \notin Trigger => links'[a] = 0
    BY <1>1, <1>4, <1>6 DEF ActOK
  <2>2. a \notin implied'
    BY <1>1, <1>5 DEF ActOK
  <2> QED BY <1>4, <2>1, <2>2, RetractMemory DEF ActOK
<1>10. \A b \in Activation : ActOK(b)'
  BY <1>1, <1>8, <1>9, UnmovedOK
<1>11. PhaseOf[a] = "changed" /\ PhaseOf'[a] = "idle"
  BY <1>4, RetractMemory DEF PhaseOf
<1>12. Moves(a, {"changed"}, "idle")
  BY <1>1, <1>8, <1>11, UnmovedOK, MovesOne
<1>13. RA!Withdraw(a)
  BY <1>5, <1>12 DEF Moves, RA!Withdraw
<1> QED BY <1>3, <1>7, <1>10, <1>13, RetractMemory, ActivationWiseNext DEF RA!Next

(* RETRACT of a match nothing waits for: the rule runs at once.            *)
LEMMA RetractActiveOK ==
  ASSUME IInv, NEW a \in Activation, ProdRetract(a), RetractActive(a)
  PROVE  IInv' /\ RA!Next
<1>1. TypeOK /\ QueuesAgree /\ TriggersForget /\ \A b \in Activation : ActOK(b)
  BY ActivationWise
<1>2. Found(a) = {} /\ UNCHANGED <<list, tree>>
  BY DEF RetractActive
<1>3. /\ list' \in [Category -> Seq(Entry)]
      /\ tree' \in [Category -> SUBSET Entry]
      /\ QueuesAgree'
      /\ \A b \in Activation : Found(b)' = Found(b)
  BY <1>1, <1>2, SameFound
<1>4. ~Pending(a) /\ ~PendingInsert(a) /\ ~Pending(a)' /\ ~PendingInsert(a)'
  BY <1>2, <1>3 DEF Pending, PendingInsert
<1>5. CASE a[1] \in Trigger
  <2>1. fired' = NoRun /\ UNCHANGED <<links, implied>>
    BY <1>5 DEF RetractActive
  <2>2. Remembered(a)' <=> Remembered(a)
    BY <1>5, RetractMemory
  <2>3. TypeOK' /\ \A b \in Activation : Unmoved(b)
    BY <1>1, <1>3, <2>1, <2>2, RetractMemory DEF TypeOK, Unmoved
  <2>4. \A b \in Activation : ActOK(b)' /\ PhaseOf'[b] = PhaseOf[b]
    BY <1>1, <2>3, UnmovedOK
  <2>5. PhaseOf' = PhaseOf
    BY <2>4 DEF PhaseOf
  <2> QED BY <1>3, <2>1, <2>3, <2>4, <2>5, RetractMemory, ActivationWiseNext
          DEF RA!Next, RA!Ignore
<1>6. CASE a[1] \notin Trigger
  <2>1. links' = [links EXCEPT ![a] = @ - 1] /\ PerformExecution(a, "RETRACT")
    BY <1>6 DEF RetractActive
  <2>2. /\ implied' \subseteq Activation
        /\ fired' \in [act : Activation, tag : Tag] \union {NoRun}
        /\ \A b \in Activation : b # a => (b \in implied' <=> b \in implied)
        /\ a[1] \notin Implying => implied' = implied
        /\ a[1] \in Implying => a \notin implied'
        /\ fired' = RA!Run(a, "RETRACT")
    BY <1>1, <2>1, Executed DEF Tag
  <2>3. Remembered(a)
    BY <1>6, RetractMemory
  <2>4. links[a] = 1 /\ links'[a] = 0
    BY <1>1, <1>6, <2>1, <2>3 DEF ActOK, TypeOK
  <2>5. TypeOK'
    BY <1>1, <1>3, <2>1, <2>2, <2>4, RetractMemory DEF TypeOK
  <2>6. \A b \in Activation : b # a => Unmoved(b)
    BY <1>1, <1>3, <2>1, <2>2, RetractMemory DEF Unmoved, TypeOK
  <2>7. a \notin implied'
    BY <1>1, <2>2 DEF ActOK
  <2>8. ActOK(a)'
    BY <1>4, <1>6, <2>4, <2>7, RetractMemory DEF ActOK
  <2>9. \A b \in Activation : ActOK(b)'
    BY <1>1, <2>6, <2>8, UnmovedOK
  <2>10. PhaseOf[a] = "active" /\ PhaseOf'[a] = "idle"
    BY <1>4, <2>3, RetractMemory DEF PhaseOf
  <2>11. Moves(a, {"active"}, "idle")
    BY <1>1, <2>6, <2>10, UnmovedOK, MovesOne
  <2>12. RA!Withdraw(a)
    BY <2>2, <2>11 DEF Moves, RA!Withdraw
  <2> QED BY <1>3, <2>5, <2>9, <2>12, RetractMemory, ActivationWiseNext DEF RA!Next
<1> QED BY <1>5, <1>6

(* run_cs takes the head of the most urgent list and runs it.              *)
LEMMA RunCsOK ==
  ASSUME IInv, RunCs
  PROVE  IInv' /\ RA!Next
<1>1. TypeOK /\ QueuesAgree /\ TriggersForget /\ \A b \in Activation : ActOK(b)
  BY ActivationWise
<1>2. PICK c \in Category :
        /\ list[c] # <<>>
        /\ RemoveCs(c, Head(list[c]))
        /\ PerformExecution(KeyOf(Head(list[c])), Head(list[c]).tag)
        /\ links' = IF GivesBack(KeyOf(Head(list[c])), Head(list[c]).tag)
                    THEN [links EXCEPT ![KeyOf(Head(list[c]))] = @ - 1] ELSE links
        /\ memory' = memory
  BY DEF RunCs, BestCat
<1>3. PICK e : e = Head(list[c])
  OBVIOUS
<1>4. PICK a : a = KeyOf(e)
  OBVIOUS
<1>5. e \in tree[c] /\ e \in Entry /\ CatOf(a) = c
  BY <1>1, <1>2, <1>3, <1>4, HeadListed DEF QueuesAgree, TypeOK
<1>6. a \in Activation /\ e \in Found(a) /\ e.tag \in {"INSERT", "MODIFY"}
  BY <1>4, <1>5 DEF Found, KeyOf, Activation, Entry
<1>7. /\ RemoveCs(CatOf(a), e)
      /\ PerformExecution(a, e.tag)
      /\ links' = IF a[1] \in Trigger THEN [links EXCEPT ![a] = @ - 1] ELSE links
      /\ memory' = memory
  BY <1>2, <1>3, <1>4, <1>5, <1>6 DEF GivesBack
<1>8. /\ list' \in [Category -> Seq(Entry)]
      /\ tree' \in [Category -> SUBSET Entry]
      /\ QueuesAgree'
      /\ Found(a)' = {}
      /\ \A b \in Activation : b # a => Found(b)' = Found(b)
  BY <1>1, <1>6, <1>7, RemoveFound
<1>9. /\ Pending(a) /\ ~Pending(a)' /\ ~PendingInsert(a)'
      /\ PendingInsert(a) <=> e.tag = "INSERT"
  BY <1>1, <1>6, <1>8, FoundFacts DEF Pending, PendingInsert
<1>10. /\ TriggersForget' /\ memory' \in [Rule -> SUBSET Match]
       /\ \A b \in Activation : Remembered(b)' <=> Remembered(b)
  BY <1>1, <1>7 DEF TriggersForget, Remembered, TypeOK
<1>11. /\ implied' \subseteq Activation
       /\ fired' \in [act : Activation, tag : Tag] \union {NoRun}
       /\ \A b \in Activation : b # a => (b \in implied' <=> b \in implied)
       /\ a[1] \notin Implying => implied' = implied
       /\ a[1] \in Implying /\ e.tag = "INSERT" => a \in implied'
       /\ a[1] \in Implying /\ e.tag = "MODIFY" => implied' = implied
       /\ fired' = RA!Run(a, e.tag)
  BY <1>1, <1>6, <1>7, Executed DEF Tag
<1>12. /\ links[a] \in Nat /\ links[a] >= 1
       /\ links'[a] = IF a[1] \in Trigger THEN links[a] - 1 ELSE links[a]
  <2>1. links[a] \in Nat /\ links[a] >= 1
    <3>1. ActOK(a) /\ Pending(a)
      BY <1>1, <1>6, <1>9
    <3>2. links[a] \in Nat
      BY <1>1, <1>6 DEF TypeOK
    <3> QED BY <3>1, <3>2 DEF ActOK
  <2> QED BY <1>1, <1>6, <1>7, <2>1 DEF TypeOK
<1>13. TypeOK'
  BY <1>1, <1>6, <1>7, <1>8, <1>10, <1>11, <1>12 DEF TypeOK
<1>14. \A b \in Activation : b # a => Unmoved(b)
  <2>1. \A b \in Activation : b # a => links'[b] = links[b]
    BY <1>1, <1>6, <1>7 DEF TypeOK
  <2> QED BY <1>8, <1>10, <1>11, <2>1 DEF Unmoved
<1>15. ActOK(a)'
  <2>1. a[1] \notin Trigger => /\ links'[a] = 1
                              /\ Remembered(a)'
    BY <1>1, <1>6, <1>9, <1>10, <1>12 DEF ActOK
  <2>2. a \in implied' <=> a[1] \in Implying /\ Remembered(a)'
    <3>1. a \in implied <=> a[1] \in Implying /\ Remembered(a) /\ ~PendingInsert(a)
      BY <1>1, <1>6 DEF ActOK
    <3>2. a[1] \in Implying => Remembered(a)'
      BY <2>1, ConstantsAssumption
    <3>3. a[1] \in Implying => a \in implied'
      BY <1>6, <1>9, <1>10, <1>11, <3>1, <3>2
    <3>4. a[1] \notin Implying => a \notin implied'
      BY <1>11, <3>1
    <3> QED BY <3>2, <3>3, <3>4
  <2> QED BY <1>9, <2>1, <2>2 DEF ActOK
<1>16. \A b \in Activation : ActOK(b)'
  BY <1>1, <1>14, <1>15, UnmovedOK
<1>17. a[1] \in Trigger => ~Remembered(a)'
  BY <1>1, <1>10 DEF TriggersForget, Remembered
<1>18. /\ PhaseOf[a] = IF e.tag = "INSERT" THEN "armed" ELSE "changed"
       /\ PhaseOf'[a] = IF a[1] \in Trigger THEN "idle" ELSE "active"
  <2>1. a[1] \notin Trigger => Remembered(a)'
    BY <1>1, <1>6, <1>9, <1>10 DEF ActOK
  <2> QED BY <1>6, <1>9, <1>17, <2>1 DEF PhaseOf
<1>19. Moves(a, {"armed", "changed"}, IF a[1] \in Trigger THEN "idle" ELSE "active")
  BY <1>1, <1>6, <1>14, <1>18, UnmovedOK, MovesOne
<1>20. RA!Fire(a)
  <2>1. (IF PhaseOf[a] = "armed" THEN "INSERT" ELSE "MODIFY") = e.tag
    BY <1>6, <1>18
  <2> QED BY <1>6, <1>11, <1>19, <2>1 DEF Moves, RA!Fire
<1> QED BY <1>6, <1>8, <1>10, <1>13, <1>16, <1>20, ActivationWiseNext DEF RA!Next

(* With no entry waiting, a reset forgets the matches of a rule.           *)
LEMMA ResetRuleOK ==
  ASSUME IInv, NEW r \in Rule, ResetRule(r)
  PROVE  IInv' /\ RA!Next
<1>1. TypeOK /\ QueuesAgree /\ TriggersForget /\ \A b \in Activation : ActOK(b)
  BY ActivationWise
<1>2. /\ Empty /\ UNCHANGED <<list, tree>> /\ fired' = NoRun
      /\ memory' = [memory EXCEPT ![r] = {}]
      /\ implied' = {a \in implied : a[1] # r}
  BY DEF ResetRule
<1>3. \A b \in Activation : Found(b) = {} /\ Found(b)' = {}
  <2>1. \A c \in Category : tree[c] = {}
    BY <1>1, <1>2 DEF QueuesAgree, QueueAgrees, Empty
  <2>2. \A b \in Activation : Found(b) = {}
    BY <1>1, <2>1, FoundFacts
  <2> QED BY <1>2, <2>2, SameFound
<1>4. \A b \in Activation : /\ ~Pending(b) /\ ~PendingInsert(b)
                            /\ ~Pending(b)' /\ ~PendingInsert(b)'
  BY <1>3 DEF Pending, PendingInsert
<1>5. /\ memory' \in [Rule -> SUBSET Match]
      /\ TriggersForget'
      /\ \A b \in Activation : Remembered(b)' <=> b[1] # r /\ Remembered(b)
  BY <1>1, <1>2, ConstantsAssumption
  DEF TriggersForget, Remembered, TypeOK, Activation
<1>6. ASSUME NEW b \in Activation
      PROVE  /\ links[b] \in Nat
             /\ links'[b] = IF b[1] = r /\ Remembered(b) THEN links[b] - 1
                            ELSE links[b]
             /\ Remembered(b) => links[b] = 1
  <2>1. b[1] \in Rule /\ (Remembered(b) => b[1] \notin Trigger)
    BY <1>1 DEF TriggersForget, Remembered, Activation
  <2> QED BY <1>1, <2>1 DEF ResetRule, Remembered, TypeOK, ActOK
<1>7. TypeOK'
  <2>1. \A b \in Activation : links'[b] \in Nat
    BY <1>6
  <2>2. links' \in [Activation -> Nat]
    BY <2>1 DEF ResetRule
  <2> QED BY <1>1, <1>2, <1>5, <2>2 DEF TypeOK
<1>8. ASSUME NEW b \in Activation PROVE ActOK(b)'
  <2>1. b[1] \notin Trigger => links'[b] = IF Remembered(b)' THEN 1 ELSE 0
    BY <1>1, <1>5, <1>6 DEF ActOK
  <2>2. b \in implied' <=> b[1] \in Implying /\ Remembered(b)'
    BY <1>1, <1>2, <1>4, <1>5 DEF ActOK
  <2> QED BY <1>4, <2>1, <2>2 DEF ActOK
<1>9. \A b \in Activation :
        /\ PhaseOf[b] = IF Remembered(b) THEN "active" ELSE "idle"
        /\ PhaseOf'[b] = IF Remembered(b)' THEN "active" ELSE "idle"
  BY <1>4 DEF PhaseOf
<1>10. PhaseOf' \in [Activation -> {"idle", "active"}]
  BY <1>9 DEF PhaseOf
<1>11. \A b \in Activation : PhaseOf[b] \in {"idle", "active"}
                            /\ PhaseOf'[b] \in {"idle", PhaseOf[b]}
  BY <1>5, <1>9
<1>12. RA!Forget
  BY <1>2, <1>10, <1>11 DEF RA!Forget
<1>13. QueuesAgree'
  BY <1>1, <1>2, SameFound
<1> QED BY <1>5, <1>7, <1>8, <1>12, <1>13, ActivationWiseNext DEF RA!Next

(* A step that changes nothing changes no phase either.                    *)
LEMMA StutterOK ==
  ASSUME IInv, UNCHANGED vars
  PROVE  IInv' /\ UNCHANGED <<PhaseOf, fired>>
<1>1. TypeOK /\ QueuesAgree /\ TriggersForget /\ \A b \in Activation : ActOK(b)
  BY ActivationWise
<1>2. TypeOK' /\ QueuesAgree' /\ TriggersForget'
  BY <1>1 DEF vars, TypeOK, QueuesAgree, TriggersForget
<1>3. \A b \in Activation : Unmoved(b)
  BY SameFound DEF vars, Unmoved, Remembered
<1>4. \A b \in Activation : ActOK(b)' /\ PhaseOf'[b] = PhaseOf[b]
  BY <1>1, <1>3, UnmovedOK
<1>5. PhaseOf' = PhaseOf
  BY <1>4 DEF PhaseOf
<1> QED BY <1>2, <1>4, <1>5, ActivationWiseNext DEF vars

(* Every step keeps the invariant and is a step of RuleActivation.         *)
LEMMA NextOK ==
  ASSUME IInv, [Next]_vars
  PROVE  IInv' /\ [RA!Next]_<<PhaseOf, fired>>
<1>1. CASE UNCHANGED vars
  BY <1>1, StutterOK
<1>2. ASSUME NEW a \in Activation, ProdRetract(a)
      PROVE  IInv' /\ RA!Next
  BY <1>2, CancelInsertOK, RetractModifiedOK, RetractActiveOK DEF ProdRetract
<1>3. CASE ProdCall
  BY <1>2, <1>3, ProdInsertOK, ProdModifyOK DEF ProdCall
<1>4. CASE RunCs
  BY <1>4, RunCsOK
<1>5. CASE \E r \in Rule : ResetRule(r)
  BY <1>5, ResetRuleOK
<1> QED BY <1>1, <1>3, <1>4, <1>5 DEF Next

-----------------------------------------------------------------------------
(* prod_call, run_cs and resets, in any order, keep the inductive          *)
(* invariant.                                                              *)
THEOREM Invariance == Spec => []IInv
<1>1. IInv /\ [Next]_vars => IInv'
  BY NextOK
<1> QED BY InitOK, <1>1, PTL DEF Spec

(* Variables keep their types: prod_call never unlinks a left compound it  *)
(* did not link.                                                           *)
THEOREM TypeCorrect == Spec => []TypeOK
<1>1. IInv => TypeOK
  BY DEF IInv
<1> QED BY Invariance, <1>1, PTL

(* conflict_set and conflict_set_mem hold the same entries of each         *)
(* category, whichever of them an entry is taken out by.                   *)
THEOREM QueuesCorrect == Spec => []QueuesAgree
<1>1. IInv => QueuesAgree
  BY DEF IInv
<1> QED BY Invariance, <1>1, PTL

(* The RETRACT of a match takes its entry out of the conflict set: no rule *)
(* waits for a match its production node has forgotten.                    *)
THEOREM NoStaleActivation == Spec => []PendingIsRemembered
<1>1. IInv => PendingIsRemembered
  BY DEF IInv
<1> QED BY Invariance, <1>1, PTL

(* The five branches that link and unlink a left compound balance: it is   *)
(* linked exactly as long as it is remembered; trigger rules may leak.     *)
THEOREM LinksCorrect == Spec => []LinksBalance
<1>1. IInv => LinksBalance
  BY DEF IInv
<1> QED BY Invariance, <1>1, PTL

(* An implied object exists exactly for the remembered matches whose       *)
(* INSERT was executed.                                                    *)
THEOREM ImpliedCorrect == Spec => []ImpliedFollowsMatch
<1>1. IInv => ImpliedFollowsMatch
  BY DEF IInv
<1> QED BY Invariance, <1>1, PTL

(* Every step of the conflict set is a step of RuleActivation or a         *)
(* stutter: INSERT, MODIFY any number of times, RETRACT.                   *)
THEOREM Refinement == Spec => ImplementsActivation
<1>1. Init => RA!Init
  <2> SUFFICES ASSUME Init PROVE RA!Init
    OBVIOUS
  <2>1. \A a \in Activation : Found(a) = {} /\ ~Remembered(a)
    BY ConstantsAssumption DEF Init, Found, Remembered, CatOf, Activation
  <2>2. \A a \in Activation : PhaseOf[a] = "idle"
    BY <2>1 DEF PhaseOf, Pending, PendingInsert
  <2>3. PhaseOf = [a \in Activation |-> "idle"]
    BY <2>2 DEF PhaseOf
  <2> QED BY <2>3 DEF Init, RA!Init
<1>2. IInv /\ [Next]_vars => [RA!Next]_(RA!vars)
  BY NextOK DEF RA!vars
<1> QED BY Invariance, <1>1, <1>2, PTL DEF Spec, ImplementsActivation, RA!Spec

(* best_cset takes the entry of the most urgent list that is not empty:    *)
(* no INSERT or MODIFY runs before an entry of a higher priority, and only *)
(* run_cs runs them.                                                       *)
LEMMA RunsInOrder ==
  ASSUME TypeOK, QueuesAgree, Next,
         fired' # NoRun, fired'.tag # "RETRACT",
         NEW b \in Activation, Pending(b)
  PROVE  CatOf(b) >= CatOf(fired'.act)
<1>1. ASSUME NEW a \in Activation, PerformExecution(a, "RETRACT")
      PROVE  FALSE
  BY <1>1 DEF PerformExecution
<1>2. ASSUME NEW a \in Activation,
             ProdInsert(a) \/ ProdModify(a) \/ ProdRetract(a)
      PROVE  FALSE
  BY <1>1, <1>2 DEF ProdInsert, ProdModify, ProdRetract, CancelInsert,
                    RetractModified, RetractActive
<1>3. RunCs
  BY <1>2 DEF Next, ProdCall, ResetRule
<1>4. PICK c \in Category :
        /\ list[c] # <<>>
        /\ \A d \in Category : d < c => list[d] = <<>>
        /\ PerformExecution(KeyOf(Head(list[c])), Head(list[c]).tag)
  BY <1>3 DEF RunCs, BestCat
<1>5. CatOf(KeyOf(Head(list[c]))) = c
  BY <1>4, HeadListed DEF QueuesAgree, TypeOK
<1>6. CatOf(fired'.act) = c
  BY <1>4, <1>5 DEF PerformExecution
<1>7. CatOf(b) \in Category /\ tree[CatOf(b)] # {}
  BY FoundFacts DEF Pending
<1>8. list[CatOf(b)] # <<>>
  BY <1>7 DEF QueuesAgree, QueueAgrees
<1> QED BY <1>4, <1>6, <1>7, <1>8 DEF Category

(* Whatever interleaving of matches, runs and resets, only a RETRACT may   *)
(* overtake a pending entry of a more urgent category.                     *)
THEOREM UrgentRunsFirst == Spec => UrgentFirst
<1>1. IInv /\ [Next]_vars =>
        [fired' # NoRun /\ fired'.tag # "RETRACT" =>
           \A a \in Activation : Pending(a) => CatOf(a) >= CatOf(fired'.act)]_vars
  BY RunsInOrder DEF IInv
<1> QED BY Invariance, <1>1, PTL DEF Spec, UrgentFirst

=============================================================================
