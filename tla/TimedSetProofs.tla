---------------------------- MODULE TimedSetProofs ----------------------------
(***************************************************************************)
(* Proofs about TimedSet, for any objects, times, contexts and keys.  The  *)
(* first part is about the TIMER and its invariant, IInv: KeepsTheWindow.  *)
(* The second, from "A set as it is seen", is about the SET node and its   *)
(* invariant, SInv: SetsFollow.  It goes from the classes of a set of      *)
(* objects, which are data, to the memory that holds them, to the          *)
(* operations of set.cpp, and at last to the actions.                      *)
(***************************************************************************)
EXTENDS TimedSet, FiniteSetTheorems, SequenceTheorems, WellFoundedInduction, TLAPS

(* A set of naturals that is not empty has a least element.                *)
LEMMA LeastNat ==
  ASSUME NEW S \in SUBSET Nat, S # {}
  PROVE  \E k \in S : \A j \in S : k <= j
<1>1. PICK k \in S : \A j \in S : ~(<<j, k>> \in OpToRel(<, Nat))
  BY NatLessThanWellFounded, WFMin, Zenon
<1>2. \A j \in S : ~(j < k)
  BY <1>1 DEF OpToRel
<1> QED BY <1>2

-----------------------------------------------------------------------------
(* The tree of the TIMER as a sequence.                                    *)
Held == mem \subseteq Obj /\ IsFiniteSet(mem)

(* Objects are addresses, each with a time.                                *)
LEMMA Timed == Obj \subseteq Nat /\ Null \notin Obj /\ T \in [Obj -> Nat] /\ Window \in Nat
BY SetAssumption, FeedAssumption, TimerAssumption

(* compare_t orders the objects, so that no two have the same place.       *)
LEMMA PlaceOrders ==
  ASSUME Held
  PROVE  /\ \A o \in mem : Place(o) \in 0..(Cardinality(mem) - 1)
         /\ \A o, p \in mem : Before(o, p) => Place(o) < Place(p)
         /\ \A o, p \in mem : o # p => Before(o, p) \/ Before(p, o)
<1> USE Timed DEF Held
<1> DEFINE Ahead(o) == {q \in mem : Before(q, o)}
<1>1. \A o, p \in mem : o # p => Before(o, p) \/ Before(p, o)
  BY DEF Before
<1>2. \A o \in mem : ~Before(o, o)
  BY DEF Before
<1>3. \A o, p, q \in mem : Before(o, p) /\ Before(p, q) => Before(o, q)
  BY DEF Before
<1>4. ASSUME NEW o \in mem, NEW S \in SUBSET mem, Ahead(o) \subseteq S, \E q \in S : q \notin Ahead(o)
      PROVE  Place(o) \in Nat /\ Cardinality(S) \in Nat /\ Place(o) < Cardinality(S)
  <2>1. IsFiniteSet(S) /\ Cardinality(S) \in Nat
    BY FS_Subset, FS_CardinalityType
  <2>2. IsFiniteSet(Ahead(o)) /\ Cardinality(Ahead(o)) <= Cardinality(S)
        /\ (Cardinality(S) = Cardinality(Ahead(o)) => S = Ahead(o))
    BY <1>4, <2>1, FS_Subset
  <2>3. Cardinality(Ahead(o)) \in Nat
    BY <2>2, FS_CardinalityType
  <2>4. Cardinality(S) # Cardinality(Ahead(o))
    BY <1>4, <2>2
  <2>5. Place(o) = Cardinality(Ahead(o))
    BY DEF Place
  <2> QED BY <2>1, <2>2, <2>3, <2>4, <2>5
<1>5. ASSUME NEW o \in mem PROVE Place(o) \in 0..(Cardinality(mem) - 1)
  <2>1. Place(o) \in Nat /\ Cardinality(mem) \in Nat /\ Place(o) < Cardinality(mem)
    BY <1>2, <1>4
  <2> QED BY <2>1
<1>6. ASSUME NEW o \in mem, NEW p \in mem, Before(o, p) PROVE Place(o) < Place(p)
  <2>1. Ahead(o) \subseteq Ahead(p) /\ o \in Ahead(p) /\ o \notin Ahead(o)
    BY <1>2, <1>3, <1>6
  <2>2. Place(o) < Cardinality(Ahead(p))
    BY <1>4, <2>1
  <2> QED BY <2>2 DEF Place
<1> QED BY <1>1, <1>5, <1>6

(* Each place of the tree has its object, and the times do not increase.   *)
LEMMA LeafIs ==
  ASSUME Held
  PROVE  /\ Cardinality(mem) \in Nat /\ Len(Leaf) = Cardinality(mem)
         /\ Leaf \in [1..Cardinality(mem) -> mem]
         /\ \A k \in 1..Cardinality(mem) : Place(Leaf[k]) = k - 1
         /\ \A o \in mem : Place(o) + 1 \in 1..Cardinality(mem) /\ Leaf[Place(o) + 1] = o
         /\ \A o, p \in mem : Place(o) <= Place(p) => T[o] >= T[p]
<1> USE Timed DEF Held
<1> DEFINE n == Cardinality(mem)
           P == [o \in mem |-> Place(o)]
<1>1. n \in Nat
  BY FS_CardinalityType
<1> HIDE DEF n
<1>2. /\ \A o \in mem : Place(o) \in 0..(n - 1)
      /\ \A o, p \in mem : Before(o, p) => Place(o) < Place(p)
      /\ \A o, p \in mem : o # p => Before(o, p) \/ Before(p, o)
  BY PlaceOrders DEF n
<1>3. \A o, p \in mem : Place(o) = Place(p) => o = p
  BY <1>2
<1>4. P \in Injection(mem, 0..(n - 1))
  BY <1>2, <1>3 DEF Injection, IsInjective
<1>5. IsFiniteSet(0..(n - 1)) /\ Cardinality(0..(n - 1)) = n
  BY <1>1, FS_Interval
<1>6. P \in Surjection(mem, 0..(n - 1))
  BY <1>4, <1>5, FS_Injection DEF n
<1>7. \A k \in 0..(n - 1) : \E o \in mem : Place(o) = k
  BY <1>6 DEF Surjection
<1>8. Leaf = [k \in 1..n |-> CHOOSE o \in mem : Place(o) = k - 1]
  BY DEF Leaf, n
<1>9. ASSUME NEW k \in 1..n
      PROVE  Leaf[k] \in mem /\ Place(Leaf[k]) = k - 1
  <2>1. k - 1 \in 0..(n - 1)
    BY <1>1
  <2>2. \E o \in mem : Place(o) = k - 1
    BY <1>7, <2>1
  <2>3. Leaf[k] = CHOOSE o \in mem : Place(o) = k - 1
    BY <1>8
  <2> QED BY <2>2, <2>3
<1>10. Leaf \in [1..n -> mem] /\ Len(Leaf) = n
  BY <1>1, <1>8, <1>9
<1>11. ASSUME NEW o \in mem
       PROVE  Place(o) + 1 \in 1..n /\ Leaf[Place(o) + 1] = o
  <2>1. PICK k : k = Place(o) + 1
    OBVIOUS
  <2>2. Place(o) \in 0..(n - 1)
    BY <1>2
  <2>3. k \in 1..n /\ k - 1 = Place(o)
    BY <1>1, <2>1, <2>2
  <2> QED BY <1>3, <1>9, <2>1, <2>3
<1>12. \A o, p \in mem : Place(o) <= Place(p) => T[o] >= T[p]
  <2> SUFFICES ASSUME NEW o \in mem, NEW p \in mem, Place(o) <= Place(p) PROVE T[o] >= T[p]
    OBVIOUS
  <2>1. ~Before(p, o)
    BY <1>2
  <2> QED BY <2>1 DEF Before
<1> QED BY <1>1, <1>9, <1>10, <1>11, <1>12 DEF n

-----------------------------------------------------------------------------
(* The binary search.  Its places, and those of the pieces shorter than m. *)
Places == (0..Len(Leaf)) \X (-1..Len(Leaf) - 1)

Pieces(m) == {s \in Places : s[2] - s[1] < m}

(* A piece without its middle is shorter, on either side.                  *)
LEMMA Shorter ==
  ASSUME NEW n \in Nat, NEW i \in 0..n, NEW j \in -1..(n - 1), NEW loc \in i..j
  PROVE  /\ loc + 1 \in 0..n /\ loc - 1 \in -1..(n - 1) /\ loc + 1 \in 1..n
         /\ j - (loc + 1) < j - i /\ (loc - 1) - i < j - i
         /\ j - (loc + 1) + 1 \in Nat /\ j - (loc + 1) + 1 < j - i + 1
         /\ (loc - 1) - i + 1 \in Nat /\ (loc - 1) - i + 1 < j - i + 1
OBVIOUS

(* What a turn of the search leaves is a shorter piece of the tree.        *)
LEMMA Narrows ==
  ASSUME Held, NEW s \in Places, s[1] <= s[2], NEW loc, loc = s[1] + (s[2] - s[1]) \div 2
  PROVE  /\ loc \in s[1]..s[2] /\ loc + 1 \in 1..Len(Leaf)
         /\ <<loc + 1, s[2]>> \in Places /\ s[2] - (loc + 1) < s[2] - s[1]
         /\ <<s[1], loc - 1>> \in Places /\ (loc - 1) - s[1] < s[2] - s[1]
<1>1. PICK n \in Nat : n = Len(Leaf)
  BY LeafIs
<1>2. s[1] \in 0..n /\ s[2] \in -1..(n - 1) /\ s = <<s[1], s[2]>>
  BY <1>1 DEF Places
<1>3. PICK i \in 0..n, j \in -1..(n - 1) : i = s[1] /\ j = s[2]
  BY <1>2
<1>4. loc \in i..j
  BY <1>3
<1>5. /\ loc + 1 \in 0..n /\ loc - 1 \in -1..(n - 1) /\ loc + 1 \in 1..n
      /\ j - (loc + 1) < j - i /\ (loc - 1) - i < j - i
  BY <1>4, Shorter
<1> QED BY <1>1, <1>3, <1>4, <1>5 DEF Places

(* A turn asks for shorter pieces only, so there is such a search.         *)
LEMMA SameTurn ==
  ASSUME Held, NEW limit, NEW f, NEW g, NEW m \in Nat, NEW s \in Pieces(m),
         \A t \in Pieces(m - 1) : f[t] = g[t]
  PROVE  Narrowed(f, s, limit) = Narrowed(g, s, limit)
<1>1. s \in Places /\ s[2] - s[1] < m
  BY DEF Pieces
<1>2. CASE s[1] > s[2]
  BY <1>2 DEF Narrowed
<1>3. CASE ~(s[1] > s[2])
  <2>1. PICK loc : loc = s[1] + (s[2] - s[1]) \div 2
    OBVIOUS
  <2>2. PICK i \in Int, j \in Int : i = s[1] /\ j = s[2]
    BY <1>1, LeafIs DEF Places
  <2>3. i <= j
    BY <1>3, <2>2
  <2>4. /\ loc \in i..j
        /\ <<loc + 1, j>> \in Places /\ j - (loc + 1) < j - i
        /\ <<i, loc - 1>> \in Places /\ (loc - 1) - i < j - i
    BY <1>1, <2>1, <2>2, <2>3, Narrows
  <2>5. <<loc + 1, j>> \in Pieces(m - 1) /\ <<i, loc - 1>> \in Pieces(m - 1)
    BY <1>1, <2>2, <2>4 DEF Pieces
  <2>6. f[<<loc + 1, s[2]>>] = g[<<loc + 1, s[2]>>] /\ f[<<s[1], loc - 1>>] = g[<<s[1], loc - 1>>]
    BY <2>2, <2>5
  <2> QED BY <2>1, <2>6 DEF Narrowed
<1> QED BY <1>2, <1>3

(* The recursion of SearchNodeBiggerThan has a solution.                   *)
LEMMA SearchExists ==
  ASSUME Held, NEW limit
  PROVE  \E f : f = [s \in Places |-> Narrowed(f, s, limit)]
<1> DEFINE Partly(m) == \E f : f = [s \in Pieces(m) |-> Narrowed(f, s, limit)]
           S == {m \in Nat : ~Partly(m)}
<1>1. PICK n \in Nat : n = Len(Leaf)
  BY LeafIs
<1>2. ASSUME S # {} PROVE FALSE
  <2>1. PICK k \in S : \A m \in S : k <= m
    BY <1>2, LeastNat
  <2>2. CASE k = 0
    <3>1. \A s \in Pieces(0) : s[1] > s[2]
      BY <1>1 DEF Pieces, Places
    <3> DEFINE f == [s \in Pieces(0) |-> s[1]]
    <3>2. \A s \in Pieces(0) : Narrowed(f, s, limit) = s[1]
      BY <3>1 DEF Narrowed
    <3>3. f = [s \in Pieces(0) |-> Narrowed(f, s, limit)]
      BY <3>2
    <3> HIDE DEF f
    <3>4. Partly(0)
      BY <3>3
    <3> QED BY <2>2, <3>4
  <2>3. CASE k # 0
    <3>1. k - 1 \in Nat /\ k - 1 \notin S
      BY <2>1, <2>3
    <3>2. PICK g : g = [s \in Pieces(k - 1) |-> Narrowed(g, s, limit)]
      BY <3>1
    <3> DEFINE f == [s \in Pieces(k) |-> Narrowed(g, s, limit)]
    <3>3. \A t \in Pieces(k - 1) : t \in Pieces(k)
      BY <1>1, <2>1 DEF Pieces, Places
    <3>4. \A t \in Pieces(k - 1) : f[t] = g[t]
      BY <3>2, <3>3
    <3>5. \A s \in Pieces(k) : f[s] = Narrowed(g, s, limit)
      OBVIOUS
    <3>6. f = [s \in Pieces(k) |-> f[s]]
      OBVIOUS
    <3> HIDE DEF f
    <3>7. \A s \in Pieces(k) : Narrowed(f, s, limit) = Narrowed(g, s, limit)
      BY <2>1, <3>4, SameTurn
    <3>8. f = [s \in Pieces(k) |-> Narrowed(f, s, limit)]
      BY <3>5, <3>6, <3>7
    <3>9. Partly(k)
      BY <3>8
    <3> QED BY <2>1, <3>9
  <2> QED BY <2>2, <2>3
<1>3. Partly(n)
  BY <1>2
<1>4. Pieces(n) = Places
  BY <1>1 DEF Pieces, Places
<1> QED BY <1>3, <1>4

(* So search is one.                                                       *)
LEMMA SearchIs ==
  ASSUME Held, NEW limit
  PROVE  \E f : /\ f = [s \in Places |-> Narrowed(f, s, limit)]
                /\ FindBiggerThan(limit) = f[<<0, Len(Leaf) - 1>>]
<1> DEFINE search == CHOOSE f : f = [s \in Places |-> Narrowed(f, s, limit)]
<1>1. search = [s \in Places |-> Narrowed(search, s, limit)]
  BY SearchExists, Zenon
<1>2. FindBiggerThan(limit) = search[<<0, Len(Leaf) - 1>>]
  BY Zenon DEF FindBiggerThan, Places
<1> QED BY <1>1, <1>2

(* The search ends behind objects of time limit or later, and before none  *)
(* that are later.                                                         *)
Splits(n, k, limit) ==
  /\ k \in 0..n
  /\ \A q \in 1..n : /\ q <= k => T[Leaf[q]] >= limit
                     /\ q > k => T[Leaf[q]] <= limit

(* Each turn that ends leaves the later times before the place it returns. *)
LEMMA SearchParts ==
  ASSUME Held, NEW limit \in Int, NEW f, NEW n \in Nat, n = Len(Leaf),
         f = [s \in Places |-> Narrowed(f, s, limit)]
  PROVE  Splits(n, f[<<0, n - 1>>], limit)
<1> USE Timed
<1> DEFINE Between(s) == /\ s[1] <= s[2] + 1
                         /\ \A q \in 1..n : /\ q <= s[1] => T[Leaf[q]] >= limit
                                            /\ q > s[2] + 1 => T[Leaf[q]] <= limit
           S == {m \in Nat : \E s \in Places : /\ Between(s) /\ s[2] - s[1] + 1 = m
                                               /\ ~Splits(n, f[s], limit)}
<1>0. Leaf \in [1..n -> mem] /\ \A q, r \in 1..n : q <= r => T[Leaf[q]] >= T[Leaf[r]]
  BY LeafIs
<1>01. \A q \in 1..n : T[Leaf[q]] \in Nat
  BY <1>0 DEF Held
<1>1. ASSUME S # {} PROVE FALSE
  <2>1. PICK k \in S : \A m \in S : k <= m
    BY <1>1, LeastNat
  <2>2. PICK s \in Places : Between(s) /\ s[2] - s[1] + 1 = k /\ ~Splits(n, f[s], limit)
    BY <2>1
  <2>3. PICK i \in 0..n, j \in -1..(n - 1) : i = s[1] /\ j = s[2] /\ s = <<i, j>>
    BY DEF Places
  <2>4. \A t \in Places : Between(t) /\ t[2] - t[1] + 1 \in Nat /\ t[2] - t[1] + 1 < k
                          => Splits(n, f[t], limit)
    BY <2>1
  <2>5. f[s] = Narrowed(f, s, limit)
    OBVIOUS
  <2>6. CASE i > j
    <3>1. i = j + 1
      <4>1. i <= j + 1
        BY <2>2, <2>3
      <4> QED BY <2>6, <4>1
    <3>2. f[s] = i
      BY <2>3, <2>5, <2>6 DEF Narrowed
    <3>3. Splits(n, i, limit)
      BY <2>2, <2>3, <3>1 DEF Splits
    <3> QED BY <2>2, <3>2, <3>3
  <2>7. CASE ~(i > j)
    <3>1. PICK loc : loc = i + (j - i) \div 2
      OBVIOUS
    <3>11. i <= j /\ s[1] = i /\ s[2] = j
      BY <2>3, <2>7
    <3>2. /\ loc \in i..j /\ loc + 1 \in 1..n
          /\ <<loc + 1, j>> \in Places /\ <<i, loc - 1>> \in Places
      BY <3>1, <3>11, Narrows
    <3>3. f[s] = IF T[Leaf[loc + 1]] > limit THEN f[<<loc + 1, j>>]
                 ELSE IF T[Leaf[loc + 1]] < limit THEN f[<<i, loc - 1>>]
                 ELSE loc + 1
      BY <2>3, <2>5, <2>7, <3>1 DEF Narrowed
    <3>4. CASE T[Leaf[loc + 1]] > limit
      <4>1. \A q \in 1..n : q <= loc + 1 => T[Leaf[q]] >= limit
        BY <1>0, <1>01, <3>2, <3>4
      <4>2. Between(<<loc + 1, j>>)
        <5>1. \A q \in 1..n : q > j + 1 => T[Leaf[q]] <= limit
          BY <2>2, <2>3
        <5>2. loc + 1 <= j + 1
          BY <3>2
        <5> QED BY <4>1, <5>1, <5>2
      <4>3. j - (loc + 1) + 1 \in Nat /\ j - (loc + 1) + 1 < k
        BY <2>2, <3>2, <3>11, Shorter
      <4> QED BY <2>2, <2>4, <3>2, <3>3, <3>4, <4>2, <4>3
    <3>5. CASE T[Leaf[loc + 1]] < limit
      <4>1. \A q \in 1..n : q > (loc - 1) + 1 => T[Leaf[q]] <= limit
        BY <1>0, <1>01, <3>2, <3>5
      <4>2. Between(<<i, loc - 1>>)
        <5>1. \A q \in 1..n : q <= i => T[Leaf[q]] >= limit
          BY <2>2, <2>3
        <5>2. i <= (loc - 1) + 1
          BY <3>2
        <5> QED BY <4>1, <5>1, <5>2
      <4>3. (loc - 1) - i + 1 \in Nat /\ (loc - 1) - i + 1 < k
        BY <2>2, <3>2, <3>11, Shorter
      <4>4. ~(T[Leaf[loc + 1]] > limit)
        BY <1>01, <3>2, <3>5
      <4> QED BY <2>2, <2>4, <3>2, <3>3, <3>5, <4>2, <4>3, <4>4
    <3>6. CASE T[Leaf[loc + 1]] = limit
      <4>1. f[s] = loc + 1
        BY <1>01, <3>2, <3>3, <3>6
      <4>2. Splits(n, loc + 1, limit)
        BY <1>0, <1>01, <3>2, <3>6 DEF Splits
      <4> QED BY <2>2, <4>1, <4>2
    <3> QED BY <1>01, <3>2, <3>4, <3>5, <3>6
  <2> QED BY <2>3, <2>6, <2>7
<1>2. <<0, n - 1>> \in Places /\ Between(<<0, n - 1>>)
  BY DEF Places
<1>3. (n - 1) - 0 + 1 \in Nat
  OBVIOUS
<1> QED BY <1>1, <1>2, <1>3

(* The position FindBiggerThan gives divides the tree at limit.            *)
LEMMA FoundDivides ==
  ASSUME Held, NEW limit \in Int
  PROVE  /\ FindBiggerThan(limit) \in 0..Len(Leaf)
         /\ \A o \in mem : /\ Place(o) < FindBiggerThan(limit) => T[o] >= limit
                           /\ Place(o) >= FindBiggerThan(limit) => T[o] <= limit
<1>1. PICK n \in Nat : n = Len(Leaf)
  BY LeafIs
<1>2. PICK k : k = FindBiggerThan(limit) /\ Splits(n, k, limit)
  BY <1>1, SearchIs, SearchParts
<1>3. k \in 0..n
  BY <1>2 DEF Splits
<1>4. ASSUME NEW o \in mem
      PROVE  (Place(o) < k => T[o] >= limit) /\ (Place(o) >= k => T[o] <= limit)
  <2>1. PICK q : q = Place(o) + 1
    OBVIOUS
  <2>2. q \in 1..n /\ Leaf[q] = o /\ Place(o) = q - 1
    BY <1>1, <2>1, LeafIs, PlaceOrders
  <2>3. (q <= k => T[o] >= limit) /\ (q > k => T[o] <= limit)
    BY <1>2, <2>2 DEF Splits
  <2> QED BY <1>3, <2>2, <2>3
<1> QED BY <1>1, <1>2, <1>3, <1>4

(* timer_refresh walks objects not later than the window before time, and  *)
(* none only if none in the memory is earlier.                             *)
LEMMA RefreshedIs ==
  ASSUME Held, NEW time \in Int
  PROVE  /\ Refreshed(time) \in Seq(mem)
         /\ \A i \in 1..Len(Refreshed(time)) : T[Refreshed(time)[i]] <= time - Window
         /\ Refreshed(time) = <<>> => \A o \in mem : T[o] >= time - Window
<1>1. PICK limit \in Int : limit = time - Window
  BY Timed
<1>2. PICK n \in Nat : n = Len(Leaf) /\ Leaf \in Seq(mem) /\ Leaf \in [1..n -> mem]
  BY LeafIs
<1>3. PICK k \in 0..n : k = FindBiggerThan(limit)
  BY <1>2, FoundDivides
<1>4. PICK r : r = SubSeq(Leaf, k + 1, n)
  OBVIOUS
<1>5. r = Refreshed(time)
  BY <1>1, <1>2, <1>3, <1>4 DEF Refreshed
<1>6. /\ r \in Seq(mem) /\ Len(r) = n - k
      /\ \A i \in 1..Len(r) : r[i] = Leaf[k + i] /\ k + i \in 1..n
  <2>1. /\ k + 1 \in Int /\ n \in Int /\ n - (k + 1) + 1 = n - k
        /\ \A i \in (k + 1)..n : i \in 1..n /\ Leaf[i] \in mem
    BY <1>2
  <2>2. /\ r \in Seq(mem)
        /\ Len(r) = IF k + 1 <= n THEN n - (k + 1) + 1 ELSE 0
        /\ \A i \in 1..(n - (k + 1) + 1) : r[i] = Leaf[(k + 1) + i - 1]
    BY <1>4, <2>1, SubSeqProperties
  <2>3. Len(r) = n - k
    BY <2>2
  <2>4. \A i \in 1..(n - k) : r[i] = Leaf[k + i] /\ k + i \in 1..n
    <3>1. \A i \in 1..(n - k) : (k + 1) + i - 1 = k + i /\ k + i \in 1..n
      OBVIOUS
    <3> QED BY <2>1, <2>2, <3>1
  <2> QED BY <2>2, <2>3, <2>4
<1>7. \A i \in 1..Len(r) : T[r[i]] <= limit
  <2> SUFFICES ASSUME NEW i \in 1..Len(r) PROVE T[r[i]] <= limit
    OBVIOUS
  <2>1. PICK q \in 1..n : q = k + i
    BY <1>6
  <2>2. Place(Leaf[q]) = q - 1 /\ Leaf[q] \in mem
    BY <1>2, LeafIs
  <2>3. q - 1 >= k
    BY <1>6, <2>1
  <2>4. T[Leaf[q]] <= limit
    BY <1>3, <2>2, <2>3, FoundDivides
  <2> QED BY <1>6, <2>1, <2>4
<1>8. ASSUME r = <<>>, NEW o \in mem PROVE T[o] >= limit
  <2>1. k = n
    BY <1>6, <1>8
  <2>2. Place(o) < n
    BY <1>2, LeafIs, PlaceOrders
  <2> QED BY <1>3, <2>1, <2>2, FoundDivides
<1> QED BY <1>1, <1>5, <1>6, <1>7, <1>8

-----------------------------------------------------------------------------
(* The actions that wait.                                                  *)
Elems(q) == {q[i] : i \in 1..Len(q)}

Action(tag, o) == [tag |-> tag, obj |-> o]

TypeOK ==
  /\ mem \subseteq Obj /\ IsFiniteSet(mem)
  /\ queue \in Seq(Waiting)
  /\ walk \in [limit : Int, loc : Int]
  /\ timed \in BOOLEAN
  /\ above \subseteq Obj /\ above \intersect dead = {}
  /\ last \in Obj \union {Null} /\ newest \in Nat
  /\ ~timed => mem = {} /\ queue = <<>> /\ walk = NoWalk

(* An INSERT that waits is of an object that matches or was deleted, and a *)
(* RETRACT of an object out of the window; an object that matches is in    *)
(* the TIMER, or waits, or is out of the window.                           *)
WaitOK ==
  /\ mem \subseteq above
  /\ \A o \in above : T[o] <= newest
  /\ \A w \in Elems(queue) : IF w.tag = "INSERT" THEN w.obj \in above \union dead
                             ELSE T[w.obj] <= newest - Window
  /\ \A o \in above \ mem : T[o] <= newest - Window \/ Action("INSERT", o) \in Elems(queue)

(* Nothing in the TIMER is older than the window before the last to enter. *)
LastOK == last # Null => \A o \in mem : T[o] >= T[last] - Window

(* What engine_refresh has still to walk is out of the window.             *)
WalkOK ==
  walk # NoWalk => /\ queue = <<>>
                   /\ walk.limit <= newest - Window
                   /\ walk.loc \in Nat
                   /\ \A o \in mem : Place(o) >= walk.loc => T[o] <= walk.limit

IInv == TypeOK /\ (timed => WaitOK /\ LastOK /\ WalkOK)

-----------------------------------------------------------------------------
(* The elements of a list of actions, by its first and by its parts.       *)
LEMMA ElemsSplit ==
  ASSUME NEW S, NEW q \in Seq(S)
  PROVE  /\ q # <<>> => /\ Head(q) \in S /\ Tail(q) \in Seq(S)
                        /\ Elems(q) = {Head(q)} \union Elems(Tail(q))
         /\ \A r \in Seq(S) : q \o r \in Seq(S) /\ Elems(q \o r) = Elems(q) \union Elems(r)
<1>1. ASSUME q # <<>>
      PROVE  /\ Head(q) \in S /\ Tail(q) \in Seq(S)
             /\ Elems(q) = {Head(q)} \union Elems(Tail(q))
  <2>1. PICK n \in Nat : n = Len(q) /\ n > 0
    BY <1>1, EmptySeq
  <2>11. PICK t : t = Tail(q)
    OBVIOUS
  <2>2. /\ Head(q) \in S /\ Head(q) = q[1] /\ t \in Seq(S)
        /\ Len(t) = n - 1 /\ \A i \in 1..(n - 1) : t[i] = q[i + 1]
    BY <1>1, <2>1, <2>11, HeadTailProperties
  <2>3. \A i \in 1..(n - 1) : i + 1 \in 1..n
    OBVIOUS
  <2>4. \A i \in 1..n : i = 1 \/ (i - 1 \in 1..(n - 1) /\ (i - 1) + 1 = i)
    OBVIOUS
  <2>5. 1 \in 1..n
    BY <2>1
  <2>6. Elems(q) = {q[i] : i \in 1..n} /\ Elems(t) = {t[i] : i \in 1..(n - 1)}
    BY <2>1, <2>2 DEF Elems
  <2>7. ASSUME NEW x \in Elems(q) PROVE x = q[1] \/ x \in Elems(t)
    <3>1. PICK i \in 1..n : x = q[i]
      BY <2>6
    <3>2. CASE i = 1
      BY <3>1, <3>2
    <3>3. CASE i # 1
      <4>1. PICK j \in 1..(n - 1) : j = i - 1 /\ j + 1 = i
        BY <2>4, <3>3
      <4>2. x = t[j]
        BY <2>2, <3>1, <4>1
      <4> QED BY <2>6, <4>2
    <3> QED BY <3>2, <3>3
  <2>8. ASSUME NEW x \in Elems(t) PROVE x \in Elems(q)
    BY <2>2, <2>3, <2>6
  <2> QED BY <2>11, <2>2, <2>5, <2>6, <2>7, <2>8
<1>2. ASSUME NEW r \in Seq(S)
      PROVE  q \o r \in Seq(S) /\ Elems(q \o r) = Elems(q) \union Elems(r)
  <2>1. PICK n \in Nat, m \in Nat : n = Len(q) /\ m = Len(r)
    OBVIOUS
  <2>11. PICK t : t = q \o r
    OBVIOUS
  <2>2. /\ t \in Seq(S) /\ Len(t) = n + m
        /\ \A i \in 1..(n + m) : t[i] = IF i <= n THEN q[i] ELSE r[i - n]
    BY <2>1, <2>11, ConcatProperties
  <2>3. \A i \in 1..(n + m) : IF i <= n THEN i \in 1..n ELSE i - n \in 1..m
    OBVIOUS
  <2>4. /\ \A i \in 1..n : i \in 1..(n + m) /\ i <= n
        /\ \A i \in 1..m : n + i \in 1..(n + m) /\ ~(n + i <= n) /\ (n + i) - n = i
    OBVIOUS
  <2>5. /\ Elems(q) = {q[i] : i \in 1..n} /\ Elems(r) = {r[i] : i \in 1..m}
        /\ Elems(t) = {t[i] : i \in 1..(n + m)}
    BY <2>1, <2>2 DEF Elems
  <2>6. \A x \in Elems(t) : x \in Elems(q) \union Elems(r)
    BY <2>2, <2>3, <2>5
  <2>7. \A x \in Elems(q) : x \in Elems(t)
    BY <2>2, <2>4, <2>5
  <2>8. \A i \in 1..m : t[n + i] = r[i]
    BY <2>2, <2>4
  <2>9. \A x \in Elems(r) : x \in Elems(t)
    BY <2>4, <2>5, <2>8
  <2> QED BY <2>11, <2>2, <2>6, <2>7, <2>9
<1> QED BY <1>1, <1>2

(* The RETRACTs that timer_refresh pushes.                                 *)
LEMMA RetractsAre ==
  ASSUME Held, NEW old \in Seq(mem)
  PROVE  /\ Retracts(old) \in Seq(Waiting)
         /\ \A w \in Elems(Retracts(old)) : \E i \in 1..Len(old) :
               w = Action("RETRACT", old[i]) /\ old[i] \in mem
<1>1. /\ Len(Retracts(old)) = Len(old)
      /\ \A i \in 1..Len(old) : Retracts(old)[i] = Action("RETRACT", old[i]) /\ old[i] \in mem
  BY DEF Retracts, Action
<1>2. \A i \in 1..Len(old) : Action("RETRACT", old[i]) \in Waiting
  BY <1>1, FeedAssumption DEF Waiting, Action, Held
<1>3. Retracts(old) \in Seq(Waiting)
  <2>1. PICK n \in Nat : n = Len(old) /\ DOMAIN old = 1..n
    OBVIOUS
  <2>2. Retracts(old) = [i \in 1..n |-> Action("RETRACT", old[i])]
    BY <2>1 DEF Retracts, Action
  <2> QED BY <1>2, <2>1, <2>2
<1>4. \A w \in Elems(Retracts(old)) : \E i \in 1..Len(old) :
        w = Action("RETRACT", old[i]) /\ old[i] \in mem
  BY <1>1 DEF Elems
<1> QED BY <1>3, <1>4

(* What timer_call does with an INSERT.                                    *)
LEMMA EnterDoes ==
  ASSUME Held, NEW o \in Obj, NEW rest \in Seq(Waiting), Enter(o, rest)
  PROVE  /\ walk' = walk /\ queue' \in Seq(Waiting)
         /\ \/ /\ mem' = mem \union {o} /\ queue' = rest /\ last' = o
               /\ \A p \in mem : T[p] >= T[o] - Window
            \/ /\ mem' = mem /\ last' = last
               /\ Action("INSERT", o) \in Elems(queue')
               /\ Elems(rest) \subseteq Elems(queue')
               /\ \A w \in Elems(queue') :
                    \/ w = Action("INSERT", o)
                    \/ w \in Elems(rest)
                    \/ w.tag = "RETRACT" /\ w.obj \in mem /\ T[w.obj] <= T[o] - Window
<1>1. T[o] \in Int
  BY Timed
<1>2. CASE TimerInsert(o, rest) /\ last' = o
  BY <1>1, <1>2, RefreshedIs DEF TimerInsert
<1>3. CASE InsertAfterRefresh(o, rest) /\ UNCHANGED last
  <2>1. PICK old : old = Refreshed(T[o])
    OBVIOUS
  <2>2. old \in Seq(mem) /\ \A i \in 1..Len(old) : T[old[i]] <= T[o] - Window
    BY <1>1, <2>1, RefreshedIs
  <2>3. PICK ins : ins = <<Action("INSERT", o)>>
    OBVIOUS
  <2>4. queue' = Retracts(old) \o ins \o rest /\ mem' = mem /\ walk' = walk /\ last' = last
    BY <1>3, <2>1, <2>3 DEF InsertAfterRefresh, Action
  <2>5. ins \in Seq(Waiting) /\ Elems(ins) = {Action("INSERT", o)}
    BY <2>3, FeedAssumption DEF Waiting, Action, Elems
  <2>6. /\ Retracts(old) \in Seq(Waiting)
        /\ \A w \in Elems(Retracts(old)) :
              w.tag = "RETRACT" /\ w.obj \in mem /\ T[w.obj] <= T[o] - Window
    BY <2>2, RetractsAre DEF Action
  <2>7. Retracts(old) \o ins \in Seq(Waiting)
        /\ Elems(Retracts(old) \o ins) = Elems(Retracts(old)) \union Elems(ins)
    BY <2>5, <2>6, ElemsSplit
  <2>8. queue' \in Seq(Waiting)
        /\ Elems(queue') = Elems(Retracts(old)) \union Elems(ins) \union Elems(rest)
    <3>1. PICK first \in Seq(Waiting) : first = Retracts(old) \o ins
      BY <2>7
    <3>2. first \o rest \in Seq(Waiting)
          /\ Elems(first \o rest) = Elems(first) \union Elems(rest)
      BY ElemsSplit
    <3> QED BY <2>4, <2>7, <3>1, <3>2
  <2> QED BY <2>4, <2>5, <2>6, <2>8
<1> QED BY <1>2, <1>3 DEF Enter

-----------------------------------------------------------------------------
(* InsertWaits in the words of the invariant.                              *)
LEMMA WaitingIs ==
  ASSUME queue \in Seq(Waiting), NEW o
  PROVE  InsertWaits(o) <=> Action("INSERT", o) \in Elems(queue)
<1>1. DOMAIN queue = 1..Len(queue)
  OBVIOUS
<1> QED BY <1>1 DEF InsertWaits, Elems, Action

(* What was out of the window stays out of it.                             *)
LEMMA Later ==
  ASSUME NEW a \in Nat, NEW b \in Nat, b >= a, NEW n \in Int
  PROVE  (n <= a => n <= b) /\ (n <= a - Window => n <= b - Window)
BY Timed

(* An action that waits is one of an object.                               *)
LEMMA WaitingOf ==
  ASSUME queue \in Seq(Waiting), NEW w \in Elems(queue)
  PROVE  w = Action(w.tag, w.obj) /\ w.obj \in Obj /\ T[w.obj] \in Int
<1>1. w \in Waiting
  BY DEF Elems
<1> QED BY <1>1, Timed, FeedAssumption DEF Waiting, Action

(* The types of what an action leaves alone.                               *)
OtherTypes == /\ timed' = timed /\ above' \subseteq Obj /\ above' \intersect dead' = {}
              /\ newest' \in Nat

(* An object comes to the TIMER, by do_loop or with a new match: it enters *)
(* when nothing there is too old, or else waits behind what is.            *)
LEMMA EnterOK ==
  ASSUME TypeOK, timed, LastOK, walk = NoWalk, OtherTypes,
         NEW o \in above', NEW rest \in Seq(Waiting), Enter(o, rest),
         mem \subseteq above', \A p \in above' : T[p] <= newest',
         \A w \in Elems(rest) : IF w.tag = "INSERT" THEN w.obj \in above' \union dead'
                               ELSE T[w.obj] <= newest' - Window,
         \A p \in above' \ mem : \/ p = o \/ T[p] <= newest' - Window
                                \/ Action("INSERT", p) \in Elems(rest)
  PROVE  IInv'
<1> USE Timed
<1>1. /\ Held /\ o \in Obj /\ above' \subseteq Obj /\ newest' \in Nat /\ timed'
  BY DEF TypeOK, OtherTypes, Held
<1>2. walk' = NoWalk /\ queue' \in Seq(Waiting)
  BY <1>1, EnterDoes
<1>3. CASE /\ mem' = mem \union {o} /\ queue' = rest /\ last' = o
           /\ \A p \in mem : T[p] >= T[o] - Window
  <2>1. mem' \subseteq above' /\ IsFiniteSet(mem') /\ last' \in Obj
    BY <1>1, <1>3, FS_AddElement DEF Held
  <2>2. TypeOK'
    BY <1>1, <1>2, <2>1 DEF TypeOK, OtherTypes, NoWalk
  <2>3. WaitOK'
    BY <1>3, <2>1 DEF WaitOK
  <2>4. T[o] >= T[o] - Window
    BY <1>1
  <2>5. LastOK'
    BY <1>3, <2>4 DEF LastOK
  <2> QED BY <1>2, <2>2, <2>3, <2>5 DEF IInv, WalkOK
<1>4. CASE /\ mem' = mem /\ last' = last
           /\ Action("INSERT", o) \in Elems(queue')
           /\ Elems(rest) \subseteq Elems(queue')
           /\ \A w \in Elems(queue') :
                \/ w = Action("INSERT", o)
                \/ w \in Elems(rest)
                \/ w.tag = "RETRACT" /\ w.obj \in mem /\ T[w.obj] <= T[o] - Window
  <2>1. TypeOK'
    BY <1>1, <1>2, <1>4 DEF TypeOK, OtherTypes, NoWalk
  <2>2. ASSUME NEW w \in Elems(queue')
        PROVE  IF w.tag = "INSERT" THEN w.obj \in above' \union dead'
               ELSE T[w.obj] <= newest' - Window
    <3>1. CASE w = Action("INSERT", o)
      BY <3>1 DEF Action
    <3>2. CASE w \in Elems(rest)
      BY <3>2
    <3>3. CASE w.tag = "RETRACT" /\ w.obj \in mem /\ T[w.obj] <= T[o] - Window
      <4>1. T[w.obj] \in Nat /\ T[o] \in Nat /\ T[o] <= newest'
        BY <1>1, <3>3 DEF Held
      <4> QED BY <1>1, <3>3, <4>1
    <3> QED BY <1>4, <2>2, <3>1, <3>2, <3>3
  <2>3. WaitOK'
    BY <1>4, <2>2 DEF WaitOK
  <2>4. LastOK'
    BY <1>4 DEF LastOK
  <2> QED BY <1>2, <2>1, <2>3, <2>4 DEF IInv, WalkOK
<1> QED BY <1>1, <1>3, <1>4, EnterDoes

(* An object leaves the TIMER, by a RETRACT of the TIMER or because it no  *)
(* longer matches.                                                         *)
LEMMA LeaveOK ==
  ASSUME TypeOK, timed, LastOK, walk = NoWalk, OtherTypes, last' = last,
         NEW o \in Obj, NEW rest \in Seq(Waiting), Leave(o, rest),
         mem \ {o} \subseteq above', \A p \in above' : T[p] <= newest',
         \A w \in Elems(rest) : IF w.tag = "INSERT" THEN w.obj \in above' \union dead'
                               ELSE T[w.obj] <= newest' - Window,
         \A p \in above' \ (mem \ {o}) : \/ T[p] <= newest' - Window
                                        \/ Action("INSERT", p) \in Elems(rest)
  PROVE  IInv'
<1>1. mem' = mem \ {o} /\ queue' = rest /\ walk' = NoWalk
  BY DEF Leave, TimerRetract
<1>2. IsFiniteSet(mem')
  BY <1>1, FS_RemoveElement DEF TypeOK
<1>3. TypeOK'
  BY <1>1, <1>2 DEF TypeOK, OtherTypes, NoWalk
<1>4. WaitOK'
  BY <1>1 DEF WaitOK
<1>5. LastOK'
  BY <1>1 DEF LastOK
<1> QED BY <1>1, <1>3, <1>4, <1>5 DEF IInv, WalkOK

(* do_loop takes the next action of the TIMER.                             *)
LEMMA DoLoopOK ==
  ASSUME IInv, DoLoop
  PROVE  IInv'
<1>1. /\ TypeOK /\ timed /\ WaitOK /\ LastOK /\ queue \in Seq(Waiting) /\ queue # <<>>
      /\ walk = NoWalk
  BY DEF IInv, DoLoop, TypeOK, WalkOK
<1>2. PICK act \in Waiting, rest \in Seq(Waiting) :
        act = Head(queue) /\ rest = Tail(queue) /\ Elems(queue) = {act} \union Elems(rest)
  <2>1. /\ Head(queue) \in Waiting /\ Tail(queue) \in Seq(Waiting)
        /\ Elems(queue) = {Head(queue)} \union Elems(Tail(queue))
    BY <1>1, ElemsSplit
  <2> QED BY <2>1
<1>3. /\ timed' = timed /\ above' = above /\ dead' = dead /\ newest' = newest
      /\ act.obj \in Obj /\ act.tag \in {"INSERT", "RETRACT"} /\ act = Action(act.tag, act.obj)
  BY <1>2, FeedAssumption DEF DoLoop, Waiting, Action
<1>4. OtherTypes
  BY <1>1, <1>3 DEF OtherTypes, TypeOK
<1>5. \A p \in above : act = Action("INSERT", p) => p = act.obj /\ act.tag = "INSERT"
  BY DEF Action
<1>6. CASE act.obj \in dead
  <2>1. queue' = rest /\ mem' = mem /\ walk' = walk /\ last' = last
    BY <1>2, <1>6 DEF DoLoop
  <2>2. TypeOK'
    BY <1>1, <1>3, <2>1 DEF TypeOK
  <2>3. act.obj \notin above
    BY <1>1, <1>6 DEF TypeOK
  <2>4. WaitOK'
    BY <1>1, <1>2, <1>3, <1>5, <2>1, <2>3 DEF WaitOK
  <2>5. LastOK'
    BY <1>1, <2>1 DEF LastOK
  <2>6. WalkOK'
    BY <1>1, <2>1 DEF WalkOK
  <2> QED BY <2>2, <2>4, <2>5, <2>6 DEF IInv
<1>7. CASE act.obj \notin dead /\ act.tag = "INSERT"
  <2>1. Enter(act.obj, rest)
    BY <1>2, <1>7 DEF DoLoop
  <2>2. act.obj \in above'
    BY <1>1, <1>2, <1>3, <1>7 DEF WaitOK
  <2>3. \A p \in above' \ mem : \/ p = act.obj \/ T[p] <= newest' - Window
                               \/ Action("INSERT", p) \in Elems(rest)
    BY <1>1, <1>2, <1>3, <1>5 DEF WaitOK
  <2>4. /\ mem \subseteq above' /\ \A p \in above' : T[p] <= newest'
        /\ \A w \in Elems(rest) : IF w.tag = "INSERT" THEN w.obj \in above' \union dead'
                                  ELSE T[w.obj] <= newest' - Window
    BY <1>1, <1>2, <1>3 DEF WaitOK
  <2> QED BY <1>1, <1>4, <2>1, <2>2, <2>3, <2>4, EnterOK
<1>8. CASE act.obj \notin dead /\ act.tag = "RETRACT"
  <2>1. Leave(act.obj, rest) /\ last' = last
    BY <1>2, <1>8 DEF DoLoop
  <2>2. T[act.obj] <= newest' - Window
    BY <1>1, <1>2, <1>3, <1>8 DEF WaitOK
  <2>3. \A p \in above' \ (mem \ {act.obj}) : \/ T[p] <= newest' - Window
                                            \/ Action("INSERT", p) \in Elems(rest)
    BY <1>1, <1>2, <1>3, <1>5, <1>8, <2>2 DEF WaitOK
  <2>4. /\ mem \ {act.obj} \subseteq above' /\ \A p \in above' : T[p] <= newest'
        /\ \A w \in Elems(rest) : IF w.tag = "INSERT" THEN w.obj \in above' \union dead'
                                  ELSE T[w.obj] <= newest' - Window
    BY <1>1, <1>2, <1>3 DEF WaitOK
  <2> QED BY <1>1, <1>3, <1>4, <2>1, <2>3, <2>4, LeaveOK
<1> QED BY <1>3, <1>6, <1>7, <1>8

(* A new match, which the code of the rules before the TIMER sends on.     *)
LEMMA MatchOK ==
  ASSUME IInv, NEW o \in Obj, Match(o)
  PROVE  IInv'
<1> USE Timed
<1>1. /\ TypeOK /\ walk = NoWalk /\ queue \in Seq(Waiting) /\ newest \in Nat /\ T[o] \in Nat
      /\ (timed => WaitOK /\ LastOK)
  BY DEF IInv, Match, Called, TypeOK
<1>2. /\ above' = above \union {o} /\ o \notin above \union dead
      /\ newest' = IF T[o] > newest THEN T[o] ELSE newest
      /\ timed' = timed /\ dead' = dead
  BY DEF Match
<1>3. newest' \in Nat /\ newest' >= newest /\ newest' >= T[o]
  BY <1>1, <1>2
<1>4. OtherTypes
  BY <1>1, <1>2, <1>3 DEF OtherTypes, TypeOK
<1>5. CASE timed
  <2>1. Enter(o, queue) /\ o \in above'
    BY <1>2, <1>5 DEF Match
  <2>2. ASSUME NEW n \in Int, n <= newest PROVE n <= newest'
    BY <1>1, <1>3, <2>2, Later
  <2>3. ASSUME NEW n \in Int, n <= newest - Window PROVE n <= newest' - Window
    BY <1>1, <1>3, <2>3, Later
  <2>4. \A p \in above' : T[p] <= newest'
    <3>1. \A p \in above : T[p] \in Int /\ T[p] <= newest
      BY <1>1, <1>5 DEF WaitOK, TypeOK
    <3> QED BY <1>2, <1>3, <2>2, <3>1
  <2>5. \A w \in Elems(queue) : IF w.tag = "INSERT" THEN w.obj \in above' \union dead'
                               ELSE T[w.obj] <= newest' - Window
    <3>1. \A w \in Elems(queue) : T[w.obj] \in Int
      BY <1>1, WaitingOf
    <3> QED BY <1>1, <1>2, <1>5, <2>3, <3>1 DEF WaitOK
  <2>6. \A p \in above' \ mem : \/ p = o \/ T[p] <= newest' - Window
                               \/ Action("INSERT", p) \in Elems(queue)
    <3>1. \A p \in above : T[p] \in Int
      BY <1>1 DEF TypeOK
    <3> QED BY <1>1, <1>2, <1>5, <2>3, <3>1 DEF WaitOK
  <2>7. mem \subseteq above'
    BY <1>1, <1>2, <1>5 DEF WaitOK
  <2> QED BY <1>1, <1>4, <1>5, <2>1, <2>4, <2>5, <2>6, <2>7, EnterOK
<1>6. CASE ~timed
  <2>1. UNCHANGED <<mem, queue, walk, last>>
    BY <1>6 DEF Match
  <2>2. TypeOK'
    BY <1>1, <1>2, <1>4, <2>1 DEF TypeOK, OtherTypes
  <2> QED BY <1>2, <1>6, <2>2 DEF IInv
<1> QED BY <1>1, <1>5, <1>6 DEF TypeOK

(* An object no longer matches, or is deleted: an INSERT of it that waits  *)
(* is then of a deleted object.                                            *)
LEMMA LoseOK ==
  ASSUME IInv, NEW o \in Obj, Lose(o),
         \/ dead' = dead \union {o}
         \/ dead' = dead /\ ~InsertWaits(o)
  PROVE  IInv'
<1>1. /\ TypeOK /\ walk = NoWalk /\ queue \in Seq(Waiting)
      /\ (timed => WaitOK /\ LastOK)
  BY DEF IInv, Lose, Called, TypeOK
<1>2. /\ above' = above \ {o} /\ newest' = newest /\ last' = last /\ timed' = timed
  BY DEF Lose
<1>3. OtherTypes
  BY <1>1, <1>2 DEF OtherTypes, TypeOK
<1>4. CASE timed
  <2>1. Leave(o, queue)
    BY <1>4 DEF Lose
  <2>2. \A w \in Elems(queue) : w = Action(w.tag, w.obj)
    BY <1>1, WaitingOf
  <2>3. \A w \in Elems(queue) : w.tag = "INSERT" => w.obj \in above' \union dead'
    BY <1>1, <1>2, <1>4, <2>2, WaitingIs DEF WaitOK
  <2>4. \A w \in Elems(queue) : IF w.tag = "INSERT" THEN w.obj \in above' \union dead'
                               ELSE T[w.obj] <= newest' - Window
    BY <1>1, <1>2, <1>4, <2>3 DEF WaitOK
  <2>5. mem \ {o} \subseteq above' /\ \A p \in above' : T[p] <= newest'
    BY <1>1, <1>2, <1>4 DEF WaitOK
  <2>6. \A p \in above' \ (mem \ {o}) : \/ T[p] <= newest' - Window
                                      \/ Action("INSERT", p) \in Elems(queue)
    BY <1>1, <1>2, <1>4 DEF WaitOK
  <2> QED BY <1>1, <1>2, <1>3, <1>4, <2>1, <2>4, <2>5, <2>6, LeaveOK
<1>5. CASE ~timed
  <2>1. UNCHANGED <<mem, queue, walk>>
    BY <1>5 DEF Lose
  <2>2. TypeOK'
    BY <1>1, <1>2, <1>3, <2>1 DEF TypeOK, OtherTypes
  <2> QED BY <1>2, <1>5, <2>2 DEF IInv
<1> QED BY <1>1, <1>4, <1>5 DEF TypeOK

(* engine_refresh begins at the object that FindBiggerThan finds.          *)
LEMMA EngineRefreshOK ==
  ASSUME IInv, NEW time \in Refreshes, EngineRefresh(time)
  PROVE  IInv'
<1> USE Timed
<1>1. /\ TypeOK /\ timed /\ WaitOK /\ LastOK /\ Held /\ newest \in Nat /\ queue = <<>>
  BY DEF IInv, EngineRefresh, TypeOK, Held
<1>2. PICK limit \in Int : time \in Nat /\ limit = time - Window
  BY FeedAssumption
<1>3. /\ walk' = [limit |-> limit, loc |-> FindBiggerThan(limit)]
      /\ newest' = IF time > newest THEN time ELSE newest
      /\ UNCHANGED <<mem, queue, timed, above, dead, last>>
  BY <1>2 DEF EngineRefresh, StartRefresh
<1>4. newest' \in Nat /\ newest' >= newest /\ limit <= newest' - Window
  BY <1>1, <1>2, <1>3
<1>5. /\ FindBiggerThan(limit) \in Nat
      /\ \A o \in mem : Place(o) >= FindBiggerThan(limit) => T[o] <= limit
  BY <1>1, FoundDivides, LeafIs
<1>6. TypeOK'
  BY <1>1, <1>3, <1>4, <1>5 DEF TypeOK
<1>7. /\ \A n \in Int : n <= newest => n <= newest'
      /\ \A n \in Int : n <= newest - Window => n <= newest' - Window
  BY <1>1, <1>4, Later
<1>8. WaitOK'
  <2>1. Elems(queue) = {} /\ \A o \in above : T[o] \in Int
    BY <1>1 DEF Elems, TypeOK
  <2> QED BY <1>1, <1>3, <1>7, <2>1 DEF WaitOK
<1>9. LastOK'
  BY <1>1, <1>3 DEF LastOK
<1>10. WalkOK'
  <2>1. \A o \in mem : Place(o)' = Place(o)
    BY <1>3 DEF Place
  <2> QED BY <1>1, <1>3, <1>4, <1>5, <2>1 DEF WalkOK
<1> QED BY <1>6, <1>8, <1>9, <1>10 DEF IInv

(* What the walk comes to is the object of its position, out of the window.*)
LEMMA WalksOld ==
  ASSUME TypeOK, WalkOK, walk # NoWalk, NEW o \in mem, WalkOn(o)
  PROVE  Place(o) = walk.loc /\ T[o] <= walk.limit /\ T[o] <= newest - Window
<1> USE Timed
<1>1. Held /\ newest \in Nat /\ walk.limit \in Int /\ T[o] \in Nat
  BY DEF TypeOK, Held
<1>2. PICK loc \in Nat : loc = walk.loc
  BY DEF WalkOK
<1>3. loc < Len(Leaf) /\ o = Leaf[loc + 1]
  BY <1>2 DEF WalkOn
<1>4. Place(o) = loc
  <2>1. loc + 1 \in 1..Cardinality(mem) /\ (loc + 1) - 1 = loc
    BY <1>1, <1>3, LeafIs
  <2> QED BY <1>1, <1>3, <2>1, LeafIs
<1>5. T[o] <= walk.limit /\ walk.limit <= newest - Window
  BY <1>2, <1>4 DEF WalkOK
<1> QED BY <1>1, <1>2, <1>4, <1>5

(* Each step of its walk retracts the object at the position: those behind *)
(* move up by one, and the position goes on by one.                        *)
LEMMA RefreshStepOK ==
  ASSUME IInv, RefreshStep
  PROVE  IInv'
<1> USE Timed
<1>1. /\ TypeOK /\ walk # NoWalk /\ timed /\ WaitOK /\ LastOK /\ WalkOK /\ Held
      /\ newest \in Nat /\ queue = <<>>
  BY DEF IInv, RefreshStep, EndRefresh, WalkOn, TypeOK, Held
<1>2. UNCHANGED <<queue, timed, above, dead, last, newest>>
  BY DEF RefreshStep, EndRefresh, WalkOn
<1>3. CASE EndRefresh
  <2>1. walk' = NoWalk /\ mem' = mem
    BY <1>3 DEF EndRefresh
  <2>2. TypeOK' /\ WaitOK' /\ LastOK' /\ WalkOK'
    BY <1>1, <1>2, <2>1 DEF TypeOK, WaitOK, LastOK, WalkOK, NoWalk
  <2> QED BY <2>2 DEF IInv
<1>4. CASE \E o \in mem : WalkOn(o)
  <2>1. PICK o \in mem : WalkOn(o)
    BY <1>4
  <2>2. PICK loc \in Nat : loc = walk.loc
    BY <1>1 DEF WalkOK
  <2>3. /\ loc < Len(Leaf) /\ o = Leaf[loc + 1]
        /\ walk' = [walk EXCEPT !.loc = loc + 1] /\ mem' = mem \ {o}
    BY <2>1, <2>2 DEF WalkOn
  <2>4. Place(o) = loc /\ T[o] <= walk.limit /\ T[o] <= newest - Window
    BY <1>1, <2>1, <2>2, WalksOld
  <2>5. walk.limit \in Int /\ T[o] \in Nat
    BY <1>1 DEF TypeOK
  <2>6. walk'.limit = walk.limit /\ walk'.loc = loc + 1 /\ walk' \in [limit : Int, loc : Int]
    BY <1>1, <2>3 DEF TypeOK
  <2>7. TypeOK'
    BY <1>1, <1>2, <2>3, <2>6, FS_RemoveElement DEF TypeOK
  <2>8. WaitOK'
    <3>1. T[o] <= newest - Window
      BY <2>4
    <3> QED BY <1>1, <1>2, <2>3, <3>1 DEF WaitOK
  <2>9. LastOK'
    BY <1>1, <1>2, <2>3 DEF LastOK
  <2>10. ASSUME NEW p \in mem', Place(p)' >= loc + 1 PROVE T[p] <= walk.limit
    <3>1. PICK S, R : S = {q \in mem : Before(q, p)} /\ R = {q \in mem' : Before(q, p)}
      OBVIOUS
    <3>2. IsFiniteSet(S) /\ R \subseteq S
      BY <1>1, <2>3, <3>1, FS_Subset DEF Held
    <3>3. Cardinality(R) <= Cardinality(S) /\ Cardinality(R) \in Nat /\ Cardinality(S) \in Nat
      BY <3>2, FS_Subset, FS_CardinalityType
    <3>4. Place(p) = Cardinality(S) /\ Place(p)' = Cardinality(R)
      BY <3>1 DEF Place
    <3>5. Place(p) >= loc
      BY <2>10, <3>3, <3>4
    <3> QED BY <1>1, <2>2, <2>3, <3>5 DEF WalkOK
  <2>11. WalkOK'
    BY <1>1, <1>2, <2>5, <2>6, <2>10 DEF WalkOK
  <2> QED BY <2>7, <2>8, <2>9, <2>11 DEF IInv
<1> QED BY <1>3, <1>4 DEF RefreshStep

(* Changes that do not concern the TIMER.                                  *)
LEMMA TimerUntouched ==
  ASSUME IInv, UNCHANGED <<mem, queue, walk, timed, above, dead, last, newest>>
  PROVE  IInv'
BY DEF IInv, TypeOK, WaitOK, LastOK, WalkOK, Place

-----------------------------------------------------------------------------
(* Actions of the TIMER that wait, walks of engine_refresh and what the    *)
(* application does meanwhile leave the invariant.                         *)
LEMMA WindowInvariance ==
  ASSUME Patient
  PROVE  Spec => []IInv
<1>1. Init => IInv
  <2> SUFFICES ASSUME Init PROVE IInv
    OBVIOUS
  <2>1. TypeOK
    BY FS_EmptySet DEF Init, TimerInit, TypeOK, NoWalk
  <2>2. WaitOK /\ LastOK /\ WalkOK
    BY DEF Init, TimerInit, WaitOK, LastOK, WalkOK, Elems
  <2> QED BY <2>1, <2>2 DEF IInv
<1>2. ASSUME IInv, [Next]_vars PROVE IInv'
  <2>1. CASE UNCHANGED vars
    BY <1>2, <2>1, TimerUntouched DEF vars
  <2>2. CASE \E c \in Ctx : Open(c) \/ Close(c)
    BY <1>2, <2>2, TimerUntouched DEF Open, Close
  <2>3. ASSUME NEW o \in Obj, Unmatch(o) \/ Delete(o) PROVE IInv'
    BY <1>2, <2>3, LoseOK DEF Unmatch, Delete
  <2>4. ASSUME NEW o \in Obj, NEW v \in Value, Modify(o, v) PROVE IInv'
    BY <1>2, <2>4, TimerUntouched DEF Modify
  <2> QED BY <1>2, <2>1, <2>2, <2>3, <2>4, DoLoopOK, RefreshStepOK, MatchOK, EngineRefreshOK DEF Next
<1> QED BY <1>1, <1>2, PTL DEF Spec

(* timer_call and timer_refresh keep the window, if an object whose INSERT *)
(* waits goes on matching until it is deleted.                             *)
THEOREM WindowKept == ASSUME Patient PROVE Spec => []KeepsTheWindow
<1>1. IInv => KeepsTheWindow
  <2>1. queue = <<>> => Elems(queue) = {}
    BY DEF Elems
  <2> QED BY <2>1 DEF IInv, WaitOK, LastOK, KeepsTheWindow
<1>2. Spec => []IInv
  BY WindowInvariance
<1> QED BY <1>1, <1>2, PTL
-----------------------------------------------------------------------------
(* A set as it is seen: its context and its objects.                       *)
Class(c, objs) == [ctx |-> c, objs |-> objs]

View(g) == Class(g.ctx, DOMAIN g.elems)

(* A set counts its objects once, but those that were edited.              *)
Counted(e) == e \in [DOMAIN e -> Nat] /\ \A o \in DOMAIN e \ Edited : e[o] = 0

Shape(g) == g = [ctx |-> g.ctx, elems |-> g.elems] /\ Counted(g.elems)

(* The memory holds one set for each member of X.                          *)
Holds(gs, X) == /\ IsFiniteSet(gs)
                /\ \A g \in gs : Shape(g) /\ View(g) \in X
                /\ \A x \in X : \E g \in gs : View(g) = x
                /\ \A g, h \in gs : View(g) = View(h) => g = h

(* The classes of the objects of G by C, the context, and K, the key; the  *)
(* contexts of E with no object are classes too.                           *)
ClassOf(G, C, K, o) == {p \in G : C[p] = C[o] /\ K[p] = K[o]}

Classes(G, C, K, E) ==
  {Class(C[o], ClassOf(G, C, K, o)) : o \in G}
  \union {Class(c, {}) : c \in {d \in E : \A o \in G : C[o] # d}}

(* A class is its context and its objects.                                 *)
LEMMA SameClass ==
  ASSUME NEW c, NEW d, NEW A, NEW B
  PROVE  Class(c, A) = Class(d, B) <=> c = d /\ A = B
BY DEF Class

(* An object unlike the others makes a class of its own.                   *)
LEMMA ClassNew ==
  ASSUME NEW G, NEW C, NEW K, NEW E, NEW o, o \notin G,
         \A p \in G : ~(C[p] = C[o] /\ K[p] = K[o]),
         C[o] \in E => \E p \in G : C[p] = C[o]
  PROVE  /\ Classes(G \union {o}, C, K, E) = Classes(G, C, K, E) \union {Class(C[o], {o})}
         /\ Class(C[o], {o}) \notin Classes(G, C, K, E)
<1>1. \A p \in G : ClassOf(G \union {o}, C, K, p) = ClassOf(G, C, K, p)
  BY DEF ClassOf
<1>2. ClassOf(G \union {o}, C, K, o) = {o}
  BY DEF ClassOf
<1>3. {d \in E : \A p \in G \union {o} : C[p] # d} = {d \in E : \A p \in G : C[p] # d}
  OBVIOUS
<1>4. \A p \in G : o \notin ClassOf(G, C, K, p)
  BY DEF ClassOf
<1>5. Class(C[o], {o}) \notin Classes(G, C, K, E)
  BY <1>4, SameClass DEF Classes
<1>6. \A x \in Classes(G \union {o}, C, K, E) : x \in Classes(G, C, K, E) \/ x = Class(C[o], {o})
  BY <1>1, <1>2, <1>3 DEF Classes
<1>7. Class(C[o], {o}) \in Classes(G \union {o}, C, K, E)
  BY <1>2 DEF Classes
<1>8. \A x \in Classes(G, C, K, E) : x \in Classes(G \union {o}, C, K, E)
  BY <1>1, <1>3 DEF Classes
<1> QED BY <1>5, <1>6, <1>7, <1>8

(* An object like another joins its class.                                 *)
LEMMA ClassJoin ==
  ASSUME NEW G, NEW C, NEW K, NEW E, NEW o, o \notin G,
         NEW p \in G, C[p] = C[o], K[p] = K[o]
  PROVE  /\ Class(C[o], ClassOf(G, C, K, p)) \in Classes(G, C, K, E)
         /\ Classes(G \union {o}, C, K, E) =
              (Classes(G, C, K, E) \ {Class(C[o], ClassOf(G, C, K, p))})
              \union {Class(C[o], ClassOf(G, C, K, p) \union {o})}
         /\ Class(C[o], ClassOf(G, C, K, p) \union {o}) \notin Classes(G, C, K, E)
<1> DEFINE P == ClassOf(G, C, K, p)
<1>1. ASSUME NEW q \in G, C[q] = C[o], K[q] = K[o]
      PROVE  ClassOf(G \union {o}, C, K, q) = P \union {o} /\ ClassOf(G, C, K, q) = P
  BY <1>1 DEF ClassOf
<1>2. ASSUME NEW q \in G, ~(C[q] = C[o] /\ K[q] = K[o])
      PROVE  ClassOf(G \union {o}, C, K, q) = ClassOf(G, C, K, q) /\ p \notin ClassOf(G, C, K, q)
  BY <1>2 DEF ClassOf
<1>3. ClassOf(G \union {o}, C, K, o) = P \union {o}
  BY DEF ClassOf
<1>4. {d \in E : \A q \in G \union {o} : C[q] # d} = {d \in E : \A q \in G : C[q] # d}
  OBVIOUS
<1>5. p \in P /\ \A q \in G : o \notin ClassOf(G, C, K, q)
  BY DEF ClassOf
<1> HIDE DEF P
<1>6. Class(C[o], P) \in Classes(G, C, K, E)
  BY DEF Classes, P
<1>7. Class(C[o], P \union {o}) \notin Classes(G, C, K, E)
  BY <1>5, SameClass DEF Classes
<1>8. ASSUME NEW x \in Classes(G \union {o}, C, K, E)
      PROVE  \/ x = Class(C[o], P \union {o})
             \/ x \in Classes(G, C, K, E) /\ x # Class(C[o], P)
  <2>1. CASE \E d \in E : (\A q \in G \union {o} : C[q] # d) /\ x = Class(d, {})
    BY <1>5, <2>1, SameClass DEF Classes
  <2>2. CASE \E q \in G \union {o} : x = Class(C[q], ClassOf(G \union {o}, C, K, q))
    <3>1. PICK q \in G \union {o} : x = Class(C[q], ClassOf(G \union {o}, C, K, q))
      BY <2>2
    <3>2. CASE q = o
      BY <1>3, <3>1, <3>2
    <3>3. CASE q \in G /\ C[q] = C[o] /\ K[q] = K[o]
      BY <1>1, <3>1, <3>3
    <3>4. CASE q \in G /\ ~(C[q] = C[o] /\ K[q] = K[o])
      <4>1. x = Class(C[q], ClassOf(G, C, K, q)) /\ p \notin ClassOf(G, C, K, q)
        BY <1>2, <3>1, <3>4
      <4> QED BY <1>5, <3>4, <4>1, SameClass DEF Classes
    <3> QED BY <3>2, <3>3, <3>4
  <2> QED BY <2>1, <2>2 DEF Classes
<1>9. ASSUME NEW x \in Classes(G, C, K, E), x # Class(C[o], P)
      PROVE  x \in Classes(G \union {o}, C, K, E)
  <2>1. CASE \E d \in E : (\A q \in G : C[q] # d) /\ x = Class(d, {})
    BY <1>4, <2>1 DEF Classes
  <2>2. CASE \E q \in G : x = Class(C[q], ClassOf(G, C, K, q))
    <3>1. PICK q \in G : x = Class(C[q], ClassOf(G, C, K, q))
      BY <2>2
    <3>2. ~(C[q] = C[o] /\ K[q] = K[o])
      BY <1>1, <1>9, <3>1
    <3>3. x = Class(C[q], ClassOf(G \union {o}, C, K, q))
      BY <1>2, <3>1, <3>2
    <3> QED BY <3>3 DEF Classes
  <2> QED BY <2>1, <2>2 DEF Classes
<1>10. Class(C[o], P \union {o}) \in Classes(G \union {o}, C, K, E)
  BY <1>3 DEF Classes
<1> QED BY <1>6, <1>7, <1>8, <1>9, <1>10 DEF P

(* The first object of an open context takes the place of the empty class. *)
LEMMA ClassFirst ==
  ASSUME NEW G, NEW C, NEW K, NEW E, NEW o, o \notin G,
         C[o] \in E, \A p \in G : C[p] # C[o]
  PROVE  /\ Class(C[o], {}) \in Classes(G, C, K, E)
         /\ Classes(G \union {o}, C, K, E) =
              (Classes(G, C, K, E) \ {Class(C[o], {})}) \union {Class(C[o], {o})}
         /\ Class(C[o], {o}) \notin Classes(G, C, K, E)
         /\ \A x \in Classes(G, C, K, E) : x.ctx = C[o] => x = Class(C[o], {})
<1>1. \A p \in G : /\ ClassOf(G \union {o}, C, K, p) = ClassOf(G, C, K, p)
                   /\ p \in ClassOf(G, C, K, p) /\ o \notin ClassOf(G, C, K, p)
  BY DEF ClassOf
<1>2. ClassOf(G \union {o}, C, K, o) = {o}
  BY DEF ClassOf
<1>3. {d \in E : \A p \in G \union {o} : C[p] # d} = {d \in E : \A p \in G : C[p] # d} \ {C[o]}
  OBVIOUS
<1>4. Class(C[o], {}) \in Classes(G, C, K, E)
  BY DEF Classes
<1>5. ASSUME NEW x \in Classes(G \union {o}, C, K, E), x # Class(C[o], {o})
      PROVE  x \in Classes(G, C, K, E) /\ x # Class(C[o], {})
  <2>1. CASE \E d \in E : (\A q \in G \union {o} : C[q] # d) /\ x = Class(d, {})
    BY <2>1, SameClass DEF Classes
  <2>2. CASE \E q \in G \union {o} : x = Class(C[q], ClassOf(G \union {o}, C, K, q))
    <3>1. PICK q \in G : x = Class(C[q], ClassOf(G, C, K, q)) /\ q \in ClassOf(G, C, K, q)
      BY <1>1, <1>2, <1>5, <2>2
    <3> QED BY <3>1, SameClass DEF Classes
  <2> QED BY <2>1, <2>2 DEF Classes
<1>6. \A x \in Classes(G, C, K, E) :
        x # Class(C[o], {}) => x \in Classes(G \union {o}, C, K, E)
  BY <1>1, <1>3 DEF Classes
<1>7. Class(C[o], {o}) \in Classes(G \union {o}, C, K, E)
  BY <1>2 DEF Classes
<1>8. Class(C[o], {o}) \notin Classes(G, C, K, E)
  BY <1>1, SameClass DEF Classes
<1>9. ASSUME NEW x \in Classes(G, C, K, E), x.ctx = C[o] PROVE x = Class(C[o], {})
  <2>1. \A c, A : Class(c, A).ctx = c
    BY DEF Class
  <2> QED BY <1>9, <2>1 DEF Classes
<1> QED BY <1>4, <1>5, <1>6, <1>7, <1>8, <1>9

(* A context that opens with no object adds an empty class.                *)
LEMMA ClassOpen ==
  ASSUME NEW G, NEW C, NEW K, NEW E, NEW c, c \notin E, \A p \in G : C[p] # c,
         NEW F, F = E \union {c}
  PROVE  /\ Classes(G, C, K, F) = Classes(G, C, K, E) \union {Class(c, {})}
         /\ \A x \in Classes(G, C, K, E) : x.ctx # c
<1>1. {d \in F : \A p \in G : C[p] # d} = {d \in E : \A p \in G : C[p] # d} \union {c}
  OBVIOUS
<1>2. \A d, A : Class(d, A).ctx = d
  BY DEF Class
<1> QED BY <1>1, <1>2 DEF Classes

(* Classes depend on the contexts and keys of their objects.               *)
LEMMA ClassKeys ==
  ASSUME NEW G, NEW C, NEW K, NEW E, NEW L, \A p \in G : L[p] = K[p]
  PROVE  Classes(G, C, L, E) = Classes(G, C, K, E)
<1>1. \A p \in G : ClassOf(G, C, L, p) = ClassOf(G, C, K, p)
  BY DEF ClassOf
<1> QED BY <1>1 DEF Classes

-----------------------------------------------------------------------------
(* A set more.                                                             *)
LEMMA HoldsAdd ==
  ASSUME NEW gs, NEW X, Holds(gs, X), NEW h, Shape(h), View(h) \notin X
  PROVE  Holds(gs \union {h}, X \union {View(h)})
BY FS_AddElement DEF Holds

(* A set less.                                                             *)
LEMMA HoldsDrop ==
  ASSUME NEW gs, NEW X, Holds(gs, X), NEW g \in gs
  PROVE  Holds(gs \ {g}, X \ {View(g)})
BY FS_RemoveElement DEF Holds

(* A set in the place of another.                                          *)
LEMMA HoldsSwap ==
  ASSUME NEW gs, NEW X, Holds(gs, X), NEW g \in gs, NEW h, Shape(h), View(h) \notin X \ {View(g)}
  PROVE  Holds((gs \ {g}) \union {h}, (X \ {View(g)}) \union {View(h)})
<1>1. Holds(gs \ {g}, X \ {View(g)})
  BY HoldsDrop
<1> QED BY <1>1, HoldsAdd

-----------------------------------------------------------------------------
(* set.cpp.  A set with its operation, and the sets it goes through.       *)
Open4(e, op, o, st) == [elems |-> e, op |-> op, obj |-> o, st |-> st]

(* The elements with o, counted once, and without it.                      *)
Plus(e, o) == [p \in DOMAIN e \union {o} |-> IF p = o THEN 0 ELSE e[p]]

Minus(e, o) == [p \in DOMAIN e \ {o} |-> e[p]]

(* What was there is lost when the object is added again.                  *)
LEMMA PlusAgain ==
  ASSUME NEW e, NEW o
  PROVE  Plus(Minus(e, o), o) = Plus(e, o)
BY DEF Plus, Minus

(* Adding and deleting undo each other.                                    *)
LEMMA PlusMinus ==
  ASSUME NEW e, NEW o
  PROVE  /\ o \notin DOMAIN e => Minus(Plus(e, o), o) = [p \in DOMAIN e |-> e[p]]
         /\ Plus(Minus(e, o), o) = Plus(e, o)
         /\ DOMAIN Plus(e, o) = DOMAIN e \union {o} /\ Plus(e, o)[o] = 0
         /\ DOMAIN Minus(e, o) = DOMAIN e \ {o}
         /\ Plus(e, o) = [p \in DOMAIN Plus(e, o) |-> Plus(e, o)[p]]
         /\ Minus(e, o) = [p \in DOMAIN Minus(e, o) |-> Minus(e, o)[p]]
BY DEF Plus, Minus

(* AddElem of an object that is not there.                                 *)
LEMMA AddIs ==
  ASSUME NEW e, NEW op, NEW st, NEW o, o # Null, o \notin DOMAIN e
  PROVE  AddElem(Open4(e, op, o, st), o) = Open4(Plus(e, o), op, o, INSERT)
<1>1. \A p \in DOMAIN e \union {o} : p # o => p \in DOMAIN e
  OBVIOUS
<1>2. Plus(e, o) = [p \in DOMAIN e \union {o} |->
                      IF p # o THEN e[p] ELSE IF o \in DOMAIN e THEN e[o] + 1 ELSE 0]
  BY DEF Plus
<1> QED BY <1>2 DEF AddElem, Open4

(* DeleteElem of an object counted once.                                   *)
LEMMA DeleteIs ==
  ASSUME NEW e, NEW op, NEW st, NEW o, o \in DOMAIN e, e[o] = 0
  PROVE  DeleteElem(Open4(e, op, o, st), o) = Open4(Minus(e, o), op, o, RETRACT)
BY DEF DeleteElem, Open4, Minus

(* However often the nodes below flip the set, it ends as it was left.     *)
LEMMA PropagateIs ==
  ASSUME NEW s, NEW n \in Flips
  PROVE  PropagateModify(s, n) = IF n = 1 THEN Flip(s) ELSE Flip(Flip(s))
<1> DEFINE f == [m \in 0..n |-> IF m = 0 THEN s ELSE IF m = 1 THEN Flip(s) ELSE Flip(Flip(s))]
           flipped == CHOOSE g : g = [m \in 0..n |-> IF m = 0 THEN s ELSE Flip(g[m - 1])]
<1>1. n = 1 \/ n = 2
  BY DEF Flips
<1>2. f = [m \in 0..n |-> IF m = 0 THEN s ELSE Flip(f[m - 1])]
  <2>1. ASSUME NEW m \in 0..n PROVE f[m] = IF m = 0 THEN s ELSE Flip(f[m - 1])
    <3>1. m = 0 \/ m = 1 \/ m = 2
      BY <1>1
    <3>2. CASE m = 0
      BY <3>2
    <3>3. CASE m = 1
      <4>1. f[m - 1] = s
        BY <1>1, <3>3
      <4> QED BY <3>3, <4>1
    <3>4. CASE m = 2
      <4>1. f[m - 1] = Flip(s)
        BY <1>1, <3>4
      <4> QED BY <3>4, <4>1
    <3> QED BY <3>1, <3>2, <3>3, <3>4
  <2> QED BY <2>1
<1> HIDE DEF f
<1>3. flipped = [m \in 0..n |-> IF m = 0 THEN s ELSE Flip(flipped[m - 1])]
  BY <1>2, Zenon
<1>4. PropagateModify(s, n) = flipped[n]
  BY Zenon DEF PropagateModify
<1> HIDE DEF flipped
<1>5. flipped[0] = s /\ flipped[1] = Flip(flipped[0]) /\ (n = 2 => flipped[2] = Flip(flipped[1]))
  <2>1. 0 \in 0..n /\ 1 \in 0..n /\ (n = 2 => 2 \in 0..n) /\ 1 - 1 = 0 /\ 2 - 1 = 1
    BY <1>1
  <2> QED BY <1>3, <2>1
<1> QED BY <1>1, <1>4, <1>5

(* A set that a flip does not change.                                      *)
LEMMA PropagateSame ==
  ASSUME NEW s, NEW n \in Flips, Flip(s) = s
  PROVE  PropagateModify(s, n) = s
BY PropagateIs

(* An INSERT leaves the object in the set.                                 *)
LEMMA AfterInsert ==
  ASSUME NEW e, NEW o, o # Null, o \notin DOMAIN e, NEW n \in Flips
  PROVE  PropagateModify(Open4(Plus(e, o), INSERT, o, INSERT), n) = Open4(Plus(e, o), INSERT, o, INSERT)
<1> DEFINE s == Open4(Plus(e, o), INSERT, o, INSERT)
           t == Open4(Minus(Plus(e, o), o), INSERT, o, RETRACT)
<1>1. s.op = INSERT /\ s.st = INSERT /\ s.obj = o /\ t.op = INSERT /\ t.st = RETRACT /\ t.obj = o
  BY DEF Open4
<1>2. Opposite(INSERT) = RETRACT /\ INSERT # RETRACT
  BY DEF Opposite, INSERT, RETRACT
<1>3. o \in DOMAIN Plus(e, o) /\ Plus(e, o)[o] = 0 /\ o \notin DOMAIN Minus(Plus(e, o), o)
      /\ Plus(Minus(Plus(e, o), o), o) = Plus(e, o)
  <2>1. Plus(Plus(e, o), o) = Plus(e, o)
    BY DEF Plus
  <2>2. Plus(Minus(Plus(e, o), o), o) = Plus(Plus(e, o), o)
    BY PlusAgain, Zenon
  <2>3. o \in DOMAIN Plus(e, o) /\ Plus(e, o)[o] = 0
    BY DEF Plus
  <2>4. o \notin DOMAIN Minus(Plus(e, o), o)
    BY DEF Minus
  <2> QED BY <2>1, <2>2, <2>3, <2>4
<1>4. DeleteElem(s, o) = t
  BY <1>3, DeleteIs
<1>5. AddElem(t, o) = s
  BY <1>3, AddIs
<1> HIDE DEF s, t
<1>6. SetState(s, RETRACT) = t
  BY <1>1, <1>2, <1>4 DEF SetState
<1>7. SetState(t, INSERT) = s
  BY <1>1, <1>2, <1>5 DEF SetState
<1>8. Flip(s) = s
  BY <1>1, <1>2, <1>6, <1>7 DEF Flip
<1>9. PropagateModify(s, n) = s
  BY <1>8, PropagateSame
<1> QED BY <1>9 DEF s

(* A RETRACT leaves the object out of the set.                             *)
LEMMA AfterRetract ==
  ASSUME NEW e, NEW o, o # Null, o \in DOMAIN e, e[o] = 0, NEW n \in Flips
  PROVE  PropagateModify(Open4(e, RETRACT, o, INSERT), n) = Open4(Minus(e, o), RETRACT, o, RETRACT)
<1> DEFINE s == Open4(e, RETRACT, o, INSERT)
           t == Open4(Minus(e, o), RETRACT, o, RETRACT)
           u == Open4(Plus(e, o), RETRACT, o, INSERT)
<1>1. /\ s.op = RETRACT /\ s.st = INSERT /\ s.obj = o /\ t.op = RETRACT /\ t.st = RETRACT /\ t.obj = o
      /\ u.op = RETRACT /\ u.st = INSERT /\ u.obj = o
  BY DEF Open4
<1>2. Opposite(RETRACT) = INSERT /\ INSERT # RETRACT
  BY DEF Opposite, INSERT, RETRACT
<1>3. o \notin DOMAIN Minus(e, o) /\ Plus(Minus(e, o), o) = Plus(e, o)
      /\ o \in DOMAIN Plus(e, o) /\ Plus(e, o)[o] = 0 /\ Minus(Plus(e, o), o) = Minus(e, o)
  <2>1. Minus(Plus(e, o), o) = Minus(e, o)
    BY DEF Plus, Minus
  <2>2. Plus(Minus(e, o), o) = Plus(e, o)
    BY PlusMinus
  <2>3. o \in DOMAIN Plus(e, o) /\ Plus(e, o)[o] = 0
    BY DEF Plus
  <2>4. o \notin DOMAIN Minus(e, o)
    BY DEF Minus
  <2> QED BY <2>1, <2>2, <2>3, <2>4
<1>4. DeleteElem(s, o) = t /\ DeleteElem(u, o) = t
  BY <1>3, DeleteIs
<1>5. AddElem(t, o) = u
  BY <1>3, AddIs
<1> HIDE DEF s, t, u
<1>6. SetState(s, INSERT) = s /\ SetState(s, RETRACT) = t
  BY <1>1, <1>2, <1>4 DEF SetState
<1>7. SetState(t, INSERT) = u /\ SetState(u, RETRACT) = t
  BY <1>1, <1>2, <1>4, <1>5 DEF SetState
<1>8. Flip(s) = t /\ Flip(t) = t
  BY <1>1, <1>2, <1>6, <1>7 DEF Flip
<1>9. PropagateModify(s, n) = t
  BY <1>8, PropagateIs
<1> QED BY <1>9 DEF s, t

-----------------------------------------------------------------------------
(* The memory after each operation, when the set found is g: it has a set  *)
(* more, or another in the place of g.                                     *)
Added(gs, x, hs) == \E h : Shape(h) /\ View(h) = x /\ hs = gs \union {h}

Swapped(gs, g, x, hs) == \E h : Shape(h) /\ View(h) = x /\ hs = (gs \ {g}) \union {h}

(* set_call_INSERT with no set found: a set of the object alone.           *)
LEMMA InsertNew ==
  ASSUME NEW gs, NEW c, NEW o, o # Null, NEW n
  PROVE  Added(gs, Class(c, {o}), SetCallInsert(gs, {}, c, o, n))
<1>1. DOMAIN <<>> = {}
  OBVIOUS
<1>2. Plus(<<>>, o) = [p \in {o} |-> 0]
  BY <1>1 DEF Plus
<1>3. AddElem(SetOp([elems |-> <<>>], INSERT, o), o).elems = [p \in {o} |-> 0]
  <2>1. SetOp([elems |-> <<>>], INSERT, o) = Open4(<<>>, INSERT, o, Opposite(INSERT))
    BY DEF SetOp, Open4
  <2>2. AddElem(Open4(<<>>, INSERT, o, Opposite(INSERT)), o) = Open4(Plus(<<>>, o), INSERT, o, INSERT)
    BY <1>1, AddIs
  <2> QED BY <1>2, <2>1, <2>2 DEF Open4
<1> DEFINE h == [ctx |-> c, elems |-> [p \in {o} |-> 0]]
<1>4. SetCallInsert(gs, {}, c, o, n) = gs \union {h}
  BY <1>3 DEF SetCallInsert
<1>5. Shape(h) /\ View(h) = Class(c, {o})
  BY DEF Shape, View, Counted
<1> QED BY <1>4, <1>5 DEF Added

(* The set of a context with no object is empty.                           *)
LEMMA InsertNull ==
  ASSUME NEW gs, NEW c, NEW n
  PROVE  Added(gs, Class(c, {}), SetCallInsert(gs, {}, c, Null, n))
<1> DEFINE h == [ctx |-> c, elems |-> <<>>]
<1>1. SetCallInsert(gs, {}, c, Null, n) = gs \union {h}
  BY DEF SetCallInsert, AddElem, SetOp
<1>2. Shape(h) /\ View(h) = Class(c, {})
  BY DEF Shape, View, Counted
<1> QED BY <1>1, <1>2 DEF Added

(* A set whose elements change keeps its shape and its context.            *)
LEMMA WithShape ==
  ASSUME NEW gs, NEW g, Shape(g), NEW s, Counted(s.elems)
  PROVE  Swapped(gs, g, Class(g.ctx, DOMAIN s.elems), With(gs, g, s))
<1> DEFINE h == [ctx |-> g.ctx, elems |-> s.elems]
<1>1. [g EXCEPT !.elems = s.elems] = h
  BY DEF Shape
<1>2. Shape(h) /\ View(h) = Class(g.ctx, DOMAIN s.elems)
  BY DEF Shape, View
<1>3. With(gs, g, s) = (gs \ {g}) \union {h}
  BY <1>1 DEF With
<1> QED BY <1>2, <1>3 DEF Swapped

(* The counts of the elements with o, and without it.                      *)
LEMMA PlusCounted ==
  ASSUME NEW e, Counted(e), NEW o
  PROVE  /\ Counted(Plus(e, o)) /\ DOMAIN Plus(e, o) = DOMAIN e \union {o}
         /\ Counted(Minus(e, o)) /\ DOMAIN Minus(e, o) = DOMAIN e \ {o}
<1>1. Plus(e, o) \in [DOMAIN e \union {o} -> Nat] /\ Minus(e, o) \in [DOMAIN e \ {o} -> Nat]
  BY DEF Counted, Plus, Minus
<1>2. \A p \in DOMAIN e \union {o} : p \notin Edited => Plus(e, o)[p] = 0
  BY DEF Counted, Plus
<1>3. \A p \in DOMAIN e \ {o} : p \notin Edited => Minus(e, o)[p] = 0
  BY DEF Counted, Minus
<1>4. DOMAIN Plus(e, o) = DOMAIN e \union {o} /\ DOMAIN Minus(e, o) = DOMAIN e \ {o}
  BY DEF Plus, Minus
<1> QED BY <1>1, <1>2, <1>3, <1>4 DEF Counted

(* set_call_INSERT in the set found.                                       *)
LEMMA InsertIn ==
  ASSUME NEW gs, NEW g, Shape(g), NEW c, NEW o, o # Null, o \notin DOMAIN g.elems,
         NEW n \in Flips
  PROVE  Swapped(gs, g, Class(g.ctx, DOMAIN g.elems \union {o}), SetCallInsert(gs, {g}, c, o, n))
<1> DEFINE e == g.elems
           s == Open4(Plus(e, o), INSERT, o, INSERT)
<1>1. AddElem(SetOp(g, INSERT, o), o) = s
  <2>1. SetOp(g, INSERT, o) = Open4(e, INSERT, o, Opposite(INSERT))
    BY DEF SetOp, Open4
  <2> QED BY <2>1, AddIs
<1>2. PropagateModify(s, n) = s
  BY AfterInsert
<1>3. SetCallInsert(gs, {g}, c, o, n) = With(gs, g, s)
  <2>1. (CHOOSE x \in {g} : TRUE) = g /\ {g} # {}
    OBVIOUS
  <2> QED BY <1>1, <1>2, <2>1 DEF SetCallInsert
<1>4. s.elems = Plus(e, o) /\ Counted(s.elems) /\ DOMAIN s.elems = DOMAIN e \union {o}
  BY PlusCounted DEF Open4, Shape
<1> HIDE DEF s, e
<1>5. Swapped(gs, g, Class(g.ctx, DOMAIN s.elems), With(gs, g, s))
  BY <1>4, WithShape
<1> QED BY <1>3, <1>4, <1>5 DEF e

(* The change of state of a RETRACT takes the object out of its set.       *)
LEMMA TakenFrom ==
  ASSUME NEW gs, NEW g, Shape(g), NEW o, o # Null, o \in DOMAIN g.elems, o \notin Edited,
         NEW n \in Flips
  PROVE  Swapped(gs, g, Class(g.ctx, DOMAIN g.elems \ {o}), With(gs, g, PropagateModify(SetOp(g, RETRACT, o), n)))
<1> DEFINE e == g.elems
           s == Open4(Minus(e, o), RETRACT, o, RETRACT)
<1>1. SetOp(g, RETRACT, o) = Open4(e, RETRACT, o, INSERT)
  BY DEF SetOp, Open4, Opposite, RETRACT, INSERT
<1>2. e[o] = 0
  BY DEF Shape, Counted
<1>3. PropagateModify(SetOp(g, RETRACT, o), n) = s
  BY <1>1, <1>2, AfterRetract
<1>4. s.elems = Minus(e, o) /\ Counted(s.elems) /\ DOMAIN s.elems = DOMAIN e \ {o}
  BY PlusCounted DEF Open4, Shape
<1> HIDE DEF s, e
<1>5. Swapped(gs, g, Class(g.ctx, DOMAIN s.elems), With(gs, g, s))
  BY <1>4, WithShape
<1> QED BY <1>3, <1>4, <1>5 DEF e

(* set_call_RETRACT in the set found.                                      *)
LEMMA RetractIn ==
  ASSUME NEW gs, NEW g, Shape(g), IsFiniteSet(DOMAIN g.elems),
         NEW o, o # Null, o \in DOMAIN g.elems, o \notin Edited, NEW n \in Flips
  PROVE  /\ DOMAIN g.elems = {o} => SetCallRetract(gs, {g}, o, n) = gs \ {g}
         /\ DOMAIN g.elems # {o} =>
              Swapped(gs, g, Class(g.ctx, DOMAIN g.elems \ {o}), SetCallRetract(gs, {g}, o, n))
<1>1. (CHOOSE x \in {g} : TRUE) = g /\ {g} # {}
  OBVIOUS
<1>2. /\ Cardinality({o}) = 1 /\ IsFiniteSet({o}) /\ Cardinality(DOMAIN g.elems) \in Nat
      /\ Cardinality({o}) <= Cardinality(DOMAIN g.elems)
      /\ Cardinality({o}) = Cardinality(DOMAIN g.elems) => {o} = DOMAIN g.elems
  <2>1. Cardinality({o}) = 1 /\ IsFiniteSet({o}) /\ {o} \in SUBSET (DOMAIN g.elems)
    BY FS_Singleton
  <2>2. Cardinality(DOMAIN g.elems) \in Nat
    BY FS_CardinalityType
  <2>3. /\ Cardinality({o}) <= Cardinality(DOMAIN g.elems)
        /\ Cardinality({o}) = Cardinality(DOMAIN g.elems) => {o} = DOMAIN g.elems
    BY <2>1, FS_Subset
  <2> QED BY <2>1, <2>2, <2>3
<1>3. Cardinality(DOMAIN g.elems) <= 1 <=> DOMAIN g.elems = {o}
  BY <1>2
<1>4. SetCallRetract(gs, {g}, o, n) =
        IF DOMAIN g.elems = {o} THEN gs \ {g}
        ELSE With(gs, g, PropagateModify(SetOp(g, RETRACT, o), n))
  BY <1>1, <1>3 DEF SetCallRetract
<1>5. Swapped(gs, g, Class(g.ctx, DOMAIN g.elems \ {o}), With(gs, g, PropagateModify(SetOp(g, RETRACT, o), n)))
  BY TakenFrom
<1> QED BY <1>4, <1>5

(* The empty set of a context that closes.                                 *)
LEMMA RetractNull ==
  ASSUME NEW gs, NEW g, DOMAIN g.elems = {}, NEW n
  PROVE  SetCallRetract(gs, {g}, Null, n) = gs \ {g}
<1>1. (CHOOSE x \in {g} : TRUE) = g /\ {g} # {} /\ Cardinality(DOMAIN g.elems) = 0
  BY FS_EmptySet
<1> QED BY <1>1 DEF SetCallRetract

(* The first object enters the empty set of an optional pattern.           *)
LEMMA EntersEmpty ==
  ASSUME NEW gs, NEW g, Shape(g), DOMAIN g.elems = {}, NEW o, o # Null, NEW n \in Flips
  PROVE  Swapped(gs, g, Class(g.ctx, {o}), ModifyInPlace(gs, g, Null, o, n))
<1> DEFINE e == g.elems
           s == Open4(Plus(e, o), INSERT, o, INSERT)
<1>1. AddElem(SetOp(g, INSERT, o), o) = s
  <2>1. SetOp(g, INSERT, o) = Open4(e, INSERT, o, Opposite(INSERT))
    BY DEF SetOp, Open4
  <2> QED BY <2>1, AddIs
<1>2. PropagateModify(s, n) = s
  BY AfterInsert
<1>3. ModifyInPlace(gs, g, Null, o, n) = With(gs, g, s)
  BY <1>1, <1>2 DEF ModifyInPlace
<1>4. s.elems = Plus(e, o) /\ Counted(s.elems) /\ DOMAIN s.elems = {o}
  BY PlusCounted DEF Open4, Shape
<1> HIDE DEF s, e
<1>5. Swapped(gs, g, Class(g.ctx, DOMAIN s.elems), With(gs, g, s))
  BY <1>4, WithShape
<1> QED BY <1>3, <1>4, <1>5 DEF e

(* The last object leaves the set of an optional pattern.                  *)
LEMMA LeavesLast ==
  ASSUME NEW gs, NEW g, Shape(g), NEW o, o # Null, DOMAIN g.elems = {o}, o \notin Edited,
         NEW n \in Flips
  PROVE  Swapped(gs, g, Class(g.ctx, {}), ModifyInPlace(gs, g, o, Null, n))
<1>1. ModifyInPlace(gs, g, o, Null, n) = With(gs, g, PropagateModify(SetOp(g, RETRACT, o), n))
  BY DEF ModifyInPlace
<1>2. DOMAIN g.elems \ {o} = {}
  OBVIOUS
<1>3. Swapped(gs, g, Class(g.ctx, DOMAIN g.elems \ {o}), With(gs, g, PropagateModify(SetOp(g, RETRACT, o), n)))
  BY TakenFrom
<1> QED BY <1>1, <1>2, <1>3

(* An object edited in place is counted once more.                         *)
LEMMA StaysIn ==
  ASSUME NEW gs, NEW g, Shape(g), NEW o, o # Null, o \in DOMAIN g.elems, o \in Edited,
         NEW n \in Flips
  PROVE  Swapped(gs, g, View(g), ModifyInPlace(gs, g, o, o, n))
<1> DEFINE e == [p \in DOMAIN g.elems \union {o} |->
                   IF p # o THEN g.elems[p]
                   ELSE IF o \in DOMAIN g.elems THEN g.elems[o] + 1 ELSE 0]
           s == Open4(e, MODIFY, o, 0)
<1>1. AddElem(SetOp(g, 0, o), o) = Open4(e, 0, o, INSERT)
  BY DEF AddElem, SetOp, Open4
<1>2. SetOp(Open4(e, 0, o, INSERT), MODIFY, o) = s
  BY DEF SetOp, Open4, Opposite, MODIFY
<1>3. Flip(s) = s
  <2>1. s.op = 3 /\ s.st = 0
    BY DEF Open4, MODIFY
  <2> HIDE DEF s
  <2>2. SetState(s, 0) = s /\ SetState(s, 3) = s
    BY <2>1 DEF SetState, INSERT, RETRACT
  <2> QED BY <2>1, <2>2 DEF Flip, Opposite
<1>4. PropagateModify(s, n) = s
  BY <1>3, PropagateSame
<1>5. ModifyInPlace(gs, g, o, o, n) = With(gs, g, s)
  BY <1>1, <1>2, <1>4 DEF ModifyInPlace
<1>6. s.elems = e /\ DOMAIN e = DOMAIN g.elems
  BY DEF Open4
<1>7. Counted(e)
  <2>1. e \in [DOMAIN g.elems -> Nat]
    BY DEF Shape, Counted
  <2>2. \A p \in DOMAIN g.elems \ Edited : e[p] = 0
    BY DEF Shape, Counted
  <2> QED BY <1>6, <2>1, <2>2 DEF Counted
<1> HIDE DEF s, e
<1>8. Swapped(gs, g, Class(g.ctx, DOMAIN s.elems), With(gs, g, s))
  BY <1>6, <1>7, WithShape
<1> QED BY <1>5, <1>6, <1>8 DEF View

-----------------------------------------------------------------------------
(* Looking for a set, when the memory holds the classes: what is seen of   *)
(* the objects of G shows their keys.                                      *)
Shows(G, K, shown) == \A p \in G : K[p] = KeyOf[shown[p]]

(* The sample of a set is one of its elements.                             *)
LEMMA SampleIn ==
  ASSUME NEW e, DOMAIN e \subseteq Obj, DOMAIN e # {}
  PROVE  Sample(e) \in DOMAIN e
<1> DEFINE D == DOMAIN e
<1>1. D \in SUBSET Nat /\ D # {}
  BY SetAssumption
<1>2. Sample(e) = CHOOSE o \in D : \A p \in D : o <= p
  BY DEF Sample
<1> HIDE DEF D
<1>3. \E o \in D : \A p \in D : o <= p
  BY <1>1, LeastNat
<1>4. Sample(e) \in D
  BY <1>2, <1>3
<1> QED BY <1>4 DEF D

(* What the sets in the memory are.                                        *)
LEMMA SetsAre ==
  ASSUME NEW gs, NEW G, NEW C, NEW K, NEW E, Holds(gs, Classes(G, C, K, E)), NEW g \in gs
  PROVE  /\ Shape(g) /\ DOMAIN g.elems \subseteq G
         /\ \A p \in DOMAIN g.elems : g.ctx = C[p] /\ DOMAIN g.elems = ClassOf(G, C, K, p)
         /\ DOMAIN g.elems = {} => g.ctx \in E /\ \A p \in G : C[p] # g.ctx
<1>1. Shape(g) /\ View(g) \in Classes(G, C, K, E)
  BY DEF Holds
<1>2. \A p, q \in G : p \in ClassOf(G, C, K, q) =>
                        C[p] = C[q] /\ ClassOf(G, C, K, p) = ClassOf(G, C, K, q)
  BY DEF ClassOf
<1>3. \A p \in G : p \in ClassOf(G, C, K, p) /\ ClassOf(G, C, K, p) \subseteq G
  BY DEF ClassOf
<1>4. CASE \E p \in G : View(g) = Class(C[p], ClassOf(G, C, K, p))
  <2>1. PICK q \in G : g.ctx = C[q] /\ DOMAIN g.elems = ClassOf(G, C, K, q)
    BY <1>4, SameClass DEF View
  <2> QED BY <1>1, <1>2, <1>3, <2>1
<1>5. CASE \E d \in E : (\A p \in G : C[p] # d) /\ View(g) = Class(d, {})
  <2>1. PICK d \in E : (\A p \in G : C[p] # d) /\ g.ctx = d /\ DOMAIN g.elems = {}
    BY <1>5, SameClass DEF View
  <2> QED BY <1>1, <2>1
<1> QED BY <1>1, <1>4, <1>5 DEF Classes

(* The only set found.                                                     *)
OnlyOne(found, g) == found = {g}

(* An object like p is looked for in the set of p.                         *)
LEMMA FoundOne ==
  ASSUME NEW gs, NEW G \in SUBSET Obj, NEW C, NEW K, NEW E, Holds(gs, Classes(G, C, K, E)),
         NEW shown, Shows(G, K, shown), NEW o, o # Null, NEW v, NEW p \in G, KeyOf[v] = K[p],
         NEW g \in gs, View(g) = Class(C[p], ClassOf(G, C, K, p))
  PROVE  OnlyOne(Found(gs, C[p], o, v, shown), g)
<1>1. g.ctx = C[p] /\ DOMAIN g.elems = ClassOf(G, C, K, p) /\ p \in DOMAIN g.elems
  BY SameClass DEF View, ClassOf
<1>2. ASSUME NEW h \in gs, DOMAIN h.elems # {}
      PROVE  \E s \in G : /\ s \in DOMAIN h.elems /\ s = Sample(h.elems)
                          /\ K[s] = KeyOf[shown[s]] /\ h.ctx = C[s]
                          /\ DOMAIN h.elems = ClassOf(G, C, K, s)
  <2>1. DOMAIN h.elems \subseteq G
    BY SetsAre
  <2>2. Sample(h.elems) \in DOMAIN h.elems
    BY <1>2, <2>1, SampleIn
  <2> QED BY <2>1, <2>2, SetsAre DEF Shows
<1>3. Belongs(g, C[p], o, v, shown)
  <2>1. PICK s \in G : /\ s \in DOMAIN g.elems /\ s = Sample(g.elems)
                       /\ K[s] = KeyOf[shown[s]]
    BY <1>1, <1>2
  <2>2. K[s] = K[p]
    BY <1>1, <2>1 DEF ClassOf
  <2> QED BY <1>1, <2>1, <2>2 DEF Belongs
<1>4. ASSUME NEW h \in gs, Belongs(h, C[p], o, v, shown)
      PROVE  h = g
  <2>1. h.ctx = C[p] /\ (DOMAIN h.elems = {} \/ KeyOf[v] = KeyOf[shown[Sample(h.elems)]])
    BY <1>4 DEF Belongs
  <2>2. DOMAIN h.elems # {}
    BY <2>1, SetsAre
  <2>3. PICK s \in G : /\ s = Sample(h.elems) /\ K[s] = KeyOf[shown[s]] /\ h.ctx = C[s]
                       /\ DOMAIN h.elems = ClassOf(G, C, K, s)
    BY <1>2, <2>2
  <2>4. C[s] = C[p] /\ K[s] = K[p]
    BY <2>1, <2>2, <2>3
  <2>5. ClassOf(G, C, K, s) = ClassOf(G, C, K, p)
    BY <2>4 DEF ClassOf
  <2>6. View(h) = View(g)
    BY <1>1, <2>1, <2>3, <2>5 DEF View
  <2> QED BY <2>6 DEF Holds
<1> QED BY <1>3, <1>4 DEF Found, OnlyOne

(* One like none is not found, unless its context is open and empty.       *)
LEMMA FoundNone ==
  ASSUME NEW gs, NEW G \in SUBSET Obj, NEW C, NEW K, NEW E, Holds(gs, Classes(G, C, K, E)),
         NEW shown, Shows(G, K, shown), NEW c, NEW o, o # Null, NEW v,
         \A p \in G : ~(C[p] = c /\ K[p] = KeyOf[v]),
         c \in E => \E p \in G : C[p] = c
  PROVE  Found(gs, c, o, v, shown) = {}
<1>1. ASSUME NEW h \in gs, Belongs(h, c, o, v, shown) PROVE FALSE
  <2>1. h.ctx = c /\ (DOMAIN h.elems = {} \/ KeyOf[v] = KeyOf[shown[Sample(h.elems)]])
    BY <1>1 DEF Belongs
  <2>2. DOMAIN h.elems # {}
    BY <2>1, SetsAre
  <2>3. DOMAIN h.elems \subseteq G
    BY SetsAre
  <2>4. Sample(h.elems) \in DOMAIN h.elems
    BY <2>2, <2>3, SampleIn
  <2> QED BY <2>1, <2>2, <2>3, <2>4, SetsAre DEF Shows
<1> QED BY <1>1 DEF Found

(* With a tuple without object, or in an empty set, the context decides.   *)
LEMMA FoundByContext ==
  ASSUME NEW gs, NEW X, Holds(gs, X), NEW g \in gs, NEW o, NEW v, NEW shown,
         o = Null \/ DOMAIN g.elems = {},
         \A x \in X : x.ctx = g.ctx => x = View(g)
  PROVE  OnlyOne(Found(gs, g.ctx, o, v, shown), g)
<1>1. \A h \in gs : h.ctx = g.ctx => h = g
  <2>1. \A h \in gs : View(h) \in X /\ View(h).ctx = h.ctx
    BY DEF Holds, View, Class
  <2> QED BY <2>1 DEF Holds
<1>2. Belongs(g, g.ctx, o, v, shown)
  BY DEF Belongs
<1>3. \A h \in gs : Belongs(h, g.ctx, o, v, shown) => h = g
  BY <1>1 DEF Belongs
<1> QED BY <1>2, <1>3 DEF Found, OnlyOne

(* A context without a set finds none.                                     *)
LEMMA FoundNoContext ==
  ASSUME NEW gs, NEW X, Holds(gs, X), NEW c, NEW o, NEW v, NEW shown,
         \A x \in X : x.ctx # c
  PROVE  Found(gs, c, o, v, shown) = {}
<1>1. \A h \in gs : View(h) \in X /\ View(h).ctx = h.ctx
  BY DEF Holds, View, Class
<1> QED BY <1>1 DEF Found, Belongs

-----------------------------------------------------------------------------
(* A change of the memory as a change of its classes.                      *)
LEMMA AddedHolds ==
  ASSUME NEW gs, NEW X, Holds(gs, X), NEW x, x \notin X, NEW hs, Added(gs, x, hs)
  PROVE  Holds(hs, X \union {x})
<1>1. PICK h : Shape(h) /\ View(h) = x /\ hs = gs \union {h}
  BY DEF Added
<1> QED BY <1>1, HoldsAdd

(* Another set in the place of g.                                          *)
LEMMA SwappedHolds ==
  ASSUME NEW gs, NEW X, Holds(gs, X), NEW g \in gs, NEW x, x \notin X \ {View(g)},
         NEW hs, Swapped(gs, g, x, hs)
  PROVE  Holds(hs, (X \ {View(g)}) \union {x})
<1>1. PICK h : Shape(h) /\ View(h) = x /\ hs = (gs \ {g}) \union {h}
  BY DEF Swapped
<1> QED BY <1>1, HoldsSwap

(* set_call_INSERT files an object in its class, unless it is the first of *)
(* an open context.                                                        *)
LEMMA FileIn ==
  ASSUME NEW gs, NEW G \in SUBSET Obj, NEW C, NEW K, NEW E, Holds(gs, Classes(G, C, K, E)),
         NEW shown, Shows(G, K, shown), NEW o \in Obj, o \notin G, NEW v, KeyOf[v] = K[o],
         C[o] \in E => \E p \in G : C[p] = C[o], NEW n \in Flips
  PROVE  Holds(SetCallInsert(gs, Found(gs, C[o], o, v, shown), C[o], o, n),
               Classes(G \union {o}, C, K, E))
<1>0. o # Null
  BY SetAssumption
<1>1. CASE \A p \in G : ~(C[p] = C[o] /\ K[p] = K[o])
  <2>1. Found(gs, C[o], o, v, shown) = {}
    BY <1>0, <1>1, FoundNone
  <2>2. Added(gs, Class(C[o], {o}), SetCallInsert(gs, {}, C[o], o, n))
    BY <1>0, InsertNew
  <2>3. /\ Classes(G \union {o}, C, K, E) = Classes(G, C, K, E) \union {Class(C[o], {o})}
        /\ Class(C[o], {o}) \notin Classes(G, C, K, E)
    BY <1>1, ClassNew
  <2>4. PICK hs : hs = SetCallInsert(gs, {}, C[o], o, n)
    OBVIOUS
  <2>5. Holds(hs, Classes(G, C, K, E) \union {Class(C[o], {o})})
    BY <2>2, <2>3, <2>4, AddedHolds
  <2> QED BY <2>1, <2>3, <2>4, <2>5
<1>2. CASE \E p \in G : C[p] = C[o] /\ K[p] = K[o]
  <2>1. PICK p \in G : C[p] = C[o] /\ K[p] = K[o]
    BY <1>2
  <2>2. PICK x : x = Class(C[o], ClassOf(G, C, K, p))
    OBVIOUS
  <2>8. PICK y : y = Class(C[o], ClassOf(G, C, K, p) \union {o})
    OBVIOUS
  <2>3. /\ x \in Classes(G, C, K, E) /\ y \notin Classes(G, C, K, E)
        /\ Classes(G \union {o}, C, K, E) = (Classes(G, C, K, E) \ {x}) \union {y}
    <3>1. /\ Class(C[o], ClassOf(G, C, K, p)) \in Classes(G, C, K, E)
          /\ Classes(G \union {o}, C, K, E) =
               (Classes(G, C, K, E) \ {Class(C[o], ClassOf(G, C, K, p))})
               \union {Class(C[o], ClassOf(G, C, K, p) \union {o})}
          /\ Class(C[o], ClassOf(G, C, K, p) \union {o}) \notin Classes(G, C, K, E)
      BY <2>1, ClassJoin
    <3> QED BY <2>2, <2>8, <3>1
  <2>4. PICK g \in gs : View(g) = x
    BY <2>3 DEF Holds
  <2>5. Found(gs, C[o], o, v, shown) = {g}
    <3>1. KeyOf[v] = K[p] /\ View(g) = Class(C[p], ClassOf(G, C, K, p))
      BY <2>1, <2>2, <2>4
    <3>2. OnlyOne(Found(gs, C[p], o, v, shown), g)
      BY <1>0, <3>1, FoundOne
    <3> QED BY <2>1, <3>2 DEF OnlyOne
  <2>6. /\ g.ctx = C[o] /\ DOMAIN g.elems = ClassOf(G, C, K, p) /\ Shape(g)
        /\ o \notin DOMAIN g.elems
    BY <2>2, <2>4, SameClass, SetsAre DEF View
  <2>7. Swapped(gs, g, y, SetCallInsert(gs, {g}, C[o], o, n))
    <3>1. Swapped(gs, g, Class(g.ctx, DOMAIN g.elems \union {o}), SetCallInsert(gs, {g}, C[o], o, n))
      BY <1>0, <2>6, InsertIn
    <3> QED BY <2>6, <2>8, <3>1
  <2>9. PICK hs : hs = SetCallInsert(gs, {g}, C[o], o, n)
    OBVIOUS
  <2>10. Holds(hs, (Classes(G, C, K, E) \ {View(g)}) \union {y})
    BY <2>3, <2>4, <2>7, <2>9, SwappedHolds
  <2> QED BY <2>3, <2>4, <2>5, <2>9, <2>10
<1> QED BY <1>1, <1>2

(* set_call_RETRACT takes it out again, unless it is the last of an open   *)
(* context.                                                                *)
LEMMA TakeOut ==
  ASSUME NEW gs, NEW G \in SUBSET Obj, IsFiniteSet(G), NEW C, NEW K, NEW E,
         Holds(gs, Classes(G, C, K, E)), NEW shown, Shows(G, K, shown),
         NEW o \in G, o \notin Edited, NEW v, KeyOf[v] = K[o],
         C[o] \in E => \E p \in G \ {o} : C[p] = C[o], NEW n \in Flips
  PROVE  /\ Holds(SetCallRetract(gs, Found(gs, C[o], o, v, shown), o, n),
                  Classes(G \ {o}, C, K, E))
         /\ \A h \in gs : View(h) # Class(C[o], ClassOf(G, C, K, o)) =>
                          h \in SetCallRetract(gs, Found(gs, C[o], o, v, shown), o, n)
<1> DEFINE H == G \ {o}
<1>0. o # Null /\ H \union {o} = G /\ o \notin H
  BY SetAssumption
<1>1. PICK g \in gs : View(g) = Class(C[o], ClassOf(G, C, K, o))
  BY DEF Holds, Classes
<1>2. Found(gs, C[o], o, v, shown) = {g}
  <2>1. OnlyOne(Found(gs, C[o], o, v, shown), g)
    BY <1>0, <1>1, FoundOne
  <2> QED BY <2>1 DEF OnlyOne
<1>3. /\ g.ctx = C[o] /\ DOMAIN g.elems = ClassOf(G, C, K, o) /\ Shape(g)
      /\ o \in DOMAIN g.elems /\ IsFiniteSet(DOMAIN g.elems)
  <2>1. ClassOf(G, C, K, o) \in SUBSET G /\ o \in ClassOf(G, C, K, o)
    BY DEF ClassOf
  <2> QED BY <1>1, <2>1, SameClass, SetsAre, FS_Subset DEF View
<1>4. /\ DOMAIN g.elems = {o} => SetCallRetract(gs, {g}, o, n) = gs \ {g}
      /\ DOMAIN g.elems # {o} =>
           Swapped(gs, g, Class(C[o], DOMAIN g.elems \ {o}), SetCallRetract(gs, {g}, o, n))
  BY <1>0, <1>3, RetractIn
<1>7. \A h \in gs : View(h) # Class(C[o], ClassOf(G, C, K, o)) => h \in SetCallRetract(gs, {g}, o, n)
  BY <1>1, <1>4 DEF Swapped
<1> HIDE DEF H
<1>5. CASE \A p \in H : ~(C[p] = C[o] /\ K[p] = K[o])
  <2>1. DOMAIN g.elems = {o}
    BY <1>0, <1>3, <1>5 DEF ClassOf
  <2>2. C[o] \in E => \E p \in H : C[p] = C[o]
    BY DEF H
  <2>3. /\ Classes(H \union {o}, C, K, E) = Classes(H, C, K, E) \union {Class(C[o], {o})}
        /\ Class(C[o], {o}) \notin Classes(H, C, K, E)
    BY <1>0, <1>5, <2>2, ClassNew
  <2>4. Classes(H, C, K, E) = Classes(G, C, K, E) \ {View(g)}
    BY <1>0, <1>1, <1>3, <2>1, <2>3
  <2>5. Holds(gs \ {g}, Classes(H, C, K, E))
    BY <2>4, HoldsDrop
  <2> QED BY <1>2, <1>4, <1>7, <2>1, <2>5 DEF H
<1>6. CASE \E p \in H : C[p] = C[o] /\ K[p] = K[o]
  <2>1. PICK p \in H : C[p] = C[o] /\ K[p] = K[o]
    BY <1>6
  <2>2. ClassOf(G, C, K, o) = ClassOf(H, C, K, p) \union {o} /\ p \in ClassOf(H, C, K, p)
        /\ o \notin ClassOf(H, C, K, p)
    BY <1>0, <2>1 DEF ClassOf
  <2>3. PICK x : x = Class(C[o], ClassOf(H, C, K, p))
    OBVIOUS
  <2>4. /\ x \in Classes(H, C, K, E) /\ View(g) \notin Classes(H, C, K, E)
        /\ Classes(G, C, K, E) = (Classes(H, C, K, E) \ {x}) \union {View(g)}
    <3>1. /\ Class(C[o], ClassOf(H, C, K, p)) \in Classes(H, C, K, E)
          /\ Classes(H \union {o}, C, K, E) =
               (Classes(H, C, K, E) \ {Class(C[o], ClassOf(H, C, K, p))})
               \union {Class(C[o], ClassOf(H, C, K, p) \union {o})}
          /\ Class(C[o], ClassOf(H, C, K, p) \union {o}) \notin Classes(H, C, K, E)
      BY <1>0, <2>1, ClassJoin
    <3> QED BY <1>0, <1>1, <2>2, <2>3, <3>1
  <2>5. Classes(H, C, K, E) = (Classes(G, C, K, E) \ {View(g)}) \union {x}
        /\ x \notin Classes(G, C, K, E) \ {View(g)}
    BY <2>4
  <2>6. Swapped(gs, g, x, SetCallRetract(gs, {g}, o, n))
    <3>1. DOMAIN g.elems # {o} /\ DOMAIN g.elems \ {o} = ClassOf(H, C, K, p)
      BY <1>0, <1>3, <2>1, <2>2
    <3> QED BY <1>4, <2>3, <3>1
  <2>7. Holds(SetCallRetract(gs, {g}, o, n), (Classes(G, C, K, E) \ {View(g)}) \union {x})
    BY <2>5, <2>6, SwappedHolds
  <2> QED BY <1>2, <1>7, <2>5, <2>7 DEF H
<1> QED BY <1>5, <1>6

(* What set_call_MODIFY does with an object whose key changes leaves the   *)
(* classes X.                                                              *)
Moves(gs, c, o, v, shown, w, now, n, X) ==
  LET old == Found(gs, c, o, v, shown)
      new == Found(gs, c, o, w, now)
      left == SetCallRetract(gs, old, o, n)
  IN /\ old # {} /\ old # new
     /\ Holds(SetCallInsert(left, IF new # {} THEN new ELSE Found(left, c, o, w, now), c, o, n), X)

(* One whose key changes goes from its set to another: neither is          *)
(* recognised by it.                                                       *)
LEMMA MoveTo ==
  ASSUME NEW gs, NEW G \in SUBSET Obj, IsFiniteSet(G), NEW C, NEW K, NEW E,
         Holds(gs, Classes(G, C, K, E)), NEW shown, Shows(G, K, shown),
         NEW o \in G, o \notin Edited,
         NEW L, NEW now, Shows(G \ {o}, L, now), \A p \in G \ {o} : L[p] = K[p], L[o] # K[o],
         \A h \in gs : DOMAIN h.elems # {} => Sample(h.elems) # o,
         NEW v, KeyOf[v] = K[o], NEW w, KeyOf[w] = L[o], NEW n \in Flips
  PROVE  Moves(gs, C[o], o, v, shown, w, now, n, Classes(G, C, L, E))
<1>1. PICK H \in SUBSET Obj : /\ H = G \ {o} /\ H \union {o} = G
                               /\ Shows(H, L, now) /\ \A p \in H : L[p] = K[p]
  OBVIOUS
<1>2. PICK old : old = Found(gs, C[o], o, v, shown)
  OBVIOUS
<1>3. PICK new : new = Found(gs, C[o], o, w, now)
  OBVIOUS
<1>4. PICK left : left = SetCallRetract(gs, old, o, n)
  OBVIOUS
<1>5. o # Null /\ o \in Obj /\ o \notin H
  BY <1>1, SetAssumption
(* The set of o, recognised by another. *)
<1>6. PICK g \in gs : View(g) = Class(C[o], ClassOf(G, C, K, o))
  <2>1. Class(C[o], ClassOf(G, C, K, o)) \in Classes(G, C, K, E)
    BY DEF Classes
  <2> QED BY <2>1 DEF Holds
<1>7. old = {g}
  <2>1. OnlyOne(Found(gs, C[o], o, v, shown), g)
    BY <1>5, <1>6, FoundOne
  <2> QED BY <1>2, <2>1 DEF OnlyOne
<1>8. ASSUME NEW h \in gs, DOMAIN h.elems # {}
       PROVE  \E s \in H : /\ s \in DOMAIN h.elems /\ s = Sample(h.elems)
                           /\ L[s] = KeyOf[now[s]] /\ L[s] = K[s] /\ h.ctx = C[s]
                           /\ DOMAIN h.elems = ClassOf(G, C, K, s)
  <2>1. DOMAIN h.elems \subseteq G
    BY SetsAre
  <2>2. Sample(h.elems) \in DOMAIN h.elems
    BY <1>8, <2>1, SampleIn
  <2>3. Sample(h.elems) # o
    BY <1>8
  <2>4. PICK s \in H : s = Sample(h.elems) /\ s \in DOMAIN h.elems
    BY <1>1, <2>1, <2>2, <2>3
  <2>5. h.ctx = C[s] /\ DOMAIN h.elems = ClassOf(G, C, K, s)
    BY <2>4, SetsAre
  <2> QED BY <1>1, <2>4, <2>5 DEF Shows
<1>9. PICK s \in H : /\ s = Sample(g.elems) /\ K[s] = K[o] /\ C[s] = C[o]
                      /\ L[s] = KeyOf[now[s]] /\ L[s] = K[s]
  <2>1. g.ctx = C[o] /\ DOMAIN g.elems = ClassOf(G, C, K, o) /\ o \in DOMAIN g.elems
    BY <1>6, SameClass DEF View, ClassOf
  <2>2. PICK s \in H : /\ s \in DOMAIN g.elems /\ s = Sample(g.elems)
                       /\ L[s] = KeyOf[now[s]] /\ L[s] = K[s]
    BY <1>8, <2>1
  <2> QED BY <2>1, <2>2 DEF ClassOf
(* What is left when o has left it. *)
<1>10. /\ Holds(left, Classes(H, C, L, E))
       /\ \A h \in gs : View(h) # View(g) => h \in left
  <2>1. C[o] \in E => \E p \in G \ {o} : C[p] = C[o]
    BY <1>9, <1>1
  <2>3. /\ Holds(SetCallRetract(gs, Found(gs, C[o], o, v, shown), o, n),
                 Classes(G \ {o}, C, K, E))
        /\ \A h \in gs : View(h) # Class(C[o], ClassOf(G, C, K, o)) =>
             h \in SetCallRetract(gs, Found(gs, C[o], o, v, shown), o, n)
    BY <2>1, TakeOut
  <2>4. Holds(left, Classes(H, C, K, E))
    BY <1>1, <1>2, <1>4, <2>3
  <2>5. Classes(H, C, L, E) = Classes(H, C, K, E)
    BY <1>1, ClassKeys
  <2> QED BY <1>6, <1>2, <1>4, <2>3, <2>4, <2>5
(* The set it enters is the one a new search would find. *)
<1>11. g \notin new
  <2>1. DOMAIN g.elems # {}
    BY <1>6, SameClass DEF View, ClassOf
  <2> QED BY <1>5, <1>9, <1>3, <2>1 DEF Found, Belongs
<1>12. ASSUME NEW h \in new
       PROVE  OnlyOne(Found(left, C[o], o, w, now), h)
  <2>1. /\ h \in gs /\ h.ctx = C[o]
        /\ DOMAIN h.elems = {} \/ L[o] = KeyOf[now[Sample(h.elems)]]
    BY <1>5, <1>12, <1>3 DEF Found, Belongs
  <2>2. DOMAIN h.elems # {}
    BY <2>1, SetsAre
  <2>3. PICK p \in H : /\ p = Sample(h.elems) /\ L[p] = KeyOf[now[p]] /\ L[p] = K[p]
                       /\ C[p] = C[o] /\ DOMAIN h.elems = ClassOf(G, C, K, p)
    BY <1>8, <2>1, <2>2
  <2>4. L[p] = L[o] /\ K[p] # K[o]
    BY <2>1, <2>2, <2>3
  <2>5. ClassOf(G, C, K, p) = ClassOf(H, C, L, p)
    BY <1>1, <2>3, <2>4 DEF ClassOf
  <2>6. View(h) = Class(C[p], ClassOf(H, C, L, p))
    BY <2>1, <2>3, <2>5 DEF View
  <2>7. View(h) # View(g)
    <3>1. o \in ClassOf(G, C, K, o) /\ o \notin ClassOf(H, C, L, p)
      BY <1>5 DEF ClassOf
    <3> QED BY <1>6, <2>6, <3>1, SameClass
  <2>8. h \in left /\ KeyOf[w] = L[p]
    BY <1>10, <2>1, <2>4, <2>7
  <2>9. OnlyOne(Found(left, C[p], o, w, now), h)
    <3>1. Holds(left, Classes(H, C, L, E)) /\ Shows(H, L, now)
      BY <1>10, <1>1
    <3> QED BY <1>5, <2>6, <2>8, <3>1, FoundOne
  <2> QED BY <2>3, <2>9
<1>13. (IF new # {} THEN new ELSE Found(left, C[o], o, w, now)) =
         Found(left, C[o], o, w, now)
  <2>1. CASE new = {}
    BY <2>1
  <2>2. CASE new # {}
    <3>1. PICK h \in new : Found(left, C[o], o, w, now) = {h}
      BY <1>12, <2>2 DEF OnlyOne
    <3>2. \A k \in new : Found(left, C[o], o, w, now) = {k}
      BY <1>12 DEF OnlyOne
    <3> QED BY <3>1, <3>2
  <2> QED BY <2>1, <2>2
<1>14. Holds(SetCallInsert(left, Found(left, C[o], o, w, now), C[o], o, n),
             Classes(H \union {o}, C, L, E))
  <2>1. (C[o] \in E => \E p \in H : C[p] = C[o]) /\ o \in Obj /\ o \notin H
    BY <1>5, <1>9
  <2> QED BY <1>10, <1>1, <2>1, FileIn
<1>15. old # {} /\ old # new
  BY <1>7, <1>11
<1> QED BY <1>13, <1>14, <1>15, <1>1, <1>2, <1>3, <1>4 DEF Moves

-----------------------------------------------------------------------------
(* The memory holds the classes of the objects given to the SET node.      *)
Contexts == [o \in Obj |-> Context(o)]

Keyed == [o \in Obj |-> KeyOf[val[o]]]

Filed == Holds(groups, Classes(Given, Contexts, Keyed, open))

(* What a step that changes only the objects given has to do.              *)
Steady == UNCHANGED <<timed, val, open>>

(* Contexts and keys of the objects.                                       *)
LEMMA Looked == \A p \in Obj : Contexts[p] = Context(p) /\ Keyed[p] = KeyOf[val[p]]
BY DEF Contexts, Keyed

(* An object given to the node.                                            *)
LEMMA GivenMore ==
  ASSUME Filed, Given \subseteq Obj, NEW o \in Obj, o \notin Given, NEW n \in Flips,
         Context(o) \in open => \E p \in Given : Context(p) = Context(o),
         SetInsert(Context(o), o, val, n), Given' = Given \union {o}, Steady
  PROVE  Filed'
<1>1. PICK G \in SUBSET Obj : G = Given
  OBVIOUS
<1>2. PICK C : C = Contexts /\ \A p \in Obj : C[p] = Context(p)
  BY Looked
<1>3. PICK K : K = Keyed /\ \A p \in Obj : K[p] = KeyOf[val[p]]
  BY Looked
<1>4. PICK E : E = open
  OBVIOUS
<1>5. Contexts' = C /\ Keyed' = K /\ open' = E /\ Given' = G \union {o}
  BY <1>1, <1>2, <1>3, <1>4 DEF Contexts, Keyed, Context, Steady
<1>6. Holds(groups, Classes(G, C, K, E)) /\ Shows(G, K, val)
  BY <1>1, <1>2, <1>3, <1>4 DEF Filed, Shows
<1>7. groups' = SetCallInsert(groups, Found(groups, C[o], o, val[o], val), C[o], o, n)
  BY <1>2 DEF SetInsert
<1>8. o \notin G /\ KeyOf[val[o]] = K[o] /\ (C[o] \in E => \E p \in G : C[p] = C[o])
  BY <1>1, <1>2, <1>3, <1>4
<1>9. Holds(groups', Classes(G \union {o}, C, K, E))
  BY <1>6, <1>7, <1>8, FileIn
<1> QED BY <1>5, <1>9 DEF Filed

(* An object taken from the node.                                          *)
LEMMA GivenLess ==
  ASSUME Filed, Given \subseteq Obj, IsFiniteSet(Given), NEW o \in Given, o \notin Edited,
         NEW n \in Flips,
         Context(o) \in open => \E p \in Given \ {o} : Context(p) = Context(o),
         SetRetract(Context(o), o, val, n), Given' = Given \ {o}, Steady
  PROVE  Filed'
<1>1. PICK G \in SUBSET Obj : G = Given
  OBVIOUS
<1>2. PICK C : C = Contexts /\ \A p \in Obj : C[p] = Context(p)
  BY Looked
<1>3. PICK K : K = Keyed /\ \A p \in Obj : K[p] = KeyOf[val[p]]
  BY Looked
<1>4. PICK E : E = open
  OBVIOUS
<1>5. Contexts' = C /\ Keyed' = K /\ open' = E /\ Given' = G \ {o}
  BY <1>1, <1>2, <1>3, <1>4 DEF Contexts, Keyed, Context, Steady
<1>6. Holds(groups, Classes(G, C, K, E)) /\ Shows(G, K, val)
  BY <1>1, <1>2, <1>3, <1>4 DEF Filed, Shows
<1>7. groups' = SetCallRetract(groups, Found(groups, C[o], o, val[o], val), o, n)
  BY <1>1, <1>2 DEF SetRetract
<1>8. /\ o \in G /\ KeyOf[val[o]] = K[o] /\ IsFiniteSet(G)
      /\ (C[o] \in E => \E p \in G \ {o} : C[p] = C[o])
  BY <1>1, <1>2, <1>3, <1>4
<1>9. Holds(groups', Classes(G \ {o}, C, K, E))
  BY <1>6, <1>7, <1>8, TakeOut
<1> QED BY <1>5, <1>9 DEF Filed

(* The first object of a context takes the place of the null single.       *)
LEMMA GivenFirst ==
  ASSUME Filed, Given \subseteq Obj, NEW o \in Obj, o \notin Given, NEW n \in Flips,
         Context(o) \in open, \A p \in Given : Context(p) # Context(o),
         SetModify(Context(o), Null, o, val, val, val, n), Given' = Given \union {o}, Steady
  PROVE  Filed'
<1>0. o # Null
  BY SetAssumption
<1>1. PICK G \in SUBSET Obj : G = Given
  OBVIOUS
<1>2. PICK C : C = Contexts /\ \A p \in Obj : C[p] = Context(p)
  BY Looked
<1>3. PICK K : K = Keyed
  OBVIOUS
<1>4. PICK E : E = open
  OBVIOUS
<1>5. Contexts' = C /\ Keyed' = K /\ open' = E /\ Given' = G \union {o}
  BY <1>1, <1>2, <1>3, <1>4 DEF Contexts, Keyed, Context, Steady
<1>6. Holds(groups, Classes(G, C, K, E))
  BY <1>1, <1>2, <1>3, <1>4 DEF Filed
<1>7. /\ Class(C[o], {}) \in Classes(G, C, K, E)
      /\ Classes(G \union {o}, C, K, E) =
           (Classes(G, C, K, E) \ {Class(C[o], {})}) \union {Class(C[o], {o})}
      /\ Class(C[o], {o}) \notin Classes(G, C, K, E)
      /\ \A x \in Classes(G, C, K, E) : x.ctx = C[o] => x = Class(C[o], {})
  <2>1. o \notin G /\ C[o] \in E /\ \A p \in G : C[p] # C[o]
    BY <1>1, <1>2, <1>4
  <2> QED BY <2>1, ClassFirst
<1>8. PICK g \in groups : View(g) = Class(C[o], {})
  BY <1>6, <1>7 DEF Holds
<1>9. g.ctx = C[o] /\ DOMAIN g.elems = {} /\ Shape(g)
  BY <1>6, <1>8, SameClass DEF View, Holds
<1>10. \A x \in Classes(G, C, K, E) : x.ctx = g.ctx => x = View(g)
  BY <1>7, <1>8, <1>9
<1>11. Found(groups, C[o], Null, val[Null], val) = {g}
  <2>1. OnlyOne(Found(groups, g.ctx, Null, val[Null], val), g)
    BY <1>6, <1>10, FoundByContext
  <2> QED BY <1>9, <2>1 DEF OnlyOne
<1>12. Found(groups, C[o], o, val[o], val) = {g}
  <2>1. OnlyOne(Found(groups, g.ctx, o, val[o], val), g)
    BY <1>6, <1>9, <1>10, FoundByContext
  <2> QED BY <1>9, <2>1 DEF OnlyOne
<1>13. groups' = ModifyInPlace(groups, g, Null, o, n)
  <2>1. (CHOOSE x \in {g} : TRUE) = g /\ {g} # {}
    OBVIOUS
  <2> QED BY <1>2, <1>11, <1>12, <2>1 DEF SetModify, SetCallModify
<1>14. Swapped(groups, g, Class(C[o], {o}), groups')
  BY <1>0, <1>9, <1>13, EntersEmpty
<1>15. Holds(groups', (Classes(G, C, K, E) \ {View(g)}) \union {Class(C[o], {o})})
  BY <1>6, <1>7, <1>14, SwappedHolds
<1> QED BY <1>5, <1>7, <1>8, <1>15 DEF Filed

(* The last object of a context gives its place to the null single.        *)
LEMMA GivenLast ==
  ASSUME Filed, Given \subseteq Obj, NEW o \in Given, o \notin Edited, NEW n \in Flips,
         Context(o) \in open, \A p \in Given \ {o} : Context(p) # Context(o),
         SetModify(Context(o), o, Null, val, val, val, n), Given' = Given \ {o}, Steady
  PROVE  Filed'
<1>0. o # Null /\ o \in Obj
  BY SetAssumption
<1>1. PICK G \in SUBSET Obj : G = Given
  OBVIOUS
<1>2. PICK C : C = Contexts /\ \A p \in Obj : C[p] = Context(p)
  BY Looked
<1>3. PICK K : K = Keyed /\ \A p \in Obj : K[p] = KeyOf[val[p]]
  BY Looked
<1>4. PICK E : E = open
  OBVIOUS
<1>5. Contexts' = C /\ Keyed' = K /\ open' = E /\ Given' = G \ {o}
  BY <1>1, <1>2, <1>3, <1>4 DEF Contexts, Keyed, Context, Steady
<1>6. Holds(groups, Classes(G, C, K, E)) /\ Shows(G, K, val)
  BY <1>1, <1>2, <1>3, <1>4 DEF Filed, Shows
<1>7. PICK H \in SUBSET Obj : H = G \ {o} /\ o \notin H /\ H \union {o} = G
  BY <1>1
<1>8. /\ Class(C[o], {}) \in Classes(H, C, K, E)
      /\ Classes(G, C, K, E) =
           (Classes(H, C, K, E) \ {Class(C[o], {})}) \union {Class(C[o], {o})}
      /\ Class(C[o], {o}) \notin Classes(H, C, K, E)
      /\ \A x \in Classes(H, C, K, E) : x.ctx = C[o] => x = Class(C[o], {})
  <2>1. o \notin H /\ C[o] \in E /\ \A p \in H : C[p] # C[o]
    BY <1>0, <1>1, <1>2, <1>4, <1>7
  <2>2. /\ Class(C[o], {}) \in Classes(H, C, K, E)
        /\ Classes(H \union {o}, C, K, E) =
             (Classes(H, C, K, E) \ {Class(C[o], {})}) \union {Class(C[o], {o})}
        /\ Class(C[o], {o}) \notin Classes(H, C, K, E)
        /\ \A x \in Classes(H, C, K, E) : x.ctx = C[o] => x = Class(C[o], {})
    BY <2>1, ClassFirst
  <2> QED BY <1>7, <2>2
<1>9. PICK g \in groups : View(g) = Class(C[o], {o})
  BY <1>6, <1>8 DEF Holds
<1>10. g.ctx = C[o] /\ DOMAIN g.elems = {o} /\ Shape(g)
  BY <1>6, <1>9, SameClass DEF View, Holds
<1>11. \A x \in Classes(G, C, K, E) : x.ctx = g.ctx => x = View(g)
  BY <1>8, <1>9, <1>10
<1>12. Found(groups, C[o], Null, val[Null], val) = {g}
  <2>1. OnlyOne(Found(groups, g.ctx, Null, val[Null], val), g)
    BY <1>6, <1>11, FoundByContext
  <2> QED BY <1>10, <2>1 DEF OnlyOne
<1>13. Found(groups, C[o], o, val[o], val) = {g}
  <2>1. Class(C[o], {o}) = Class(C[o], ClassOf(G, C, K, o)) /\ o \in G /\ KeyOf[val[o]] = K[o]
    <3>1. \A p \in G : C[p] = C[o] => p = o
      BY <1>0, <1>1, <1>2
    <3>2. ClassOf(G, C, K, o) = {o}
      BY <1>1, <3>1 DEF ClassOf
    <3> QED BY <1>0, <1>1, <1>3, <3>2
  <2>2. OnlyOne(Found(groups, C[o], o, val[o], val), g)
    BY <1>0, <1>6, <1>9, <2>1, FoundOne
  <2> QED BY <2>2 DEF OnlyOne
<1>14. groups' = ModifyInPlace(groups, g, o, Null, n)
  <2>1. (CHOOSE x \in {g} : TRUE) = g /\ {g} # {}
    OBVIOUS
  <2> QED BY <1>0, <1>2, <1>12, <1>13, <2>1 DEF SetModify, SetCallModify
<1>15. Swapped(groups, g, Class(C[o], {}), groups')
  BY <1>0, <1>10, <1>14, LeavesLast
<1>16. Classes(H, C, K, E) = (Classes(G, C, K, E) \ {View(g)}) \union {Class(C[o], {})}
       /\ Class(C[o], {}) \notin Classes(G, C, K, E) \ {View(g)}
  <2>1. Class(C[o], {}) # Class(C[o], {o})
    BY SameClass
  <2> QED BY <1>8, <1>9, <2>1
<1>17. Holds(groups', (Classes(G, C, K, E) \ {View(g)}) \union {Class(C[o], {})})
  BY <1>6, <1>15, <1>16, SwappedHolds
<1> QED BY <1>5, <1>7, <1>16, <1>17 DEF Filed

(* An object edited without change of its key stays in its set.            *)
LEMMA GivenEdited ==
  ASSUME Filed, Given \subseteq Obj, NEW o \in Given, o \in Edited, NEW n \in Flips,
         \A p \in Obj : KeyOf[val'[p]] = KeyOf[val[p]],
         SetModify(Context(o), o, o, val, val', val, n),
         UNCHANGED <<timed, open>>, Given' = Given
  PROVE  Filed'
<1>0. o # Null /\ o \in Obj
  BY SetAssumption
<1>1. PICK G \in SUBSET Obj : G = Given
  OBVIOUS
<1>2. PICK C : C = Contexts /\ \A p \in Obj : C[p] = Context(p)
  BY Looked
<1>3. PICK K : K = Keyed /\ \A p \in Obj : K[p] = KeyOf[val[p]]
  BY Looked
<1>4. PICK E : E = open
  OBVIOUS
<1>5. Contexts' = C /\ Keyed' = K /\ open' = E /\ Given' = G
  <2>1. Contexts' = C
    BY <1>2 DEF Contexts, Context
  <2>2. Keyed' = [p \in Obj |-> KeyOf[val'[p]]] /\ Keyed = [p \in Obj |-> KeyOf[val[p]]]
    BY DEF Keyed
  <2>3. Keyed' = Keyed
    BY <2>2
  <2> QED BY <1>1, <1>3, <1>4, <2>1, <2>3
<1>6. Holds(groups, Classes(G, C, K, E)) /\ Shows(G, K, val) /\ Shows(G, K, val')
  BY <1>1, <1>2, <1>3, <1>4 DEF Filed, Shows
<1>7. PICK g \in groups : View(g) = Class(C[o], ClassOf(G, C, K, o))
  <2>1. Class(C[o], ClassOf(G, C, K, o)) \in Classes(G, C, K, E)
    BY <1>1 DEF Classes
  <2> QED BY <1>6, <2>1 DEF Holds
<1>8. Shape(g) /\ o \in DOMAIN g.elems
  <2>1. o \in ClassOf(G, C, K, o)
    BY <1>1 DEF ClassOf
  <2> QED BY <1>6, <1>7, <2>1, SameClass DEF View, Holds
<1>9. o \in G /\ KeyOf[val[o]] = K[o] /\ KeyOf[val'[o]] = K[o]
  BY <1>0, <1>1, <1>3
<1>10. Found(groups, C[o], o, val[o], val) = {g} /\ Found(groups, C[o], o, val'[o], val') = {g}
  <2>1. OnlyOne(Found(groups, C[o], o, val[o], val), g)
    BY <1>0, <1>6, <1>7, <1>9, FoundOne
  <2>2. OnlyOne(Found(groups, C[o], o, val'[o], val'), g)
    BY <1>0, <1>6, <1>7, <1>9, FoundOne
  <2> QED BY <2>1, <2>2 DEF OnlyOne
<1>11. groups' = ModifyInPlace(groups, g, o, o, n)
  <2>1. (CHOOSE x \in {g} : TRUE) = g /\ {g} # {}
    OBVIOUS
  <2> QED BY <1>0, <1>2, <1>10, <2>1 DEF SetModify, SetCallModify
<1>12. Swapped(groups, g, View(g), groups')
  BY <1>0, <1>8, <1>11, StaysIn
<1>13. Holds(groups', (Classes(G, C, K, E) \ {View(g)}) \union {View(g)})
  BY <1>6, <1>12, SwappedHolds
<1>14. (Classes(G, C, K, E) \ {View(g)}) \union {View(g)} = Classes(G, C, K, E)
  BY <1>6 DEF Holds
<1> QED BY <1>5, <1>13, <1>14 DEF Filed

(* One whose key changes goes from its set to another.                     *)
LEMMA GivenMoved ==
  ASSUME Filed, Given \subseteq Obj, IsFiniteSet(Given), NEW o \in Given, o \notin Edited,
         o \notin Samples, NEW n \in Flips,
         \A p \in Obj \ {o} : val'[p] = val[p],
         KeyOf[val'[o]] # KeyOf[val[o]],
         SetModify(Context(o), o, o, val, val', val, n),
         UNCHANGED <<timed, open>>, Given' = Given
  PROVE  Filed'
<1>0. o # Null /\ o \in Obj
  BY SetAssumption
<1>1. PICK G \in SUBSET Obj : G = Given
  OBVIOUS
<1>2. PICK C : C = Contexts /\ \A p \in Obj : C[p] = Context(p)
  BY Looked
<1>3. PICK K : K = Keyed /\ \A p \in Obj : K[p] = KeyOf[val[p]]
  BY Looked
<1>4. PICK E : E = open
  OBVIOUS
<1>5. PICK L : L = Keyed' /\ \A p \in Obj : L[p] = KeyOf[val'[p]]
  <2>1. \A p \in Obj : Keyed'[p] = KeyOf[val'[p]]
    BY DEF Keyed
  <2> QED BY <2>1
<1>6. PICK H \in SUBSET Obj : H = G \ {o}
  OBVIOUS
<1>7. Contexts' = C /\ open' = E /\ Given' = G /\ o \in G /\ o \notin H
  BY <1>1, <1>2, <1>4, <1>6 DEF Contexts, Context
<1>8. Holds(groups, Classes(G, C, K, E)) /\ Shows(G, K, val) /\ Shows(H, L, val')
  BY <1>1, <1>2, <1>3, <1>4, <1>5 DEF Filed, Shows
<1>9. \A p \in H : L[p] = K[p] /\ val'[p] = val[p]
  BY <1>1, <1>3, <1>5, <1>6
<1>10. KeyOf[val[o]] = K[o] /\ KeyOf[val'[o]] = L[o] /\ L[o] # K[o]
  BY <1>0, <1>3, <1>5
<1>11. Moves(groups, C[o], o, val[o], val, val'[o], val', n, Classes(G, C, L, E))
  <2>1. \A h \in groups : DOMAIN h.elems # {} => Sample(h.elems) # o
    BY DEF Samples
  <2>2. IsFiniteSet(G) /\ Shows(G \ {o}, L, val') /\ \A p \in G \ {o} : L[p] = K[p]
    BY <1>1, <1>6, <1>8, <1>9
  <2> QED BY <1>7, <1>8, <1>10, <2>1, <2>2, MoveTo
<1>12. groups' = SetCallModify(C[o], o, o, val[o], val', val, n)
  BY <1>0, <1>2 DEF SetModify
<1>13. Holds(groups', Classes(G, C, L, E))
  BY <1>11, <1>12 DEF Moves, SetCallModify
<1> QED BY <1>5, <1>7, <1>13 DEF Filed

(* A context gets its tuple with the null single.                          *)
LEMMA Opens ==
  ASSUME Filed, NEW c, c \notin open, Given \subseteq Obj, \A p \in Given : Context(p) # c,
         groups' = SetCallInsert(groups, Found(groups, c, Null, val, val), c, Null, 1),
         open' = open \union {c}, UNCHANGED <<timed, val>>, Given' = Given
  PROVE  Filed'
<1>1. PICK G \in SUBSET Obj : G = Given
  OBVIOUS
<1>2. PICK C : C = Contexts /\ \A p \in Obj : C[p] = Context(p)
  BY Looked
<1>3. PICK K : K = Keyed
  OBVIOUS
<1>4. PICK E, F : E = open /\ F = E \union {c}
  OBVIOUS
<1>5. Contexts' = C /\ Keyed' = K /\ open' = F /\ Given' = G
  BY <1>1, <1>2, <1>3, <1>4 DEF Contexts, Keyed, Context
<1>6. PICK X : X = Classes(G, C, K, E)
  OBVIOUS
<1>7. Classes(G, C, K, F) = X \union {Class(c, {})} /\ \A x \in X : x.ctx # c
  <2>1. c \notin E /\ F = E \union {c} /\ \A p \in G : C[p] # c
    BY <1>1, <1>2, <1>4
  <2>2. /\ Classes(G, C, K, F) = Classes(G, C, K, E) \union {Class(c, {})}
        /\ \A x \in Classes(G, C, K, E) : x.ctx # c
    BY <2>1, ClassOpen
  <2> QED BY <1>6, <2>2
<1>8. Holds(groups, X) /\ Class(c, {}) \notin X
  BY <1>1, <1>2, <1>3, <1>4, <1>6, <1>7 DEF Filed, Class
<1>9. Found(groups, c, Null, val, val) = {}
  BY <1>7, <1>8, FoundNoContext
<1>10. Added(groups, Class(c, {}), groups')
  BY <1>9, InsertNull
<1>11. Holds(groups', X \union {Class(c, {})})
  BY <1>8, <1>10, AddedHolds
<1> QED BY <1>5, <1>7, <1>11 DEF Filed

(* A context loses its tuple with the null single.                         *)
LEMMA Closes ==
  ASSUME Filed, NEW c \in open, Given \subseteq Obj, \A p \in Given : Context(p) # c,
         groups' = SetCallRetract(groups, Found(groups, c, Null, val, val), Null, 1),
         open' = open \ {c}, UNCHANGED <<timed, val>>, Given' = Given
  PROVE  Filed'
<1>1. PICK G \in SUBSET Obj : G = Given
  OBVIOUS
<1>2. PICK C : C = Contexts /\ \A p \in Obj : C[p] = Context(p)
  BY Looked
<1>3. PICK K : K = Keyed
  OBVIOUS
<1>4. PICK E, F : E = open \ {c} /\ F = open /\ F = E \union {c} /\ c \notin E
  OBVIOUS
<1>5. Contexts' = C /\ Keyed' = K /\ open' = E /\ Given' = G
  BY <1>1, <1>2, <1>3, <1>4 DEF Contexts, Keyed, Context
<1>6. PICK X : X = Classes(G, C, K, E)
  OBVIOUS
<1>7. Classes(G, C, K, F) = X \union {Class(c, {})} /\ \A x \in X : x.ctx # c
  <2>1. c \notin E /\ F = E \union {c} /\ \A p \in G : C[p] # c
    BY <1>1, <1>2, <1>4
  <2>2. /\ Classes(G, C, K, F) = Classes(G, C, K, E) \union {Class(c, {})}
        /\ \A x \in Classes(G, C, K, E) : x.ctx # c
    BY <2>1, ClassOpen
  <2> QED BY <1>6, <2>2
<1>8. Holds(groups, X \union {Class(c, {})}) /\ Class(c, {}) \notin X
  BY <1>1, <1>2, <1>3, <1>4, <1>7 DEF Filed, Class
<1>9. PICK g \in groups : View(g) = Class(c, {})
  BY <1>8 DEF Holds
<1>10. g.ctx = c /\ DOMAIN g.elems = {}
  BY <1>9, SameClass DEF View
<1>11. Found(groups, c, Null, val, val) = {g}
  <2>1. \A x \in X \union {Class(c, {})} : x.ctx = g.ctx => x = View(g)
    BY <1>7, <1>9, <1>10
  <2>2. OnlyOne(Found(groups, g.ctx, Null, val, val), g)
    BY <1>8, <2>1, FoundByContext
  <2> QED BY <1>10, <2>2 DEF OnlyOne
<1>12. groups' = groups \ {g}
  BY <1>10, <1>11, RetractNull
<1>13. Holds(groups', (X \union {Class(c, {})}) \ {View(g)})
  BY <1>8, <1>12, HoldsDrop
<1>14. (X \union {Class(c, {})}) \ {View(g)} = X
  BY <1>8, <1>9
<1> QED BY <1>5, <1>6, <1>13, <1>14 DEF Filed

-----------------------------------------------------------------------------
(* An object whose INSERT waits is not yet in the TIMER, and waits once.   *)
Single(q, x) == \A i, j \in 1..Len(q) : q[i] = x /\ q[j] = x => i = j

OnceOK == \A o \in above : Action("INSERT", o) \in Elems(queue) =>
                             o \notin mem /\ Single(queue, Action("INSERT", o))

(* Positions of an action in a list, by its first and by its parts.        *)
LEMMA SingleTail ==
  ASSUME NEW S, NEW q \in Seq(S), q # <<>>, NEW x, Single(q, x)
  PROVE  Single(Tail(q), x) /\ (x = Head(q) => x \notin Elems(Tail(q)))
<1>1. PICK n \in Nat : n = Len(q) /\ n > 0
  BY EmptySeq
<1>2. PICK t : t = Tail(q)
  OBVIOUS
<1>3. Head(q) = q[1] /\ Len(t) = n - 1 /\ \A i \in 1..(n - 1) : t[i] = q[i + 1]
  BY <1>1, <1>2, HeadTailProperties
<1>4. \A i \in 1..(n - 1) : i + 1 \in 1..n /\ i + 1 # 1
  OBVIOUS
<1>5. 1 \in 1..n
  BY <1>1
<1>6. ASSUME NEW i \in 1..(n - 1), NEW j \in 1..(n - 1), t[i] = x, t[j] = x
      PROVE  i = j
  <2>1. i + 1 = j + 1
    BY <1>1, <1>3, <1>4, <1>6 DEF Single
  <2> QED BY <2>1
<1>7. ASSUME x = Head(q), NEW i \in 1..(n - 1), t[i] = x
      PROVE  FALSE
  BY <1>1, <1>3, <1>4, <1>5, <1>7 DEF Single
<1> QED BY <1>2, <1>3, <1>6, <1>7 DEF Single, Elems

(* An action that is in one of two lists joined, once.                     *)
LEMMA SingleBehind ==
  ASSUME NEW S, NEW q \in Seq(S), NEW r \in Seq(S), NEW x,
         \/ x \notin Elems(q) /\ Single(r, x)
         \/ Single(q, x) /\ x \notin Elems(r)
  PROVE  Single(q \o r, x)
<1>1. PICK n \in Nat, m \in Nat : n = Len(q) /\ m = Len(r)
  OBVIOUS
<1>2. PICK t : t = q \o r
  OBVIOUS
<1>3. Len(t) = n + m /\ \A i \in 1..(n + m) : t[i] = IF i <= n THEN q[i] ELSE r[i - n]
  BY <1>1, <1>2, ConcatProperties
<1>4. \A i \in 1..(n + m) : IF i <= n THEN i \in 1..n ELSE i - n \in 1..m
  OBVIOUS
<1>5. ASSUME NEW i \in 1..(n + m), NEW j \in 1..(n + m), t[i] = x, t[j] = x
      PROVE  i = j
  <2>1. CASE x \notin Elems(q) /\ Single(r, x)
    <3>1. ~(i <= n) /\ ~(j <= n)
      BY <1>1, <1>3, <1>4, <1>5, <2>1 DEF Elems
    <3>2. i - n \in 1..m /\ j - n \in 1..m /\ r[i - n] = x /\ r[j - n] = x
      BY <1>3, <1>4, <1>5, <3>1
    <3>3. i - n = j - n
      BY <1>1, <2>1, <3>2 DEF Single
    <3> QED BY <3>3
  <2>2. CASE Single(q, x) /\ x \notin Elems(r)
    <3>1. i <= n /\ j <= n
      BY <1>1, <1>3, <1>4, <1>5, <2>2 DEF Elems
    <3>2. i \in 1..n /\ j \in 1..n /\ q[i] = x /\ q[j] = x
      BY <1>3, <1>4, <1>5, <3>1
    <3> QED BY <1>1, <2>2, <3>2 DEF Single
  <2> QED BY <2>1, <2>2
<1> QED BY <1>2, <1>3, <1>5 DEF Single

(* timer_call puts off an INSERT that did not wait: no other is repeated.  *)
LEMMA EnterOnce ==
  ASSUME Held, NEW o \in Obj, NEW rest \in Seq(Waiting), Enter(o, rest),
         o \notin mem, Action("INSERT", o) \notin Elems(rest),
         above' \subseteq above \union {o},
         \A p \in above \ {o} : Action("INSERT", p) \in Elems(rest) =>
                                  p \notin mem /\ Single(rest, Action("INSERT", p))
  PROVE  OnceOK'
<1>1. CASE TimerInsert(o, rest)
  <2>1. mem' = mem \union {o} /\ queue' = rest
    BY <1>1 DEF TimerInsert
  <2> QED BY <2>1 DEF OnceOK
<1>2. CASE InsertAfterRefresh(o, rest)
  <2>1. PICK old : old = Refreshed(T[o])
    OBVIOUS
  <2>2. T[o] \in Int
    BY Timed
  <2>3. old \in Seq(mem)
    BY <2>1, <2>2, RefreshedIs
  <2>4. PICK ins : ins = <<Action("INSERT", o)>>
    OBVIOUS
  <2>5. queue' = Retracts(old) \o ins \o rest /\ mem' = mem
    BY <1>2, <2>1, <2>4 DEF InsertAfterRefresh, Action
  <2>6. ins \in Seq(Waiting) /\ Elems(ins) = {Action("INSERT", o)} /\ \A x : Single(ins, x)
    BY <2>4, FeedAssumption DEF Waiting, Action, Elems, Single
  <2>7. /\ Retracts(old) \in Seq(Waiting)
        /\ \A w \in Elems(Retracts(old)) : w.tag = "RETRACT"
    BY <2>3, RetractsAre DEF Action
  <2>8. PICK first \in Seq(Waiting) :
           /\ first = Retracts(old) \o ins
           /\ Elems(first) = Elems(Retracts(old)) \union {Action("INSERT", o)}
    <3>1. Retracts(old) \o ins \in Seq(Waiting)
          /\ Elems(Retracts(old) \o ins) = Elems(Retracts(old)) \union Elems(ins)
      BY <2>6, <2>7, ElemsSplit
    <3> QED BY <2>6, <3>1
  <2>9. queue' = first \o rest /\ Elems(queue') = Elems(first) \union Elems(rest)
    <3>1. queue' = first \o rest
      BY <2>5, <2>8
    <3>2. Elems(first \o rest) = Elems(first) \union Elems(rest)
      BY ElemsSplit
    <3> QED BY <3>1, <3>2
  <2>10. \A p : Action("INSERT", p) \notin Elems(Retracts(old))
    BY <2>7 DEF Action
  <2>11. Single(queue', Action("INSERT", o))
    <3>1. Single(first, Action("INSERT", o))
      BY <2>6, <2>7, <2>8, <2>10, SingleBehind
    <3>2. Single(first \o rest, Action("INSERT", o))
      BY <3>1, SingleBehind
    <3> QED BY <2>9, <3>2
  <2>12. ASSUME NEW p \in above', p # o, Action("INSERT", p) \in Elems(queue')
         PROVE  p \notin mem' /\ Single(queue', Action("INSERT", p))
    <3>1. Action("INSERT", p) # Action("INSERT", o)
      BY <2>12 DEF Action
    <3>2. Action("INSERT", p) \notin Elems(first) /\ Action("INSERT", p) \in Elems(rest)
      BY <2>8, <2>9, <2>10, <2>12, <3>1
    <3>3. p \notin mem /\ Single(rest, Action("INSERT", p))
      BY <2>12, <3>2
    <3>4. Single(first \o rest, Action("INSERT", p))
      BY <3>2, <3>3, SingleBehind
    <3> QED BY <2>5, <2>9, <3>3, <3>4
  <2> QED BY <2>5, <2>11, <2>12 DEF OnceOK
<1> QED BY <1>1, <1>2 DEF Enter

-----------------------------------------------------------------------------
(* The hypotheses on what the rules and the application do: an object      *)
(* edited in place is not removed, does not change its key either, and is  *)
(* never as old as the window.  A set counts it once for each edition, so  *)
(* that one RETRACT would not take it out.                                 *)
Settled ==
  /\ Patient
  /\ Edited \subseteq Stays /\ Edited \intersect Moved = {}
  /\ \A e \in Edited \intersect Obj :
       \A t \in Refreshes \union {T[o] : o \in Obj} : t - Window < T[e]

(* The sets hold the classes, and what that needs of the TIMER and of the  *)
(* open contexts.                                                          *)
SInv ==
  /\ IInv
  /\ val \in [Obj -> Value] /\ IsFiniteSet(above)
  /\ timed => open = {} /\ OnceOK
  /\ ~timed => \A o \in above : Home[o] \in open
  /\ \A e \in Edited \intersect Obj : newest - Window < T[e]
  /\ Filed

(* What the SET node was given.                                            *)
LEMMA GivenIs ==
  ASSUME SInv
  PROVE  /\ Given \subseteq Obj /\ IsFiniteSet(Given) /\ TypeOK
         /\ timed => Given = mem /\ mem \subseteq above /\ Held
         /\ ~timed => Given = above
BY DEF SInv, IInv, TypeOK, WaitOK, Given, Held

(* An object out of the window is none of those edited.                    *)
LEMMA OldIsUnedited ==
  ASSUME SInv, NEW o \in Obj, T[o] <= newest - Window
  PROVE  o \notin Edited
BY Timed DEF SInv, IInv, TypeOK

(* A step that does not concern the sets.                                  *)
LEMMA FiledSame ==
  ASSUME Filed, UNCHANGED groups, Steady, Given' = Given
  PROVE  Filed'
<1>1. Contexts' = Contexts /\ Keyed' = Keyed /\ open' = open
  BY DEF Contexts, Keyed, Context, Steady
<1> QED BY <1>1 DEF Filed

(* The TIMER gives the SET node what enters it.                            *)
LEMMA EnterFiles ==
  ASSUME Filed, timed, open = {}, Held, NEW o \in Obj, o \notin mem, NEW rest,
         Enter(o, rest), Steady
  PROVE  Filed'
<1>1. Given = mem /\ Given' = mem' /\ Context(o) = Some
  BY DEF Given, Steady, Context
<1>2. CASE InsertAfterRefresh(o, rest) /\ UNCHANGED groups
  <2>1. mem' = mem
    BY <1>2 DEF InsertAfterRefresh
  <2> QED BY <1>1, <1>2, <2>1, FiledSame
<1>3. CASE TimerInsert(o, rest) /\ \E n \in Flips : SetInsert(Some, o, val, n)
  <2>1. PICK n \in Flips : SetInsert(Context(o), o, val, n)
    BY <1>1, <1>3
  <2>2. Given' = Given \union {o} /\ o \notin Given /\ Given \subseteq Obj
    BY <1>1, <1>3 DEF TimerInsert, Held
  <2>3. Context(o) \in open => \E p \in Given : Context(p) = Context(o)
    OBVIOUS
  <2> QED BY <2>1, <2>2, <2>3, GivenMore
<1> QED BY <1>2, <1>3 DEF Enter

(* The TIMER takes from the SET node what leaves it.                       *)
LEMMA LeaveFiles ==
  ASSUME Filed, timed, open = {}, Held, NEW o \in Obj, o \notin Edited, NEW rest,
         Leave(o, rest), Steady
  PROVE  Filed'
<1>1. Given = mem /\ Given' = mem \ {o} /\ Context(o) = Some
  BY DEF Given, Steady, Context, Leave, TimerRetract
<1>2. CASE o \notin mem
  <2>1. UNCHANGED groups /\ Given' = Given
    BY <1>1, <1>2 DEF Leave, TimerKnows
  <2> QED BY <2>1, FiledSame
<1>3. CASE o \in mem
  <2>1. PICK n \in Flips : SetRetract(Context(o), o, val, n)
    BY <1>1, <1>3 DEF Leave, TimerKnows
  <2>2. Given' = Given \ {o} /\ o \in Given /\ Given \subseteq Obj /\ IsFiniteSet(Given)
    BY <1>1, <1>3 DEF Held
  <2>3. Context(o) \in open => \E p \in Given \ {o} : Context(p) = Context(o)
    OBVIOUS
  <2> QED BY <2>1, <2>2, <2>3, GivenLess
<1> QED BY <1>2, <1>3

(* An action of the queue done, an object less in the TIMER.               *)
LEMMA OnceLess ==
  ASSUME OnceOK, queue \in Seq(Waiting), mem' \subseteq mem, above' \subseteq above,
         \/ queue' = queue
         \/ queue # <<>> /\ queue' = Tail(queue)
  PROVE  OnceOK'
<1>1. Elems(queue') \subseteq Elems(queue)
  BY ElemsSplit
<1>2. \A x : Single(queue, x) => Single(queue', x)
  BY SingleTail
<1> QED BY <1>1, <1>2 DEF OnceOK

-----------------------------------------------------------------------------
(* do_loop takes the next action of the TIMER.                             *)
LEMMA DoLoopFiles ==
  ASSUME SInv, DoLoop
  PROVE  SInv'
<1>1. /\ TypeOK /\ timed /\ WaitOK /\ OnceOK /\ open = {} /\ Held /\ Filed
      /\ queue \in Seq(Waiting) /\ queue # <<>>
  BY GivenIs DEF SInv, IInv, DoLoop, TypeOK, Held
<1>2. PICK act \in Waiting, rest \in Seq(Waiting) :
        act = Head(queue) /\ rest = Tail(queue) /\ Elems(queue) = {act} \union Elems(rest)
  <2>1. /\ Head(queue) \in Waiting /\ Tail(queue) \in Seq(Waiting)
        /\ Elems(queue) = {Head(queue)} \union Elems(Tail(queue))
    BY <1>1, ElemsSplit
  <2> QED BY <2>1
<1>3. /\ Steady /\ above' = above /\ dead' = dead /\ newest' = newest
      /\ act.obj \in Obj /\ act.tag \in {"INSERT", "RETRACT"} /\ act = Action(act.tag, act.obj)
  BY <1>2, FeedAssumption DEF DoLoop, Waiting, Action, Steady
<1>4. IInv'
  BY DoLoopOK DEF SInv
<1>5. CASE act.obj \in dead
  <2>1. queue' = rest /\ mem' = mem /\ UNCHANGED groups
    BY <1>2, <1>5 DEF DoLoop
  <2>2. Given' = Given
    BY <1>3, <2>1 DEF Given, Steady
  <2>3. Filed'
    BY <1>1, <1>3, <2>1, <2>2, FiledSame
  <2>4. OnceOK'
    BY <1>1, <1>2, <1>3, <2>1, OnceLess
  <2> QED BY <1>1, <1>3, <1>4, <2>3, <2>4 DEF SInv, Steady
<1>6. CASE act.obj \notin dead /\ act.tag = "INSERT"
  <2>1. Enter(act.obj, rest)
    BY <1>2, <1>6 DEF DoLoop
  <2>2. act.obj \in above
    BY <1>1, <1>2, <1>6 DEF WaitOK
  <2>3. act.obj \notin mem /\ act \notin Elems(rest) /\ act = Action("INSERT", act.obj)
    <3>1. act.obj \notin mem /\ Single(queue, act) /\ act = Action("INSERT", act.obj)
      BY <1>1, <1>2, <1>3, <1>6, <2>2 DEF OnceOK
    <3> QED BY <1>1, <1>2, <3>1, SingleTail
  <2>4. Filed'
    BY <1>1, <1>3, <2>1, <2>3, EnterFiles
  <2>5. \A p \in above \ {act.obj} : Action("INSERT", p) \in Elems(rest) =>
                                       p \notin mem /\ Single(rest, Action("INSERT", p))
    BY <1>1, <1>2, SingleTail DEF OnceOK
  <2>6. OnceOK'
    BY <1>1, <1>3, <2>1, <2>3, <2>5, EnterOnce
  <2> QED BY <1>1, <1>3, <1>4, <2>4, <2>6 DEF SInv, Steady
<1>7. CASE act.obj \notin dead /\ act.tag = "RETRACT"
  <2>1. Leave(act.obj, rest)
    BY <1>2, <1>7 DEF DoLoop
  <2>2. T[act.obj] <= newest - Window
    BY <1>1, <1>2, <1>7 DEF WaitOK
  <2>3. Filed'
    BY <1>1, <1>3, <2>1, <2>2, OldIsUnedited, LeaveFiles
  <2>4. queue' = rest /\ mem' \subseteq mem
    BY <2>1 DEF Leave, TimerRetract
  <2>5. OnceOK'
    BY <1>1, <1>2, <1>3, <2>4, OnceLess
  <2> QED BY <1>1, <1>3, <1>4, <2>3, <2>5 DEF SInv, Steady
<1> QED BY <1>3, <1>5, <1>6, <1>7

(* A new match.                                                            *)
LEMMA MatchFiles ==
  ASSUME Settled, SInv, NEW o \in Obj, Match(o)
  PROVE  SInv'
<1>1. /\ TypeOK /\ Filed /\ Given \subseteq Obj /\ IsFiniteSet(above) /\ above \subseteq Obj
      /\ queue \in Seq(Waiting) /\ newest \in Nat
  BY GivenIs DEF SInv, TypeOK
<1>2. /\ above' = above \union {o} /\ o \notin above \union dead /\ Steady
      /\ newest' = IF T[o] > newest THEN T[o] ELSE newest
  BY DEF Match, Steady
<1>3. IInv' /\ IsFiniteSet(above') /\ val' \in [Obj -> Value]
  BY <1>1, <1>2, MatchOK, FS_AddElement DEF SInv, Steady
<1>4. \A e \in Edited \intersect Obj : newest' - Window < T[e]
  BY <1>2 DEF Settled, SInv
<1>5. CASE timed
  <2>1. Enter(o, queue) /\ open = {} /\ OnceOK /\ WaitOK /\ mem \subseteq above /\ Held
    BY <1>5, GivenIs DEF Match, SInv, IInv
  <2>2. o \notin mem /\ Action("INSERT", o) \notin Elems(queue)
    BY <1>2, <2>1 DEF WaitOK, Action
  <2>3. Filed'
    BY <1>1, <1>2, <1>5, <2>1, <2>2, EnterFiles
  <2>4. OnceOK'
    <3>1. \A p \in above \ {o} : Action("INSERT", p) \in Elems(queue) =>
                                   p \notin mem /\ Single(queue, Action("INSERT", p))
      BY <2>1 DEF OnceOK
    <3> QED BY <1>1, <1>2, <2>1, <2>2, <3>1, EnterOnce
  <2> QED BY <1>2, <1>3, <1>4, <1>5, <2>1, <2>3, <2>4 DEF SInv, Steady
<1>6. CASE ~timed
  <2>1. /\ Home[o] \in open /\ Joins(o) /\ Given = above /\ Given' = above'
        /\ \A p \in Obj : Context(p) = Home[p]
    BY <1>2, <1>6, GivenIs DEF Match, Given, Steady, Context
  <2>2. Filed'
    <3>1. CASE Siblings(o) = {}
      <4>1. PICK n \in Flips : SetModify(Context(o), Null, o, val, val, val, n)
        BY <2>1, <3>1 DEF Joins
      <4>2. \A p \in Given : Context(p) # Context(o)
        BY <1>1, <1>2, <2>1, <3>1 DEF Siblings
      <4>3. o \notin Given /\ Context(o) \in open /\ Given' = Given \union {o}
        BY <1>2, <2>1
      <4> QED BY <1>1, <1>2, <4>1, <4>2, <4>3, GivenFirst
    <3>2. CASE Siblings(o) # {}
      <4>1. PICK n \in Flips : SetInsert(Context(o), o, val, n)
        BY <2>1, <3>2 DEF Joins
      <4>2. \E p \in Given : Context(p) = Context(o)
        BY <1>1, <2>1, <3>2 DEF Siblings
      <4>3. o \notin Given /\ Given' = Given \union {o}
        BY <1>2, <2>1
      <4> QED BY <1>1, <1>2, <4>1, <4>2, <4>3, GivenMore
    <3> QED BY <3>1, <3>2
  <2>3. \A p \in above' : Home[p] \in open'
    BY <1>2, <1>6, <2>1 DEF SInv, Steady
  <2> QED BY <1>2, <1>3, <1>4, <1>6, <2>2, <2>3 DEF SInv, Steady
<1> QED BY <1>5, <1>6

(* An object that no longer matches, or was deleted.                       *)
LEMMA LoseFiles ==
  ASSUME Settled, SInv, NEW o \in Obj, Lose(o),
         \/ dead' = dead \union {o}
         \/ dead' = dead /\ ~InsertWaits(o)
  PROVE  SInv'
<1>1. /\ TypeOK /\ Filed /\ Given \subseteq Obj /\ IsFiniteSet(Given) /\ IsFiniteSet(above)
      /\ queue \in Seq(Waiting)
  BY GivenIs DEF SInv, TypeOK
<1>2. /\ above' = above \ {o} /\ o \in above /\ o \notin Edited /\ Steady /\ newest' = newest
  BY DEF Lose, Steady, Settled
<1>3. IInv' /\ IsFiniteSet(above') /\ val' \in [Obj -> Value]
  BY <1>1, <1>2, LoseOK, FS_RemoveElement DEF SInv, Steady, Settled
<1>4. CASE timed
  <2>1. Leave(o, queue) /\ open = {} /\ OnceOK /\ Held
    BY <1>4, GivenIs DEF Lose, SInv
  <2>2. Filed'
    BY <1>1, <1>2, <1>4, <2>1, LeaveFiles
  <2>3. queue' = queue /\ mem' \subseteq mem
    BY <2>1 DEF Leave, TimerRetract
  <2>4. OnceOK'
    BY <1>1, <1>2, <2>1, <2>3, OnceLess
  <2> QED BY <1>2, <1>3, <1>4, <2>1, <2>2, <2>4 DEF SInv, Steady
<1>5. CASE ~timed
  <2>1. /\ Parts(o) /\ Given = above /\ Given' = above' /\ Home[o] \in open
        /\ \A p \in Obj : Context(p) = Home[p]
    BY <1>2, <1>5, GivenIs DEF Lose, Given, Steady, Context, SInv
  <2>2. Filed'
    <3>1. CASE Siblings(o) = {}
      <4>1. PICK n \in Flips : SetModify(Context(o), o, Null, val, val, val, n)
        BY <2>1, <3>1 DEF Parts
      <4>2. \A p \in Given \ {o} : Context(p) # Context(o)
        BY <1>1, <2>1, <3>1 DEF Siblings
      <4>3. o \in Given /\ Context(o) \in open /\ Given' = Given \ {o}
        BY <1>2, <2>1
      <4> QED BY <1>1, <1>2, <4>1, <4>2, <4>3, GivenLast
    <3>2. CASE Siblings(o) # {}
      <4>1. PICK n \in Flips : SetRetract(Context(o), o, val, n)
        BY <2>1, <3>2 DEF Parts
      <4>2. \E p \in Given \ {o} : Context(p) = Context(o)
        BY <1>1, <2>1, <3>2 DEF Siblings
      <4>3. o \in Given /\ Given' = Given \ {o}
        BY <1>2, <2>1
      <4> QED BY <1>1, <1>2, <4>1, <4>2, <4>3, GivenLess
    <3> QED BY <3>1, <3>2
  <2>3. \A p \in above' : Home[p] \in open'
    BY <1>2, <1>5 DEF SInv, Steady
  <2> QED BY <1>2, <1>3, <1>5, <2>2, <2>3 DEF SInv, Steady
<1> QED BY <1>4, <1>5

(* An object edited, with or without change of its key.                    *)
LEMMA ModifyFiles ==
  ASSUME Settled, SInv, NEW o \in Obj, NEW v \in Value, Modify(o, v)
  PROVE  SInv'
<1>1. /\ Filed /\ Given \subseteq Obj /\ IsFiniteSet(Given) /\ val \in [Obj -> Value]
  BY GivenIs DEF SInv
<1>2. /\ UNCHANGED <<mem, queue, walk, timed, above, open, dead, last, newest>>
      /\ o \in above /\ val' = [val EXCEPT ![o] = v]
      /\ IF KeyOf[v] = KeyOf[val[o]] THEN o \in Edited ELSE o \in Moved \ Samples
  BY DEF Modify
<1>3. /\ IInv' /\ IsFiniteSet(above') /\ val' \in [Obj -> Value] /\ Given' = Given
      /\ val'[o] = v /\ \A p \in Obj \ {o} : val'[p] = val[p]
  BY <1>1, <1>2, TimerUntouched DEF SInv, Given
<1>4. (timed => OnceOK') /\ (~timed => \A p \in above' : Home[p] \in open')
  BY <1>2 DEF SInv, OnceOK
<1>5. Filed'
  <2>1. CASE timed /\ o \notin mem
    <3>1. UNCHANGED groups /\ o \notin Given
      BY <2>1 DEF Modify, TimerKnows, Given
    <3>2. Contexts' = Contexts
      BY <1>2 DEF Contexts, Context
    <3>3. \A p \in Given : Keyed'[p] = Keyed[p]
      BY <1>1, <1>3, <3>1 DEF Keyed
    <3>4. Classes(Given, Contexts, Keyed', open) = Classes(Given, Contexts, Keyed, open)
      <4>1. PICK G, C, K, E, L : G = Given /\ C = Contexts /\ K = Keyed /\ E = open /\ L = Keyed'
        OBVIOUS
      <4>2. Classes(G, C, L, E) = Classes(G, C, K, E)
        BY <3>3, <4>1, ClassKeys
      <4> QED BY <4>1, <4>2
    <3> QED BY <1>1, <1>2, <1>3, <3>1, <3>2, <3>4 DEF Filed
  <2>2. CASE ~(timed /\ o \notin mem)
    <3>1. o \in Given
      BY <1>2, <2>2 DEF Given
    <3>2. PICK n \in Flips : SetModify(Context(o), o, o, val, val', val, n)
      BY <2>2 DEF Modify, TimerKnows
    <3>3. CASE KeyOf[v] = KeyOf[val[o]]
      <4>1. \A p \in Obj : KeyOf[val'[p]] = KeyOf[val[p]]
        BY <1>3, <3>3
      <4> QED BY <1>1, <1>2, <1>3, <3>1, <3>2, <3>3, <4>1, GivenEdited
    <3>4. CASE KeyOf[v] # KeyOf[val[o]]
      <4>1. o \notin Edited /\ o \notin Samples /\ KeyOf[val'[o]] # KeyOf[val[o]]
        BY <1>2, <1>3, <3>4 DEF Settled
      <4> QED BY <1>1, <1>2, <1>3, <3>1, <3>2, <4>1, GivenMoved
    <3> QED BY <3>3, <3>4
  <2> QED BY <2>1, <2>2
<1> QED BY <1>2, <1>3, <1>4, <1>5 DEF SInv

(* engine_refresh begins.                                                  *)
LEMMA EngineRefreshFiles ==
  ASSUME Settled, SInv, NEW time \in Refreshes, EngineRefresh(time)
  PROVE  SInv'
<1>1. /\ UNCHANGED <<groups, mem, queue, timed, above, open, dead, val, last>>
      /\ newest' = IF time > newest THEN time ELSE newest
  BY DEF EngineRefresh, StartRefresh
<1>2. IInv'
  BY EngineRefreshOK DEF SInv
<1>3. Filed'
  <2>1. Given' = Given /\ Steady
    BY <1>1 DEF Given, Steady
  <2> QED BY <1>1, <2>1, FiledSame DEF SInv
<1>4. (timed => OnceOK') /\ (~timed => \A p \in above' : Home[p] \in open')
  BY <1>1 DEF SInv, OnceOK
<1>5. \A e \in Edited \intersect Obj : newest' - Window < T[e]
  BY <1>1 DEF Settled, SInv
<1> QED BY <1>1, <1>2, <1>3, <1>4, <1>5 DEF SInv

(* Its walk takes an object out of the TIMER and of its set.               *)
LEMMA RefreshStepFiles ==
  ASSUME SInv, RefreshStep
  PROVE  SInv'
<1>1. /\ TypeOK /\ walk # NoWalk /\ timed /\ WaitOK /\ WalkOK /\ Held /\ OnceOK /\ open = {}
      /\ Filed /\ Given = mem /\ Given \subseteq Obj /\ IsFiniteSet(Given)
      /\ newest \in Nat /\ queue \in Seq(Waiting)
  BY GivenIs DEF SInv, IInv, RefreshStep, EndRefresh, WalkOn, TypeOK, Held
<1>2. UNCHANGED <<queue, timed, above, dead, open, val, newest>> /\ Steady
  BY DEF RefreshStep, EndRefresh, WalkOn, Steady
<1>3. IInv'
  BY RefreshStepOK DEF SInv
<1>4. mem' \subseteq mem /\ Filed'
  <2>1. CASE EndRefresh /\ UNCHANGED groups
    <3>1. mem' = mem
      BY <2>1 DEF EndRefresh
    <3>2. Given' = Given
      BY <1>2, <3>1 DEF Given
    <3> QED BY <1>1, <1>2, <2>1, <3>1, <3>2, FiledSame
  <2>2. CASE \E o \in mem, n \in Flips : WalkOn(o) /\ SetRetract(Some, o, val, n)
    <3>1. PICK o \in mem, n \in Flips : WalkOn(o) /\ SetRetract(Some, o, val, n)
      BY <2>2
    <3>2. mem' = mem \ {o} /\ o \in Obj
      BY <1>1, <3>1 DEF WalkOn
    <3>3. T[o] <= newest - Window
      BY <1>1, <3>1, WalksOld
    <3>4. o \notin Edited
      BY <3>2, <3>3, OldIsUnedited
    <3>5. Given' = Given \ {o} /\ o \in Given /\ SetRetract(Context(o), o, val, n)
      BY <1>1, <1>2, <3>1, <3>2 DEF Given, Context
    <3>6. Context(o) \in open => \E p \in Given \ {o} : Context(p) = Context(o)
      BY <1>1
    <3>7. Filed'
      BY <1>1, <1>2, <3>4, <3>5, <3>6, GivenLess
    <3> QED BY <3>2, <3>7
  <2> QED BY <2>1, <2>2 DEF RefreshStep
<1>5. OnceOK'
  BY <1>1, <1>2, <1>4, OnceLess
<1> QED BY <1>1, <1>2, <1>3, <1>4, <1>5 DEF SInv

(* A context opens and closes.                                             *)
LEMMA OpenFiles ==
  ASSUME SInv, NEW c, Open(c) \/ Close(c)
  PROVE  SInv'
<1>1. /\ UNCHANGED <<mem, queue, walk, timed, above, dead, val, last, newest>> /\ ~timed
  BY DEF Open, Close
<1>2. IInv'
  BY <1>1, TimerUntouched DEF SInv
<1>3. /\ Filed /\ Given = above /\ Given \subseteq Obj /\ Given' = Given
      /\ \A p \in Obj : Context(p) = Home[p]
      /\ \A p \in above : Home[p] \in open
  BY <1>1, GivenIs DEF SInv, Given, Context
<1>4. CASE Open(c)
  <2>1. c \notin open /\ open' = open \union {c}
        /\ groups' = SetCallInsert(groups, Found(groups, c, Null, val, val), c, Null, 1)
    BY <1>4 DEF Open
  <2>2. \A p \in Given : Context(p) # c
    BY <1>3, <2>1
  <2>3. Filed'
    BY <1>1, <1>3, <2>1, <2>2, Opens
  <2>4. \A p \in above' : Home[p] \in open'
    BY <1>1, <1>3, <2>1
  <2> QED BY <1>1, <1>2, <2>3, <2>4 DEF SInv
<1>5. CASE Close(c)
  <2>1. c \in open /\ open' = open \ {c} /\ (\A p \in above : Home[p] # c)
        /\ groups' = SetCallRetract(groups, Found(groups, c, Null, val, val), Null, 1)
    BY <1>5 DEF Close
  <2>2. \A p \in Given : Context(p) # c
    BY <1>3, <2>1
  <2>3. Filed'
    BY <1>1, <1>3, <2>1, <2>2, Closes
  <2>4. \A p \in above' : Home[p] \in open'
    BY <1>1, <1>3, <2>1
  <2> QED BY <1>1, <1>2, <2>3, <2>4 DEF SInv
<1> QED BY <1>4, <1>5

-----------------------------------------------------------------------------
(* The sets stay the classes, whatever enters, leaves and changes.         *)
LEMMA SetInvariance ==
  ASSUME Settled
  PROVE  Spec => []SInv
<1>1. Init => SInv
  <2> SUFFICES ASSUME Init PROVE SInv
    OBVIOUS
  <2>1. IInv
    <3>1. TypeOK
      BY FS_EmptySet DEF Init, TimerInit, TypeOK, NoWalk
    <3>2. WaitOK /\ LastOK /\ WalkOK
      BY DEF Init, TimerInit, WaitOK, LastOK, WalkOK, Elems
    <3> QED BY <3>1, <3>2 DEF IInv
  <2>2. Given = {} /\ groups = {} /\ open = {} /\ IsFiniteSet({})
    BY FS_EmptySet DEF Init, SetInit, TimerInit, Given
  <2>3. \A C, K : Classes({}, C, K, {}) = {}
    BY DEF Classes
  <2>4. Filed
    BY <2>2, <2>3 DEF Filed, Holds
  <2>5. \A e \in Edited \intersect Obj : newest - Window < T[e]
    <3>1. ASSUME NEW e \in Edited \intersect Obj PROVE newest - Window < T[e]
      <4>1. T[e] - Window < T[e] /\ T[e] \in Nat /\ Window \in Nat /\ newest = 0
        BY Timed DEF Settled, Init
      <4> QED BY <4>1
    <3> QED BY <3>1
  <2>6. val \in [Obj -> Value] /\ above = {} /\ OnceOK
    BY DEF Init, OnceOK
  <2> QED BY <2>1, <2>2, <2>4, <2>5, <2>6 DEF SInv
<1>2. ASSUME SInv, [Next]_vars PROVE SInv'
  <2>1. CASE UNCHANGED vars
    <3>1. IInv' /\ Filed' /\ (timed => OnceOK')
      <4>1. UNCHANGED <<mem, queue, walk, timed, above, dead, last, newest>>
            /\ UNCHANGED groups /\ Steady /\ Given' = Given
        BY <2>1 DEF vars, Steady, Given
      <4>2. IInv'
        BY <1>2, <4>1, TimerUntouched DEF SInv
      <4>3. Filed'
        BY <1>2, <4>1, FiledSame DEF SInv
      <4>4. timed => OnceOK'
        BY <1>2, <4>1 DEF SInv, OnceOK
      <4> QED BY <4>2, <4>3, <4>4
    <3> QED BY <1>2, <2>1, <3>1 DEF SInv, vars
  <2>2. ASSUME NEW c \in Ctx, Open(c) \/ Close(c) PROVE SInv'
    BY <1>2, <2>2, OpenFiles
  <2>3. ASSUME NEW o \in Obj, Unmatch(o) \/ Delete(o) PROVE SInv'
    BY <1>2, <2>3, LoseFiles DEF Unmatch, Delete, Settled
  <2>4. ASSUME NEW o \in Obj, NEW v \in Value, Modify(o, v) PROVE SInv'
    BY <1>2, <2>4, ModifyFiles
  <2>5. ASSUME NEW o \in Obj, Match(o) PROVE SInv'
    BY <1>2, <2>5, MatchFiles
  <2>6. ASSUME NEW time \in Refreshes, EngineRefresh(time) PROVE SInv'
    BY <1>2, <2>6, EngineRefreshFiles
  <2> QED BY <1>2, <2>1, <2>2, <2>3, <2>4, <2>5, <2>6, DoLoopFiles, RefreshStepFiles DEF Next
<1> QED BY <1>1, <1>2, PTL DEF Spec

(* Node::set_call keeps one set for each context and key, with what was    *)
(* given to it and nothing else, under the hypotheses named above.         *)
THEOREM SetsKept == ASSUME Settled PROVE Spec => []SetsFollow
<1>1. SInv => SetsFollow
  <2> SUFFICES ASSUME SInv PROVE SetsFollow
    OBVIOUS
  <2>1. Filed /\ Given \subseteq Obj /\ (timed => open = {})
        /\ (~timed => \A p \in Obj : Context(p) = Home[p])
    BY GivenIs DEF SInv, Context
  <2>2. Expected = Classes(Given, Contexts, Keyed, open)
    <3>1. \A o \in Given : {p \in Given : Context(p) = Context(o) /\ KeyOf[val[p]] = KeyOf[val[o]]}
                             = ClassOf(Given, Contexts, Keyed, o)
      BY <2>1, Looked DEF ClassOf
    <3>2. {d \in open : \A o \in Given : Home[o] # d} = {d \in open : \A o \in Given : Contexts[o] # d}
      BY <2>1, Looked
    <3>3. \A o \in Given : Contexts[o] = Context(o)
      BY <2>1, Looked
    <3>4. {[ctx |-> Context(o), objs |-> {p \in Given : Context(p) = Context(o)
                                             /\ KeyOf[val[p]] = KeyOf[val[o]]}] : o \in Given}
            = {Class(Contexts[o], ClassOf(Given, Contexts, Keyed, o)) : o \in Given}
      BY <3>1, <3>3 DEF Class
    <3>5. {[ctx |-> c, objs |-> {}] : c \in {d \in open : \A o \in Given : Home[o] # d}}
            = {Class(c, {}) : c \in {d \in open : \A o \in Given : Contexts[o] # d}}
      BY <3>2 DEF Class
    <3> QED BY <3>4, <3>5 DEF Expected, Classes
  <2>3. PICK X : X = Expected /\ Holds(groups, X)
    BY <2>1, <2>2 DEF Filed
  <2>4. {View(g) : g \in groups} = X /\ IsFiniteSet(groups)
    BY <2>3 DEF Holds
  <2>5. {[ctx |-> g.ctx, objs |-> DOMAIN g.elems] : g \in groups} = X
    BY <2>4 DEF View, Class
  <2>6. Cardinality(groups) = Cardinality(X)
    <3> DEFINE f == [g \in groups |-> View(g)]
    <3>1. f \in Bijection(groups, X)
      <4>1. f \in [groups -> X] /\ \A g, h \in groups : f[g] = f[h] => g = h
        BY <2>3 DEF Holds
      <4>2. \A x \in X : \E g \in groups : f[g] = x
        BY <2>3 DEF Holds
      <4> QED BY <4>1, <4>2 DEF Bijection, Injection, Surjection, IsInjective
    <3>2. ExistsBijection(groups, X)
      BY <3>1 DEF ExistsBijection
    <3> QED BY <2>4, <3>2, FS_Bijection
  <2> QED BY <2>3, <2>5, <2>6 DEF SetsFollow
<1>2. Spec => []SInv
  BY SetInvariance
<1> QED BY <1>1, <1>2, PTL
=============================================================================
