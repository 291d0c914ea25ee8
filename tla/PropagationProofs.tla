-------------------------- MODULE PropagationProofs --------------------------
(***************************************************************************)
(* A modification through any net.  The links are numbered upwards, so     *)
(* what is said of a link may suppose it of those it leads to: a claim     *)
(* that fails for a link fails for a last one, and it does not.            *)
(***************************************************************************)
EXTENDS Propagation, SequenceTheorems, WellFoundedInduction, TLAPS

(* A set of naturals that is not empty has a least element.                *)
LEMMA LeastNat ==
  ASSUME NEW S \in SUBSET Nat, S # {}
  PROVE  \E k \in S : \A j \in S : k <= j
<1>1. PICK k \in S : \A j \in S : ~(<<j, k>> \in OpToRel(<, Nat))
  BY NatLessThanWellFounded, WFMin, Zenon
<1>2. \A j \in S : ~(j < k)
  BY <1>1 DEF OpToRel
<1> QED BY <1>2

(* A set of links, NULL among them or not, has a last one.                 *)
LEMMA LastLink ==
  ASSUME NEW S \in SUBSET List, S # {}
  PROVE  \E k \in S : \A j \in S : j <= k
<1>0. Links \in Nat /\ S \subseteq 0..Links
  BY NetAssumption DEF List
<1> DEFINE R == {m \in Nat : \E k \in S : m = Links - k}
<1>1. \A k \in S : Links - k \in R
  BY <1>0
<1>2. PICK m \in R : \A j \in R : m <= j
  BY <1>1, LeastNat
<1>3. PICK k \in S : m = Links - k
  OBVIOUS
<1>4. \A j \in S : Links - k <= Links - j
  BY <1>1, <1>2, <1>3
<1> QED BY <1>0, <1>4

-----------------------------------------------------------------------------
(* Where the list of a link and the list of its child go on.               *)
LEMMA Onwards ==
  ASSUME NEW l \in Link
  PROVE  /\ l \in List /\ l # 0 /\ To[l] \in Node /\ From[l] \in Node /\ By[l] \in Side
         /\ After[l] \in List /\ Fork[To[l]] \in List
         /\ After[l] # 0 => /\ After[l] \in Link /\ l < After[l]
                            /\ From[After[l]] = From[l]
         /\ Fork[To[l]] # 0 => /\ Fork[To[l]] \in Link /\ l < Fork[To[l]]
                               /\ From[Fork[To[l]]] = To[l]
<1>1. l \in List /\ l # 0
  BY NetAssumption DEF Link, List
<1>2. To[l] \in Node /\ From[l] \in Node /\ By[l] \in Side
  BY NetAssumption
<1>3. After[l] \in List /\ Fork[To[l]] \in List
  BY <1>2, NetAssumption
<1>4. After[l] # 0 => After[l] \in Link /\ l < After[l] /\ From[After[l]] = From[l]
  BY <1>3, NetAssumption, ListAssumption DEF Link, List
<1>5. ASSUME Fork[To[l]] # 0
      PROVE  Fork[To[l]] \in Link /\ l < Fork[To[l]] /\ From[Fork[To[l]]] = To[l]
  <2>1. Fork[To[l]] \in Link
    BY <1>3, <1>5, NetAssumption DEF Link, List
  <2>2. From[Fork[To[l]]] = To[l]
    BY <1>2, <1>5, ListAssumption
  <2> QED BY <2>1, <2>2, TreeAssumption
<1> QED BY <1>1, <1>2, <1>3, <1>4, <1>5

(* The last m links, and NULL.                                             *)
Lasts(m) == {l \in List : l = 0 \/ l + m > Links}

LEMMA LastsGrow ==
  ASSUME NEW m \in Nat, m # 0
  PROVE  /\ \A l \in Lasts(m - 1) : l \in Lasts(m)
         /\ \A l \in Lasts(m) : l # 0 => /\ After[l] \in Lasts(m - 1)
                                         /\ Fork[To[l]] \in Lasts(m - 1)
<1>1. \A l \in Lasts(m - 1) : l \in Lasts(m)
  BY NetAssumption DEF Lasts, List
<1>2. ASSUME NEW l \in Lasts(m), l # 0, NEW k \in List, k = 0 \/ l < k
      PROVE  k \in Lasts(m - 1)
  BY <1>2, NetAssumption DEF Lasts, List
<1>3. \A l \in Lasts(m) : l # 0 => l \in Link
  BY NetAssumption DEF Lasts, List, Link
<1>4. ASSUME NEW l \in Lasts(m), l # 0
      PROVE  After[l] \in Lasts(m - 1) /\ Fork[To[l]] \in Lasts(m - 1)
  <2>1. /\ After[l] \in List /\ (After[l] = 0 \/ l < After[l])
        /\ Fork[To[l]] \in List /\ (Fork[To[l]] = 0 \/ l < Fork[To[l]])
    BY <1>3, <1>4, Onwards
  <2> QED BY <1>2, <1>4, <2>1
<1> QED BY <1>1, <1>4

LEMMA AllLasts == Lasts(Links) = List /\ Lasts(0) = {0}
BY NetAssumption DEF Lasts, List

(* The recursion of Scope has a solution.                                  *)
ScopeTurn(lets, tag, f, l) ==
  IF l = 0 THEN {} ELSE f[After[l]] \union MarkedBy(lets, tag, l, f[Fork[To[l]]])

LEMMA ScopeExists ==
  ASSUME NEW lets, NEW tag
  PROVE  \E f : f = [l \in List |-> ScopeTurn(lets, tag, f, l)]
<1> DEFINE Partly(m) == \E f : f = [l \in Lasts(m) |-> ScopeTurn(lets, tag, f, l)]
           S == {m \in Nat : ~Partly(m)}
<1>1. ASSUME S # {} PROVE FALSE
  <2>1. PICK k \in S : \A m \in S : k <= m
    BY <1>1, LeastNat
  <2>2. CASE k = 0
    <3> DEFINE f == [l \in Lasts(0) |-> {}]
    <3>1. \A l \in Lasts(0) : ScopeTurn(lets, tag, f, l) = {}
      BY AllLasts DEF ScopeTurn
    <3>2. f = [l \in Lasts(0) |-> ScopeTurn(lets, tag, f, l)]
      BY <3>1
    <3> HIDE DEF f
    <3>3. Partly(0)
      BY <3>2
    <3> QED BY <2>2, <3>3
  <2>3. CASE k # 0
    <3>1. k - 1 \in Nat /\ k - 1 \notin S
      BY <2>1, <2>3
    <3>2. PICK g : g = [l \in Lasts(k - 1) |-> ScopeTurn(lets, tag, g, l)]
      BY <3>1
    <3> DEFINE f == [l \in Lasts(k) |-> ScopeTurn(lets, tag, g, l)]
    <3>3. \A l \in Lasts(k - 1) : f[l] = g[l]
      BY <2>3, <3>2, LastsGrow
    <3>4. \A l \in Lasts(k) : f[l] = ScopeTurn(lets, tag, g, l)
      OBVIOUS
    <3>5. f = [l \in Lasts(k) |-> f[l]]
      OBVIOUS
    <3> HIDE DEF f
    <3>6. \A l \in Lasts(k) : ScopeTurn(lets, tag, f, l) = ScopeTurn(lets, tag, g, l)
      BY <2>3, <3>3, LastsGrow DEF ScopeTurn
    <3>7. f = [l \in Lasts(k) |-> ScopeTurn(lets, tag, f, l)]
      BY <3>4, <3>5, <3>6
    <3>8. Partly(k)
      BY <3>7
    <3> QED BY <2>1, <3>8
  <2> QED BY <2>2, <2>3
<1>2. Partly(Links)
  BY <1>1, NetAssumption
<1> QED BY <1>2, AllLasts

LEMMA ScopeIs ==
  ASSUME NEW lets, NEW tag
  PROVE  /\ Scope(lets, tag)[0] = {}
         /\ \A l \in Link : Scope(lets, tag)[l] =
               Scope(lets, tag)[After[l]] \union
               MarkedBy(lets, tag, l, Scope(lets, tag)[Fork[To[l]]])
<1> DEFINE scope == CHOOSE f : f = [l \in List |-> ScopeTurn(lets, tag, f, l)]
<1>1. scope = [l \in List |-> ScopeTurn(lets, tag, scope, l)]
  BY ScopeExists, Zenon
<1>2. Scope(lets, tag) = scope
  BY Zenon DEF Scope, ScopeTurn
<1> HIDE DEF scope
<1>3. \A l \in List : scope[l] = ScopeTurn(lets, tag, scope, l)
  BY <1>1, Zenon
<1>4. 0 \in List /\ \A l \in Link : l \in List /\ l # 0
  BY NetAssumption DEF List, Link
<1> QED BY <1>2, <1>3, <1>4, Zenon DEF ScopeTurn

(* The recursion of Visit has a solution.                                  *)
VisitTurn(lets, f, l) ==
  [way \in Way |-> [w \in Walk |->
     IF l = 0 THEN w ELSE f[After[l]][way][Turn(lets, l, way, w, f[Fork[To[l]]])]]]

LEMMA VisitExists ==
  ASSUME NEW lets
  PROVE  \E f : f = [l \in List |-> VisitTurn(lets, f, l)]
<1> DEFINE Partly(m) == \E f : f = [l \in Lasts(m) |-> VisitTurn(lets, f, l)]
           S == {m \in Nat : ~Partly(m)}
<1>1. ASSUME S # {} PROVE FALSE
  <2>1. PICK k \in S : \A m \in S : k <= m
    BY <1>1, LeastNat
  <2>2. CASE k = 0
    <3> DEFINE f == [l \in Lasts(0) |-> [way \in Way |-> [w \in Walk |-> w]]]
    <3>1. \A l \in Lasts(0) : VisitTurn(lets, f, l) = [way \in Way |-> [w \in Walk |-> w]]
      BY AllLasts DEF VisitTurn
    <3>2. f = [l \in Lasts(0) |-> VisitTurn(lets, f, l)]
      BY <3>1
    <3> HIDE DEF f
    <3>3. Partly(0)
      BY <3>2
    <3> QED BY <2>2, <3>3
  <2>3. CASE k # 0
    <3>1. k - 1 \in Nat /\ k - 1 \notin S
      BY <2>1, <2>3
    <3>2. PICK g : g = [l \in Lasts(k - 1) |-> VisitTurn(lets, g, l)]
      BY <3>1
    <3> DEFINE f == [l \in Lasts(k) |-> VisitTurn(lets, g, l)]
    <3>3. \A l \in Lasts(k - 1) : f[l] = g[l]
      BY <2>3, <3>2, LastsGrow
    <3>4. \A l \in Lasts(k) : f[l] = VisitTurn(lets, g, l)
      OBVIOUS
    <3>5. f = [l \in Lasts(k) |-> f[l]]
      OBVIOUS
    <3> HIDE DEF f
    <3>6. \A l \in Lasts(k) : VisitTurn(lets, f, l) = VisitTurn(lets, g, l)
      BY <2>3, <3>3, LastsGrow DEF VisitTurn
    <3>7. f = [l \in Lasts(k) |-> VisitTurn(lets, f, l)]
      BY <3>4, <3>5, <3>6
    <3>8. Partly(k)
      BY <3>7
    <3> QED BY <2>1, <3>8
  <2> QED BY <2>2, <2>3
<1>2. Partly(Links)
  BY <1>1, NetAssumption
<1> QED BY <1>2, AllLasts

LEMMA VisitIs ==
  ASSUME NEW lets, NEW way \in Way, NEW w \in Walk
  PROVE  /\ Visit(lets)[0][way][w] = w
         /\ \A l \in Link : Visit(lets)[l][way][w] =
               Visit(lets)[After[l]][way][Turn(lets, l, way, w, Visit(lets)[Fork[To[l]]])]
<1> DEFINE visit == CHOOSE f : f = [l \in List |-> VisitTurn(lets, f, l)]
<1>1. visit = [l \in List |-> VisitTurn(lets, visit, l)]
  BY VisitExists, Zenon
<1>2. Visit(lets) = visit
  BY Zenon DEF Visit, VisitTurn
<1> HIDE DEF visit
<1>3. \A l \in List : visit[l] = VisitTurn(lets, visit, l)
  BY <1>1, Zenon
<1>4. 0 \in List /\ \A l \in Link : l \in List /\ l # 0
  BY NetAssumption DEF List, Link
<1>5. ASSUME NEW l \in List
      PROVE  visit[l][way][w] =
               IF l = 0 THEN w ELSE visit[After[l]][way][Turn(lets, l, way, w, visit[Fork[To[l]]])]
  <2>1. visit[l] = VisitTurn(lets, visit, l)
    BY <1>3
  <2>2. VisitTurn(lets, visit, l)[way] = [u \in Walk |->
          IF l = 0 THEN u ELSE visit[After[l]][way][Turn(lets, l, way, u, visit[Fork[To[l]]])]]
    BY Zenon DEF VisitTurn
  <2> QED BY <2>1, <2>2, Zenon
<1> QED BY <1>2, <1>4, <1>5, Zenon

-----------------------------------------------------------------------------
(* The link into a node whose list is not empty, but the root, is before   *)
(* those of its list.                                                      *)
LEMMA IntoIs ==
  ASSUME NEW l \in Link, From[l] # Root
  PROVE  Into(From[l]) \in Link /\ To[Into(From[l])] = From[l] /\ Into(From[l]) < l
<1>1. \E m \in Link : To[m] = From[l]
  BY TreeAssumption
<1>2. Into(From[l]) \in Link /\ To[Into(From[l])] = From[l]
  BY <1>1, Zenon DEF Into
<1> QED BY <1>2, TreeAssumption

(* The recursion of Come has a solution.                                   *)
ComeTurn(lets, f, l) ==
  IF From[l] = Root THEN Tags ELSE Left(lets, From[l], f[Into(From[l])])

(* The first m links.                                                      *)
Firsts(m) == {l \in Link : l <= m}

LEMMA FirstsGrow ==
  ASSUME NEW m \in Nat, m # 0
  PROVE  /\ \A l \in Firsts(m - 1) : l \in Firsts(m)
         /\ \A l \in Firsts(m) : From[l] # Root => Into(From[l]) \in Firsts(m - 1)
<1>1. Link \subseteq Nat
  BY NetAssumption DEF Link
<1>2. \A l \in Firsts(m - 1) : l \in Firsts(m)
  BY <1>1 DEF Firsts
<1>3. ASSUME NEW l \in Firsts(m), From[l] # Root
      PROVE  Into(From[l]) \in Firsts(m - 1)
  <2>1. l \in Link /\ l <= m
    BY DEF Firsts
  <2>2. PICK k \in Link : k = Into(From[l]) /\ k < l
    BY <1>3, <2>1, IntoIs
  <2>3. k <= m - 1
    BY <1>1, <2>1, <2>2
  <2> QED BY <2>2, <2>3 DEF Firsts
<1> QED BY <1>2, <1>3

LEMMA ComeExists ==
  ASSUME NEW lets
  PROVE  \E f : f = [l \in Link |-> ComeTurn(lets, f, l)]
<1> DEFINE Partly(m) == \E f : f = [l \in Firsts(m) |-> ComeTurn(lets, f, l)]
           S == {m \in Nat : ~Partly(m)}
<1>0. Firsts(0) = {} /\ Firsts(Links) = Link
  BY NetAssumption DEF Firsts, Link
<1>1. ASSUME S # {} PROVE FALSE
  <2>1. PICK k \in S : \A m \in S : k <= m
    BY <1>1, LeastNat
  <2>2. CASE k = 0
    <3> DEFINE f == [l \in Firsts(0) |-> {}]
    <3>1. \A l \in Firsts(0) : FALSE
      BY <1>0
    <3>2. f = [l \in Firsts(0) |-> ComeTurn(lets, f, l)]
      BY <3>1
    <3> HIDE DEF f
    <3>3. Partly(0)
      BY <3>2
    <3> QED BY <2>2, <3>3
  <2>3. CASE k # 0
    <3>1. k - 1 \in Nat /\ k - 1 \notin S
      BY <2>1, <2>3
    <3>2. PICK g : g = [l \in Firsts(k - 1) |-> ComeTurn(lets, g, l)]
      BY <3>1
    <3> DEFINE f == [l \in Firsts(k) |-> ComeTurn(lets, g, l)]
    <3>3. \A l \in Firsts(k - 1) : f[l] = g[l]
      BY <2>3, <3>2, FirstsGrow
    <3>4. \A l \in Firsts(k) : f[l] = ComeTurn(lets, g, l)
      OBVIOUS
    <3>5. f = [l \in Firsts(k) |-> f[l]]
      OBVIOUS
    <3> HIDE DEF f
    <3>6. \A l \in Firsts(k) : From[l] # Root => Into(From[l]) \in Firsts(k - 1)
      BY <2>3, FirstsGrow
    <3>7. \A l \in Firsts(k) : ComeTurn(lets, f, l) = ComeTurn(lets, g, l)
      BY <3>3, <3>6 DEF ComeTurn
    <3>8. f = [l \in Firsts(k) |-> ComeTurn(lets, f, l)]
      BY <3>4, <3>5, <3>7
    <3>9. Partly(k)
      BY <3>8
    <3> QED BY <2>1, <3>9
  <2> QED BY <2>2, <2>3
<1>2. Partly(Links)
  BY <1>1, NetAssumption
<1> QED BY <1>0, <1>2

LEMMA ComeIs ==
  ASSUME NEW lets, NEW l \in Link
  PROVE  Come(lets)[l] = IF From[l] = Root THEN Tags
                         ELSE Left(lets, From[l], Come(lets)[Into(From[l])])
<1> DEFINE come == CHOOSE f : f = [m \in Link |-> ComeTurn(lets, f, m)]
<1>1. come = [m \in Link |-> ComeTurn(lets, come, m)]
  BY ComeExists, Zenon
<1>2. Come(lets) = come
  BY Zenon DEF Come, ComeTurn
<1> HIDE DEF come
<1> QED BY <1>1, <1>2, Zenon DEF ComeTurn

(* What comes along the next link of a list, and along those of the child. *)
LEMMA ComeOn ==
  ASSUME NEW lets, NEW l \in Link
  PROVE  /\ After[l] # 0 => Come(lets)[After[l]] = Come(lets)[l]
         /\ Fork[To[l]] # 0 => Come(lets)[Fork[To[l]]] = Left(lets, To[l], Come(lets)[l])
<1>1. ASSUME After[l] # 0 PROVE Come(lets)[After[l]] = Come(lets)[l]
  <2>1. PICK a \in Link : a = After[l] /\ From[a] = From[l]
    BY <1>1, Onwards
  <2> QED BY <2>1, ComeIs
<1>2. ASSUME Fork[To[l]] # 0
      PROVE  Come(lets)[Fork[To[l]]] = Left(lets, To[l], Come(lets)[l])
  <2>1. PICK b \in Link : b = Fork[To[l]] /\ From[b] = To[l]
    BY <1>2, Onwards
  <2>2. From[b] # Root
    BY <2>1, TreeAssumption
  <2>3. Kind[To[l]] # "inter"
    BY <1>2, Onwards, TreeAssumption
  <2>4. Into(From[b]) = l
    BY <2>1, <2>2, <2>3, IntoIs, TreeAssumption
  <2> QED BY <2>1, <2>2, <2>4, ComeIs
<1> QED BY <1>1, <1>2

LEMMA ComeTags ==
  ASSUME NEW lets \in [Test -> SUBSET Tags], NEW l \in Link
  PROVE  Come(lets)[l] \subseteq Tags
<1> DEFINE S == {m \in Nat : m \in Link /\ ~(Come(lets)[m] \subseteq Tags)}
<1>1. ASSUME S # {} PROVE FALSE
  <2>1. PICK k \in S : \A m \in S : k <= m
    BY <1>1, LeastNat
  <2>2. From[k] # Root
    BY <2>1, ComeIs
  <2>3. PICK m \in Link : m = Into(From[k]) /\ m < k
    BY <2>1, <2>2, IntoIs
  <2>4. m \in Nat
    BY NetAssumption DEF Link
  <2>5. Come(lets)[m] \subseteq Tags
    BY <2>1, <2>3, <2>4
  <2>6. Come(lets)[k] = Left(lets, From[k], Come(lets)[m])
    BY <2>1, <2>2, <2>3, ComeIs
  <2>7. Left(lets, From[k], Come(lets)[m]) \subseteq Tags
    BY <2>5 DEF Left
  <2> QED BY <2>1, <2>6, <2>7
<1>2. l \in Nat
  BY NetAssumption DEF Link
<1> QED BY <1>1, <1>2

-----------------------------------------------------------------------------
(* The links of the net from l on: those of its list and all below.        *)
Closed(C) == \A l \in C : /\ After[l] # 0 => After[l] \in C
                          /\ Fork[To[l]] # 0 => Fork[To[l]] \in C

Sub(l) == {k \in Link : l # 0 /\ \A C \in SUBSET Link : l \in C /\ Closed(C) => k \in C}

LEMMA SubLeast ==
  ASSUME NEW l \in Link, NEW C \in SUBSET Link, l \in C, Closed(C), NEW k \in Sub(l)
  PROVE  k \in C
BY DEF Sub

LEMMA SubClosed ==
  ASSUME NEW l \in Link
  PROVE  Sub(l) \subseteq Link /\ l \in Sub(l) /\ Closed(Sub(l))
<1>1. l # 0 /\ l \in Sub(l) /\ Sub(l) \subseteq Link
  BY Onwards DEF Sub
<1>2. ASSUME NEW k \in Sub(l), NEW m \in Link,
             \A C \in SUBSET Link : k \in C /\ Closed(C) => m \in C
      PROVE  m \in Sub(l)
  BY <1>1, <1>2 DEF Sub
<1>3. ASSUME NEW k \in Sub(l) PROVE After[k] # 0 => After[k] \in Sub(l)
  BY <1>1, <1>2, Onwards DEF Closed
<1>4. ASSUME NEW k \in Sub(l) PROVE Fork[To[k]] # 0 => Fork[To[k]] \in Sub(l)
  BY <1>1, <1>2, Onwards DEF Closed
<1> QED BY <1>1, <1>3, <1>4 DEF Closed

LEMMA SubNone == Sub(0) = {}
BY DEF Sub

LEMMA SubOnwards ==
  ASSUME NEW l \in Link, NEW k \in Sub(l)
  PROVE  k \in Link /\ l <= k
<1> DEFINE C == {m \in Link : l <= m}
<1>0. Link \subseteq Nat
  BY NetAssumption DEF Link
<1>1. C \subseteq Link /\ l \in C
  BY <1>0
<1>2. ASSUME NEW m \in C, NEW n \in Link, m < n PROVE n \in C
  BY <1>0, <1>2
<1>3. Closed(C)
  BY <1>1, <1>2, Onwards DEF Closed
<1>4. k \in C
  BY <1>1, <1>3, SubLeast
<1> QED BY <1>4

LEMMA SubWithin ==
  ASSUME NEW l \in Link, NEW k \in Sub(l), NEW m \in Sub(k)
  PROVE  m \in Sub(l)
BY SubClosed, SubLeast

(* But the first, each is led to from another. *)
LEMMA SubFrom ==
  ASSUME NEW l \in Link, NEW k \in Sub(l), k # l
  PROVE  \E m \in Sub(l) : k = After[m] \/ k = Fork[To[m]]
<1> DEFINE C == Sub(l) \ {k}
<1>1. SUFFICES ASSUME \A m \in Sub(l) : k # After[m] /\ k # Fork[To[m]]
               PROVE  FALSE
  OBVIOUS
<1>2. C \subseteq Link /\ l \in C
  BY SubClosed
<1>3. Closed(C)
  BY <1>1, SubClosed DEF Closed
<1>4. k \in C
  BY <1>2, <1>3, SubLeast
<1> QED BY <1>4

LEMMA SubParts ==
  ASSUME NEW l \in Link, NEW k
  PROVE  k \in Sub(l) <=> k = l \/ k \in Sub(After[l]) \/ k \in Sub(Fork[To[l]])
<1> DEFINE C == {m \in Link : m = l \/ m \in Sub(After[l]) \/ m \in Sub(Fork[To[l]])}
<1>1. \A m \in List : m = 0 \/ m \in Link
  BY NetAssumption DEF List, Link
<1>2. After[l] = 0 \/ After[l] \in Link
  BY Onwards
<1>3. Fork[To[l]] = 0 \/ Fork[To[l]] \in Link
  BY Onwards
<1>4. ASSUME NEW m \in C, NEW n \in Link, n = After[m] \/ n = Fork[To[m]], n # 0 PROVE n \in C
  <2>1. CASE m = l
    <3>1. n \in Sub(After[l]) \/ n \in Sub(Fork[To[l]])
      BY <1>4, <2>1, SubClosed
    <3> QED BY <3>1
  <2>2. CASE m \in Sub(After[l])
    <3>1. After[l] \in Link
      BY <1>2, <2>2, SubNone
    <3>2. n \in Sub(After[l])
      BY <1>4, <2>2, <3>1, SubClosed DEF Closed
    <3> QED BY <3>2
  <2>3. CASE m \in Sub(Fork[To[l]])
    <3>1. Fork[To[l]] \in Link
      BY <1>3, <2>3, SubNone
    <3>2. n \in Sub(Fork[To[l]])
      BY <1>4, <2>3, <3>1, SubClosed DEF Closed
    <3> QED BY <3>2
  <2> QED BY <2>1, <2>2, <2>3
<1>5. Closed(C)
  BY <1>4, Onwards DEF Closed
<1>6. k \in Sub(l) => k \in C
  BY <1>5, SubLeast
<1>7. After[l] # 0 => After[l] \in Sub(l)
  BY SubClosed DEF Closed
<1>8. Fork[To[l]] # 0 => Fork[To[l]] \in Sub(l)
  BY SubClosed DEF Closed
<1>9. k \in Sub(After[l]) => k \in Sub(l)
  BY <1>2, <1>7, SubWithin, SubNone
<1>10. k \in Sub(Fork[To[l]]) => k \in Sub(l)
  BY <1>3, <1>8, SubWithin, SubNone
<1>11. k = l => k \in Sub(l)
  BY SubClosed
<1> QED BY <1>6, <1>9, <1>10, <1>11

(* What a list goes on with and what is below its link have nothing in     *)
(* common: the first link that they had would be led to from two.          *)
LEMMA SubApart ==
  ASSUME NEW l \in Link
  PROVE  /\ l \notin Sub(After[l]) /\ l \notin Sub(Fork[To[l]])
         /\ \A k \in Sub(After[l]) : k \notin Sub(Fork[To[l]])
<1>0. Link \subseteq Nat
  BY NetAssumption DEF Link
<1>1. /\ After[l] = 0 \/ (After[l] \in Link /\ l < After[l] /\ From[After[l]] = From[l])
      /\ Fork[To[l]] = 0 \/ (Fork[To[l]] \in Link /\ l < Fork[To[l]] /\ From[Fork[To[l]]] = To[l])
  BY Onwards
<1>2. \A k \in Sub(After[l]) : k \in Link /\ After[l] \in Link /\ After[l] <= k /\ l < k
  BY <1>0, <1>1, SubOnwards, SubNone
<1>3. \A k \in Sub(Fork[To[l]]) : k \in Link /\ Fork[To[l]] \in Link /\ Fork[To[l]] <= k /\ l < k
  BY <1>0, <1>1, SubOnwards, SubNone
<1>4. l \notin Sub(After[l]) /\ l \notin Sub(Fork[To[l]])
  BY <1>0, <1>2, <1>3
<1> DEFINE S == {k \in Nat : k \in Sub(After[l]) /\ k \in Sub(Fork[To[l]])}
<1>5. ASSUME S # {} PROVE FALSE
  <2>1. PICK k \in S : \A m \in S : k <= m
    BY <1>5, LeastNat
  <2>2. PICK a \in Link, b \in Link : /\ a = After[l] /\ b = Fork[To[l]]
                                      /\ k \in Sub(a) /\ k \in Sub(b) /\ k \in Link
                                      /\ l < a /\ l < b /\ From[a] = From[l] /\ From[b] = To[l]
    <3>1. k \in Sub(After[l]) /\ k \in Sub(Fork[To[l]])
      BY <2>1
    <3>2. k \in Link /\ After[l] \in Link /\ Fork[To[l]] \in Link
      BY <1>2, <1>3, <3>1
    <3>3. After[l] # 0 /\ Fork[To[l]] # 0
      BY <3>2, Onwards
    <3>4. /\ l < After[l] /\ From[After[l]] = From[l]
          /\ l < Fork[To[l]] /\ From[Fork[To[l]]] = To[l]
      BY <1>1, <3>3
    <3> QED BY <3>1, <3>2, <3>4
  <2>3. a # b
    BY <2>2, Onwards, ListAssumption
  <2>4. ASSUME NEW m \in Link, k = After[m] \/ k = Fork[To[m]]
        PROVE  \A n \in Link : k = After[n] \/ k = Fork[To[n]] => n = m
    <3>1. k # 0
      BY <2>2, Onwards
    <3>2. ASSUME NEW n \in Link, NEW p \in Link, k = After[n] PROVE k # Fork[To[p]]
      BY <3>1, <3>2, Onwards, ListAssumption
    <3>3. ASSUME NEW n \in Link, NEW p \in Link, k = Fork[To[n]], k = Fork[To[p]] PROVE n = p
      <4>0. From[k] = To[n] /\ From[k] = To[p]
        BY <3>1, <3>3, Onwards
      <4>1. To[n] = To[p]
        BY <4>0
      <4>2. Kind[To[n]] # "inter"
        BY <3>1, <3>3, Onwards, TreeAssumption
      <4> QED BY <4>1, <4>2, TreeAssumption
    <3>4. ASSUME NEW n \in Link, NEW p \in Link, k = After[n], k = After[p] PROVE n = p
      BY <3>1, <3>4, ListAssumption
    <3> QED BY <2>4, <3>2, <3>3, <3>4
  <2>5. CASE k = a
    <3>1. PICK m \in Sub(b) : k = After[m] \/ k = Fork[To[m]]
      BY <2>2, <2>3, <2>5, SubFrom
    <3>2. m \in Link /\ b <= m
      BY <2>2, <3>1, SubOnwards
    <3>3. m = l
      BY <2>2, <2>4, <2>5, <3>1, <3>2
    <3> QED BY <1>0, <2>2, <3>2, <3>3
  <2>6. CASE k = b
    <3>1. PICK m \in Sub(a) : k = After[m] \/ k = Fork[To[m]]
      BY <2>2, <2>3, <2>6, SubFrom
    <3>2. m \in Link /\ a <= m
      BY <2>2, <3>1, SubOnwards
    <3>3. m = l
      BY <2>2, <2>4, <2>6, <3>1, <3>2
    <3> QED BY <1>0, <2>2, <3>2, <3>3
  <2>7. CASE k # a /\ k # b
    <3>1. PICK m \in Sub(a) : k = After[m] \/ k = Fork[To[m]]
      BY <2>2, <2>7, SubFrom
    <3>2. PICK n \in Sub(b) : k = After[n] \/ k = Fork[To[n]]
      BY <2>2, <2>7, SubFrom
    <3>3. m \in Link /\ n \in Link
      BY <2>2, <3>1, <3>2, SubOnwards
    <3>4. m = n
      BY <2>4, <3>1, <3>2, <3>3
    <3>5. m \in S
      BY <1>0, <2>2, <3>1, <3>2, <3>3, <3>4
    <3>6. m < k
      BY <3>1, <3>3, <2>2, Onwards
    <3> QED BY <1>0, <2>1, <3>3, <3>5, <3>6
  <2> QED BY <2>5, <2>6, <2>7
<1>6. \A k \in Sub(After[l]) : k \notin Sub(Fork[To[l]])
  BY <1>0, <1>2, <1>5
<1> QED BY <1>4, <1>6

(* All links are below the root. *)
LEMMA SubAll ==
  ASSUME NEW k \in Link
  PROVE  Fork[Root] \in Link /\ k \in Sub(Fork[Root])
<1>0. Link \subseteq Nat /\ Link \subseteq List
  BY NetAssumption DEF Link, List
<1> DEFINE S == {m \in Nat : m \in Link /\ ~(Fork[Root] \in Link /\ m \in Sub(Fork[Root]))}
<1>1. ASSUME S # {} PROVE FALSE
  <2>1. PICK m \in S : \A n \in S : m <= n
    BY <1>1, LeastNat
  <2>2. m \in Link
    OBVIOUS
  <2>3. ASSUME NEW n \in Link, m = After[n] \/ m = Fork[To[n]] PROVE FALSE
    <3>1. n < m /\ m # 0
      BY <2>2, <2>3, Onwards
    <3>2. n \notin S
      BY <1>0, <2>1, <3>1
    <3>3. Fork[Root] \in Link /\ n \in Sub(Fork[Root])
      BY <1>0, <3>2
    <3>4. m \in Sub(Fork[Root])
      BY <2>3, <3>1, <3>3, SubClosed DEF Closed
    <3> QED BY <2>1, <3>3, <3>4
  <2>4. m = Fork[From[m]]
    BY <2>2, <2>3, ListAssumption
  <2>5. From[m] = Root
    BY <2>2, <2>3, <2>4, TreeAssumption
  <2> QED BY <2>1, <2>2, <2>4, <2>5, SubClosed
<1> QED BY <1>0, <1>1

-----------------------------------------------------------------------------
(* The marks that are of a link: those of the node it leads to, of a join  *)
(* those of its side.                                                      *)
Own(l) == IF Kind[To[l]] = "inter" THEN {<<To[l], By[l]>>} ELSE {To[l]} \X (Tags \union Side)

Region(l) == UNION {Own(k) : k \in Sub(l)}

LEMMA OwnIs ==
  ASSUME NEW l \in Link, NEW s \in Own(l)
  PROVE  s \in Slot /\ s[1] = To[l] /\ s = <<To[l], s[2]>> /\ (Kind[To[l]] = "inter" => s[2] = By[l])
<1>1. CASE Kind[To[l]] = "inter"
  BY <1>1, Onwards DEF Own, Slot
<1>2. CASE Kind[To[l]] # "inter"
  BY <1>2, Onwards DEF Own, Slot
<1> QED BY <1>1, <1>2

LEMMA OwnApart ==
  ASSUME NEW k \in Link, NEW l \in Link, k # l, NEW s \in Own(k)
  PROVE  s \notin Own(l)
<1>1. SUFFICES ASSUME s \in Own(l) PROVE FALSE
  OBVIOUS
<1>2. To[k] = To[l]
  BY <1>1, OwnIs
<1>3. Kind[To[k]] = "inter" => By[k] = By[l]
  BY <1>1, <1>2, OwnIs
<1> QED BY <1>2, <1>3, TreeAssumption

LEMMA RegionNone == Region(0) = {}
BY SubNone DEF Region

LEMMA RegionIs ==
  ASSUME NEW l \in List, NEW s
  PROVE  s \in Region(l) <=> \E k \in Sub(l) : s \in Own(k)
BY DEF Region

LEMMA RegionParts ==
  ASSUME NEW l \in Link, NEW s
  PROVE  /\ s \in Region(l) <=> \/ s \in Own(l)
                                \/ s \in Region(After[l])
                                \/ s \in Region(Fork[To[l]])
         /\ s \in Own(l) => s \notin Region(After[l]) /\ s \notin Region(Fork[To[l]])
         /\ s \in Region(After[l]) => s \notin Region(Fork[To[l]])
         /\ s \in Region(l) => s \in Slot
<1>1. /\ l \in List /\ After[l] \in List /\ Fork[To[l]] \in List
      /\ \A m \in List : \A k \in Sub(m) : k \in Link
  BY Onwards DEF Sub
<1>2. s \in Region(l) <=> s \in Own(l) \/ s \in Region(After[l]) \/ s \in Region(Fork[To[l]])
  BY <1>1, RegionIs, SubParts
<1>3. s \in Own(l) => s \notin Region(After[l]) /\ s \notin Region(Fork[To[l]])
  BY <1>1, RegionIs, SubApart, OwnApart
<1>4. s \in Region(After[l]) => s \notin Region(Fork[To[l]])
  BY <1>1, RegionIs, SubApart, OwnApart
<1>5. s \in Region(l) => s \in Slot
  BY <1>1, RegionIs, OwnIs
<1> QED BY <1>2, <1>3, <1>4, <1>5

(* No list marks the node that it is of. *)
LEMMA RegionAbove ==
  ASSUME NEW l \in Link, NEW b
  PROVE  <<From[l], b>> \notin Region(l)
<1>1. SUFFICES ASSUME NEW k \in Sub(l), <<From[l], b>> \in Own(k) PROVE FALSE
  BY Onwards, RegionIs
<1>2. k \in Link /\ l <= k
  BY SubOnwards
<1>3. To[k] = From[l]
  BY <1>1, <1>2, OwnIs
<1> QED BY <1>2, <1>3, TreeAssumption, NetAssumption DEF Link

(* The check sets marks of the links it goes along.                        *)
LEMMA ScopeWithin ==
  ASSUME NEW lets, NEW tag \in Tags, NEW l \in List, NEW s \in Scope(lets, tag)[l]
  PROVE  s \in Region(l)
<1> DEFINE S == {k \in List : ~(Scope(lets, tag)[k] \subseteq Region(k))}
<1>1. ASSUME S # {} PROVE FALSE
  <2>1. PICK k \in S : \A m \in S : m <= k
    BY <1>1, LastLink
  <2>2. k # 0
    BY <2>1, ScopeIs
  <2>3. k \in Link
    BY <2>2, NetAssumption DEF Link, List
  <2>4. ASSUME NEW m \in List, m = 0 \/ k < m PROVE Scope(lets, tag)[m] \subseteq Region(m)
    <3>1. m = 0 => m \notin S
      BY ScopeIs
    <3>2. k < m => m \notin S
      BY <2>1, NetAssumption DEF List
    <3> QED BY <2>4, <3>1, <3>2
  <2>5. /\ Scope(lets, tag)[After[k]] \subseteq Region(After[k])
        /\ Scope(lets, tag)[Fork[To[k]]] \subseteq Region(Fork[To[k]])
    BY <2>3, <2>4, Onwards
  <2>6. /\ <<To[k], By[k]>> \in Own(k)
        /\ ~HasMemory(To[k]) => <<To[k], tag>> \in Own(k)
    BY <2>3, Onwards DEF Own, HasMemory, Test
  <2>7. \A r \in MarkedBy(lets, tag, k, Scope(lets, tag)[Fork[To[k]]]) :
           r \in Own(k) \/ r \in Region(Fork[To[k]])
    BY <2>5, <2>6 DEF MarkedBy
  <2>8. \A r \in Scope(lets, tag)[k] : r \in Region(k)
    BY <2>3, <2>5, <2>7, ScopeIs, RegionParts
  <2> QED BY <2>1, <2>8
<1> QED BY <1>1

-----------------------------------------------------------------------------
(* What is to be executed from a link on.                                  *)
Told(lets, l) == <<To[l], By[l], Come(lets)[l]>>

Due(lets, l) ==
  {Told(lets, k) : k \in {m \in Sub(l) : HasMemory(To[m]) /\ Come(lets)[m] # {}}}

OwnDue(lets, l) ==
  IF HasMemory(To[l]) /\ Come(lets)[l] # {} THEN {Told(lets, l)} ELSE {}

LEMMA DueIs ==
  ASSUME NEW lets, NEW l, NEW e
  PROVE  e \in Due(lets, l) <=> \E k \in Sub(l) : e \in OwnDue(lets, k)
BY DEF Due, OwnDue

LEMMA OwnDueApart ==
  ASSUME NEW lets, NEW k \in Link, NEW l \in Link, k # l, NEW e \in OwnDue(lets, k)
  PROVE  e \notin OwnDue(lets, l)
<1>1. \A m \in Link : e \in OwnDue(lets, m) => e[1] = To[m] /\ e[2] = By[m]
  BY DEF OwnDue, Told
<1> QED BY <1>1, TreeAssumption

LEMMA DueParts ==
  ASSUME NEW lets, NEW l \in Link, NEW e
  PROVE  /\ e \in Due(lets, l) <=> \/ e \in OwnDue(lets, l)
                                   \/ e \in Due(lets, Fork[To[l]])
                                   \/ e \in Due(lets, After[l])
         /\ e \in OwnDue(lets, l) => /\ e \notin Due(lets, Fork[To[l]])
                                     /\ e \notin Due(lets, After[l])
         /\ e \in Due(lets, Fork[To[l]]) => e \notin Due(lets, After[l])
<1>1. \A m, k : k \in Sub(m) => k \in Link
  BY DEF Sub
<1>2. e \in Due(lets, l) <=> \/ e \in OwnDue(lets, l)
                             \/ e \in Due(lets, Fork[To[l]])
                             \/ e \in Due(lets, After[l])
  BY DueIs, SubParts
<1>3. e \in OwnDue(lets, l) => e \notin Due(lets, Fork[To[l]]) /\ e \notin Due(lets, After[l])
  BY <1>1, DueIs, SubApart, OwnDueApart
<1>4. e \in Due(lets, Fork[To[l]]) => e \notin Due(lets, After[l])
  BY <1>1, DueIs, SubApart, OwnDueApart
<1> QED BY <1>2, <1>3, <1>4

(* Nothing is due from a link on that none of what comes marks.            *)
LEMMA NothingDue ==
  ASSUME NEW lets \in [Test -> SUBSET Tags], NEW l \in List,
         l # 0 => \A t \in Come(lets)[l] : Scope(lets, t)[l] = {}
  PROVE  Due(lets, l) = {}
<1> DEFINE C == {k \in Link : \A t \in Come(lets)[k] : Scope(lets, t)[k] = {}}
<1>1. ASSUME NEW k \in C, After[k] # 0 PROVE After[k] \in C
  <2>1. PICK a \in Link : a = After[k] /\ Come(lets)[a] = Come(lets)[k]
    BY <1>1, Onwards, ComeOn
  <2>2. ASSUME NEW t \in Come(lets)[a] PROVE Scope(lets, t)[a] = {}
    BY <2>1, ScopeIs
  <2> QED BY <2>1, <2>2
<1>2. ASSUME NEW k \in C, HasMemory(To[k]) PROVE Come(lets)[k] = {}
  <2>1. ASSUME NEW t \in Come(lets)[k] PROVE FALSE
    <3>1. <<To[k], By[k]>> \in MarkedBy(lets, t, k, Scope(lets, t)[Fork[To[k]]])
      BY <1>2 DEF MarkedBy
    <3>2. <<To[k], By[k]>> \in Scope(lets, t)[k]
      BY <3>1, ScopeIs
    <3> QED BY <2>1, <3>2
  <2> QED BY <2>1
<1>3. ASSUME NEW k \in C, Fork[To[k]] # 0 PROVE Fork[To[k]] \in C
  <2>1. PICK b \in Link : b = Fork[To[k]] /\ Come(lets)[b] = Left(lets, To[k], Come(lets)[k])
    BY <1>3, Onwards, ComeOn
  <2>2. CASE HasMemory(To[k])
    <3>1. Kind[To[k]] # "test"
      BY <2>2, Onwards DEF HasMemory, Test
    <3>2. Come(lets)[b] = {}
      BY <1>2, <2>1, <2>2, <3>1 DEF Left
    <3> QED BY <2>1, <3>2
  <2>3. CASE ~HasMemory(To[k])
    <3>1. Kind[To[k]] = "test"
      BY <2>3 DEF HasMemory, Test
    <3>2. Come(lets)[b] = Come(lets)[k] \intersect lets[To[k]]
      BY <2>1, <3>1 DEF Left
    <3>3. ASSUME NEW t \in Come(lets)[b] PROVE Scope(lets, t)[b] = {}
      <4>1. t \in Come(lets)[k] /\ t \in lets[To[k]]
        BY <3>2
      <4>2. MarkedBy(lets, t, k, Scope(lets, t)[b]) = {}
        BY <2>1, <4>1, ScopeIs
      <4> QED BY <2>3, <4>1, <4>2 DEF MarkedBy
    <3> QED BY <2>1, <3>3
  <2> QED BY <2>2, <2>3
<1>4. Closed(C)
  BY <1>1, <1>3 DEF Closed
<1>5. \A k \in Sub(l) : k \in C
  <2>1. CASE l = 0
    BY <2>1, SubNone
  <2>2. CASE l # 0
    <3>1. l \in Link /\ l \in C
      BY <2>2, NetAssumption DEF Link, List
    <3> QED BY <1>4, <3>1, SubLeast
  <2> QED BY <2>1, <2>2
<1> QED BY <1>2, <1>5 DEF Due

-----------------------------------------------------------------------------
(* What is executed one after the other, each of a set once.               *)
Execution == Node \X Side \X SUBSET Tags

Once(e, X) == /\ e \in Seq(Execution)
              /\ \A i \in 1..Len(e) : e[i] \in X
              /\ \A x \in X : \E i \in 1..Len(e) : e[i] = x
              /\ \A i, j \in 1..Len(e) : e[i] = e[j] => i = j

Grows(d, e, X) == \E f : Once(f, X) /\ e = d \o f

LEMMA OnceBoth ==
  ASSUME NEW d, NEW e, NEW X, NEW Y, NEW Z, Once(d, X), Once(e, Y), \A x \in X : x \notin Y,
         \A x : x \in Z <=> x \in X \/ x \in Y
  PROVE  Once(d \o e, Z)
<1> DEFINE f == d \o e
<1>1. /\ f \in Seq(Execution) /\ Len(f) = Len(d) + Len(e)
      /\ Len(d) \in Nat /\ Len(e) \in Nat
      /\ \A i \in 1..Len(f) : f[i] = IF i <= Len(d) THEN d[i] ELSE e[i - Len(d)]
  BY DEF Once
<1> HIDE DEF f
<1>2. \A i \in 1..Len(f) : i <= Len(d) => i \in 1..Len(d) /\ f[i] = d[i]
  BY <1>1
<1>3. \A i \in 1..Len(f) : ~(i <= Len(d)) => i - Len(d) \in 1..Len(e) /\ f[i] = e[i - Len(d)]
  BY <1>1
<1>4. \A i \in 1..Len(f) : f[i] \in Z
  BY <1>2, <1>3 DEF Once
<1>5. ASSUME NEW x \in Z PROVE \E i \in 1..Len(f) : f[i] = x
  <2>1. CASE x \in X
    <3>1. PICK i \in 1..Len(d) : d[i] = x
      BY <2>1 DEF Once
    <3>2. i \in 1..Len(f) /\ f[i] = x
      BY <1>1, <3>1
    <3> QED BY <3>2
  <2>2. CASE x \in Y
    <3>1. PICK i \in 1..Len(e) : e[i] = x
      BY <2>2 DEF Once
    <3>2. i + Len(d) \in 1..Len(f) /\ ~(i + Len(d) <= Len(d)) /\ (i + Len(d)) - Len(d) = i
      BY <1>1
    <3>3. f[i + Len(d)] = x
      BY <1>3, <3>1, <3>2
    <3> QED BY <3>2, <3>3
  <2> QED BY <2>1, <2>2
<1>6. ASSUME NEW i \in 1..Len(f), NEW j \in 1..Len(f), f[i] = f[j] PROVE i = j
  <2>1. CASE i <= Len(d) /\ j <= Len(d)
    BY <1>2, <1>6, <2>1 DEF Once
  <2>2. CASE ~(i <= Len(d)) /\ ~(j <= Len(d))
    <3>1. PICK p \in 1..Len(e), q \in 1..Len(e) : /\ p = i - Len(d) /\ q = j - Len(d)
                                                 /\ f[i] = e[p] /\ f[j] = e[q]
      BY <1>3, <2>2
    <3>2. p = q
      BY <1>6, <3>1 DEF Once
    <3> QED BY <1>1, <3>1, <3>2
  <2>3. CASE i <= Len(d) /\ ~(j <= Len(d))
    <3>1. f[i] \in X /\ f[j] \in Y
      BY <1>2, <1>3, <2>3 DEF Once
    <3> QED BY <1>6, <3>1
  <2>4. CASE ~(i <= Len(d)) /\ j <= Len(d)
    <3>1. f[i] \in Y /\ f[j] \in X
      BY <1>2, <1>3, <2>4 DEF Once
    <3> QED BY <1>6, <3>1
  <2> QED BY <2>1, <2>2, <2>3, <2>4
<1>7. f \in Seq(Execution)
  BY <1>1
<1>8. Once(f, Z)
  BY <1>4, <1>5, <1>6, <1>7 DEF Once
<1> QED BY <1>8 DEF f

LEMMA GrowsBoth ==
  ASSUME NEW c \in Seq(Execution), NEW d, NEW e, NEW X, NEW Y, NEW Z,
         Grows(c, d, X), Grows(d, e, Y), \A x \in X : x \notin Y,
         \A x : x \in Z <=> x \in X \/ x \in Y
  PROVE  Grows(c, e, Z)
<1>1. PICK f : Once(f, X) /\ d = c \o f
  BY DEF Grows
<1>2. PICK g : Once(g, Y) /\ e = d \o g
  BY DEF Grows
<1>3. Once(f \o g, Z)
  BY <1>1, <1>2, OnceBoth
<1>4. f \in Seq(Execution) /\ g \in Seq(Execution)
  BY <1>1, <1>2 DEF Once
<1>5. e = c \o (f \o g)
  BY <1>1, <1>2, <1>4, ConcatAssociative
<1> QED BY <1>3, <1>5 DEF Grows

LEMMA GrowsNot ==
  ASSUME NEW c \in Seq(Execution), NEW X, X = {}
  PROVE  Grows(c, c, X)
<1>1. Once(<<>>, X)
  BY DEF Once
<1>2. c = c \o <<>>
  BY ConcatEmptySeq
<1> QED BY <1>1, <1>2 DEF Grows

LEMMA GrowsOne ==
  ASSUME NEW c \in Seq(Execution), NEW x \in Execution, NEW X, X = {x}
  PROVE  Grows(c, Append(c, x), X)
<1>1. Once(<<x>>, X)
  BY DEF Once
<1>2. Append(c, x) = c \o <<x>>
  BY AppendIsConcat
<1> QED BY <1>1, <1>2 DEF Grows

LEMMA GrowsSeq ==
  ASSUME NEW c \in Seq(Execution), NEW d, NEW X, Grows(c, d, X)
  PROVE  d \in Seq(Execution)
<1>1. PICK f : Once(f, X) /\ d = c \o f
  BY DEF Grows
<1>2. f \in Seq(Execution)
  BY <1>1 DEF Once
<1> QED BY <1>1, <1>2

-----------------------------------------------------------------------------
(* What is said of a walk from a link on, which takes w to r: it clears    *)
(* the marks of those links and executes what is due, each once ...        *)
Done(lets, l, w, r) ==
  /\ r \in Walk
  /\ r.mark = w.mark \ Region(l)
  /\ Grows(w.executed, r.executed, Due(lets, l))

(* ... when it goes along marks that the check set for those of the tags   *)
(* that come of which the check set any ...                                *)
Marking(lets, l, w) ==
  /\ MarkOf(w, From[l]) # {} /\ MarkOf(w, From[l]) \subseteq Come(lets)[l]
  /\ \A t \in Come(lets)[l] : t \notin MarkOf(w, From[l]) => Scope(lets, t)[l] = {}
  /\ \A s \in Region(l) : s \in w.mark <=> \E t \in MarkOf(w, From[l]) : s \in Scope(lets, t)[l]

AlongMarks(lets, l) ==
  \A w \in Walk : (l # 0 => Marking(lets, l, w)) => Done(lets, l, w, Visit(lets)[l]["marks"][w])

(* ... or goes in earnest where there are none, with the one tag that comes. *)
Clean(l, w) == \A s \in Region(l) : s \notin w.mark

InEarnest(lets, l) ==
  \A t \in Tags, w \in Walk :
    (l # 0 => Come(lets)[l] = {t}) /\ Clean(l, w) => Done(lets, l, w, Visit(lets)[l][t][w])

LEMMA MarksSet ==
  ASSUME NEW w \in Walk, NEW m \in SUBSET Slot, NEW v, v = [w EXCEPT !.mark = m]
  PROVE  v \in Walk /\ v.mark = m /\ v.executed = w.executed
BY DEF Walk

LEMMA ExecutedSet ==
  ASSUME NEW w \in Walk, NEW e \in Seq(Execution), NEW v, v = [w EXCEPT !.executed = e]
  PROVE  v \in Walk /\ v.mark = w.mark /\ v.executed = e
BY DEF Walk, Execution

LEMMA DoneNothing ==
  ASSUME NEW lets \in [Test -> SUBSET Tags], NEW l \in List, NEW w \in Walk, Clean(l, w),
         Due(lets, l) = {}
  PROVE  Done(lets, l, w, w)
<1>1. w.mark = w.mark \ Region(l)
  BY DEF Clean
<1>2. w.executed \in Seq(Execution)
  BY DEF Walk, Execution
<1>3. Grows(w.executed, w.executed, Due(lets, l))
  BY <1>2, GrowsNot
<1> QED BY <1>1, <1>3 DEF Done

LEMMA MarkedIs ==
  ASSUME NEW marks, NEW lets, NEW tag, NEW n, NEW s
  PROVE  s \in Marked(marks, lets, tag, n) <=>
           \/ s \in marks
           \/ s \in Scope(lets, tag)[Fork[n]]
           \/ s = <<n, tag>> /\ Scope(lets, tag)[Fork[n]] # {}
BY DEF Marked

(* The walk over the children of a marked node clears its mark too.        *)
LEMMA ReachChildrenIs ==
  ASSUME NEW lets, NEW n \in Node, NEW w \in Walk,
         Done(lets, Fork[n], w, Visit(lets)[Fork[n]]["marks"][w]),
         NEW r, r = ReachChildren(n, w, Visit(lets)[Fork[n]])
  PROVE  /\ r \in Walk
         /\ \A s : s \in r.mark <=> /\ s \in w.mark /\ s \notin Region(Fork[n])
                                    /\ s \notin {n} \X (Tags \union Side)
         /\ Grows(w.executed, r.executed, Due(lets, Fork[n]))
<1>1. PICK d \in Walk : /\ d = Visit(lets)[Fork[n]]["marks"][w]
                        /\ d.mark = w.mark \ Region(Fork[n])
                        /\ Grows(w.executed, d.executed, Due(lets, Fork[n]))
  BY DEF Done
<1>2. r = [d EXCEPT !.mark = @ \ ({n} \X (Tags \union Side))]
  BY <1>1 DEF ReachChildren
<1>3. /\ r.mark = d.mark \ ({n} \X (Tags \union Side)) /\ r.executed = d.executed
      /\ r \in Walk
  BY <1>2 DEF Walk
<1> QED BY <1>1, <1>3

(* The walk that begins at a node, over children to which both tags come.  *)
LEMMA ModifyIs ==
  ASSUME NEW lets \in [Test -> SUBSET Tags], NEW n \in Node, NEW l \in List, l = Fork[n],
         l # 0 => Come(lets)[l] = Tags, AlongMarks(lets, l),
         NEW w \in Walk, Clean(l, w), MarkOf(w, n) = {}
  PROVE  Done(lets, l, w, PropagateModify(lets, n, w, Visit(lets)[l]))
<1> DEFINE i == [w EXCEPT !.mark = Marked(Marked(w.mark, lets, "RETRACT", n), lets, "INSERT", n)]
           r == PropagateModify(lets, n, w, Visit(lets)[l])
<1>0. Tags = {"RETRACT", "INSERT"}
  BY DEF Tags
<1>1. /\ i.mark = Marked(Marked(w.mark, lets, "RETRACT", n), lets, "INSERT", n)
      /\ i.executed = w.executed
  BY DEF Walk
<1>2. \A s : s \in i.mark <=> \/ s \in w.mark
                              \/ \E t \in Tags : \/ s \in Scope(lets, t)[l]
                                                 \/ s = <<n, t>> /\ Scope(lets, t)[l] # {}
  BY <1>0, <1>1, MarkedIs
<1>3. r = IF MarkOf(i, n) = {} THEN i ELSE ReachChildren(n, i, Visit(lets)[l])
  BY DEF PropagateModify
<1>4. l = 0 \/ l \in Link
  BY NetAssumption DEF Link, List
<1>5. \A t \in Tags : \A s \in Scope(lets, t)[l] : s \in Region(l)
  BY ScopeWithin
<1>6. \A s \in Region(l) : s \in Slot /\ s \notin w.mark
  <2>1. \A s \in Region(l) : s \in Slot
    BY <1>4, RegionNone, RegionParts
  <2> QED BY <2>1 DEF Clean
<1>7. \A b : <<n, b>> \notin Region(l)
  <2>1. CASE l = 0
    BY <2>1, RegionNone
  <2>2. CASE l # 0
    <3>1. From[l] = n
      BY <2>2, ListAssumption
    <3> QED BY <1>4, <2>2, <3>1, RegionAbove
  <2> QED BY <2>1, <2>2
<1>8. \A b \in Tags \union Side : <<n, b>> \notin w.mark
  BY DEF MarkOf
<1> HIDE DEF i
<1>9. MarkOf(i, n) = {t \in Tags : Scope(lets, t)[l] # {}}
  <2>1. \A b \in Tags \union Side : <<n, b>> \in i.mark <=> b \in Tags /\ Scope(lets, b)[l] # {}
    BY <1>2, <1>5, <1>7, <1>8
  <2> QED BY <2>1 DEF MarkOf
<1>10. i \in Walk
  <2>1. \A s \in i.mark : s \in Slot
    <3>1. \A s \in w.mark : s \in Slot
      BY DEF Walk
    <3>2. \A t \in Tags : <<n, t>> \in Slot
      BY DEF Slot
    <3> QED BY <1>2, <1>5, <1>6, <3>1, <3>2
  <2>2. i = [mark |-> i.mark, executed |-> w.executed] /\ w.executed \in Seq(Node \X Side \X SUBSET Tags)
    BY DEF Walk, i
  <2> QED BY <2>1, <2>2 DEF Walk
<1>11. CASE MarkOf(i, n) = {}
  <2>1. \A t \in Tags : Scope(lets, t)[l] = {}
    BY <1>9, <1>11
  <2>2. Due(lets, l) = {}
    BY <2>1, NothingDue
  <2>3. i.mark = w.mark
    BY <1>2, <2>1
  <2>4. i = w
    BY <2>3 DEF i, Walk
  <2>5. Done(lets, l, w, w)
    BY <2>2, DoneNothing
  <2> QED BY <1>3, <1>11, <2>4, <2>5
<1>12. CASE MarkOf(i, n) # {}
  <2>1. l \in Link /\ From[l] = n /\ Come(lets)[l] = Tags
    <3>1. l # 0
      BY <1>9, <1>12, ScopeIs
    <3> QED BY <1>4, <3>1, ListAssumption
  <2>2. \A s \in Region(l) : s \in i.mark <=> \E t \in MarkOf(i, n) : s \in Scope(lets, t)[l]
    BY <1>2, <1>6, <1>7, <1>9
  <2>3. Marking(lets, l, i)
    BY <1>9, <1>12, <2>1, <2>2 DEF Marking
  <2>4. Done(lets, l, i, Visit(lets)[l]["marks"][i])
    BY <1>10, <2>3 DEF AlongMarks
  <2>5. r = ReachChildren(n, i, Visit(lets)[l])
    BY <1>3, <1>12
  <2> HIDE DEF r
  <2>6. /\ r \in Walk
        /\ \A s : s \in r.mark <=> /\ s \in i.mark /\ s \notin Region(l)
                                   /\ s \notin {n} \X (Tags \union Side)
        /\ Grows(i.executed, r.executed, Due(lets, l))
    BY <1>10, <2>4, <2>5, ReachChildrenIs
  <2>7. \A s : s \in r.mark <=> s \in w.mark /\ s \notin Region(l)
    <3>1. \A s \in w.mark : s \notin {n} \X (Tags \union Side)
      BY <1>8
    <3>2. \A t \in Tags : <<n, t>> \in {n} \X (Tags \union Side)
      OBVIOUS
    <3> QED BY <1>2, <1>5, <2>6, <3>1, <3>2
  <2>8. r.mark = w.mark \ Region(l)
    BY <2>7
  <2>9. Done(lets, l, w, r)
    BY <1>1, <2>6, <2>8 DEF Done
  <2> QED BY <2>9 DEF r
<1> QED BY <1>11, <1>12

-----------------------------------------------------------------------------
(* One link, with all that is below it.                                    *)
TurnDone(lets, l, w, r) ==
  /\ r \in Walk
  /\ r.mark = w.mark \ (Own(l) \union Region(Fork[To[l]]))
  /\ Grows(w.executed, r.executed, OwnDue(lets, l) \union Due(lets, Fork[To[l]]))

LEMMA TurnThenRest ==
  ASSUME NEW lets, NEW l \in Link, NEW w \in Walk, NEW v, NEW r,
         TurnDone(lets, l, w, v), Done(lets, After[l], v, r)
  PROVE  Done(lets, l, w, r)
<1>1. r.mark = w.mark \ Region(l)
  BY RegionParts DEF TurnDone, Done
<1>2. w.executed \in Seq(Execution)
  BY DEF Walk, Execution
<1>3. Grows(w.executed, r.executed, Due(lets, l))
  <2> DEFINE X == OwnDue(lets, l) \union Due(lets, Fork[To[l]])
             Y == Due(lets, After[l])
  <2>1. Grows(w.executed, v.executed, X) /\ Grows(v.executed, r.executed, Y)
    BY DEF TurnDone, Done
  <2>2. \A x \in X : x \notin Y
    BY DueParts
  <2>3. \A x : x \in Due(lets, l) <=> x \in X \/ x \in Y
    BY DueParts
  <2> HIDE DEF X, Y
  <2> QED BY <1>2, <2>1, <2>2, <2>3, GrowsBoth
<1> QED BY <1>1, <1>3 DEF Done

(* The code of a node with memory, where no mark of its own is left.       *)
LEMMA ExecuteIs ==
  ASSUME NEW lets \in [Test -> SUBSET Tags], NEW l \in Link, HasMemory(To[l]),
         AlongMarks(lets, Fork[To[l]]), InEarnest(lets, Fork[To[l]]),
         Come(lets)[l] # {}, NEW w \in Walk,
         \A s \in Own(l) : s \notin w.mark, Clean(Fork[To[l]], w)
  PROVE  TurnDone(lets, l, w, Execute(lets, l, Come(lets)[l], w, Visit(lets)[Fork[To[l]]]))
<1> DEFINE n == To[l]
           b == Fork[n]
           tag == Come(lets)[l]
           told == [w EXCEPT !.executed = Append(@, <<n, By[l], tag>>)]
           r == Execute(lets, l, tag, w, Visit(lets)[b])
<1>1. /\ n \in Node /\ b \in List /\ By[l] \in Side /\ tag \subseteq Tags
      /\ b # 0 => Come(lets)[b] = Left(lets, n, tag)
  BY Onwards, ComeOn, ComeTags
<1>2. Kind[n] \in {"inter", "set", "timer"}
  BY <1>1, NetAssumption DEF HasMemory, Test
<1>4. w.executed \in Seq(Execution) /\ <<n, By[l], tag>> \in Execution
  BY <1>1 DEF Walk, Execution
<1>5. told \in Walk /\ told.mark = w.mark /\ told.executed = Append(w.executed, <<n, By[l], tag>>)
  <2>0. Append(w.executed, <<n, By[l], tag>>) \in Seq(Execution)
    BY <1>4, AppendProperties
  <2>1. PICK e \in Seq(Execution) : e = Append(w.executed, <<n, By[l], tag>>)
    BY <2>0
  <2>2. told = [w EXCEPT !.executed = e]
    BY <2>1
  <2> HIDE DEF told
  <2>3. told \in Walk
    BY <2>1, <2>2, ExecutedSet
  <2>4. told.mark = w.mark
    BY <2>1, <2>2, ExecutedSet
  <2>5. told.executed = e
    BY <2>1, <2>2, ExecutedSet
  <2> QED BY <2>1, <2>3, <2>4, <2>5
<1>6. Grows(w.executed, told.executed, OwnDue(lets, l))
  <2>1. OwnDue(lets, l) = {<<n, By[l], tag>>}
    BY DEF OwnDue, Told
  <2> QED BY <1>4, <1>5, <2>1, GrowsOne
<1>7. n \notin Test
  BY DEF HasMemory
<1>8. r = IF Kind[n] = "inter" THEN told
          ELSE IF Kind[n] = "set" \/ (Kind[n] = "timer" /\ tag = Tags)
          THEN PropagateModify(lets, n, told, Visit(lets)[b])
          ELSE Propagate(told, tag, Visit(lets)[b])
  BY <1>2, <1>7 DEF Execute
<1> HIDE DEF r, told
<1>9. Clean(b, told)
  BY <1>5 DEF Clean
<1>10. Done(lets, b, told, r)
  <2>1. CASE Kind[n] = "inter"
    <3>1. b = 0
      BY <1>1, <2>1, TreeAssumption
    <3>2. Due(lets, b) = {}
      BY <3>1, SubNone DEF Due
    <3> QED BY <1>1, <1>5, <1>8, <1>9, <2>1, <3>2, DoneNothing
  <2>2. CASE Kind[n] # "inter" /\ (Kind[n] = "set" \/ (Kind[n] = "timer" /\ tag = Tags))
    <3>1. b # 0 => Come(lets)[b] = Tags
      <4>1. Left(lets, n, tag) = Tags
        BY <2>2 DEF Left
      <4> QED BY <1>1, <4>1
    <3>2. MarkOf(told, n) = {}
      <4>1. \A s \in {n} \X (Tags \union Side) : s \notin w.mark
        BY <2>2 DEF Own
      <4> QED BY <1>5, <4>1 DEF MarkOf
    <3>3. r = PropagateModify(lets, n, told, Visit(lets)[b])
      BY <1>8, <2>2
    <3> HIDE DEF b, n
    <3>4. b = Fork[n]
      BY DEF b
    <3>5. AlongMarks(lets, b)
      BY DEF b, n
    <3>6. n \in Node /\ b \in List
      BY <1>1
    <3> QED BY <1>5, <1>9, <3>1, <3>2, <3>3, <3>4, <3>5, <3>6, ModifyIs
  <2>3. CASE Kind[n] # "inter" /\ ~(Kind[n] = "set" \/ (Kind[n] = "timer" /\ tag = Tags))
    <3>1. PICK t \in Tags : tag = {t}
      <4>1. tag # Tags
        BY <1>2, <2>3
      <4> QED BY <1>1, <4>1 DEF Tags
    <3>2. (CHOOSE u \in tag : TRUE) = t
      BY <3>1
    <3>3. r = Visit(lets)[b][t][told]
      BY <1>8, <2>3, <3>2 DEF Propagate
    <3>4. b # 0 => Come(lets)[b] = {t}
      BY <1>1, <1>2, <2>3, <3>1 DEF Left
    <3> QED BY <1>5, <1>9, <3>3, <3>4 DEF InEarnest
  <2> QED BY <2>1, <2>2, <2>3
<1>11. r.mark = w.mark \ (Own(l) \union Region(b))
  BY <1>5, <1>10 DEF Done, Clean
<1>12. Grows(w.executed, r.executed, OwnDue(lets, l) \union Due(lets, b))
  <2>1. \A x \in OwnDue(lets, l) : x \notin Due(lets, b)
    BY DueParts
  <2>2. Grows(told.executed, r.executed, Due(lets, b))
    BY <1>10 DEF Done
  <2> QED BY <1>4, <1>6, <2>1, <2>2, GrowsBoth
<1>13. r \in Walk
  BY <1>10 DEF Done
<1>14. TurnDone(lets, l, w, r)
  BY <1>11, <1>12, <1>13 DEF TurnDone
<1> QED BY <1>14 DEF r

(* A link in earnest. *)
LEMMA EarnestTurn ==
  ASSUME NEW lets \in [Test -> SUBSET Tags], NEW l \in Link,
         AlongMarks(lets, Fork[To[l]]), InEarnest(lets, Fork[To[l]]),
         NEW t \in Tags, Come(lets)[l] = {t}, NEW w \in Walk, Clean(l, w)
  PROVE  TurnDone(lets, l, w, Turn(lets, l, t, w, Visit(lets)[Fork[To[l]]]))
<1> DEFINE n == To[l]
           b == Fork[n]
           r == Turn(lets, l, t, w, Visit(lets)[b])
<1>1. /\ n \in Node /\ b \in List
      /\ b # 0 => b \in Link /\ Come(lets)[b] = Left(lets, n, {t})
  <2>1. b # 0 => Come(lets)[b] = Left(lets, n, Come(lets)[l])
    BY ComeOn
  <2> QED BY <2>1, Onwards
<1>2. (\A s \in Own(l) : s \notin w.mark) /\ Clean(b, w)
  BY RegionParts DEF Clean
<1>3. r = IF HasMemory(n) \/ t \in lets[n]
          THEN Execute(lets, l, {t}, w, Visit(lets)[b]) ELSE w
  BY DEF Turn, Tags
<1>4. CASE HasMemory(n)
  <2>1. r = Execute(lets, l, Come(lets)[l], w, Visit(lets)[b])
    BY <1>3, <1>4
  <2> HIDE DEF r
  <2>2. TurnDone(lets, l, w, r)
    BY <1>2, <1>4, <2>1, ExecuteIs
  <2> QED BY <2>2 DEF r
<1>5. CASE ~HasMemory(n)
  <2>1. n \in Test /\ Kind[n] = "test"
    BY <1>5 DEF HasMemory, Test
  <2>2. b # 0 => Come(lets)[b] = {t} \intersect lets[n]
    BY <1>1, <2>1 DEF Left
  <2>3. OwnDue(lets, l) \union Due(lets, b) = Due(lets, b)
    BY <1>5 DEF OwnDue
  <2>4. w.mark \ (Own(l) \union Region(b)) = w.mark \ Region(b)
    BY <1>2
  <2>5. Done(lets, b, w, r)
    <3>1. CASE t \in lets[n]
      <4>1. (CHOOSE u \in {t} : TRUE) = t
        OBVIOUS
      <4>2. r = Visit(lets)[b][t][w]
        BY <1>3, <2>1, <3>1, <4>1 DEF Execute, Propagate
      <4>3. b # 0 => Come(lets)[b] = {t}
        BY <2>2, <3>1
      <4> QED BY <1>2, <4>2, <4>3 DEF InEarnest
    <3>2. CASE t \notin lets[n]
      <4>1. b # 0 => Come(lets)[b] = {}
        BY <2>2, <3>2
      <4>2. Due(lets, b) = {}
        BY <1>1, <4>1, NothingDue
      <4>3. r = w
        BY <1>3, <1>5, <3>2
      <4> QED BY <1>1, <1>2, <4>2, <4>3, DoneNothing
    <3> QED BY <3>1, <3>2
  <2> HIDE DEF r
  <2>6. TurnDone(lets, l, w, r)
    BY <2>3, <2>4, <2>5 DEF TurnDone, Done
  <2> QED BY <2>6 DEF r
<1> QED BY <1>4, <1>5

(* A link along the marks. *)
LEMMA MarksTurn ==
  ASSUME NEW lets \in [Test -> SUBSET Tags], NEW l \in Link,
         AlongMarks(lets, Fork[To[l]]), InEarnest(lets, Fork[To[l]]),
         NEW w \in Walk, Marking(lets, l, w)
  PROVE  TurnDone(lets, l, w, Turn(lets, l, "marks", w, Visit(lets)[Fork[To[l]]]))
<1> DEFINE n == To[l]
           b == Fork[n]
           come == Come(lets)[l]
           g == MarkOf(w, From[l])
           r == Turn(lets, l, "marks", w, Visit(lets)[b])
<1>1. /\ n \in Node /\ b \in List /\ By[l] \in Side /\ come \subseteq Tags
      /\ b # 0 => b \in Link /\ From[b] = n /\ Come(lets)[b] = Left(lets, n, come)
  BY Onwards, ComeOn, ComeTags
<1>2. /\ g # {} /\ g \subseteq come
      /\ \A t \in come : t \notin g => Scope(lets, t)[l] = {}
      /\ \A s \in Region(l) : s \in w.mark <=> \E t \in g : s \in Scope(lets, t)[l]
  BY DEF Marking
<1>3. r = Reach(lets, l, w, Visit(lets)[b])
  BY DEF Turn
<1>4. \A t \in Tags : \A s : s \in Scope(lets, t)[l] <=>
         s \in Scope(lets, t)[After[l]] \/ s \in MarkedBy(lets, t, l, Scope(lets, t)[b])
  BY ScopeIs
<1>5. ASSUME NEW t \in Tags
      PROVE  /\ \A s \in Scope(lets, t)[After[l]] : s \in Region(After[l])
             /\ \A s \in Scope(lets, t)[b] : s \in Region(b)
  BY Onwards, ScopeWithin
<1>6. \A s : s \in Own(l) \/ s \in Region(b) => s \in Region(l) /\ s \notin Region(After[l])
  BY RegionParts
(* Of these marks, those of the link itself and of what is below it.    *)
<1>7. \A s : s \in Own(l) \/ s \in Region(b) =>
         (s \in w.mark <=> \E t \in g : s \in MarkedBy(lets, t, l, Scope(lets, t)[b]))
  BY <1>1, <1>2, <1>4, <1>5, <1>6
<1>8. w.mark \in SUBSET Slot /\ w.executed \in Seq(Execution)
  BY DEF Walk, Execution
<1> HIDE DEF r
<1>9. CASE HasMemory(n)
  <2> DEFINE v == [w EXCEPT !.mark = @ \ {<<n, By[l]>>}]
  <2>1. \A t \in Tags : MarkedBy(lets, t, l, Scope(lets, t)[b]) = {<<n, By[l]>>}
    BY <1>9 DEF MarkedBy
  <2>2. \A s : s \in Own(l) \/ s \in Region(b) => (s \in w.mark <=> s = <<n, By[l]>>)
    BY <1>1, <1>2, <1>7, <2>1
  <2>3. <<n, By[l]>> \in Own(l)
    BY <1>1 DEF Own
  <2>4. By[l] \in MarkOf(w, n)
    BY <1>1, <2>2, <2>3 DEF MarkOf
  <2>5. g = come
    <3>1. ASSUME NEW t \in come, t \notin g PROVE FALSE
      <4>1. Scope(lets, t)[l] = {}
        BY <1>2, <3>1
      <4>2. <<n, By[l]>> \in Scope(lets, t)[l]
        BY <1>1, <1>4, <2>1
      <4> QED BY <4>1, <4>2
    <3> QED BY <1>2, <3>1
  <2>6. r = Execute(lets, l, come, v, Visit(lets)[b])
    BY <1>1, <1>3, <2>4, <2>5 DEF Reach
  <2>7. v \in Walk /\ v.mark = w.mark \ {<<n, By[l]>>} /\ v.executed = w.executed
    <3>1. PICK m \in SUBSET Slot : m = w.mark \ {<<n, By[l]>>}
      BY <1>8
    <3>2. v = [w EXCEPT !.mark = m]
      BY <3>1
    <3> HIDE DEF v
    <3>3. v \in Walk
      BY <3>1, <3>2, MarksSet
    <3>4. v.mark = m
      BY <3>1, <3>2, MarksSet
    <3>5. v.executed = w.executed
      BY <3>1, <3>2, MarksSet
    <3> QED BY <3>1, <3>3, <3>4, <3>5
  <2> HIDE DEF v
  <2>8. (\A s \in Own(l) : s \notin v.mark) /\ Clean(b, v)
    BY <2>2, <2>7 DEF Clean
  <2>9. come # {}
    BY <1>2
  <2>10. TurnDone(lets, l, v, r)
    BY <1>9, <2>6, <2>7, <2>8, <2>9, ExecuteIs
  <2>11. r.mark = w.mark \ (Own(l) \union Region(b))
    BY <2>3, <2>7, <2>10 DEF TurnDone
  <2>12. TurnDone(lets, l, w, r)
    BY <2>7, <2>10, <2>11 DEF TurnDone
  <2> QED BY <2>12 DEF r
<1>10. CASE ~HasMemory(n)
  <2> DEFINE h == {t \in g : t \in lets[n] /\ Scope(lets, t)[b] # {}}
  <2>0. Kind[n] = "test" /\ n \in Test
    BY <1>10 DEF HasMemory, Test
  <2>1. \A t \in Tags : \A s : s \in MarkedBy(lets, t, l, Scope(lets, t)[b]) <=>
           /\ t \in lets[n] /\ Scope(lets, t)[b] # {}
           /\ s \in Scope(lets, t)[b] \/ s = <<n, t>>
    BY <1>10 DEF MarkedBy
  <2>2. \A s : s \in Own(l) \/ s \in Region(b) =>
           (s \in w.mark <=> \E t \in h : s \in Scope(lets, t)[b] \/ s = <<n, t>>)
    BY <1>1, <1>2, <1>7, <2>1
  <2>3. \A s : s \in Own(l) <=> s \in {n} \X (Tags \union Side)
    BY <2>0 DEF Own
  <2>4. MarkOf(w, n) = h
    <3>1. \A x \in Tags \union Side : <<n, x>> \in Own(l) /\ <<n, x>> \notin Region(b)
      BY <2>3, RegionParts
    <3>2. h \subseteq Tags
      BY <1>1, <1>2
    <3>3. \A x \in Tags \union Side : <<n, x>> \in w.mark <=> x \in h
      BY <1>5, <2>2, <3>1, <3>2
    <3> QED BY <3>2, <3>3 DEF MarkOf
  <2>5. \A t \in come : t \notin h => (t \in lets[n] => Scope(lets, t)[b] = {})
    <3>1. ASSUME NEW t \in come, t \notin g, t \in lets[n], NEW s \in Scope(lets, t)[b] PROVE FALSE
      <4>1. s \in Scope(lets, t)[l]
        BY <1>1, <1>4, <2>1, <3>1
      <4> QED BY <1>2, <3>1, <4>1
    <3> QED BY <3>1
  <2>6. b # 0 => Come(lets)[b] = come \intersect lets[n]
    BY <1>1, <2>0 DEF Left
  <2>7. OwnDue(lets, l) \union Due(lets, b) = Due(lets, b)
    BY <1>10 DEF OwnDue
  <2>8. CASE h = {}
    <3>1. r = w
      BY <1>3, <2>4, <2>8 DEF Reach
    <3>2. \A s : s \in Own(l) \/ s \in Region(b) => s \notin w.mark
      BY <2>2, <2>8
    <3>3. Due(lets, b) = {}
      <4>1. b # 0 => \A t \in Come(lets)[b] : Scope(lets, t)[b] = {}
        BY <2>5, <2>6, <2>8
      <4> QED BY <1>1, <4>1, NothingDue
    <3>4. Clean(b, w)
      BY <3>2 DEF Clean
    <3>5. Done(lets, b, w, r)
      BY <1>1, <3>1, <3>3, <3>4, DoneNothing
    <3>6. r.mark = w.mark \ (Own(l) \union Region(b))
      BY <3>1, <3>2
    <3>7. TurnDone(lets, l, w, r)
      BY <2>7, <3>5, <3>6 DEF TurnDone, Done
    <3> QED BY <3>7 DEF r
  <2>9. CASE h # {}
    <3>1. h \subseteq Tags /\ h \intersect Side = {}
      BY <1>1, <1>2 DEF Tags, Side
    <3>2. r = ReachChildren(n, w, Visit(lets)[b])
      BY <1>3, <2>4, <2>9, <3>1 DEF Reach
    <3>3. b \in Link /\ From[b] = n
      <4>1. b # 0
        BY <2>9, ScopeIs
      <4> QED BY <1>1, <4>1
    <3>4. h \subseteq Come(lets)[b]
      BY <1>2, <2>6, <3>3, Onwards
    <3>5. \A t \in Come(lets)[b] : t \notin h => Scope(lets, t)[b] = {}
      BY <2>5, <2>6, <3>3, Onwards
    <3>6. \A s \in Region(b) : s \in w.mark <=> \E t \in h : s \in Scope(lets, t)[b]
      <4>1. \A s \in Region(b) : \A t \in h : s # <<n, t>>
        BY <3>3, RegionAbove
      <4> QED BY <2>2, <4>1
    <3>7. Marking(lets, b, w)
      BY <2>4, <2>9, <3>3, <3>4, <3>5, <3>6 DEF Marking
    <3>8. Done(lets, b, w, Visit(lets)[b]["marks"][w])
      BY <3>7 DEF AlongMarks
    <3>9. /\ r \in Walk
          /\ \A s : s \in r.mark <=> /\ s \in w.mark /\ s \notin Region(b)
                                     /\ s \notin {n} \X (Tags \union Side)
          /\ Grows(w.executed, r.executed, Due(lets, b))
      BY <1>1, <3>2, <3>8, ReachChildrenIs
    <3>10. r.mark = w.mark \ (Own(l) \union Region(b))
      BY <2>3, <3>9
    <3>11. TurnDone(lets, l, w, r)
      BY <2>7, <3>9, <3>10 DEF TurnDone
    <3> QED BY <3>11 DEF r
  <2> QED BY <2>8, <2>9
<1> QED BY <1>9, <1>10

(* The marks of the links after are still as they were set.                *)
LEMMA MarkingOn ==
  ASSUME NEW lets \in [Test -> SUBSET Tags], NEW l \in Link, After[l] # 0,
         NEW w \in Walk, Marking(lets, l, w), NEW v, TurnDone(lets, l, w, v)
  PROVE  Marking(lets, After[l], v)
<1> DEFINE g == MarkOf(w, From[l])
<1>1. PICK a \in Link : a = After[l] /\ From[a] = From[l] /\ Come(lets)[a] = Come(lets)[l]
  BY Onwards, ComeOn
<1>2. \A s \in Own(l) \union Region(Fork[To[l]]) :
         s \in Region(l) /\ s \notin Region(a) /\ \A x : s # <<From[l], x>>
  BY <1>1, RegionParts, RegionAbove
<1>3. MarkOf(v, From[a]) = g
  BY <1>1, <1>2 DEF MarkOf, TurnDone
<1>4. g # {} /\ g \subseteq Come(lets)[l] /\ Come(lets)[l] \subseteq Tags
  BY ComeTags DEF Marking
<1>5. ASSUME NEW t \in Come(lets)[l], t \notin g PROVE Scope(lets, t)[a] = {}
  <2>1. Scope(lets, t)[l] = {}
    BY <1>5 DEF Marking
  <2> QED BY <1>1, <2>1, ScopeIs
<1>6. ASSUME NEW s \in Region(a)
      PROVE  s \in v.mark <=> \E t \in g : s \in Scope(lets, t)[a]
  <2>1. s \in Region(l) /\ s \notin Own(l) /\ s \notin Region(Fork[To[l]])
    BY <1>1, <1>6, RegionParts
  <2>2. s \in v.mark <=> s \in w.mark
    BY <2>1 DEF TurnDone
  <2>3. s \in w.mark <=> \E t \in g : s \in Scope(lets, t)[l]
    BY <2>1 DEF Marking
  <2>4. ASSUME NEW t \in g PROVE s \in Scope(lets, t)[l] <=> s \in Scope(lets, t)[a]
    <3>1. s \in Scope(lets, t)[l] <=>
            s \in Scope(lets, t)[a] \/ s \in MarkedBy(lets, t, l, Scope(lets, t)[Fork[To[l]]])
      BY <1>1, ScopeIs
    <3>2. s \notin Scope(lets, t)[Fork[To[l]]]
      BY <1>4, <2>1, <2>4, Onwards, ScopeWithin
    <3>3. <<To[l], By[l]>> \in Own(l) /\ (~HasMemory(To[l]) => <<To[l], t>> \in Own(l))
      BY <1>4, <2>4, Onwards DEF Own, HasMemory, Test
    <3>4. s \notin MarkedBy(lets, t, l, Scope(lets, t)[Fork[To[l]]])
      BY <2>1, <3>2, <3>3 DEF MarkedBy
    <3> QED BY <3>1, <3>4
  <2> QED BY <2>2, <2>3, <2>4
<1> HIDE DEF g
<1> QED BY <1>1, <1>3, <1>4, <1>5, <1>6 DEF Marking

(* From any link on, both walks do what they should.                       *)
LEMMA WalksAreDone ==
  ASSUME NEW lets \in [Test -> SUBSET Tags], NEW l \in List
  PROVE  AlongMarks(lets, l) /\ InEarnest(lets, l)
<1> DEFINE S == {k \in List : ~(AlongMarks(lets, k) /\ InEarnest(lets, k))}
<1>0. "marks" \in Way /\ \A t \in Tags : t \in Way
  BY DEF Way
<1>1. 0 \notin S
  <2>1. ASSUME NEW way \in Way, NEW w \in Walk PROVE Done(lets, 0, w, Visit(lets)[0][way][w])
    <3>1. 0 \in List
      BY NetAssumption DEF List
    <3>2. Clean(0, w)
      BY RegionNone DEF Clean
    <3>3. Due(lets, 0) = {}
      BY SubNone DEF Due
    <3>4. Done(lets, 0, w, w)
      BY <3>1, <3>2, <3>3, DoneNothing
    <3> QED BY <3>4, VisitIs
  <2> QED BY <1>0, <2>1 DEF AlongMarks, InEarnest
<1>2. ASSUME S # {} PROVE FALSE
  <2>1. PICK k \in S : \A m \in S : m <= k
    BY <1>2, LastLink
  <2>2. k \in Link
    BY <1>1, <2>1, NetAssumption DEF Link, List
  <2>3. ASSUME NEW m \in List, m = 0 \/ k < m PROVE AlongMarks(lets, m) /\ InEarnest(lets, m)
    <3>1. m \notin S
      BY <1>1, <2>1, <2>3, NetAssumption DEF List
    <3> QED BY <3>1
  <2> DEFINE a == After[k]
             b == Fork[To[k]]
  <2>4. AlongMarks(lets, a) /\ InEarnest(lets, a) /\ AlongMarks(lets, b) /\ InEarnest(lets, b)
    BY <2>2, <2>3, Onwards
  <2>5. ASSUME NEW w \in Walk, Marking(lets, k, w)
        PROVE  Done(lets, k, w, Visit(lets)[k]["marks"][w])
    <3>1. PICK v : v = Turn(lets, k, "marks", w, Visit(lets)[b])
      OBVIOUS
    <3>2. TurnDone(lets, k, w, v)
      BY <2>2, <2>4, <2>5, <3>1, MarksTurn
    <3>3. a # 0 => Marking(lets, a, v)
      BY <2>2, <2>5, <3>2, MarkingOn
    <3>4. v \in Walk
      BY <3>2 DEF TurnDone
    <3>5. Done(lets, a, v, Visit(lets)[a]["marks"][v])
      BY <2>4, <3>3, <3>4 DEF AlongMarks
    <3>6. Visit(lets)[k]["marks"][w] = Visit(lets)[a]["marks"][v]
      BY <1>0, <2>2, <3>1, VisitIs
    <3> QED BY <2>2, <3>2, <3>5, <3>6, TurnThenRest
  <2>6. ASSUME NEW t \in Tags, NEW w \in Walk, Come(lets)[k] = {t}, Clean(k, w)
        PROVE  Done(lets, k, w, Visit(lets)[k][t][w])
    <3>1. PICK v : v = Turn(lets, k, t, w, Visit(lets)[b])
      OBVIOUS
    <3>2. TurnDone(lets, k, w, v)
      BY <2>2, <2>4, <2>6, <3>1, EarnestTurn
    <3>3. a # 0 => Come(lets)[a] = {t}
      <4>1. a # 0 => Come(lets)[a] = Come(lets)[k]
        BY <2>2, ComeOn
      <4> QED BY <2>6, <4>1
    <3>4. v \in Walk /\ Clean(a, v)
      BY <2>2, <2>6, <3>2, RegionParts DEF TurnDone, Clean
    <3>5. Done(lets, a, v, Visit(lets)[a][t][v])
      BY <2>4, <3>3, <3>4 DEF InEarnest
    <3>6. Visit(lets)[k][t][w] = Visit(lets)[a][t][v]
      <4>1. t \in Way
        BY <1>0
      <4>2. \A m \in Link : Visit(lets)[m][t][w] =
               Visit(lets)[After[m]][t][Turn(lets, m, t, w, Visit(lets)[Fork[To[m]]])]
        BY <4>1, VisitIs
      <4> QED BY <2>2, <3>1, <4>2
    <3> QED BY <2>2, <3>2, <3>5, <3>6, TurnThenRest
  <2>7. k # 0
    BY <1>1, <2>1
  <2>8. AlongMarks(lets, k) /\ InEarnest(lets, k)
    BY <2>5, <2>6, <2>7 DEF AlongMarks, InEarnest
  <2> QED BY <2>1, <2>8
<1> QED BY <1>2

-----------------------------------------------------------------------------
(* A whole modification, from a net without marks.                         *)
LEMMA ModifyDone ==
  ASSUME NoMarkLeft, NEW v \in Value, Modify(v)
  PROVE  /\ NoMarkLeft'
         /\ Once(executed', Expected(Lets(passes', was', is')))
<1> DEFINE w == [mark |-> mark, executed |-> <<>>]
<1>1. PICK lets : lets = Lets(passes, is, v)
  OBVIOUS
<1>2. lets \in [Test -> SUBSET Tags]
  BY <1>1 DEF Lets
<1>3. PICK l \in List : l = Fork[Root]
  BY NetAssumption
<1>4. PICK r : r = PropagateModify(lets, Root, w, Visit(lets)[l])
  OBVIOUS
<1>5. mark' = r.mark /\ executed' = r.executed /\ was' = is /\ is' = v /\ passes' = passes
  BY <1>1, <1>3, <1>4 DEF Modify
<1>6. w \in Walk /\ w.mark = {} /\ w.executed = <<>>
  BY DEF NoMarkLeft, Walk
<1>7. Clean(l, w) /\ MarkOf(w, Root) = {}
  BY <1>6 DEF Clean, MarkOf
<1>8. l # 0 => Come(lets)[l] = Tags
  <2>1. l # 0 => l \in Link /\ From[l] = Root
    BY <1>3, NetAssumption, ListAssumption DEF Link, List
  <2> QED BY <2>1, ComeIs
<1>9. AlongMarks(lets, l) /\ Root \in Node
  BY <1>2, <1>3, WalksAreDone, NetAssumption
<1> HIDE DEF w
<1>10. Done(lets, l, w, r)
  BY <1>2, <1>3, <1>4, <1>6, <1>7, <1>8, <1>9, ModifyIs
<1>11. r \in Walk /\ r.mark = {} /\ Grows(<<>>, r.executed, Due(lets, l))
  BY <1>6, <1>10 DEF Done
<1>12. Due(lets, l) = Expected(lets)
  <2>1. \A k : k \in Sub(l) <=> k \in Link
    <3>1. \A k : k \in Sub(l) => k \in Link
      BY DEF Sub
    <3> QED BY <1>3, <3>1, SubAll
  <2>2. Sub(l) = Link
    BY <2>1
  <2> QED BY <2>2 DEF Due, Expected, Told
<1>13. Once(r.executed, Expected(lets))
  <2>1. PICK f : Once(f, Expected(lets)) /\ r.executed = <<>> \o f
    BY <1>11, <1>12 DEF Grows
  <2>2. f \in Seq(Execution)
    BY <2>1 DEF Once
  <2>3. r.executed = f
    BY <2>1, <2>2, ConcatEmptySeq
  <2> QED BY <2>1, <2>3
<1>14. NoMarkLeft'
  BY <1>5, <1>11 DEF NoMarkLeft, Walk
<1>15. Lets(passes', was', is') = lets
  BY <1>1, <1>5
<1> QED BY <1>5, <1>13, <1>14, <1>15

(* However the tests of a net are shared, and whatever SETs and TIMERs     *)
(* walk below: no modification leaves a mark in a node, which the next one *)
(* would follow (Node::propagate_reached_nodes).                           *)
THEOREM NothingStaysMarked == Spec => []NoMarkLeft
<1>1. Init => NoMarkLeft
  BY DEF Init, NoMarkLeft
<1>2. NoMarkLeft /\ [Next]_vars => NoMarkLeft'
  <2>1. NoMarkLeft /\ UNCHANGED vars => NoMarkLeft'
    BY DEF NoMarkLeft, vars
  <2>2. NoMarkLeft /\ Next => NoMarkLeft'
    BY ModifyDone DEF Next
  <2> QED BY <2>1, <2>2
<1> QED BY <1>1, <1>2, PTL DEF Spec

(* In any such net a modification executes each node with memory that the  *)
(* old or the new object comes to, once by each side, with the tag of what *)
(* comes there (Node::propagate_modify).                                   *)
THEOREM EachIsReachedOnce == Spec => ReachedOnce
<1>1. NoMarkLeft /\ [Next]_vars =>
        [ /\ \A i, j \in DOMAIN executed' : executed'[i] = executed'[j] => i = j
          /\ {executed'[i] : i \in DOMAIN executed'} = Expected(Lets(passes, was, is))' ]_vars
  <2>1. SUFFICES ASSUME NoMarkLeft, NEW v \in Value, Modify(v)
                 PROVE  /\ \A i, j \in DOMAIN executed' : executed'[i] = executed'[j] => i = j
                        /\ {executed'[i] : i \in DOMAIN executed'}
                             = Expected(Lets(passes, was, is))'
    BY DEF Next
  <2>2. Once(executed', Expected(Lets(passes', was', is')))
    BY <2>1, ModifyDone
  <2>3. DOMAIN executed' = 1..Len(executed')
    BY <2>2 DEF Once
  <2>4. Expected(Lets(passes, was, is))' = Expected(Lets(passes', was', is'))
    OBVIOUS
  <2> QED BY <2>2, <2>3, <2>4 DEF Once
<1> QED BY <1>1, NothingStaysMarked, PTL DEF Spec, ReachedOnce
=============================================================================
