-------------------------- MODULE ActionLoopProofs ---------------------------
(***************************************************************************)
(* First, with IInv: the instances of do_loop keep to their own part of    *)
(* the list, and every modification is propagated as it was made.          *)
(*                                                                         *)
(* Second, from "The uses in which the account is right", with Ledger: who *)
(* holds what.  The engine never refers to an object the application may   *)
(* have freed (NothingDangles), what it tells the application obeys        *)
(* ObjectFeed (FeedIsObeyed), and it drops its last reference to an object *)
(* only when the application has it back (NothingLeaks).                   *)
(*                                                                         *)
(* None of the three is inductive: whether an object may be given away     *)
(* depends on the other actions and instances that refer to it and on who  *)
(* owns their Singles.  Ledger keeps that account, object by object, along *)
(* its life: never seen, made by a rule and not yet told, known to the     *)
(* application, gone.                                                      *)
(***************************************************************************)
EXTENDS ActionLoop, SequenceTheorems, FiniteSetTheorems, WellFoundedInduction, TLAPS

(* A MODIFY carries the copy of the old state. *)
HasOld == \A i \in 1..Len(queue) : queue[i].tag = "MODIFY" => queue[i].old \in Value

(* The parts of the list follow each other as the instances do, and only   *)
(* the last one is not waiting for another.                                *)
Framed ==
  /\ \A n \in 1..Len(stack) :
       /\ stack[n].base <= Len(queue)
       /\ stack[n].pc \in {"tell", "descend"} => stack[n].base <= stack[n].told
       /\ n < Len(stack) => stack[n].pc = "descend"
  /\ \A m, n \in 1..Len(stack) : m <= n => stack[m].base <= stack[n].base

IInv == TypeOK /\ HasOld /\ Framed

-----------------------------------------------------------------------------
(* The list after the action at place base + d was taken, with the CHANGE  *)
(* actions before it, or after all were dropped.                           *)
Cut(q, base, d) ==
  /\ queue' \in Seq(Action)
  /\ base + d <= Len(q)
  /\ Len(queue') = Len(q) - d
  /\ \A i \in 1..base : queue'[i] = q[i]
  /\ \A i \in (base + 1)..Len(queue') : queue'[i] = q[i + d]

(* The places of a concatenation.                                          *)
LEMMA Joined ==
  ASSUME NEW a \in Seq(Action), NEW b \in Seq(Action)
  PROVE  /\ a \o b \in Seq(Action) /\ Len(a \o b) = Len(a) + Len(b)
         /\ \A i \in 1..Len(a) : (a \o b)[i] = a[i]
         /\ \A i \in (Len(a) + 1)..Len(a \o b) : (a \o b)[i] = b[i - Len(a)]
<1>1. /\ a \o b \in Seq(Action)
      /\ Len(a \o b) = Len(a) + Len(b)
      /\ \A i \in 1..Len(a) + Len(b) :
           (a \o b)[i] = IF i <= Len(a) THEN a[i] ELSE b[i - Len(a)]
  BY ConcatProperties, Zenon
<1>2. Len(a) \in Nat /\ Len(b) \in Nat
  OBVIOUS
<1> QED BY <1>1, <1>2

(* Taking the action at place k.                                           *)
LEMMA WithoutCuts ==
  ASSUME NEW q \in Seq(Action), NEW base \in 0..Len(q), NEW k \in (base + 1)..Len(q),
         queue' = Without(q, base, k)
  PROVE  Cut(q, base, k - base)
<1> DEFINE a == SubSeq(q, 1, base)
           b == SubSeq(q, k + 1, Len(q))
<1>1. a \in Seq(Action) /\ Len(a) = base /\ \A i \in 1..base : a[i] = q[i]
  OBVIOUS
<1>2. /\ b \in Seq(Action) /\ Len(b) = Len(q) - k
      /\ \A i \in 1..(Len(q) - k) : b[i] = q[i + k]
  OBVIOUS
<1> HIDE DEF a, b
<1> DEFINE c == a \o b
<1>3. /\ c \in Seq(Action) /\ Len(c) = Len(a) + Len(b)
      /\ \A i \in 1..Len(a) : c[i] = a[i]
      /\ \A i \in (Len(a) + 1)..Len(c) : c[i] = b[i - Len(a)]
  <2>1. a \in Seq(Action) /\ b \in Seq(Action)
    BY <1>1, <1>2
  <2> QED BY <2>1, Joined, Zenon
<1>4. queue' = c
  BY Zenon DEF Without, a, b
<1> HIDE DEF c
<1>5. ASSUME NEW i \in (base + 1)..Len(queue')
      PROVE  queue'[i] = q[i + (k - base)]
  <2>1. i - base \in 1..(Len(q) - k) /\ (i - base) + k = i + (k - base)
    BY <1>1, <1>2, <1>3, <1>4
  <2> QED BY <1>1, <1>2, <1>3, <1>4, <2>1
<1>6. base + (k - base) <= Len(q) /\ Len(queue') = Len(q) - (k - base)
  BY <1>1, <1>2, <1>3, <1>4
<1>7. \A i \in 1..base : queue'[i] = q[i]
  BY <1>1, <1>3, <1>4
<1> QED BY <1>3, <1>4, <1>5, <1>6, <1>7 DEF Cut

(* Dropping all that is left.                                              *)
LEMMA DropCuts ==
  ASSUME NEW q \in Seq(Action), NEW base \in 0..Len(q),
         queue' = SubSeq(q, 1, base)
  PROVE  Cut(q, base, Len(q) - base)
BY DEF Cut

(* The action the instance propagates. *)
Taken(q, k, val, first, base, below) ==
  LET a == q[k]
      s == Swapped(a, val[a.obj])
      v == OtherState(a, val[a.obj])
  IN /\ ~HasBeenDeleted(a)
     /\ value' = [val EXCEPT ![a.obj] = v]
     /\ Propagate(s, v, base, first, below)

(* do_loop either gives up its action, or begins with one.                 *)
LEMMA EnterCuts ==
  ASSUME NEW q \in Seq(Action), NEW base \in 0..Len(q), NEW val,
         NEW first \in BOOLEAN, NEW below, Enter(q, base, val, first, below)
  PROVE  \E d \in 0..Len(q) :
           /\ Cut(q, base, d)
           /\ \/ /\ value' = val /\ stack' = below
                 /\ UNCHANGED <<net, deleted>>
              \/ /\ d > 0 /\ q[base + d].tag # "CHANGE"
                 /\ Taken(q, base + d, val, first, Len(queue'), below)
<1>1. CASE HeadPlace(q, base) = {} /\ queue' = SubSeq(q, 1, base)
           /\ value' = val /\ stack' = below /\ UNCHANGED <<net, deleted>>
  <2>1. Cut(q, base, Len(q) - base) /\ Len(q) - base \in 0..Len(q)
    BY <1>1, DropCuts
  <2> QED BY <1>1, <2>1
<1>2. ASSUME NEW k \in HeadPlace(q, base), queue' = Without(q, base, k),
             \/ value' = val /\ stack' = below /\ UNCHANGED <<net, deleted>>
             \/ Taken(q, k, val, first, Len(q) - (k - base), below)
      PROVE  \E d \in 0..Len(q) :
               /\ Cut(q, base, d)
               /\ \/ /\ value' = val /\ stack' = below
                     /\ UNCHANGED <<net, deleted>>
                  \/ /\ d > 0 /\ q[base + d].tag # "CHANGE"
                     /\ Taken(q, base + d, val, first, Len(queue'), below)
  <2>1. k \in (base + 1)..Len(q) /\ q[k].tag # "CHANGE"
    BY <1>2 DEF HeadPlace
  <2>2. Cut(q, base, k - base)
    BY <1>2, <2>1, WithoutCuts
  <2>3. k - base \in 1..Len(q) /\ base + (k - base) = k
    BY <2>1
  <2>4. Len(queue') = Len(q) - (k - base)
    BY <2>2 DEF Cut
  <2> QED BY <1>2, <2>1, <2>2, <2>3, <2>4
<1> QED BY <1>1, <1>2 DEF Enter, Taken

-----------------------------------------------------------------------------
(* The types.  First the beginning of do_loop.                             *)
LEMMA ActionAt ==
  ASSUME NEW q \in Seq(Action), NEW i \in 1..Len(q)
  PROVE  q[i] \in Action /\ q[i].obj \in Obj /\ q[i].tag \in Tag
<1>1. q[i] \in Action
  BY ElementOfSeq, Zenon
<1> QED BY <1>1 DEF Action

(* An instance of do_loop.                                                 *)
LEMMA FrameAt ==
  ASSUME NEW s \in Seq(Frame), NEW n \in 1..Len(s)
  PROVE  /\ s[n] \in Frame /\ s[n].base \in Nat /\ s[n].told \in Nat
         /\ s[n].act \in Action /\ s[n].act.obj \in Obj
<1>1. s[n] \in Frame
  BY ElementOfSeq, Zenon
<1>2. s[n].base \in Nat /\ s[n].told \in Nat /\ s[n].act \in Action
  BY <1>1 DEF Frame
<1> QED BY <1>1, <1>2 DEF Action

Begins(below, base, first) ==
  \E f \in Frame : /\ stack' = Append(below, f) /\ f.base = base
                   /\ f.pc = "net" /\ f.first = first

(* The propagation and the instance it begins keep their types.            *)
LEMMA TakenTypes ==
  ASSUME NEW q \in Seq(Action), NEW k \in 1..Len(q), NEW val \in [Obj -> Value],
         NEW first \in BOOLEAN, NEW base \in Nat, NEW below \in Seq(Frame),
         q[k].tag = "MODIFY" => q[k].old \in Value,
         net \in [Obj -> Value \union {Absent}], deleted \subseteq Obj,
         Taken(q, k, val, first, base, below)
  PROVE  /\ value' \in [Obj -> Value]
         /\ net' \in [Obj -> Value \union {Absent}]
         /\ deleted' \subseteq Obj
         /\ Begins(below, base, first)
<1> DEFINE a == q[k]
           v == OtherState(a, val[a.obj])
           s == Swapped(a, val[a.obj])
<1>1. a \in Action /\ a.obj \in Obj /\ val[a.obj] \in Value
  BY ActionAt
<1>2. v \in Value
  BY <1>1 DEF OtherState
<1>3. s \in Action /\ s.obj = a.obj
  BY <1>1 DEF Swapped, Action
<1> HIDE DEF a, v, s
<1>4. value' = [val EXCEPT ![a.obj] = v] /\ Propagate(s, v, base, first, below)
  BY DEF Taken, a, v, s
<1>5. PICK entry \in Kept(s, v) :
        /\ net' = [net EXCEPT ![s.obj] = entry]
        /\ stack' = Append(below, [act |-> Unified(s, entry), first |-> first,
                                   base |-> base, ran |-> FALSE,
                                   told |-> base, pc |-> "net"])
        /\ deleted' = IF ~first /\ s.tag = "RETRACT" /\ ~Unified(s, entry).own
                      THEN deleted \union {s.obj} ELSE deleted
  BY <1>4 DEF Propagate
<1>6. entry \in Value \union {Absent}
  BY <1>1, <1>2, <1>3, <1>5 DEF Kept
<1>7. Unified(s, entry) \in Action
  BY <1>3 DEF Unified, Action
<1>8. [act |-> Unified(s, entry), first |-> first, base |-> base, ran |-> FALSE,
       told |-> base, pc |-> "net"] \in Frame
  BY <1>7 DEF Frame
<1>9. Begins(below, base, first)
  BY <1>5, <1>8 DEF Begins
<1> QED BY <1>1, <1>2, <1>3, <1>4, <1>5, <1>6, <1>9

(* What is left of the list keeps its copies.                              *)
LEMMA CutKeepsOld ==
  ASSUME NEW q \in Seq(Action), NEW base \in 0..Len(q), NEW d \in 0..Len(q),
         \A i \in 1..Len(q) : q[i].tag = "MODIFY" => q[i].old \in Value,
         Cut(q, base, d)
  PROVE  queue' \in Seq(Action) /\ HasOld'
<1>1. queue' \in Seq(Action) /\ Len(queue') = Len(q) - d /\ Len(queue') \in Nat
  BY DEF Cut
<1>2. ASSUME NEW i \in 1..Len(queue')
      PROVE  \E j \in 1..Len(q) : queue'[i] = q[j]
  <2>1. CASE i <= base
    BY <2>1, <1>1 DEF Cut
  <2>2. CASE i > base
    <3>1. i + d \in 1..Len(q) /\ i \in (base + 1)..Len(queue')
      BY <2>2, <1>1
    <3> QED BY <3>1 DEF Cut
  <2> QED BY <2>1, <2>2
<1> QED BY <1>1, <1>2 DEF HasOld

(* Where an instance may begin: at the bottom, or above one that descends. *)
MayBegin(below, base) ==
  /\ below \in Seq(Frame)
  /\ \A n \in 1..Len(below) :
       /\ below[n].base <= base /\ below[n].pc = "descend"
       /\ below[n].base <= below[n].told
  /\ \A m, n \in 1..Len(below) : m <= n => below[m].base <= below[n].base

(* do_loop keeps the types and the order of the parts.                     *)
LEMMA EnterKeeps ==
  ASSUME NEW q \in Seq(Action), NEW base \in 0..Len(q), NEW val \in [Obj -> Value],
         NEW first \in BOOLEAN, NEW below, MayBegin(below, base),
         \A i \in 1..Len(q) : q[i].tag = "MODIFY" => q[i].old \in Value,
         net \in [Obj -> Value \union {Absent}], deleted \subseteq Obj,
         Enter(q, base, val, first, below)
  PROVE  /\ value' \in [Obj -> Value]
         /\ net' \in [Obj -> Value \union {Absent}]
         /\ deleted' \subseteq Obj
         /\ queue' \in Seq(Action) /\ stack' \in Seq(Frame)
         /\ HasOld' /\ Framed'
<1>1. PICK d \in 0..Len(q) :
        /\ Cut(q, base, d)
        /\ \/ /\ value' = val /\ stack' = below
              /\ UNCHANGED <<net, deleted>>
           \/ /\ d > 0 /\ q[base + d].tag # "CHANGE"
              /\ Taken(q, base + d, val, first, Len(queue'), below)
  BY EnterCuts
<1>2. queue' \in Seq(Action) /\ HasOld' /\ base <= Len(queue') /\ Len(queue') \in Nat
  <2>1. queue' \in Seq(Action) /\ HasOld'
    BY <1>1, CutKeepsOld
  <2> QED BY <1>1, <2>1 DEF Cut
<1>3. CASE value' = val /\ stack' = below /\ UNCHANGED <<net, deleted>>
  <2>1. \A n \in 1..Len(below) : below[n].base \in Nat
    BY FrameAt DEF MayBegin
  <2>2. /\ \A n \in 1..Len(below) : below[n].base <= Len(queue')
        /\ \A n \in 1..Len(below) : /\ below[n].base <= below[n].told
                                    /\ below[n].pc = "descend"
        /\ \A m, n \in 1..Len(below) : m <= n => below[m].base <= below[n].base
    BY <1>2, <2>1 DEF MayBegin
  <2>3. Framed'
    BY <1>3, <2>2 DEF Framed
  <2> QED BY <1>2, <1>3, <2>3 DEF MayBegin
<1>4. CASE d > 0 /\ Taken(q, base + d, val, first, Len(queue'), below)
  <2>1. base + d \in 1..Len(q)
    BY <1>1, <1>4 DEF Cut
  <2>2. below \in Seq(Frame)
    BY DEF MayBegin
  <2>3. /\ value' \in [Obj -> Value]
        /\ net' \in [Obj -> Value \union {Absent}]
        /\ deleted' \subseteq Obj
        /\ Begins(below, Len(queue'), first)
    <3>1. q[base + d].tag = "MODIFY" => q[base + d].old \in Value
      BY <2>1
    <3> QED BY <1>2, <1>4, <2>1, <2>2, <3>1, TakenTypes, Zenon
  <2>4. PICK f \in Frame : /\ stack' = Append(below, f)
                           /\ f.base = Len(queue') /\ f.pc = "net"
    BY <2>3 DEF Begins
  <2>5. /\ stack' \in Seq(Frame) /\ Len(stack') = Len(below) + 1
        /\ stack'[Len(below) + 1] = f
        /\ \A n \in 1..Len(below) : stack'[n] = below[n]
    BY <2>2, <2>4
  <2>6. Framed'
    <3>1. ASSUME NEW n \in 1..Len(stack')
          PROVE  /\ stack'[n].base <= Len(queue')
                 /\ stack'[n].pc \in {"tell", "descend"} => stack'[n].base <= stack'[n].told
                 /\ n < Len(stack') => stack'[n].pc = "descend"
      <4>1. CASE n = Len(below) + 1
        BY <1>2, <2>4, <2>5, <4>1
      <4>2. CASE n \in 1..Len(below)
        <5>1. below[n].base \in Nat
          BY <2>2, <4>2, FrameAt
        <5> QED BY <1>2, <2>5, <4>2, <5>1 DEF MayBegin
      <4> QED BY <2>2, <2>5, <4>1, <4>2
    <3>2. ASSUME NEW m \in 1..Len(stack'), NEW n \in 1..Len(stack'), m <= n
          PROVE  stack'[m].base <= stack'[n].base
      <4>1. CASE n = Len(below) + 1
        BY <2>4, <2>5, <3>1, <4>1
      <4>2. CASE n \in 1..Len(below)
        <5>1. m \in 1..Len(below)
          BY <2>2, <2>5, <3>2, <4>2
        <5> QED BY <2>5, <3>2, <4>2, <5>1 DEF MayBegin
      <4> QED BY <2>2, <2>5, <4>1, <4>2
    <3> QED BY <3>1, <3>2 DEF Framed
  <2> QED BY <1>2, <2>3, <2>5, <2>6
<1> QED BY <1>1, <1>3, <1>4

(* A push leaves the rest of the list as it is.                            *)
LEMMA PushKeeps ==
  ASSUME IInv, NEW a \in Action, a.tag = "MODIFY" => a.old \in Value,
         queue' = Append(queue, a), UNCHANGED stack
  PROVE  queue' \in Seq(Action) /\ HasOld' /\ Framed'
<1>1. queue \in Seq(Action) /\ stack \in Seq(Frame) /\ HasOld /\ Framed
  BY DEF IInv, TypeOK
<1>2. /\ queue' \in Seq(Action) /\ Len(queue') = Len(queue) + 1
      /\ queue'[Len(queue) + 1] = a /\ Len(queue) \in Nat
      /\ \A i \in 1..Len(queue) : queue'[i] = queue[i]
  BY <1>1
<1>3. HasOld'
  BY <1>1, <1>2 DEF HasOld
<1>4. \A n \in 1..Len(stack) : stack[n].base \in Nat
  BY <1>1, FrameAt
<1>5. Framed'
  BY <1>1, <1>2, <1>4 DEF Framed
<1> QED BY <1>2, <1>3, <1>5

(* A move of the instance on top.                                          *)
LEMMA TopIsFrame ==
  ASSUME stack \in Seq(Frame), ~Idle
  PROVE  /\ Len(stack) \in Nat \ {0} /\ Len(stack) \in 1..Len(stack)
         /\ Top \in Frame /\ Top.base \in Nat /\ Top.told \in Nat
         /\ Top.act \in Action /\ Top.act.obj \in Obj
<1>1. Len(stack) \in Nat \ {0} /\ Len(stack) \in 1..Len(stack)
  BY EmptySeq DEF Idle
<1> QED BY <1>1, FrameAt DEF Top

(* The instance on top moves and stays in its part.                        *)
LEMMA TopKeeps ==
  ASSUME IInv, ~Idle, NEW f \in Frame, stack' = SetTop(f), f.base = Top.base,
         f.pc \in {"tell", "descend"} => f.base <= f.told,
         Len(queue') = Len(queue)
  PROVE  /\ stack' \in Seq(Frame) /\ Framed'
         /\ Len(stack') = Len(stack) /\ stack'[Len(stack)] = f
         /\ \A n \in 1..(Len(stack) - 1) : stack'[n] = stack[n]
<1>1. stack \in Seq(Frame) /\ Framed
  BY DEF IInv, TypeOK
<1>2. Len(stack) \in Nat \ {0} /\ Len(stack) \in 1..Len(stack)
  BY <1>1, TopIsFrame
<1>3. /\ stack' \in Seq(Frame) /\ Len(stack') = Len(stack)
      /\ stack'[Len(stack)] = f
      /\ \A n \in 1..(Len(stack) - 1) : stack'[n] = stack[n]
  BY <1>1, <1>2 DEF SetTop
<1>4. \A n \in 1..Len(stack) : stack'[n].base = stack[n].base
  BY <1>2, <1>3 DEF Top
<1>5. Framed'
  <2>1. ASSUME NEW n \in 1..Len(stack)
        PROVE  /\ stack'[n].base <= Len(queue')
               /\ stack'[n].pc \in {"tell", "descend"} => stack'[n].base <= stack'[n].told
               /\ n < Len(stack) => stack'[n].pc = "descend"
    <3>1. n = Len(stack) \/ n \in 1..(Len(stack) - 1)
      BY <1>2
    <3>2. stack'[n].base <= Len(queue')
      BY <1>1, <1>4 DEF Framed
    <3>3. CASE n = Len(stack)
      BY <1>3, <3>2, <3>3
    <3>4. CASE n \in 1..(Len(stack) - 1)
      BY <1>1, <1>3, <3>2, <3>4 DEF Framed
    <3> QED BY <3>1, <3>3, <3>4
  <2>2. \A m, n \in 1..Len(stack) : m <= n => stack'[m].base <= stack'[n].base
    BY <1>1, <1>4 DEF Framed
  <2> QED BY <1>3, <2>1, <2>2 DEF Framed
<1> QED BY <1>3, <1>5

(* What the application and the right-hand sides push.                     *)
LEMMA ExternalIs ==
  ASSUME NEW x \in Obj, NEW v \in Value, NEW tag \in {"INSERT", "MODIFY", "RETRACT"}
  PROVE  /\ External(tag, x, v) \in Action
         /\ External(tag, x, v).tag = tag /\ External(tag, x, v).obj = x
         /\ External(tag, x, v).own
         /\ tag = "MODIFY" => /\ External(tag, x, v).old = v
                              /\ External(tag, x, v).wrote = v
BY DEF External, Plain, Rewrite, Action, Tag

(* The actions without a copy.                                             *)
LEMMA PlainIs ==
  ASSUME NEW x \in Obj, NEW tag \in Tag
  PROVE  Plain(tag, x, FALSE) \in Action /\ Plain(tag, x, FALSE).tag = tag
BY DEF Plain, Action

(* The action of a MODIFY by a rule.                                       *)
LEMMA RewriteIs ==
  ASSUME NEW x \in Obj, NEW old \in Value, NEW new \in Value
  PROVE  /\ Rewrite(x, old, new, FALSE) \in Action
         /\ Rewrite(x, old, new, FALSE).tag = "MODIFY"
         /\ Rewrite(x, old, new, FALSE).obj = x
         /\ Rewrite(x, old, new, FALSE).old = old
         /\ Rewrite(x, old, new, FALSE).wrote = new
BY DEF Rewrite, Action, Tag

(* A right-hand side keeps the invariant.                                  *)
LEMMA RightHandSideOK ==
  ASSUME IInv, RightHandSide
  PROVE  IInv'
<1>1. TypeOK /\ HasOld /\ Framed
  BY DEF IInv
<1>2. ASSUME NEW a \in Action, a.tag = "MODIFY" => a.old \in Value, Pushed(a),
             value' \in [Obj -> Value], implied' \subseteq Obj,
             life' \in [Obj -> {"fresh", "made", "known", "gone"}]
      PROVE  IInv'
  <2>1. queue' \in Seq(Action) /\ HasOld' /\ Framed'
    BY <1>2, PushKeeps DEF Pushed
  <2>2. ops' \in 0..MaxOps
    BY <1>1, <1>2, ConstantsAssumption DEF Pushed, TypeOK
  <2> QED BY <1>1, <1>2, <2>1, <2>2 DEF IInv, TypeOK, Pushed
<1>3. PICK x \in Obj :
        \/ Create(x) \/ Imply(x) \/ Change(x) \/ Delete(x) \/ RetractImplied(x)
        \/ \E v \in Value : Modify(x, v) \/ ModifyImplied(x, v)
  BY DEF RightHandSide
<1>4. value \in [Obj -> Value] /\ implied \subseteq Obj
      /\ life \in [Obj -> {"fresh", "made", "known", "gone"}]
  BY <1>1 DEF TypeOK
<1>5. ASSUME New(x), implied' \subseteq Obj
      PROVE  IInv'
  <2>1. Plain("INSERT", x, FALSE) \in Action /\ Plain("INSERT", x, FALSE).tag = "INSERT"
    BY PlainIs DEF Tag
  <2> QED BY <1>2, <1>4, <1>5, <2>1 DEF New
<1>6. CASE Create(x)
  BY <1>4, <1>5, <1>6 DEF Create
<1>7. CASE Imply(x)
  BY <1>4, <1>5, <1>7 DEF Imply
<1>8. CASE Change(x)
  <2>1. Plain("CHANGE", x, FALSE) \in Action /\ Plain("CHANGE", x, FALSE).tag = "CHANGE"
    BY PlainIs DEF Tag
  <2> QED BY <1>2, <1>4, <1>8, <2>1 DEF Change
<1>9. CASE Delete(x) \/ RetractImplied(x)
  <2>1. Plain("RETRACT", x, FALSE) \in Action /\ Plain("RETRACT", x, FALSE).tag = "RETRACT"
    BY PlainIs DEF Tag
  <2> QED BY <1>2, <1>4, <1>9, <2>1 DEF Delete, RetractImplied
<1>10. ASSUME NEW v \in Value, Modify(x, v) \/ ModifyImplied(x, v)
       PROVE  IInv'
  <2>1. Write(x, v)
    BY <1>10 DEF Modify, ModifyImplied
  <2>2. /\ Rewrite(x, value[x], v, FALSE) \in Action
        /\ Rewrite(x, value[x], v, FALSE).old \in Value
    <3>1. value[x] \in Value
      BY <1>4
    <3> QED BY <3>1 DEF Rewrite, Action, Tag
  <2>3. value' \in [Obj -> Value]
    BY <1>4, <2>1 DEF Write
  <2> QED BY <1>2, <1>4, <2>1, <2>2, <2>3 DEF Write
<1> QED BY <1>3, <1>6, <1>7, <1>8, <1>9, <1>10

(* engine_loop keeps the invariant.                                        *)
LEMMA EngineLoopOK ==
  ASSUME IInv, NEW x \in Obj, NEW v \in Value,
         NEW tag \in {"INSERT", "MODIFY", "RETRACT"}, EngineLoop(tag, x, v)
  PROVE  IInv'
<1> DEFINE a == External(tag, x, v)
           q == Append(queue, a)
<1>1. TypeOK /\ HasOld /\ Framed
  BY DEF IInv
<1>2. a \in Action /\ (a.tag = "MODIFY" => a.old \in Value)
  BY ExternalIs
<1> HIDE DEF a
<1>3. /\ q \in Seq(Action)
      /\ \A i \in 1..Len(q) : q[i].tag = "MODIFY" => q[i].old \in Value
      /\ 0 \in 0..Len(q)
  BY <1>1, <1>2 DEF TypeOK, HasOld
<1>4. Enter(q, 0, value, TRUE, <<>>)
  BY DEF EngineLoop, a
<1>5. MayBegin(<<>>, 0)
  BY EmptySeq DEF MayBegin
<1> HIDE DEF q
<1>6. /\ value' \in [Obj -> Value]
      /\ net' \in [Obj -> Value \union {Absent}]
      /\ deleted' \subseteq Obj
      /\ queue' \in Seq(Action) /\ stack' \in Seq(Frame)
      /\ HasOld' /\ Framed'
  <2>1. /\ value \in [Obj -> Value] /\ net \in [Obj -> Value \union {Absent}]
        /\ deleted \subseteq Obj
    BY <1>1 DEF TypeOK
  <2> QED BY <1>3, <1>4, <1>5, <2>1, EnterKeeps
<1>7. calls' \in 0..MaxCalls
  BY <1>1, ConstantsAssumption DEF EngineLoop, MayCall, TypeOK
<1>8. life' \in [Obj -> {"fresh", "made", "known", "gone"}]
  BY <1>1 DEF EngineLoop, LifeAfterCall, TypeOK
<1> QED BY <1>1, <1>6, <1>7, <1>8 DEF IInv, TypeOK, EngineLoop

(* So does engine_loop called inside.                                      *)
LEMMA EngineLoopInsideOK ==
  ASSUME IInv, NEW x \in Obj, NEW v \in Value,
         NEW tag \in {"INSERT", "MODIFY", "RETRACT"}, EngineLoopInside(tag, x, v)
  PROVE  IInv'
<1> DEFINE a == External(tag, x, v)
<1>1. TypeOK /\ HasOld /\ Framed
  BY DEF IInv
<1>2. a \in Action /\ (a.tag = "MODIFY" => a.old \in Value)
  BY ExternalIs
<1>3. queue' \in Seq(Action) /\ HasOld' /\ Framed'
  BY <1>2, PushKeeps DEF EngineLoopInside
<1>4. calls' \in 0..MaxCalls
  BY <1>1, ConstantsAssumption DEF EngineLoopInside, MayCall, TypeOK
<1>5. life' \in [Obj -> {"fresh", "made", "known", "gone"}]
  BY <1>1 DEF EngineLoopInside, LifeAfterCall, TypeOK
<1> QED BY <1>1, <1>3, <1>4, <1>5 DEF IInv, TypeOK, EngineLoopInside

(* The rest of do_loop.                                                    *)
LEMMA MoveOK ==
  ASSUME IInv, RunRule \/ StartTelling \/ AllTold \/ Repeat
  PROVE  IInv'
<1>1. TypeOK /\ HasOld /\ Framed /\ ~Idle
  BY DEF IInv, RunRule, StartTelling, AllTold, Repeat, AtCs, InRun, Drained
<1>2. /\ Top \in Frame /\ Top.base \in Nat /\ Len(stack) \in 1..Len(stack)
  BY <1>1, TopIsFrame DEF TypeOK
<1>3. ASSUME NEW f \in Frame, stack' = SetTop(f), f.base = Top.base,
             f.pc \in {"tell", "descend"} => f.base <= f.told,
             UNCHANGED <<value, net, queue, implied, deleted, life, ops, calls>>,
             event' = NoEvent
      PROVE  IInv'
  <2>1. stack' \in Seq(Frame) /\ Framed'
    BY <1>1, <1>3, TopKeeps
  <2>2. HasOld'
    BY <1>1, <1>3 DEF HasOld
  <2> QED BY <1>1, <1>3, <2>1, <2>2 DEF IInv, TypeOK
<1>4. CASE RunRule
  <2> DEFINE f == [Top EXCEPT !.pc = "rhs", !.ran = TRUE]
  <2>1. f \in Frame /\ f.base = Top.base /\ f.pc = "rhs"
    BY <1>2 DEF Frame
  <2> QED BY <1>3, <1>4, <2>1 DEF RunRule
<1>5. CASE StartTelling
  <2> DEFINE f == [Top EXCEPT !.pc = "tell", !.told = Top.base, !.ran = InRun]
  <2>0. InRun \in BOOLEAN
    BY DEF InRun
  <2>1. f \in Frame /\ f.base = Top.base /\ f.told = Top.base
    BY <1>2, <2>0 DEF Frame
  <2>2. f.base <= f.told
    BY <1>2, <2>1
  <2> QED BY <1>3, <1>5, <2>1, <2>2 DEF StartTelling
<1>6. CASE AllTold
  <2> DEFINE f == [Top EXCEPT !.pc = "descend"]
  <2>1. f \in Frame /\ f.base = Top.base /\ f.told = Top.told
    BY <1>2 DEF Frame
  <2>2. Top.base <= Top.told
    BY <1>1, <1>2, <1>6 DEF AllTold, Framed, Top
  <2> QED BY <1>3, <1>6, <2>1, <2>2 DEF AllTold
<1>7. CASE Repeat
  <2> DEFINE f == [Top EXCEPT !.pc = "cs"]
  <2>1. f \in Frame /\ f.base = Top.base /\ f.pc = "cs"
    BY <1>2 DEF Frame
  <2> QED BY <1>3, <1>7, <2>1 DEF Repeat
<1> QED BY <1>4, <1>5, <1>6, <1>7

(* So does the loop that tells.                                            *)
LEMMA TellOK ==
  ASSUME IInv, Tell
  PROVE  IInv'
<1> DEFINE i == Top.told + 1
           f == [Top EXCEPT !.told = i]
<1>1. TypeOK /\ HasOld /\ Framed /\ ~Idle
  BY DEF IInv, Tell
<1>2. /\ Top \in Frame /\ Top.base \in Nat /\ Top.told \in Nat
      /\ Len(stack) \in 1..Len(stack)
  BY <1>1, TopIsFrame DEF TypeOK
<1>3. Top.base <= Top.told /\ i \in 1..Len(queue)
  BY <1>1, <1>2 DEF Tell, Framed, Top, TypeOK
<1>4. f \in Frame /\ f.base = Top.base /\ f.told = i /\ stack' = SetTop(f)
  BY <1>2 DEF Frame, Tell
<1>5. queue[i] \in Action /\ queue[i].obj \in Obj
  BY <1>1, <1>3, ActionAt DEF TypeOK
<1>6. /\ queue' \in Seq(Action) /\ Len(queue') = Len(queue)
      /\ value' \in [Obj -> Value] /\ HasOld'
  <2>1. CASE queue[i].tag = "MODIFY"
    <3>1. /\ value' = [value EXCEPT ![queue[i].obj] = queue[i].old]
          /\ queue' = [queue EXCEPT ![i].old = value[queue[i].obj]]
      BY <2>1 DEF Tell, ObjSwap
    <3>2. queue[i].old \in Value /\ value[queue[i].obj] \in Value
      BY <1>1, <1>3, <1>5, <2>1 DEF TypeOK, HasOld
    <3>3. /\ [queue[i] EXCEPT !.old = value[queue[i].obj]] \in Action
          /\ [queue[i] EXCEPT !.old = value[queue[i].obj]].old \in Value
      BY <1>5, <3>2 DEF Action
    <3>4. /\ queue' \in Seq(Action) /\ Len(queue') = Len(queue)
          /\ queue'[i] = [queue[i] EXCEPT !.old = value[queue[i].obj]]
          /\ \A j \in 1..Len(queue) : j # i => queue'[j] = queue[j]
      <4> DEFINE r == [queue[i] EXCEPT !.old = value[queue[i].obj]]
      <4>1. queue' = [queue EXCEPT ![i] = r]
        BY <3>1
      <4>2. r \in Action /\ queue \in Seq(Action)
        BY <1>1, <3>3 DEF TypeOK
      <4> HIDE DEF r
      <4>3. /\ queue' \in Seq(Action) /\ Len(queue') = Len(queue)
            /\ queue'[i] = r
            /\ \A j \in 1..Len(queue) : j # i => queue'[j] = queue[j]
        BY <1>3, <4>1, <4>2
      <4> QED BY <4>3 DEF r
    <3>5. HasOld'
      BY <1>1, <3>3, <3>4 DEF HasOld
    <3>6. value' \in [Obj -> Value]
      BY <1>1, <3>1, <3>2 DEF TypeOK
    <3> QED BY <3>4, <3>5, <3>6
  <2>2. CASE queue[i].tag # "MODIFY"
    <3>1. UNCHANGED <<value, queue>>
      BY <2>2 DEF Tell
    <3> QED BY <1>1, <3>1 DEF TypeOK, HasOld
  <2> QED BY <2>1, <2>2
<1>7. f.base <= f.told
  BY <1>2, <1>3, <1>4
<1> HIDE DEF f
<1>8. stack' \in Seq(Frame) /\ Framed'
  BY <1>1, <1>4, <1>6, <1>7, TopKeeps
<1>9. /\ life' \in [Obj -> {"fresh", "made", "known", "gone"}]
      /\ event' \in [kind : Kind, obj : Obj, shown : Value] \union {NoEvent}
  <2>1. value[queue[i].obj] \in Value
    BY <1>1, <1>5 DEF TypeOK
  <2> QED BY <1>1, <1>5, <2>1 DEF TypeOK, Tell, Say, Kind
<1> QED BY <1>1, <1>6, <1>8, <1>9 DEF IInv, TypeOK, Tell

(* So does the loop that empties the part.                                 *)
LEMMA DescendOK ==
  ASSUME IInv, Descend
  PROVE  IInv'
<1>1. TypeOK /\ HasOld /\ Framed /\ ~Idle
  BY DEF IInv, Descend
<1>2. Top.base \in Nat /\ Len(stack) \in 1..Len(stack) /\ Len(stack) \in Nat
  BY <1>1, TopIsFrame DEF TypeOK
<1>3. Top.base \in 0..Len(queue)
  BY <1>1, <1>2 DEF Descend, TypeOK
<1>4. MayBegin(stack, Top.base)
  <2>1. ASSUME NEW n \in 1..Len(stack)
        PROVE  /\ stack[n].base <= Top.base /\ stack[n].pc = "descend"
               /\ stack[n].base <= stack[n].told
    <3>1. n <= Len(stack)
      BY <1>2
    <3>2. stack[n].pc = "descend"
      BY <1>1, <1>2, <3>1 DEF Framed, Descend, Top
    <3> QED BY <1>1, <1>2, <3>1, <3>2 DEF Framed, Top
  <2> QED BY <1>1, <2>1 DEF MayBegin, TypeOK, Framed
<1>5. /\ value' \in [Obj -> Value]
      /\ net' \in [Obj -> Value \union {Absent}]
      /\ deleted' \subseteq Obj
      /\ queue' \in Seq(Action) /\ stack' \in Seq(Frame)
      /\ HasOld' /\ Framed'
  <2>1. /\ value \in [Obj -> Value] /\ net \in [Obj -> Value \union {Absent}]
        /\ deleted \subseteq Obj /\ queue \in Seq(Action)
    BY <1>1 DEF TypeOK
  <2>2. Enter(queue, Top.base, value, FALSE, stack)
    BY DEF Descend
  <2> QED BY <1>1, <1>3, <1>4, <2>1, <2>2, EnterKeeps DEF HasOld
<1> QED BY <1>1, <1>5 DEF IInv, TypeOK, Descend

(* So does the end of an instance.                                         *)
LEMMA FinishOK ==
  ASSUME IInv, Finish
  PROVE  IInv'
<1>1. TypeOK /\ HasOld /\ Framed /\ ~Idle
  BY DEF IInv, Finish, Drained
<1>2. /\ Len(stack) \in 1..Len(stack) /\ Len(stack) \in Nat \ {0}
      /\ Top.act.obj \in Obj
  BY <1>1, TopIsFrame DEF TypeOK
<1>3. /\ stack' \in Seq(Frame) /\ Len(stack') = Len(stack) - 1
      /\ \A n \in 1..Len(stack') : stack'[n] = stack[n]
  <2>1. stack \in Seq(Frame) /\ Len(stack) - 1 \in 0..Len(stack)
    BY <1>1, <1>2 DEF TypeOK
  <2>2. stack' = SubSeq(stack, 1, Len(stack) - 1)
    BY DEF Finish, Below
  <2> DEFINE n == Len(stack) - 1
  <2>3. n \in 0..Len(stack) /\ stack' = SubSeq(stack, 1, n)
    BY <2>1, <2>2
  <2> HIDE DEF n
  <2>4. /\ stack' \in Seq(Frame) /\ Len(stack') = n
        /\ \A m \in 1..n : stack'[m] = stack[m]
    BY <2>1, <2>3
  <2> QED BY <2>4 DEF n
<1>4. Framed' /\ HasOld'
  BY <1>1, <1>2, <1>3 DEF Finish, Framed, HasOld
<1>5. value[Top.act.obj] \in Value
  BY <1>1, <1>2 DEF TypeOK
<1>6. /\ life' \in [Obj -> {"fresh", "made", "known", "gone"}]
      /\ event' \in [kind : Kind, obj : Obj, shown : Value] \union {NoEvent}
  BY <1>1, <1>2, <1>5 DEF TypeOK, Finish, Say, Kind
<1> QED BY <1>1, <1>3, <1>4, <1>6 DEF IInv, TypeOK, Finish

(* So does every step.                                                     *)
LEMMA StepOK ==
  ASSUME IInv, [Next]_vars
  PROVE  IInv'
<1>1. CASE UNCHANGED vars
  BY <1>1 DEF vars, IInv, TypeOK, HasOld, Framed
<1>2. CASE Application
  BY <1>2, EngineLoopOK, EngineLoopInsideOK DEF Application
<1>3. CASE RightHandSide
  BY <1>3, RightHandSideOK
<1>4. CASE DoLoop
  BY <1>4, MoveOK, TellOK, DescendOK, FinishOK DEF DoLoop
<1> QED BY <1>1, <1>2, <1>3, <1>4 DEF Next

(* The instances of do_loop keep to their parts of the list.               *)
THEOREM Invariance == Spec => []IInv
<1>1. Init => IInv
  <2> SUFFICES ASSUME Init PROVE IInv
    OBVIOUS
  <2>1. (CHOOSE v \in Value : TRUE) \in Value
    BY ConstantsAssumption
  <2>2. TypeOK
    BY <2>1, EmptySeq, ConstantsAssumption DEF Init, TypeOK
  <2>3. HasOld /\ Framed
    BY DEF Init, HasOld, Framed
  <2> QED BY <2>2, <2>3 DEF IInv
<1>2. IInv /\ [Next]_vars => IInv'
  BY StepOK
<1> QED BY <1>1, <1>2, PTL DEF Spec

(* The variables keep their types.                                         *)
THEOREM TypeCorrect == Spec => []TypeOK
<1>1. IInv => TypeOK
  BY DEF IInv
<1> QED BY <1>1, Invariance, PTL

-----------------------------------------------------------------------------
(* The part of the list below the one that works stays as it is.           *)
Untouched == /\ Top.base <= Len(queue')
             /\ \A i \in 1..Top.base : queue'[i] = queue[i]

(* The two lists are alike up to the part of the instance.                 *)
LEMMA PartsAlike ==
  ASSUME IInv, queue' \in Seq(Action), ~Idle, Untouched
  PROVE  /\ Len(queue') >= Top.base
         /\ SubSeq(queue', 1, Top.base) = SubSeq(queue, 1, Top.base)
<1>1. queue \in Seq(Action) /\ Top.base \in Nat /\ Len(stack) \in 1..Len(stack)
  BY TopIsFrame DEF IInv, TypeOK
<1>2. Top.base <= Len(queue)
  BY <1>1 DEF IInv, Framed, Top
<1> DEFINE b == Top.base
           s == SubSeq(queue', 1, b)
           t == SubSeq(queue, 1, b)
<1>3. b \in 0..Len(queue) /\ b \in 0..Len(queue')
  BY <1>1, <1>2 DEF Untouched
<1>4. \A i \in 1..b : queue'[i] = queue[i]
  BY DEF Untouched
<1> HIDE DEF b
<1>5. /\ s \in Seq(Action) /\ Len(s) = b /\ \A i \in 1..b : s[i] = queue'[i]
      /\ t \in Seq(Action) /\ Len(t) = b /\ \A i \in 1..b : t[i] = queue[i]
  BY <1>1, <1>3
<1> HIDE DEF s, t
<1>6. s = t
  BY <1>4, <1>5, SeqEqual
<1> QED BY <1>1, <1>3, <1>6 DEF b, s, t

(* No step touches what lies below the part of the instance on top.        *)
LEMMA StepUntouched ==
  ASSUME IInv, [Next]_vars, ~Idle
  PROVE  Untouched
<1>1. /\ queue \in Seq(Action) /\ Top.base \in Nat /\ Len(stack) \in 1..Len(stack)
      /\ Top.told \in Nat
  BY TopIsFrame DEF IInv, TypeOK
<1>2. Top.base <= Len(queue)
  BY <1>1 DEF IInv, Framed, Top
<1>3. CASE UNCHANGED queue
  BY <1>2, <1>3 DEF Untouched
<1>4. ASSUME NEW a, queue' = Append(queue, a)
      PROVE  Untouched
  BY <1>1, <1>2, <1>4 DEF Untouched
<1>5. CASE Application
  BY <1>4, <1>5 DEF Application, EngineLoop, EngineLoopInside
<1>6. CASE RightHandSide
  BY <1>4, <1>6 DEF RightHandSide, Create, Imply, New, Modify, ModifyImplied,
     Write, Change, Delete, RetractImplied, Pushed
<1>7. CASE Tell
  <2> DEFINE i == Top.told + 1
  <2>1. Top.base <= Top.told
    BY <1>1, <1>7 DEF Tell, IInv, Framed, Top
  <2>2. CASE queue[i].tag = "MODIFY"
    <3>1. queue' = [queue EXCEPT ![i].old = value[queue[i].obj]]
      BY <1>7, <2>2 DEF Tell, ObjSwap
    <3>2. Len(queue') = Len(queue) /\ \A j \in 1..Len(queue) : j # i => queue'[j] = queue[j]
      BY <1>1, <3>1
    <3> QED BY <1>1, <1>2, <2>1, <3>2 DEF Untouched
  <2>3. CASE queue[i].tag # "MODIFY"
    BY <1>3, <1>7, <2>3 DEF Tell
  <2> QED BY <2>2, <2>3
<1>8. CASE Descend
  <2>0. Top.base \in 0..Len(queue)
    BY <1>1, <1>2
  <2>1. Enter(queue, Top.base, value, FALSE, stack)
    BY <1>8 DEF Descend
  <2>2. PICK d \in 0..Len(queue) : Cut(queue, Top.base, d)
    BY <1>1, <2>0, <2>1, EnterCuts
  <2>3. Len(queue) \in Nat
    BY <1>1
  <2> QED BY <1>1, <2>2, <2>3 DEF Cut, Untouched
<1>9. CASE RunRule \/ StartTelling \/ AllTold \/ Repeat \/ Finish \/ UNCHANGED vars
  BY <1>3, <1>9 DEF RunRule, StartTelling, AllTold, Repeat, Finish, vars
<1> QED BY <1>5, <1>6, <1>7, <1>8, <1>9 DEF Next, DoLoop

(* An instance of do_loop leaves alone the actions that wait for those     *)
(* below it, whatever rules and application do.                            *)
THEOREM OthersLeftAlone == Spec => OthersUntouched
<1>1. ASSUME IInv, IInv', [Next]_vars
      PROVE  [~Idle => /\ Len(queue') >= Top.base
                       /\ SubSeq(queue', 1, Top.base) = SubSeq(queue, 1, Top.base)]_vars
  BY <1>1, StepUntouched, PartsAlike DEF IInv, TypeOK
<1> QED BY <1>1, Invariance, PTL DEF Spec, OthersUntouched

-----------------------------------------------------------------------------
(* What the rules and the application are not used to: the engine does not *)
(* keep its promises about modifications to those who do it.               *)
Tame == /\ "unused" \notin FromEvents
        /\ "MODIFY" \notin Inside
        /\ "twice" \notin Habits

(* Nothing waits for the application: the first instance began with an     *)
(* empty list, and only the outermost one tells of unused objects last.    *)
Home == /\ Idle => queue = <<>>
        /\ ~Idle => stack[1].base = 0
        /\ \A n \in 1..Len(stack) : stack[n].first <=> n = 1
        /\ event # NoEvent /\ Idle => event.kind = "unused"

(* On an empty list engine_loop begins with the action it pushed.          *)
LEMMA EngineLoopBegins ==
  ASSUME IInv, queue = <<>>, NEW x \in Obj, NEW v \in Value,
         NEW tag \in {"INSERT", "MODIFY", "RETRACT"}, EngineLoop(tag, x, v)
  PROVE  /\ queue' = <<>>
         /\ Taken(<<External(tag, x, v)>>, 1, value, TRUE, 0, <<>>)
<1> DEFINE a == External(tag, x, v)
           q == <<a>>
<1>1. a \in Action /\ a.tag # "CHANGE" /\ a.own /\ ~HasBeenDeleted(a)
  BY ExternalIs DEF HasBeenDeleted
<1> HIDE DEF a
<1>2. Append(<<>>, a) = q /\ q \in Seq(Action) /\ Len(q) = 1 /\ q[1] = a
  BY <1>1
<1>3. Enter(q, 0, value, TRUE, <<>>)
  BY <1>2 DEF EngineLoop, a
<1>4. HeadPlace(q, 0) = {1}
  BY <1>1, <1>2 DEF HeadPlace
<1>5. queue' = Without(q, 0, 1)
  BY <1>3, <1>4 DEF Enter
<1>6. Cut(q, 0, 1)
  <2> HIDE DEF q
  <2>1. 0 \in 0..Len(q) /\ 1 \in (0 + 1)..Len(q) /\ 1 - 0 = 1
    BY <1>2
  <2>2. Cut(q, 0, 1 - 0)
    BY <1>2, <1>5, <2>1, WithoutCuts
  <2> QED BY <2>1, <2>2
<1>7. queue' = <<>>
  <2>1. queue' \in Seq(Action) /\ Len(queue') = 0
    BY <1>2, <1>6 DEF Cut
  <2> QED BY <2>1, EmptySeq
<1>8. Taken(q, 1, value, TRUE, 0, <<>>)
  <2> HIDE DEF q
  <2>1. Len(q) - (1 - 0) = 0 /\ 1 \in HeadPlace(q, 0)
    BY <1>2, <1>4
  <2>2. /\ value' = [value EXCEPT ![q[1].obj] = OtherState(q[1], value[q[1].obj])]
        /\ Propagate(Swapped(q[1], value[q[1].obj]), OtherState(q[1], value[q[1].obj]),
                     Len(q) - (1 - 0), TRUE, <<>>)
    BY <1>1, <1>2, <1>3, <1>4 DEF Enter
  <2> QED BY <1>1, <1>2, <2>1, <2>2 DEF Taken
<1> QED BY <1>7, <1>8 DEF a

(* The instance that begins is on top.                                     *)
LEMMA BeginsAt ==
  ASSUME NEW below \in Seq(Frame), NEW base \in Nat, NEW first \in BOOLEAN,
         Begins(below, base, first)
  PROVE  /\ stack' \in Seq(Frame) /\ Len(stack') = Len(below) + 1
         /\ \A n \in 1..Len(below) : stack'[n] = below[n]
         /\ stack'[Len(below) + 1].base = base
         /\ stack'[Len(below) + 1].first = first
         /\ stack'[Len(below) + 1].pc = "net"
BY DEF Begins

(* A nested instance takes an action of its part, or gives one up.         *)
LEMMA DescendBegins ==
  ASSUME IInv, Descend
  PROVE  /\ Top.base \in 0..Len(queue) /\ stack \in Seq(Frame)
         /\ \E d \in 0..Len(queue) :
              /\ Cut(queue, Top.base, d)
              /\ \/ UNCHANGED <<value, stack, net, deleted>>
                 \/ /\ d > 0
                    /\ Taken(queue, Top.base + d, value, FALSE, Len(queue'), stack)
                    /\ Begins(stack, Len(queue'), FALSE)
<1>1. ~Idle /\ stack \in Seq(Frame) /\ queue \in Seq(Action) /\ HasOld
  BY DEF Descend, IInv, TypeOK
<1>2. Top.base \in Nat
  BY <1>1, TopIsFrame
<1>3. Top.base \in 0..Len(queue)
  BY <1>1, <1>2 DEF Descend
<1>4. Enter(queue, Top.base, value, FALSE, stack)
  BY DEF Descend
<1>5. PICK d \in 0..Len(queue) :
           /\ Cut(queue, Top.base, d)
           /\ \/ /\ value' = value /\ stack' = stack
                 /\ UNCHANGED <<net, deleted>>
              \/ /\ d > 0 /\ queue[Top.base + d].tag # "CHANGE"
                 /\ Taken(queue, Top.base + d, value, FALSE, Len(queue'), stack)
  BY <1>1, <1>3, <1>4, EnterCuts
<1>6. ASSUME d > 0, Taken(queue, Top.base + d, value, FALSE, Len(queue'), stack)
      PROVE  Begins(stack, Len(queue'), FALSE)
  <2>1. Top.base + d \in 1..Len(queue) /\ Len(queue') \in Nat
    BY <1>2, <1>5, <1>6 DEF Cut
  <2>2. queue[Top.base + d].tag = "MODIFY" => queue[Top.base + d].old \in Value
    BY <1>1, <2>1 DEF HasOld
  <2>3. /\ value \in [Obj -> Value] /\ net \in [Obj -> Value \union {Absent}]
        /\ deleted \subseteq Obj
    BY DEF IInv, TypeOK
  <2> QED BY <1>1, <1>6, <2>1, <2>2, <2>3, TakenTypes, Zenon
<1> QED BY <1>1, <1>3, <1>5, <1>6

(* The outermost instance has the whole list.                              *)
LEMMA FirstBegins ==
  ASSUME IInv, Home, NEW x \in Obj, NEW v \in Value,
         NEW tag \in {"INSERT", "MODIFY", "RETRACT"}, EngineLoop(tag, x, v)
  PROVE  /\ queue' = <<>>
         /\ Taken(<<External(tag, x, v)>>, 1, value, TRUE, 0, <<>>)
         /\ Begins(<<>>, 0, TRUE)
<1> DEFINE a == External(tag, x, v)
           q == <<a>>
<1>1. queue' = <<>> /\ Taken(q, 1, value, TRUE, 0, <<>>)
  BY EngineLoopBegins DEF Home, EngineLoop
<1>2. a \in Action /\ (a.tag = "MODIFY" => a.old \in Value)
  BY ExternalIs
<1> HIDE DEF a
<1>3. /\ q \in Seq(Action) /\ 1 \in 1..Len(q) /\ q[1] = a
      /\ <<>> \in Seq(Frame) /\ 0 \in Nat
  BY <1>2
<1>4. /\ value \in [Obj -> Value] /\ net \in [Obj -> Value \union {Absent}]
      /\ deleted \subseteq Obj
  BY DEF IInv, TypeOK
<1> HIDE DEF q
<1>5. q[1].tag = "MODIFY" => q[1].old \in Value
  BY <1>2, <1>3
<1>6. Begins(<<>>, 0, TRUE)
  BY <1>1, <1>3, <1>4, <1>5, TakenTypes, Zenon
<1> QED BY <1>1, <1>6 DEF a, q

(* Every step keeps the list of the application empty, if the application  *)
(* inserts nothing when it is told of an unused object.                    *)
LEMMA HomeOK ==
  ASSUME "unused" \notin FromEvents, IInv, Home, [Next]_vars
  PROVE  Home'
<1>1. TypeOK /\ Framed
  BY DEF IInv
<1>2. ASSUME NEW x \in Obj, NEW v \in Value,
             NEW tag \in {"INSERT", "MODIFY", "RETRACT"}, EngineLoop(tag, x, v)
      PROVE  Home'
  <2>1. queue' = <<>> /\ Begins(<<>>, 0, TRUE)
    BY <1>2, FirstBegins
  <2>2. <<>> \in Seq(Frame) /\ Len(<<>>) = 0 /\ 0 \in Nat
    BY EmptySeq
  <2>3. /\ stack' \in Seq(Frame) /\ Len(stack') = 1
        /\ stack'[1].base = 0 /\ stack'[1].first = TRUE
    <3>1. /\ stack' \in Seq(Frame) /\ Len(stack') = Len(<<>>) + 1
          /\ stack'[Len(<<>>) + 1].base = 0 /\ stack'[Len(<<>>) + 1].first = TRUE
      BY <2>1, <2>2, BeginsAt, Zenon
    <3>2. Len(<<>>) + 1 = 1
      BY <2>2
    <3> QED BY <3>1, <3>2, Zenon
  <2>4. event' = NoEvent
    BY <1>2 DEF EngineLoop
  <2> QED BY <2>1, <2>3, <2>4 DEF Home, Idle
<1>3. ASSUME ~Idle, UNCHANGED stack
      PROVE  Home'
  BY <1>3 DEF Home, Idle
<1>4. ASSUME NEW x \in Obj, NEW v \in Value,
             NEW tag \in {"INSERT", "MODIFY", "RETRACT"}, EngineLoopInside(tag, x, v)
      PROVE  Home'
  BY <1>3, <1>4 DEF EngineLoopInside, Home
<1>5. CASE RightHandSide
  BY <1>3, <1>5 DEF RightHandSide, Create, Imply, New, Modify, ModifyImplied,
     Write, Change, Delete, RetractImplied, Pushed, InRetraction, InRun
<1>6. ASSUME NEW f, ~Idle, stack' = SetTop(f), f.base = Top.base, f.first = Top.first
      PROVE  Home'
  <2>1. stack \in Seq(Frame) /\ Len(stack) \in 1..Len(stack) /\ Len(stack) \in Nat
    BY <1>1, <1>6, TopIsFrame DEF TypeOK
  <2>2. /\ Len(stack') = Len(stack)
        /\ \A n \in 1..Len(stack) : /\ stack'[n].base = stack[n].base
                                    /\ stack'[n].first = stack[n].first
    BY <1>6, <2>1 DEF SetTop, Top
  <2>3. stack' # <<>> /\ 1 \in 1..Len(stack)
    BY <2>1, <2>2
  <2> QED BY <1>6, <2>2, <2>3 DEF Home, Idle
<1>7. CASE RunRule \/ StartTelling \/ AllTold \/ Repeat \/ Tell
  <2>1. ~Idle /\ Top \in Frame
    BY <1>1, <1>7, TopIsFrame DEF TypeOK, RunRule, StartTelling, AllTold, Repeat, Tell,
       AtCs, InRun, Drained
  <2>2. \E f : stack' = SetTop(f) /\ f.base = Top.base /\ f.first = Top.first
    <3>1. CASE RunRule
      <4> DEFINE f == [Top EXCEPT !.pc = "rhs", !.ran = TRUE]
      <4>1. stack' = SetTop(f)
        BY <3>1 DEF RunRule
      <4>2. f.base = Top.base /\ f.first = Top.first
        BY <2>1 DEF Frame
      <4> QED BY <4>1, <4>2
    <3>2. CASE StartTelling
      <4> DEFINE f == [Top EXCEPT !.pc = "tell", !.told = Top.base, !.ran = InRun]
      <4>1. stack' = SetTop(f)
        BY <3>2 DEF StartTelling
      <4>2. f.base = Top.base /\ f.first = Top.first
        BY <2>1 DEF Frame
      <4> QED BY <4>1, <4>2
    <3>3. CASE AllTold
      <4> DEFINE f == [Top EXCEPT !.pc = "descend"]
      <4>1. stack' = SetTop(f)
        BY <3>3 DEF AllTold
      <4>2. f.base = Top.base /\ f.first = Top.first
        BY <2>1 DEF Frame
      <4> QED BY <4>1, <4>2
    <3>4. CASE Repeat
      <4> DEFINE f == [Top EXCEPT !.pc = "cs"]
      <4>1. stack' = SetTop(f)
        BY <3>4 DEF Repeat
      <4>2. f.base = Top.base /\ f.first = Top.first
        BY <2>1 DEF Frame
      <4> QED BY <4>1, <4>2
    <3>5. CASE Tell
      <4> DEFINE f == [Top EXCEPT !.told = Top.told + 1]
      <4>1. stack' = SetTop(f)
        BY <3>5 DEF Tell
      <4>2. f.base = Top.base /\ f.first = Top.first
        BY <2>1 DEF Frame
      <4> QED BY <4>1, <4>2
    <3> QED BY <1>7, <3>1, <3>2, <3>3, <3>4, <3>5
  <2> QED BY <1>6, <2>1, <2>2
<1>8. CASE Descend
  <2>1. ~Idle
    BY <1>8 DEF Descend
  <2>2. stack \in Seq(Frame) /\ (UNCHANGED stack \/ Begins(stack, Len(queue'), FALSE))
    BY <1>8, DescendBegins
  <2>3. CASE Begins(stack, Len(queue'), FALSE)
    <3>1. Len(queue') \in Nat /\ Len(stack) \in Nat \ {0} /\ Len(stack) \in 1..Len(stack)
      BY <1>8, <2>1, <2>2, DescendOK, TopIsFrame DEF IInv, TypeOK
    <3>2. /\ stack' \in Seq(Frame) /\ Len(stack') = Len(stack) + 1
          /\ \A n \in 1..Len(stack) : stack'[n] = stack[n]
          /\ stack'[Len(stack) + 1].first = FALSE
      BY <2>2, <2>3, <3>1, BeginsAt
    <3>3. stack' # <<>> /\ stack'[1].base = 0
      BY <2>1, <3>1, <3>2 DEF Home
    <3>4. \A n \in 1..Len(stack') : stack'[n].first <=> n = 1
      BY <3>1, <3>2 DEF Home
    <3> QED BY <3>3, <3>4 DEF Home, Idle
  <2> QED BY <1>3, <2>1, <2>2, <2>3
<1>9. CASE Finish
  <2>1. /\ ~Idle /\ stack \in Seq(Frame) /\ Len(queue) = Top.base
        /\ Len(stack) \in Nat \ {0} /\ queue \in Seq(Action) /\ UNCHANGED queue
    BY <1>1, <1>9, TopIsFrame DEF Finish, Drained, TypeOK
  <2> DEFINE n == Len(stack) - 1
  <2>2. n \in 0..Len(stack) /\ stack' = SubSeq(stack, 1, n)
    BY <1>9, <2>1 DEF Finish, Below
  <2> HIDE DEF n
  <2>3. /\ stack' \in Seq(Frame) /\ Len(stack') = n
        /\ \A m \in 1..n : stack'[m] = stack[m]
    BY <2>1, <2>2
  <2>4. CASE n = 0
    <3>1. Len(stack) = 1 /\ Top = stack[1] /\ stack' = <<>>
      BY <2>1, <2>3, <2>4, EmptySeq DEF n, Top
    <3>2. queue' = <<>>
      BY <2>1, <3>1, EmptySeq DEF Home
    <3>3. Top.first
      BY <2>1, <3>1 DEF Home
    <3>4. event' # NoEvent => event'.kind = "unused"
      BY <1>9, <3>3 DEF Finish, Say
    <3> QED BY <3>1, <3>2, <3>4, EmptySeq DEF Home, Idle
  <2>5. CASE n # 0
    <3>1. 1 \in 1..n /\ stack' # <<>> /\ \A m \in 1..n : m \in 1..Len(stack)
      BY <2>1, <2>2, <2>3, <2>5
    <3> QED BY <2>1, <2>3, <3>1 DEF Home, Idle
  <2> QED BY <2>4, <2>5
<1>10. CASE UNCHANGED vars
  BY <1>10 DEF vars, Home, Idle
<1> QED BY <1>2, <1>4, <1>5, <1>7, <1>8, <1>9, <1>10 DEF Next, Application, DoLoop

(* When the outermost do_loop ends nothing is left in the list, if the     *)
(* application inserts nothing when it is told of an unused object.        *)
THEOREM NothingIsLeft ==
  ASSUME "unused" \notin FromEvents
  PROVE  Spec => []NothingLeft
<1>1. Init => Home
  BY DEF Init, Home, Idle
<1>2. IInv /\ Home /\ [Next]_vars => Home'
  BY HomeOK
<1>3. Home => NothingLeft
  BY DEF Home, NothingLeft
<1> QED BY <1>1, <1>2, <1>3, Invariance, PTL DEF Spec

-----------------------------------------------------------------------------
(* How far the list has been told: behind this place the objects of a      *)
(* MODIFY show their new state.                                            *)
ToldTo == IF Idle THEN Len(queue)
          ELSE IF Top.pc \in {"tell", "descend"} THEN Top.told ELSE Top.base

Rewrites(i) == i \in 1..Len(queue) /\ queue[i].tag = "MODIFY"
News(i) == Rewrites(i) /\ i > ToldTo

Settled == \A i \in 1..Len(queue) : Rewrites(i) /\ ~(i > ToldTo) => queue[i].old = queue[i].wrote

NewsIsShown == \A i \in 1..Len(queue) :
                 News(i) => /\ value[queue[i].obj] = queue[i].wrote
                            /\ net[queue[i].obj] \in {queue[i].old, Absent}

OnceEach == \A i, j \in 1..Len(queue) :
              News(i) /\ News(j) /\ queue[i].obj = queue[j].obj => i = j

NewsExplains == \A x \in Obj : net[x] # Absent /\ net[x] # value[x] =>
                  \E i \in 1..Len(queue) : News(i) /\ queue[i].obj = x

(* An instance that descends has told of all the modifications of its part.*)
AllAreTold == \A n \in 1..Len(stack) : stack[n].pc = "descend" =>
                \A i \in 1..Len(queue) :
                  Rewrites(i) /\ i > stack[n].told =>
                    n < Len(stack) /\ i > stack[n + 1].base

Story == Settled /\ NewsIsShown /\ OnceEach /\ NewsExplains /\ AllAreTold

(* Where nothing is news every waiting modification is swapped and the     *)
(* objects show what the net holds.                                        *)
Quiet == /\ \A i \in 1..Len(queue) : queue[i].tag = "MODIFY" => queue[i].old = queue[i].wrote
         /\ \A x \in Obj : net[x] # Absent => net[x] = value[x]

(* An instance that descends has no news.                                  *)
LEMMA DescendIsQuiet ==
  ASSUME IInv, Story, ~Idle, Top.pc = "descend"
  PROVE  Quiet
<1>1. Len(stack) \in 1..Len(stack) /\ Len(stack) \in Nat /\ Top.told \in Nat
  BY TopIsFrame DEF IInv, TypeOK
<1>2. ToldTo = Top.told
  BY DEF ToldTo
<1>3. \A i \in 1..Len(queue) : ~News(i)
  BY <1>1, <1>2 DEF Story, AllAreTold, News, Top
<1> QED BY <1>2, <1>3 DEF Quiet, Story, Settled, NewsExplains, News, Rewrites

(* Nor has the engine between two calls.                                   *)
LEMMA IdleIsQuiet ==
  ASSUME IInv, Story, Home, Idle
  PROVE  Quiet
<1>1. Len(queue) = 0
  BY EmptySeq DEF Home
<1> QED BY <1>1 DEF Quiet, Story, NewsExplains, News, Rewrites

(* The propagation of an action leaves the net with what the object shows. *)
LEMMA TakenIsFaithful ==
  ASSUME NEW q \in Seq(Action), NEW k \in 1..Len(q), value \in [Obj -> Value],
         NEW first \in BOOLEAN, NEW base \in Nat, NEW below \in Seq(Frame),
         q[k].tag = "MODIFY" => q[k].old \in Value /\ q[k].old = q[k].wrote,
         net \in [Obj -> Value \union {Absent}],
         \A x \in Obj : net[x] # Absent => net[x] = value[x],
         Taken(q, k, value, first, base, below)
  PROVE  /\ \A x \in Obj : net'[x] # Absent => net'[x] = value'[x]
         /\ LET a == stack'[Len(below) + 1].act
            IN a.tag = "MODIFY" => /\ value'[a.obj] = a.wrote
                                   /\ net[a.obj] \in {a.old, Absent}
<1> DEFINE a == q[k]
           v == OtherState(a, value[a.obj])
           s == Swapped(a, value[a.obj])
<1>1. a \in Action /\ a.obj \in Obj /\ value[a.obj] \in Value
  BY ActionAt
<1>2. /\ s \in Action /\ s.obj = a.obj /\ s.tag = a.tag /\ s.wrote = a.wrote
      /\ a.tag = "MODIFY" => s.old = value[a.obj] /\ v = a.wrote
      /\ a.tag # "MODIFY" => v = value[a.obj]
  BY <1>1 DEF Swapped, Action, OtherState
<1> HIDE DEF a, v, s
<1>3. value' = [value EXCEPT ![a.obj] = v] /\ Propagate(s, v, base, first, below)
  BY DEF Taken, a, v, s
<1>4. PICK entry \in Kept(s, v) :
        /\ net' = [net EXCEPT ![s.obj] = entry]
        /\ stack' = Append(below, [act |-> Unified(s, entry), first |-> first,
                                   base |-> base, ran |-> FALSE,
                                   told |-> base, pc |-> "net"])
  BY <1>3 DEF Propagate
<1>5. entry = v \/ entry = Absent
  BY <1>1, <1>2, <1>4 DEF Kept
<1>6. \A x \in Obj : net'[x] # Absent => net'[x] = value'[x]
  BY <1>1, <1>2, <1>3, <1>4, <1>5
<1>7. /\ Unified(s, entry) \in Action /\ Unified(s, entry).obj = a.obj
      /\ Unified(s, entry).tag = a.tag /\ Unified(s, entry).wrote = a.wrote
      /\ Unified(s, entry).old = s.old
  BY <1>2 DEF Unified, Action
<1>8. stack'[Len(below) + 1].act = Unified(s, entry)
  <2> DEFINE f == [act |-> Unified(s, entry), first |-> first, base |-> base,
                   ran |-> FALSE, told |-> base, pc |-> "net"]
  <2>1. f \in Frame
    BY <1>7 DEF Frame
  <2>2. f.act = Unified(s, entry) /\ stack' = Append(below, f)
    BY <1>4
  <2> HIDE DEF f
  <2> QED BY <2>1, <2>2
<1>9. a.tag = "MODIFY" => value'[a.obj] = a.wrote /\ net[a.obj] \in {s.old, Absent}
  BY <1>1, <1>2, <1>3
<1> QED BY <1>6, <1>7, <1>8, <1>9

(* An instance that begins has no news of its own.                         *)
LEMMA BeginStory ==
  ASSUME NEW below \in Seq(Frame), NEW first \in BOOLEAN, queue' \in Seq(Action),
         Begins(below, Len(queue'), first),
         \A i \in 1..Len(queue') :
           queue'[i].tag = "MODIFY" => queue'[i].old = queue'[i].wrote,
         \A x \in Obj : net'[x] # Absent => net'[x] = value'[x],
         \A n \in 1..Len(below) : below[n].pc = "descend" =>
           \A i \in 1..Len(queue') :
             queue'[i].tag = "MODIFY" /\ i > below[n].told =>
               n < Len(below) /\ i > below[n + 1].base
  PROVE  Story'
<1>1. Len(queue') \in Nat
  OBVIOUS
<1>2. /\ stack' \in Seq(Frame) /\ Len(stack') = Len(below) + 1
      /\ \A n \in 1..Len(below) : stack'[n] = below[n]
      /\ stack'[Len(below) + 1].base = Len(queue')
      /\ stack'[Len(below) + 1].pc = "net"
  BY <1>1, BeginsAt
<1>3. ToldTo' = Len(queue')
  <2>1. ~Idle' /\ Top' = stack'[Len(below) + 1]
    BY <1>2 DEF Idle, Top
  <2> QED BY <1>2, <2>1 DEF ToldTo
<1>4. \A i \in 1..Len(queue') : ~News(i)'
  BY <1>1, <1>3 DEF News
<1>5. AllAreTold'
  <2> SUFFICES ASSUME NEW n \in 1..Len(stack'), stack'[n].pc = "descend",
                      NEW i \in 1..Len(queue'), Rewrites(i)', i > stack'[n].told
               PROVE  n < Len(stack') /\ i > stack'[n + 1].base
    BY DEF AllAreTold
  <2>1. n \in 1..Len(below) /\ stack'[n] = below[n] /\ n < Len(stack')
    BY <1>2
  <2>2. n < Len(below) /\ i > below[n + 1].base
    BY <2>1 DEF Rewrites
  <2>3. n + 1 \in 1..Len(below) /\ stack'[n + 1] = below[n + 1]
    BY <1>2, <2>1, <2>2
  <2> QED BY <2>1, <2>2, <2>3
<1> QED BY <1>4, <1>5 DEF Story, Settled, NewsIsShown, OnceEach, NewsExplains, News, Rewrites

(* The step that lets an action enter propagates it as its author wrote it.*)
Faithful ==
  EntersModify =>
    LET a == stack'[Len(stack')].act
    IN /\ value'[a.obj] = a.wrote
       /\ net[a.obj] \in {a.old, Absent}

(* engine_loop propagates a modification as it was made.                   *)
LEMMA EngineLoopStory ==
  ASSUME IInv, IInv', Home, Story, NEW x \in Obj, NEW v \in Value,
         NEW tag \in {"INSERT", "MODIFY", "RETRACT"}, EngineLoop(tag, x, v)
  PROVE  Story' /\ Faithful
<1> DEFINE a == External(tag, x, v)
           q == <<a>>
<1>1. queue' = <<>> /\ Taken(q, 1, value, TRUE, 0, <<>>) /\ Begins(<<>>, 0, TRUE)
  BY FirstBegins
<1>2. a \in Action /\ (a.tag = "MODIFY" => a.old \in Value /\ a.old = a.wrote)
  BY ExternalIs
<1> HIDE DEF a
<1>3. /\ q \in Seq(Action) /\ 1 \in 1..Len(q) /\ q[1] = a
      /\ <<>> \in Seq(Frame) /\ 0 \in Nat /\ Len(<<>>) = 0
  BY <1>2
<1>4. /\ value \in [Obj -> Value] /\ net \in [Obj -> Value \union {Absent}]
      /\ \A y \in Obj : net[y] # Absent => net[y] = value[y]
  BY IdleIsQuiet DEF IInv, TypeOK, EngineLoop, Quiet
<1> HIDE DEF q
<1>5. q[1].tag = "MODIFY" => q[1].old \in Value /\ q[1].old = q[1].wrote
  BY <1>2, <1>3
<1>6. /\ \A y \in Obj : net'[y] # Absent => net'[y] = value'[y]
      /\ LET b == stack'[Len(<<>>) + 1].act
         IN b.tag = "MODIFY" => /\ value'[b.obj] = b.wrote
                                /\ net[b.obj] \in {b.old, Absent}
  <2>1. Taken(q, 1, value, TRUE, 0, <<>>) /\ TRUE \in BOOLEAN
    BY <1>1, Zenon
  <2>2. q \in Seq(Action) /\ 1 \in 1..Len(q) /\ <<>> \in Seq(Frame) /\ 0 \in Nat
    BY <1>3, Zenon
  <2> QED BY <1>4, <1>5, <2>1, <2>2, TakenIsFaithful, Zenon
<1>7. Len(queue') = 0 /\ queue' \in Seq(Action)
  BY <1>1 DEF IInv, TypeOK
<1>8. Begins(<<>>, Len(queue'), TRUE)
  BY <1>1, <1>7
<1>9. \A n \in 1..0 : FALSE
  OBVIOUS
<1>10. Story'
  <2>1. \A i \in 1..Len(queue') : FALSE
    BY <1>7
  <2>2. \A n \in 1..Len(<<>>) : FALSE
    BY <1>3
  <2> QED BY <1>3, <1>6, <1>7, <1>8, <2>1, <2>2, BeginStory, Zenon
<1>11. Faithful
  <2>1. stack = <<>> /\ Len(stack) = Len(<<>>)
    BY DEF EngineLoop, Idle
  <2>2. EntersModify => Len(stack') = Len(<<>>) + 1 /\ stack'[Len(stack')].act.tag = "MODIFY"
    BY <2>1, Zenon DEF EntersModify
  <2> QED BY <1>6, <2>2, Zenon DEF Faithful
<1> QED BY <1>10, <1>11

(* So does a nested instance.                                              *)
LEMMA DescendStory ==
  ASSUME IInv, IInv', Story, Descend
  PROVE  Story' /\ Faithful
<1>1. ~Idle /\ Top.pc = "descend" /\ queue \in Seq(Action) /\ stack \in Seq(Frame)
      /\ queue' \in Seq(Action) /\ HasOld
  BY DEF Descend, IInv, TypeOK
<1>2. Quiet
  BY <1>1, DescendIsQuiet
<1>3. PICK d \in 0..Len(queue) :
         /\ Cut(queue, Top.base, d)
         /\ \/ UNCHANGED <<value, stack, net, deleted>>
            \/ /\ d > 0
               /\ Taken(queue, Top.base + d, value, FALSE, Len(queue'), stack)
               /\ Begins(stack, Len(queue'), FALSE)
  BY DescendBegins
<1>4. /\ Len(stack) \in 1..Len(stack) /\ Len(stack) \in Nat \ {0} /\ Top.told \in Nat
      /\ Top.base \in 0..Len(queue) /\ Len(queue) \in Nat /\ Len(queue') \in Nat
  BY <1>1, TopIsFrame, DescendBegins
(* Each action that is left was there, at the same place or further on.    *)
<1>5. ASSUME NEW i \in 1..Len(queue')
      PROVE  \E j \in 1..Len(queue) : /\ queue'[i] = queue[j] /\ i <= j
                                      /\ i <= Top.base => i = j
  <2>1. CASE i <= Top.base
    <3>1. i \in 1..Len(queue) /\ i \in 1..Top.base
      BY <1>4, <2>1
    <3> QED BY <1>3, <3>1 DEF Cut
  <2>2. CASE i > Top.base
    <3>1. i \in (Top.base + 1)..Len(queue') /\ i + d \in 1..Len(queue) /\ i <= i + d
      BY <1>3, <1>4, <2>2 DEF Cut
    <3> QED BY <1>3, <2>2, <3>1 DEF Cut
  <2> QED BY <1>4, <2>1, <2>2
<1>6. \A i \in 1..Len(queue') : queue'[i].tag = "MODIFY" => queue'[i].old = queue'[i].wrote
  BY <1>2, <1>5 DEF Quiet
<1>7. ASSUME NEW n \in 1..Len(stack), stack[n].pc = "descend", NEW i \in 1..Len(queue'),
             queue'[i].tag = "MODIFY", i > stack[n].told
      PROVE  n < Len(stack) /\ i > stack[n + 1].base
  <2>1. PICK j \in 1..Len(queue) : /\ queue'[i] = queue[j] /\ i <= j
                                   /\ i <= Top.base => i = j
    BY <1>5
  <2>2. stack[n].told \in Nat
    BY <1>1, FrameAt
  <2>3. Rewrites(j) /\ j > stack[n].told
    <3>1. i \in Nat /\ j \in Nat /\ i <= j /\ i > stack[n].told
      BY <1>4, <1>7, <2>1
    <3>2. j > stack[n].told
      BY <2>2, <3>1
    <3> QED BY <1>7, <2>1, <3>2, Zenon DEF Rewrites
  <2>4. n < Len(stack) /\ j > stack[n + 1].base
    BY <1>7, <2>3 DEF Story, AllAreTold
  <2>5. n + 1 \in 1..Len(stack)
    BY <1>4, <2>4
  <2>6. stack[n + 1].base <= Top.base /\ stack[n + 1].base \in Nat
    BY <1>1, <1>4, <2>5, FrameAt DEF IInv, Framed, Top
  <2>7. i \in Nat /\ j \in Nat /\ Top.base \in Nat
    BY <1>4
  <2> DEFINE b == stack[n + 1].base
  <2>8. b \in Nat /\ b <= Top.base /\ j > b
    BY <2>4, <2>6
  <2> HIDE DEF b
  <2>9. i > b
    <3>1. CASE i <= Top.base
      BY <2>1, <2>8, <3>1
    <3>2. CASE i > Top.base
      BY <2>7, <2>8, <3>2
    <3> QED BY <2>7, <3>1, <3>2
  <2> QED BY <2>4, <2>9 DEF b
<1>8. CASE UNCHANGED <<value, stack, net, deleted>>
  <2>1. Top' = Top /\ Len(stack') = Len(stack) /\ stack' = stack
    BY <1>8 DEF Top
  <2>2. AllAreTold'
    BY <1>7, <2>1 DEF AllAreTold, Rewrites
  <2>3. ToldTo' = Top.told
    BY <1>1, <2>1 DEF ToldTo, Idle
  <2>4. \A i \in 1..Len(queue') : ~News(i)'
    BY <1>1, <1>4, <1>7, <2>3 DEF News, Rewrites, Top
  <2>5. \A x \in Obj : net'[x] # Absent => net'[x] = value'[x]
    BY <1>2, <1>8 DEF Quiet
  <2>6. Story'
    BY <1>6, <2>2, <2>4, <2>5 DEF Story, Settled, NewsIsShown, OnceEach, NewsExplains,
       News, Rewrites
  <2>7. Faithful
    BY <1>4, <2>1 DEF Faithful, EntersModify
  <2> QED BY <2>6, <2>7
<1>9. CASE /\ d > 0
           /\ Taken(queue, Top.base + d, value, FALSE, Len(queue'), stack)
           /\ Begins(stack, Len(queue'), FALSE)
  <2> DEFINE k == Top.base + d
  <2>1. k \in 1..Len(queue)
    BY <1>3, <1>4, <1>9 DEF Cut
  <2>2. queue[k].tag = "MODIFY" => queue[k].old \in Value /\ queue[k].old = queue[k].wrote
    BY <1>1, <1>2, <2>1 DEF HasOld, Quiet
  <2>3. /\ value \in [Obj -> Value] /\ net \in [Obj -> Value \union {Absent}]
        /\ \A x \in Obj : net[x] # Absent => net[x] = value[x]
    BY <1>2 DEF IInv, TypeOK, Quiet
  <2>4. Taken(queue, k, value, FALSE, Len(queue'), stack)
    BY <1>9
  <2> HIDE DEF k
  <2>5. /\ \A x \in Obj : net'[x] # Absent => net'[x] = value'[x]
        /\ LET a == stack'[Len(stack) + 1].act
           IN a.tag = "MODIFY" => /\ value'[a.obj] = a.wrote
                                  /\ net[a.obj] \in {a.old, Absent}
    BY <1>1, <1>4, <2>1, <2>2, <2>3, <2>4, TakenIsFaithful, Zenon
  <2>6. Story'
    BY <1>1, <1>6, <1>7, <1>9, <2>5, BeginStory, Zenon
  <2>7. Faithful
    BY <2>5, Zenon DEF Faithful, EntersModify
  <2> QED BY <2>6, <2>7
<1> QED BY <1>3, <1>8, <1>9

(* What is pushed lies behind everything that was told.                    *)
LEMMA PushedAt ==
  ASSUME IInv, ~Idle, NEW a \in Action, queue' = Append(queue, a), UNCHANGED stack
  PROVE  /\ Len(queue') = Len(queue) + 1 /\ Len(queue) \in Nat
         /\ queue'[Len(queue) + 1] = a
         /\ \A i \in 1..Len(queue) : queue'[i] = queue[i]
         /\ ToldTo' = ToldTo /\ ~Idle'
         /\ \A i \in 1..Len(queue) : Rewrites(i)' = Rewrites(i) /\ News(i)' = News(i)
<1>1. queue \in Seq(Action)
  BY DEF IInv, TypeOK
<1>2. /\ Len(queue') = Len(queue) + 1 /\ Len(queue) \in Nat
      /\ queue'[Len(queue) + 1] = a
      /\ \A i \in 1..Len(queue) : queue'[i] = queue[i]
  BY <1>1
<1>3. ToldTo' = ToldTo /\ ~Idle'
  BY DEF ToldTo, Idle, Top
<1>4. ASSUME NEW i \in 1..Len(queue)
      PROVE  Rewrites(i)' = Rewrites(i)
  <2>1. i \in 1..Len(queue')
    BY <1>2
  <2> QED BY <1>2, <1>4, <2>1 DEF Rewrites
<1>5. \A i \in 1..Len(queue) : News(i)' = News(i)
  BY <1>3, <1>4 DEF News
<1> QED BY <1>2, <1>3, <1>4, <1>5

(* No waiting instance takes the new action for one of its own.            *)
LEMMA PushedAbove ==
  ASSUME IInv, Story, ~Idle, NEW a \in Action, queue' = Append(queue, a),
         UNCHANGED stack, a.tag = "MODIFY" => Top.pc # "descend"
  PROVE  AllAreTold'
<1>1. /\ Len(queue') = Len(queue) + 1 /\ Len(queue) \in Nat
      /\ queue'[Len(queue) + 1] = a
      /\ \A i \in 1..Len(queue) : Rewrites(i)' = Rewrites(i)
  BY PushedAt
<1>2. stack \in Seq(Frame) /\ Len(stack) \in Nat /\ Len(stack) \in 1..Len(stack)
  BY TopIsFrame DEF IInv, TypeOK
<1> SUFFICES ASSUME NEW n \in 1..Len(stack), stack[n].pc = "descend",
                    NEW i \in 1..Len(queue'), Rewrites(i)', i > stack[n].told
             PROVE  n < Len(stack) /\ i > stack[n + 1].base
  BY DEF AllAreTold
<1>3. CASE i \in 1..Len(queue)
  BY <1>1, <1>3 DEF Story, AllAreTold
<1>4. CASE i = Len(queue) + 1
  <2>1. a.tag = "MODIFY"
    BY <1>1, <1>4 DEF Rewrites
  <2>2. n < Len(stack)
    BY <1>2, <2>1 DEF Top
  <2>3. n + 1 \in 1..Len(stack)
    BY <1>2, <2>2
  <2>4. stack[n + 1].base \in Nat /\ stack[n + 1].base <= Len(queue)
    BY <1>2, <2>3, FrameAt DEF IInv, Framed
  <2> QED BY <1>1, <1>4, <2>2, <2>4
<1> QED BY <1>1, <1>3, <1>4

(* An action that is not a MODIFY changes nothing of the story.            *)
LEMMA PushStory ==
  ASSUME IInv, Story, ~Idle, NEW a \in Action, a.tag # "MODIFY",
         queue' = Append(queue, a), UNCHANGED <<value, net, stack>>
  PROVE  Story'
<1>1. /\ Len(queue') = Len(queue) + 1 /\ Len(queue) \in Nat
      /\ queue'[Len(queue) + 1] = a
      /\ \A i \in 1..Len(queue) : queue'[i] = queue[i]
      /\ ToldTo' = ToldTo
      /\ \A i \in 1..Len(queue) : Rewrites(i)' = Rewrites(i) /\ News(i)' = News(i)
  BY PushedAt
<1>2. AllAreTold'
  BY PushedAbove
<1>3. \A i \in 1..Len(queue') : Rewrites(i)' => i \in 1..Len(queue)
  BY <1>1 DEF Rewrites
<1>4. \A i \in 1..Len(queue') : News(i)' => i \in 1..Len(queue) /\ News(i)
  BY <1>1, <1>3 DEF News
<1>5. Settled'
  BY <1>1, <1>3 DEF Settled, Story
<1>6. NewsIsShown' /\ OnceEach'
  BY <1>1, <1>4 DEF NewsIsShown, OnceEach, Story
<1>7. \A i \in 1..Len(queue) : i \in 1..Len(queue')
  BY <1>1
<1>8. NewsExplains'
  BY <1>1, <1>7 DEF NewsExplains, Story
<1> QED BY <1>2, <1>5, <1>6, <1>8 DEF Story

(* A right-hand side modifies an object no other modification of the batch *)
(* is about.                                                               *)
LEMMA WriteStory ==
  ASSUME IInv, Story, NEW x \in Obj, NEW v \in Value, InRetraction \/ InRun,
         ~Untold(x), Write(x, v)
  PROVE  Story'
<1> DEFINE a == Rewrite(x, value[x], v, FALSE)
<1> PICK k \in Nat : k = Len(queue) + 1
  BY DEF IInv, TypeOK
<1>1. value[x] \in Value /\ value \in [Obj -> Value]
      /\ net \in [Obj -> Value \union {Absent}]
  BY DEF IInv, TypeOK
<1>2. /\ a \in Action /\ a.tag = "MODIFY" /\ a.obj = x /\ a.old = value[x]
      /\ a.wrote = v
  BY <1>1 DEF Rewrite, Action, Tag
<1>3. /\ queue' = Append(queue, a) /\ UNCHANGED <<net, stack>>
      /\ value' = [value EXCEPT ![x] = v]
  BY DEF Write, Pushed
<1> HIDE DEF a
<1>4. ~Idle /\ Top.pc \in {"net", "rhs"}
  BY DEF InRetraction, InRun
<1>5. /\ Len(queue') = Len(queue) + 1 /\ Len(queue) \in Nat
      /\ queue'[Len(queue) + 1] = a
      /\ \A i \in 1..Len(queue) : queue'[i] = queue[i]
      /\ ToldTo' = ToldTo
      /\ \A i \in 1..Len(queue) : Rewrites(i)' = Rewrites(i) /\ News(i)' = News(i)
  BY <1>2, <1>3, <1>4, PushedAt
<1>6. AllAreTold'
  BY <1>2, <1>3, <1>4, PushedAbove
<1>7. ToldTo = Top.base /\ Top.base \in Nat /\ Top.base <= Len(queue)
  BY <1>4, TopIsFrame DEF ToldTo, IInv, TypeOK, Framed, Top
<1>8. News(k)' /\ k \in 1..Len(queue') /\ queue'[k] = a
  <2>1. k \in 1..Len(queue') /\ queue'[k] = a /\ k > ToldTo'
    BY <1>5, <1>7
  <2> QED BY <1>2, <2>1 DEF News, Rewrites
<1>9. \A i \in 1..Len(queue) : News(i) => queue[i].obj # x
  <2> SUFFICES ASSUME NEW i \in 1..Len(queue), News(i), queue[i].obj = x
               PROVE  FALSE
    OBVIOUS
  <2>1. i \in (Top.base + 1)..Len(queue) /\ queue[i].tag = "MODIFY"
    BY <1>5, <1>7 DEF News, Rewrites
  <2> QED BY <2>1 DEF Untold
<1>10. \A i \in 1..Len(queue) : queue[i].obj \in Obj
  BY ActionAt DEF IInv, TypeOK
<1>11. net[x] \in {value[x], Absent}
  BY <1>9 DEF Story, NewsExplains
<1>12. \A i \in 1..Len(queue') : i \in 1..Len(queue) \/ i = k
  BY <1>5
<1>13. Settled'
  <2> SUFFICES ASSUME NEW i \in 1..Len(queue'), Rewrites(i)', ~(i > ToldTo)'
               PROVE  queue'[i].old = queue'[i].wrote
    BY DEF Settled
  <2>1. i # k
    BY <1>8 DEF News
  <2> QED BY <1>5, <1>12, <2>1 DEF Settled, Story
<1>14. NewsIsShown'
  <2> SUFFICES ASSUME NEW i \in 1..Len(queue'), News(i)'
               PROVE  /\ value'[queue'[i].obj] = queue'[i].wrote
                      /\ net[queue'[i].obj] \in {queue'[i].old, Absent}
    BY <1>3 DEF NewsIsShown
  <2>1. CASE i = k
    BY <1>1, <1>2, <1>3, <1>8, <1>11, <2>1
  <2>2. CASE i \in 1..Len(queue)
    BY <1>1, <1>3, <1>5, <1>9, <1>10, <2>2 DEF NewsIsShown, Story
  <2> QED BY <1>12, <2>1, <2>2
<1>15. OnceEach'
  <2> SUFFICES ASSUME NEW i \in 1..Len(queue'), NEW j \in 1..Len(queue'),
                      News(i)', News(j)', queue'[i].obj = queue'[j].obj
               PROVE  i = j
    BY DEF OnceEach
  <2>1. \A n \in 1..Len(queue') : News(n)' /\ queue'[n].obj = x => n = k
    BY <1>5, <1>9, <1>12
  <2>2. CASE i \in 1..Len(queue) /\ j \in 1..Len(queue)
    BY <1>5, <2>2 DEF OnceEach, Story
  <2>3. CASE i = k \/ j = k
    BY <1>2, <1>8, <2>1, <2>3
  <2> QED BY <1>12, <2>2, <2>3
<1>16. NewsExplains'
  <2> SUFFICES ASSUME NEW y \in Obj, net[y] # Absent, net[y] # value'[y]
               PROVE  \E i \in 1..Len(queue') : News(i)' /\ queue'[i].obj = y
    BY <1>3 DEF NewsExplains
  <2>1. CASE y = x
    BY <1>2, <1>8, <2>1
  <2>2. CASE y # x
    <3>1. PICK i \in 1..Len(queue) : News(i) /\ queue[i].obj = y
      BY <1>1, <1>3, <2>2 DEF NewsExplains, Story
    <3>2. i \in 1..Len(queue') /\ News(i)' /\ queue'[i].obj = y
      BY <1>5, <3>1
    <3> QED BY <3>2
  <2> QED BY <2>1, <2>2
<1> QED BY <1>6, <1>13, <1>14, <1>15, <1>16 DEF Story

(* Right-hand sides keep the story.                                        *)
LEMMA RightHandSideStory ==
  ASSUME Tame, IInv, Story, RightHandSide
  PROVE  Story'
<1>1. PICK x \in Obj :
        \/ Create(x) \/ Imply(x) \/ Change(x) \/ Delete(x) \/ RetractImplied(x)
        \/ \E v \in Value : Modify(x, v) \/ ModifyImplied(x, v)
  BY DEF RightHandSide
<1>2. ASSUME NEW tag \in Tag, tag # "MODIFY", Pushed(Plain(tag, x, FALSE)), UNCHANGED value
      PROVE  Story'
  <2> DEFINE a == Plain(tag, x, FALSE)
  <2>1. a \in Action /\ a.tag # "MODIFY"
    BY <1>2, PlainIs
  <2>2. queue' = Append(queue, a) /\ UNCHANGED <<value, net, stack>> /\ ~Idle
    BY <1>2 DEF Pushed, InRetraction, InRun
  <2> HIDE DEF a
  <2> QED BY <2>1, <2>2, PushStory
<1>3. CASE Create(x) \/ Imply(x)
  BY <1>2, <1>3 DEF Create, Imply, New, Tag
<1>4. CASE Change(x)
  BY <1>2, <1>4 DEF Change, Tag
<1>5. CASE Delete(x) \/ RetractImplied(x)
  BY <1>2, <1>5 DEF Delete, RetractImplied, Tag
<1>6. ASSUME NEW v \in Value, Modify(x, v) \/ ModifyImplied(x, v)
      PROVE  Story'
  <2>1. ~Untold(x) /\ Write(x, v)
    BY <1>6 DEF Modify, ModifyImplied, Tame
  <2>2. InRetraction \/ InRun
    BY <2>1 DEF Write, Pushed
  <2> QED BY <2>1, <2>2, WriteStory
<1> QED BY <1>1, <1>3, <1>4, <1>5, <1>6

(* So does engine_loop called inside.                                      *)
LEMMA EngineLoopInsideStory ==
  ASSUME Tame, IInv, Home, Story, NEW x \in Obj, NEW v \in Value,
         NEW tag \in {"INSERT", "MODIFY", "RETRACT"}, EngineLoopInside(tag, x, v)
  PROVE  Story'
<1> DEFINE a == External(tag, x, v)
<1>1. a \in Action /\ a.tag = tag /\ queue' = Append(queue, a)
  BY ExternalIs DEF EngineLoopInside
<1>2. tag # "MODIFY"
  BY DEF EngineLoopInside, Tame
<1>3. ~Idle
  BY DEF EngineLoopInside, Tame, Home
<1>4. UNCHANGED <<value, net, stack>>
  BY DEF EngineLoopInside
<1> HIDE DEF a
<1> QED BY <1>1, <1>2, <1>3, <1>4, PushStory

(* The instance on top goes on: the bound of what is told stays, or the    *)
(* part of the instance is empty.                                          *)
LEMMA MoveStory ==
  ASSUME IInv, Story, RunRule \/ StartTelling \/ AllTold \/ Repeat
  PROVE  Story'
<1>1. ~Idle /\ queue \in Seq(Action) /\ stack \in Seq(Frame)
      /\ UNCHANGED <<value, net, queue>>
  BY DEF IInv, TypeOK, RunRule, StartTelling, AllTold, Repeat, AtCs, InRun, Drained
<1>2. /\ Top \in Frame /\ Top.base \in Nat /\ Top.told \in Nat
      /\ Len(stack) \in 1..Len(stack) /\ Len(stack) \in Nat \ {0}
  BY <1>1, TopIsFrame
<1>3. ASSUME NEW f \in Frame, stack' = SetTop(f), f.base = Top.base,
             f.pc \in {"tell", "descend"} => f.base <= f.told,
             NEW t, ToldTo = t \/ (\A i \in 1..Len(queue) : ~News(i) /\ i <= t),
             t = IF f.pc \in {"tell", "descend"} THEN f.told ELSE f.base,
             f.pc = "descend" => \A i \in 1..Len(queue) : ~(i > f.told)
      PROVE  Story'
  <2>1. /\ stack' \in Seq(Frame) /\ Len(stack') = Len(stack)
        /\ stack'[Len(stack)] = f
        /\ \A n \in 1..(Len(stack) - 1) : stack'[n] = stack[n]
    BY <1>1, <1>3, TopKeeps
  <2>2. ~Idle' /\ Top' = f
    BY <1>2, <2>1 DEF Idle, Top
  <2>3. ToldTo' = t
    BY <1>3, <2>2 DEF ToldTo
  <2>4. \A i \in 1..Len(queue) : Rewrites(i)' = Rewrites(i)
    BY <1>1 DEF Rewrites
  <2>5. t \in Nat
    BY <1>3 DEF Frame
  <2>6. \A i \in 1..Len(queue) : News(i)' = News(i)
    BY <1>1, <1>3, <2>3, <2>4, <2>5 DEF News
  <2>7. Settled'
    <3>1. \A i \in 1..Len(queue) : Rewrites(i) /\ ~News(i) => queue[i].old = queue[i].wrote
      BY DEF Story, Settled, News
    <3> QED BY <1>1, <2>4, <2>6, <3>1 DEF Settled, News
  <2>8. NewsIsShown' /\ OnceEach' /\ NewsExplains'
    BY <1>1, <2>6 DEF Story, NewsIsShown, OnceEach, NewsExplains
  <2>9. AllAreTold'
    <3> SUFFICES ASSUME NEW n \in 1..Len(stack), stack'[n].pc = "descend",
                        NEW i \in 1..Len(queue), Rewrites(i), i > stack'[n].told
                 PROVE  n < Len(stack) /\ i > stack'[n + 1].base
      BY <1>1, <2>1, <2>4 DEF AllAreTold
    <3>1. n # Len(stack)
      BY <1>3, <2>1
    <3>2. n \in 1..(Len(stack) - 1) /\ n + 1 \in 1..Len(stack)
      BY <1>2, <3>1
    <3>3. i > stack[n + 1].base
      BY <2>1, <3>2 DEF Story, AllAreTold
    <3>4. stack'[n + 1].base = stack[n + 1].base
      BY <1>2, <1>3, <2>1, <3>2 DEF Top
    <3> QED BY <1>2, <3>2, <3>3, <3>4
  <2> QED BY <2>7, <2>8, <2>9 DEF Story
<1>4. CASE RunRule
  <2> DEFINE f == [Top EXCEPT !.pc = "rhs", !.ran = TRUE]
  <2>1. f \in Frame /\ f.base = Top.base /\ f.pc = "rhs"
    BY <1>2 DEF Frame
  <2>2. stack' = SetTop(f) /\ ToldTo = Top.base
    BY <1>4 DEF RunRule, AtCs, ToldTo
  <2> HIDE DEF f
  <2> QED BY <1>3, <2>1, <2>2
<1>5. CASE StartTelling
  <2> DEFINE f == [Top EXCEPT !.pc = "tell", !.told = Top.base, !.ran = InRun]
  <2>1. InRun \in BOOLEAN
    BY DEF InRun
  <2>2. f \in Frame /\ f.base = Top.base /\ f.pc = "tell" /\ f.told = Top.base
    BY <1>2, <2>1 DEF Frame
  <2>3. stack' = SetTop(f) /\ ToldTo = Top.base
    BY <1>5 DEF StartTelling, AtCs, InRun, ToldTo
  <2> HIDE DEF f
  <2> QED BY <1>2, <1>3, <2>2, <2>3
<1>6. CASE AllTold
  <2> DEFINE f == [Top EXCEPT !.pc = "descend"]
  <2>1. f \in Frame /\ f.base = Top.base /\ f.told = Top.told /\ f.pc = "descend"
    BY <1>2 DEF Frame
  <2>2. stack' = SetTop(f) /\ ToldTo = Top.told /\ Top.told = Len(queue)
    BY <1>6 DEF AllTold, ToldTo
  <2>3. Top.base <= Top.told
    BY <1>1, <1>2, <1>6 DEF AllTold, IInv, Framed, Top
  <2>4. \A i \in 1..Len(queue) : ~(i > f.told)
    BY <1>1, <2>1, <2>2
  <2> HIDE DEF f
  <2> QED BY <1>3, <2>1, <2>2, <2>3, <2>4
<1>7. CASE Repeat
  <2> DEFINE f == [Top EXCEPT !.pc = "cs"]
  <2>1. f \in Frame /\ f.base = Top.base /\ f.pc = "cs"
    BY <1>2 DEF Frame
  <2>2. stack' = SetTop(f) /\ ToldTo = Top.told /\ Top.pc = "descend"
        /\ Len(queue) = Top.base
    BY <1>7 DEF Repeat, Drained, ToldTo
  <2>3. \A i \in 1..Len(queue) : ~News(i)
    BY <1>2, <2>2 DEF Story, AllAreTold, News, Top
  <2>4. \A i \in 1..Len(queue) : i <= Top.base
    BY <1>1, <2>2
  <2> HIDE DEF f
  <2> QED BY <1>3, <2>1, <2>2, <2>3, <2>4
<1> QED BY <1>4, <1>5, <1>6, <1>7

(* Telling a modification shows the old state again and saves the new one. *)
LEMMA TellStory ==
  ASSUME IInv, Story, Tell
  PROVE  Story'
<1> PICK k \in Nat : k = Top.told + 1
  <2>1. Top.told \in Nat
    BY TopIsFrame DEF IInv, TypeOK, Tell
  <2> QED BY <2>1
<1> DEFINE x == queue[k].obj
           f == [Top EXCEPT !.told = k]
<1>1. ~Idle /\ queue \in Seq(Action) /\ stack \in Seq(Frame) /\ Top.pc = "tell"
      /\ UNCHANGED net /\ value \in [Obj -> Value]
      /\ net \in [Obj -> Value \union {Absent}]
  BY DEF IInv, TypeOK, Tell
<1>2. /\ Top \in Frame /\ Top.base \in Nat /\ Top.told \in Nat
      /\ Len(stack) \in 1..Len(stack) /\ Len(stack) \in Nat \ {0}
  BY <1>1, TopIsFrame
<1>3. Top.base <= Top.told /\ k \in 1..Len(queue) /\ ToldTo = Top.told
  BY <1>1, <1>2 DEF Tell, IInv, Framed, Top, ToldTo
<1>4. f \in Frame /\ f.base = Top.base /\ f.told = k /\ f.pc = "tell"
  BY <1>1, <1>2 DEF Frame
<1>5. stack' = SetTop(f)
  BY DEF Tell
<1>6. x \in Obj /\ queue[k] \in Action
  BY <1>1, <1>3, ActionAt
<1>7. /\ Len(queue') = Len(queue)
      /\ \A j \in 1..Len(queue) : /\ queue'[j].tag = queue[j].tag
                                  /\ queue'[j].obj = queue[j].obj
                                  /\ queue'[j].wrote = queue[j].wrote
                                  /\ j # k => queue'[j].old = queue[j].old
      /\ queue[k].tag = "MODIFY" =>
           /\ queue'[k].old = value[x]
           /\ value' = [value EXCEPT ![x] = queue[k].old]
      /\ queue[k].tag # "MODIFY" => UNCHANGED <<queue, value>>
  <2>1. CASE queue[k].tag = "MODIFY"
    <3> DEFINE r == [queue[k] EXCEPT !.old = value[x]]
    <3>1. queue' = [queue EXCEPT ![k] = r] /\ value' = [value EXCEPT ![x] = queue[k].old]
      BY <2>1 DEF Tell, ObjSwap
    <3>2. /\ r.tag = queue[k].tag /\ r.obj = x /\ r.wrote = queue[k].wrote
          /\ r.old = value[x]
      BY <1>6 DEF Action
    <3> HIDE DEF r
    <3>3. /\ Len(queue') = Len(queue) /\ queue'[k] = r
          /\ \A j \in 1..Len(queue) : j # k => queue'[j] = queue[j]
      BY <1>1, <1>3, <3>1
    <3> QED BY <2>1, <3>1, <3>2, <3>3
  <2>2. CASE queue[k].tag # "MODIFY"
    <3>1. UNCHANGED <<queue, value>>
      BY <2>2 DEF Tell
    <3> QED BY <2>2, <3>1
  <2> QED BY <2>1, <2>2
<1> HIDE DEF f
<1>8. /\ Len(stack') = Len(stack) /\ stack'[Len(stack)] = f
      /\ \A n \in 1..(Len(stack) - 1) : stack'[n] = stack[n]
  <2>1. f.base <= f.told
    BY <1>2, <1>3, <1>4
  <2> QED BY <1>1, <1>4, <1>5, <1>7, <2>1, TopKeeps
<1>9. ~Idle' /\ Top' = f
  BY <1>2, <1>8 DEF Idle, Top
<1>10. ToldTo' = k
  BY <1>4, <1>9 DEF ToldTo
<1>11. \A j \in 1..Len(queue) : Rewrites(j)' = Rewrites(j)
  BY <1>7 DEF Rewrites
<1>12. \A j \in 1..Len(queue) : News(j)' = (News(j) /\ j # k)
  BY <1>2, <1>3, <1>10, <1>11 DEF News
<1>13. queue[k].tag = "MODIFY" => News(k)
  BY <1>2, <1>3 DEF News, Rewrites
<1>14. queue[k].tag = "MODIFY" => value[x] = queue[k].wrote
                                /\ net[x] \in {queue[k].old, Absent}
  BY <1>3, <1>13 DEF Story, NewsIsShown
<1>15. Settled'
  <2> SUFFICES ASSUME NEW i \in 1..Len(queue), Rewrites(i), ~News(i)'
               PROVE  queue'[i].old = queue'[i].wrote
    BY <1>7, <1>11 DEF Settled, News
  <2>1. CASE i = k
    BY <1>7, <1>14, <2>1 DEF Rewrites
  <2>2. CASE i # k
    BY <1>7, <1>12, <2>2 DEF Story, Settled, News
  <2> QED BY <2>1, <2>2
(* The news that are left are not about x.                                 *)
<1>16. queue[k].tag = "MODIFY" =>
         \A i \in 1..Len(queue) : News(i) /\ i # k => queue[i].obj # x
  BY <1>3, <1>13 DEF Story, OnceEach
<1>17. \A i \in 1..Len(queue) : queue[i].obj \in Obj
  BY <1>1, ActionAt
<1>18. NewsIsShown'
  <2> SUFFICES ASSUME NEW i \in 1..Len(queue), News(i), i # k
               PROVE  /\ value'[queue'[i].obj] = queue'[i].wrote
                      /\ net[queue'[i].obj] \in {queue'[i].old, Absent}
    BY <1>1, <1>7, <1>12 DEF NewsIsShown
  <2>1. /\ value[queue[i].obj] = queue[i].wrote
        /\ net[queue[i].obj] \in {queue[i].old, Absent}
    BY DEF Story, NewsIsShown
  <2>2. value'[queue[i].obj] = value[queue[i].obj]
    BY <1>1, <1>7, <1>16, <1>17
  <2> QED BY <1>7, <2>1, <2>2
<1>19. OnceEach'
  BY <1>7, <1>12 DEF Story, OnceEach
<1>20. NewsExplains'
  <2> SUFFICES ASSUME NEW y \in Obj, net[y] # Absent, net[y] # value'[y]
               PROVE  \E i \in 1..Len(queue') : News(i)' /\ queue'[i].obj = y
    BY <1>1 DEF NewsExplains
  <2>1. y # x \/ queue[k].tag # "MODIFY"
    BY <1>1, <1>6, <1>7, <1>14
  <2>2. value'[y] = value[y]
    BY <1>1, <1>7, <2>1
  <2>3. PICK i \in 1..Len(queue) : News(i) /\ queue[i].obj = y
    BY <2>2 DEF Story, NewsExplains
  <2>4. i # k
    BY <2>1, <2>3 DEF News, Rewrites
  <2>5. i \in 1..Len(queue') /\ News(i)' /\ queue'[i].obj = y
    BY <1>7, <1>12, <2>3, <2>4
  <2> QED BY <2>5
<1>21. AllAreTold'
  <2> SUFFICES ASSUME NEW n \in 1..Len(stack), stack'[n].pc = "descend",
                      NEW i \in 1..Len(queue), Rewrites(i), i > stack'[n].told
               PROVE  n < Len(stack) /\ i > stack'[n + 1].base
    BY <1>7, <1>8, <1>11 DEF AllAreTold
  <2>1. n \in 1..(Len(stack) - 1) /\ n + 1 \in 1..Len(stack)
    BY <1>2, <1>4, <1>8
  <2>2. i > stack[n + 1].base
    BY <1>8, <2>1 DEF Story, AllAreTold
  <2>3. stack'[n + 1].base = stack[n + 1].base
    <3>1. CASE n + 1 = Len(stack)
      BY <1>4, <1>8, <3>1 DEF Top
    <3>2. CASE n + 1 # Len(stack)
      <4>1. n + 1 \in 1..(Len(stack) - 1)
        BY <1>2, <2>1, <3>2
      <4> QED BY <1>8, <4>1
    <3> QED BY <3>1, <3>2
  <2> QED BY <1>2, <2>1, <2>2, <2>3
<1> QED BY <1>15, <1>18, <1>19, <1>20, <1>21 DEF Story

(* An instance that ends returns to one without news.                      *)
LEMMA FinishStory ==
  ASSUME IInv, Story, Finish
  PROVE  Story'
<1>1. ~Idle /\ Top.pc = "descend" /\ Len(queue) = Top.base /\ stack \in Seq(Frame)
      /\ UNCHANGED <<value, net, queue>> /\ queue \in Seq(Action)
  BY DEF Finish, Drained, IInv, TypeOK
<1>2. Quiet
  BY <1>1, DescendIsQuiet
<1>3. Len(stack) \in Nat \ {0} /\ Len(stack) \in 1..Len(stack)
  BY <1>1, TopIsFrame
<1> PICK n \in Nat : n = Len(stack) - 1
  BY <1>3
<1>4. n \in 0..Len(stack) /\ stack' = SubSeq(stack, 1, n)
  BY <1>3 DEF Finish, Below
<1>5. /\ stack' \in Seq(Frame) /\ Len(stack') = n
      /\ \A m \in 1..n : stack'[m] = stack[m]
  BY <1>1, <1>4
<1>6. ASSUME NEW m \in 1..n, stack[m].pc = "descend", NEW i \in 1..Len(queue),
             Rewrites(i), i > stack[m].told
      PROVE  m < n /\ i > stack[m + 1].base
  <2>1. m \in 1..Len(stack) /\ m + 1 \in 1..Len(stack)
    BY <1>3
  <2>2. i > stack[m + 1].base
    BY <1>6, <2>1 DEF Story, AllAreTold
  <2>3. m # n
    BY <1>1, <1>3, <2>2 DEF Top
  <2> QED BY <2>2, <2>3
<1>7. AllAreTold'
  <2> SUFFICES ASSUME NEW m \in 1..n, stack[m].pc = "descend", NEW i \in 1..Len(queue),
                      Rewrites(i), i > stack[m].told
               PROVE  m < n /\ i > stack'[m + 1].base
    BY <1>1, <1>5 DEF AllAreTold, Rewrites
  <2>1. m < n /\ i > stack[m + 1].base
    BY <1>6
  <2>2. m + 1 \in 1..n
    BY <2>1
  <2> QED BY <1>5, <2>1, <2>2
<1>8. \A i \in 1..Len(queue) : ~News(i)'
  <2> SUFFICES ASSUME NEW i \in 1..Len(queue), News(i)'
               PROVE  FALSE
    OBVIOUS
  <2>1. CASE n = 0
    <3>1. Idle' /\ ToldTo' = Len(queue)
      BY <1>1, <1>5, <2>1, EmptySeq DEF Idle, ToldTo
    <3> QED BY <1>1, <3>1 DEF News
  <2>2. CASE n # 0
    <3>1. n \in 1..n /\ n \in 1..Len(stack) /\ n < Len(stack)
      BY <1>3, <2>2
    <3>2. ~Idle' /\ Top' = stack[n]
      BY <1>5, <3>1 DEF Idle, Top
    <3>3. stack[n].pc = "descend"
      BY <3>1 DEF IInv, Framed
    <3>4. ToldTo' = stack[n].told
      BY <3>2, <3>3 DEF ToldTo
    <3>5. Rewrites(i) /\ i > stack[n].told
      BY <1>1, <3>4 DEF News, Rewrites
    <3> QED BY <1>6, <3>1, <3>3, <3>5
  <2> QED BY <2>1, <2>2
<1> QED BY <1>1, <1>2, <1>7, <1>8 DEF Quiet, Story, Settled, NewsIsShown, OnceEach,
    NewsExplains, News, Rewrites

(* Every step keeps the story.                                             *)
LEMMA StoryOK ==
  ASSUME Tame, IInv, IInv', Home, Story, [Next]_vars
  PROVE  Story'
<1>1. CASE Application
  BY <1>1, EngineLoopStory, EngineLoopInsideStory DEF Application
<1>2. CASE RightHandSide
  BY <1>2, RightHandSideStory
<1>3. CASE DoLoop
  BY <1>3, MoveStory, TellStory, DescendStory, FinishStory DEF DoLoop
<1>4. CASE UNCHANGED vars
  BY <1>4 DEF vars, Story, Settled, NewsIsShown, OnceEach, NewsExplains, AllAreTold,
     News, Rewrites, ToldTo, Top, Idle
<1> QED BY <1>1, <1>2, <1>3, <1>4 DEF Next

(* The story is an invariant of the engine used as Tame says.              *)
LEMMA Told ==
  ASSUME Tame
  PROVE  Spec => [](Home /\ Story)
<1>1. Init => Home /\ Story
  <2> SUFFICES ASSUME Init PROVE Home /\ Story
    OBVIOUS
  <2>1. Len(queue) = 0 /\ Len(stack) = 0 /\ Idle /\ \A x \in Obj : net[x] = Absent
    BY EmptySeq DEF Init, Idle
  <2>2. Home
    BY <2>1 DEF Init, Home
  <2>3. Story
    BY <2>1 DEF Story, Settled, NewsIsShown, OnceEach, NewsExplains, AllAreTold
  <2> QED BY <2>2, <2>3
<1>2. IInv /\ IInv' /\ Home /\ Story /\ [Next]_vars => (Home /\ Story)'
  BY HomeOK, StoryOK DEF Tame
<1> QED BY <1>1, <1>2, Invariance, PTL DEF Spec

(* Rules see the objects as the net does: an object in the net shows the   *)
(* value its memories hold until a modification of it is told.             *)
THEOREM NetIsShown ==
  ASSUME Tame
  PROVE  Spec => []NetShowsObjects
<1>1. ASSUME IInv, Home, Story
      PROVE  NetShowsObjects
  <2> SUFFICES ASSUME NEW x \in Obj, net[x] # Absent, net[x] # value[x]
               PROVE  ~Idle /\ Waiting(x)
    BY DEF NetShowsObjects
  <2>1. ~Idle
    BY <1>1, IdleIsQuiet DEF Quiet
  <2>2. PICK i \in 1..Len(queue) : News(i) /\ queue[i].obj = x
    BY <1>1 DEF Story, NewsExplains
  <2> QED BY <2>1, <2>2 DEF News, Rewrites, ToldTo, Waiting
<1> QED BY <1>1, Invariance, Told, PTL

(* A modification is propagated as it was made: from the value the net     *)
(* holds to the value its author wrote.                                    *)
THEOREM ModificationsArrive ==
  ASSUME Tame
  PROVE  Spec => ModifyIsFaithful
<1>1. ASSUME IInv, IInv', Home, Story, [Next]_vars
      PROVE  [Faithful]_vars
  <2>1. CASE Application
    <3>1. ASSUME NEW x \in Obj, NEW v \in Value,
                 NEW tag \in {"INSERT", "MODIFY", "RETRACT"}, EngineLoop(tag, x, v)
          PROVE  Faithful
      BY <1>1, <3>1, EngineLoopStory
    <3>2. ASSUME UNCHANGED stack
          PROVE  Faithful
      BY <1>1, <3>2 DEF Faithful, EntersModify, IInv, TypeOK
    <3> QED BY <2>1, <3>1, <3>2 DEF Application, EngineLoopInside
  <2>2. CASE Descend
    BY <1>1, <2>2, DescendStory
  <2>3. CASE RightHandSide \/ Finish \/ RunRule \/ StartTelling \/ Tell \/ AllTold \/ Repeat
    <3>1. stack \in Seq(Frame) /\ Len(stack) \in Nat
      BY <1>1 DEF IInv, TypeOK
    <3>2. CASE RightHandSide
      <4>1. UNCHANGED stack
        BY <3>2 DEF RightHandSide, Create, Imply, New, Modify, ModifyImplied, Write,
           Change, Delete, RetractImplied, Pushed
      <4> QED BY <3>1, <4>1 DEF Faithful, EntersModify
    <3>3. CASE Finish
      <4>1. ~Idle /\ Len(stack) # 0
        BY <3>1, <3>3, TopIsFrame DEF Finish, Drained
      <4>2. Len(stack) - 1 \in 0..Len(stack) /\ stack' = SubSeq(stack, 1, Len(stack) - 1)
        BY <3>1, <3>3, <4>1 DEF Finish, Below
      <4>3. Len(stack') # Len(stack) + 1
        BY <3>1, <4>1, <4>2
      <4> QED BY <4>3 DEF Faithful, EntersModify
    <3>4. CASE RunRule \/ StartTelling \/ Tell \/ AllTold \/ Repeat
      <4>1. PICK f : stack' = SetTop(f)
        BY <3>4 DEF RunRule, StartTelling, Tell, AllTold, Repeat
      <4>2. Len(stack') = Len(stack)
        BY <3>1, <4>1 DEF SetTop
      <4> QED BY <3>1, <4>2 DEF Faithful, EntersModify
    <3> QED BY <2>3, <3>2, <3>3, <3>4
  <2> QED BY <1>1, <2>1, <2>2, <2>3 DEF Next, DoLoop
<1> QED BY <1>1, Invariance, Told, PTL DEF Spec, ModifyIsFaithful, Faithful

(* The application is shown the value the author of a MODIFY wrote.        *)
THEOREM AuthorsAreShown ==
  ASSUME Tame
  PROVE  Spec => ShownIsWritten
<1> DEFINE Shown == event' # NoEvent /\ event'.kind = "modified" =>
                      event'.shown = queue[Top.told + 1].wrote
<1>1. ASSUME IInv, Home, Story, [Next]_vars
      PROVE  [Shown]_vars
  <2>1. CASE Tell
    <3>1. ~Idle /\ Top.told \in Nat /\ queue \in Seq(Action)
      BY <1>1, <2>1, TopIsFrame DEF IInv, TypeOK, Tell
    <3>2. Top.told + 1 \in 1..Len(queue) /\ ToldTo = Top.told
      BY <2>1, <3>1 DEF Tell, ToldTo
    <3>3. event' # NoEvent /\ event'.kind = "modified" =>
            /\ queue[Top.told + 1].tag = "MODIFY"
            /\ event'.shown = value[queue[Top.told + 1].obj]
      BY <2>1 DEF Tell, Say
    <3>4. queue[Top.told + 1].tag = "MODIFY" => News(Top.told + 1)
      BY <3>1, <3>2 DEF News, Rewrites
    <3> QED BY <1>1, <3>2, <3>3, <3>4 DEF Story, NewsIsShown
  <2>2. CASE Finish
    BY <2>2 DEF Finish, Say
  <2>3. CASE Application \/ RightHandSide \/ RunRule \/ StartTelling \/ AllTold
             \/ Descend \/ Repeat
    BY <2>3 DEF Application, EngineLoop, EngineLoopInside, RightHandSide, Create, Imply,
       New, Modify, ModifyImplied, Write, Change, Delete, RetractImplied, Pushed,
       RunRule, StartTelling, AllTold, Descend, Repeat
  <2> QED BY <1>1, <2>1, <2>2, <2>3 DEF Next, DoLoop
<1> QED BY <1>1, Invariance, Told, PTL DEF Spec, ShownIsWritten

-----------------------------------------------------------------------------
(* The uses in which the account is right.  In each of the others TLC      *)
(* finds an object given away too early: rules that act on the object the  *)
(* application retracts or that delete the implied objects of others,      *)
(* modifications and retractions from inside a propagation, insertions     *)
(* when the application is told of an unused object.                       *)
Discreet == /\ "unused" \notin FromEvents
            /\ Inside \subseteq {"INSERT"}
            /\ "posthumous" \notin Habits
            /\ "meddling" \notin Habits

(* The waiting actions on x, the instances that work for one, and those    *)
(* among them that propagate its RETRACT.                                  *)
Queued(x) == {i \in 1..Len(queue) : queue[i].obj = x}
Held(x) == {n \in 1..Len(stack) : stack[n].act.obj = x}
Leaving(x) == {n \in Held(x) : stack[n].act.tag = "RETRACT"}
Outside(x) == net[x] = Absent /\ x \notin implied

(* Nothing in the engine is about an object that was never handed to it.   *)
FreshOnes(x) == life[x] = "fresh" =>
  Outside(x) /\ x \notin deleted /\ Queued(x) = {} /\ Held(x) = {}

(* An object a rule made waits for its INSERT to be told, and all the      *)
(* other actions on it are behind that one.                                *)
MadeOnes(x) == life[x] = "made" =>
  /\ net[x] = Absent /\ x \notin deleted /\ Held(x) = {}
  /\ ~Idle /\ Top.pc # "descend"
  /\ \E i \in Queued(x) : /\ i > ToldTo /\ queue[i].tag = "INSERT"
                          /\ \A j \in Queued(x) : j >= i

(* Of an object given away there are at most actions on its marked Single. *)
GoneOnes(x) == life[x] = "gone" =>
  /\ Outside(x) /\ Leaving(x) = {}
  /\ x \in deleted \/ (Queued(x) = {} /\ Held(x) = {})

(* An action with a Single of its own is the only one on its object.       *)
OwnWaits(x) == \A i \in Queued(x) : queue[i].own =>
  /\ queue[i].tag = "INSERT" /\ life[x] = "known" /\ Outside(x) /\ x \notin deleted
  /\ Queued(x) = {i} /\ Held(x) = {}

(* And so it is when it is propagated and no pattern takes it.             *)
OwnRuns(x) == \A n \in Held(x) : stack[n].act.own =>
  /\ life[x] = "known" /\ Outside(x) /\ x \notin deleted
  /\ Queued(x) = {} /\ Held(x) = {n}

(* A Single is marked while its RETRACT is propagated, and stays so.       *)
Marked(x) == x \in deleted =>
  Outside(x) /\ (life[x] = "gone" \/ (life[x] = "known" /\ Leaving(x) # {}))

(* The RETRACT that is propagated is the only one.  When the application   *)
(* retracts the object nothing else is about it; when do_loop found the    *)
(* RETRACT in the list the Single is marked.                               *)
Leaves(x) == \A n \in Leaving(x) :
  /\ life[x] = "known" /\ Outside(x) /\ Leaving(x) = {n}
  /\ IF stack[n].first THEN x \notin deleted /\ Queued(x) = {} /\ Held(x) = {n}
     ELSE x \in deleted

(* A production node has handed over the object before its RETRACT waits.  *)
RetractWaits(x) == \A i \in Queued(x) : queue[i].tag = "RETRACT" => x \notin implied

LedgerOf(x) == /\ FreshOnes(x) /\ MadeOnes(x) /\ GoneOnes(x)
               /\ OwnWaits(x) /\ OwnRuns(x)
               /\ Marked(x) /\ Leaves(x) /\ RetractWaits(x)

(* The object that is propagated is known; those of the actions that are   *)
(* not yet told are known or were made.                                    *)
NetKnown == ~Idle /\ Top.pc = "net" => life[Top.act.obj] = "known"
NewsKnown == ~Idle /\ Top.pc # "descend" =>
  \A i \in 1..Len(queue) : i > ToldTo => life[queue[i].obj] \in {"made", "known"}

(* The inductive invariant.                                                *)
Ledger == (\A x \in Obj : LedgerOf(x)) /\ NetKnown /\ NewsKnown

-----------------------------------------------------------------------------
(* A step about another object leaves the ledger of y as it is.            *)
SameAbout(y) == /\ net'[y] = net[y] /\ life'[y] = life[y]
                /\ y \in implied' <=> y \in implied
                /\ y \in deleted' <=> y \in deleted

(* The instances that work on y are the same.                              *)
SameHeld(y) == /\ Held(y)' = Held(y)
               /\ \A n \in Held(y) : /\ stack'[n].act = stack[n].act
                                     /\ stack'[n].first = stack[n].first

(* The actions on y are the same.                                          *)
SameQueued(y) == /\ Queued(y)' = Queued(y)
                 /\ \A i \in Queued(y) : /\ queue'[i].tag = queue[i].tag
                                         /\ queue'[i].own = queue[i].own

(* Those that wait were there before, each one once.                       *)
FewerQueued(y) ==
  \A i, j \in Queued(y)' : \E k, l \in Queued(y) :
    /\ queue'[i].tag = queue[k].tag /\ queue'[i].own = queue[k].own
    /\ queue'[j].tag = queue[l].tag /\ queue'[j].own = queue[l].own
    /\ k = l => i = j

(* A list whose actions on y are the same has no others.                   *)
LEMMA SameIsFewer ==
  ASSUME NEW y \in Obj, SameQueued(y)
  PROVE  FewerQueued(y)
BY DEF SameQueued, FewerQueued

(* When the step is about another object and drops at most some actions on *)
(* y, the ledger of y goes on balancing.                                   *)
LEMMA Bystander ==
  ASSUME NEW y \in Obj, LedgerOf(y), SameAbout(y), SameHeld(y), FewerQueued(y),
         MadeOnes(y)'
  PROVE  LedgerOf(y)'
<1>1. (Queued(y) = {}) => (Queued(y)' = {})
  BY DEF FewerQueued
<1>2. Leaving(y)' = Leaving(y) /\ Leaving(y) \subseteq Held(y)
  BY DEF SameHeld, Leaving
<1>3. Outside(y)' = Outside(y)
  BY DEF SameAbout, Outside
<1>4. FreshOnes(y)'
  BY <1>1, <1>3 DEF LedgerOf, FreshOnes, SameAbout, SameHeld
<1>5. GoneOnes(y)'
  BY <1>1, <1>2, <1>3 DEF LedgerOf, GoneOnes, SameAbout, SameHeld
<1>6. OwnWaits(y)'
  <2> SUFFICES ASSUME NEW i \in Queued(y)', queue'[i].own
               PROVE  /\ queue'[i].tag = "INSERT" /\ life'[y] = "known" /\ Outside(y)'
                      /\ y \notin deleted' /\ Queued(y)' = {i} /\ Held(y)' = {}
    BY DEF OwnWaits
  <2>1. PICK k \in Queued(y) : queue'[i].tag = queue[k].tag /\ queue'[i].own = queue[k].own
    BY DEF FewerQueued
  <2>2. /\ queue[k].tag = "INSERT" /\ life[y] = "known" /\ Outside(y) /\ y \notin deleted
        /\ Queued(y) = {k} /\ Held(y) = {}
    BY <2>1 DEF LedgerOf, OwnWaits
  <2>3. Queued(y)' = {i}
    BY <2>2 DEF FewerQueued
  <2> QED BY <1>3, <2>1, <2>2, <2>3 DEF SameAbout, SameHeld
<1>7. OwnRuns(y)'
  BY <1>1, <1>3 DEF LedgerOf, OwnRuns, SameAbout, SameHeld
<1>8. Marked(y)' /\ Leaves(y)'
  BY <1>1, <1>2, <1>3 DEF LedgerOf, Marked, Leaves, SameAbout, SameHeld
<1>9. RetractWaits(y)'
  <2> SUFFICES ASSUME NEW i \in Queued(y)', queue'[i].tag = "RETRACT"
               PROVE  y \notin implied'
    BY DEF RetractWaits
  <2>1. PICK k \in Queued(y) : queue'[i].tag = queue[k].tag
    BY DEF FewerQueued
  <2> QED BY <2>1 DEF LedgerOf, RetractWaits, SameAbout
<1> QED BY <1>4, <1>5, <1>6, <1>7, <1>8, <1>9 DEF LedgerOf

(* An object in the net, or kept by a production node, is known or made,   *)
(* and no action has a Single of its own for it.                           *)
LEMMA InsideIsLive ==
  ASSUME NEW x \in Obj, LedgerOf(x), ~Outside(x),
         life \in [Obj -> {"fresh", "made", "known", "gone"}]
  PROVE  /\ life[x] \in {"made", "known"}
         /\ net[x] # Absent => life[x] = "known"
         /\ x \notin deleted /\ Leaving(x) = {}
         /\ \A i \in Queued(x) : ~queue[i].own
         /\ \A n \in Held(x) : ~stack[n].act.own
BY DEF LedgerOf, FreshOnes, MadeOnes, GoneOnes, OwnWaits, OwnRuns, Marked, Leaves

-----------------------------------------------------------------------------
(* Pushes.  The new action is behind all the others.                       *)
LEMMA PushedQueue ==
  ASSUME queue \in Seq(Action), NEW a \in Action, queue' = Append(queue, a)
  PROVE  /\ Len(queue) \in Nat /\ Len(queue') = Len(queue) + 1
         /\ queue'[Len(queue) + 1] = a
         /\ \A i \in 1..Len(queue) : queue'[i] = queue[i]
         /\ \A y : a.obj # y => SameQueued(y)
         /\ Queued(a.obj)' = Queued(a.obj) \union {Len(queue) + 1}
         /\ \A y : \A i \in Queued(y) : i \in 1..Len(queue)
<1>1. /\ Len(queue') = Len(queue) + 1 /\ Len(queue) \in Nat
      /\ queue'[Len(queue) + 1] = a
      /\ \A i \in 1..Len(queue) : queue'[i] = queue[i]
  OBVIOUS
<1>2. \A i \in 1..Len(queue') : i \in 1..Len(queue) \/ i = Len(queue) + 1
  BY <1>1
<1>3. \A i \in 1..Len(queue) : i \in 1..Len(queue')
  BY <1>1
<1>4. \A y : a.obj # y => SameQueued(y)
  BY <1>1, <1>2, <1>3 DEF SameQueued, Queued
<1>5. Queued(a.obj)' = Queued(a.obj) \union {Len(queue) + 1}
  BY <1>1, <1>2, <1>3 DEF Queued
<1> QED BY <1>1, <1>4, <1>5 DEF Queued

(* Where it was pushed.                                                    *)
LEMMA PushedWhere ==
  ASSUME IInv, ~Idle, UNCHANGED stack
  PROVE  /\ ToldTo' = ToldTo /\ Idle' = Idle /\ Top' = Top
         /\ \A y : SameHeld(y) /\ Leaving(y)' = Leaving(y)
         /\ Top.pc \notin {"tell", "descend"} => ToldTo \in Nat /\ ToldTo <= Len(queue)
<1>1. Top.base \in Nat /\ Len(stack) \in 1..Len(stack)
  BY TopIsFrame DEF IInv, TypeOK
<1>2. Top.base <= Len(queue)
  BY <1>1 DEF IInv, Framed, Top
<1> QED BY <1>1, <1>2 DEF ToldTo, Idle, Top, SameHeld, Held, Leaving

(* The others of a push.                                                   *)
LEMMA PushBystander ==
  ASSUME IInv, ~Idle, UNCHANGED stack, NEW a \in Action, queue' = Append(queue, a),
         NEW y \in Obj, y # a.obj, LedgerOf(y), SameAbout(y)
  PROVE  LedgerOf(y)'
<1>1. SameQueued(y)
  BY PushedQueue DEF IInv, TypeOK
<1>2. ToldTo' = ToldTo /\ Idle' = Idle /\ Top' = Top /\ SameHeld(y)
  BY PushedWhere
<1>3. MadeOnes(y)'
  BY <1>1, <1>2 DEF LedgerOf, MadeOnes, SameQueued, SameAbout, SameHeld
<1> QED BY <1>1, <1>2, <1>3, SameIsFewer, Bystander

(* An action on an object the net or a production node holds, or that is   *)
(* leaving the net.                                                        *)
LEMMA PushSubject ==
  ASSUME IInv, ~Idle, UNCHANGED <<stack, net, deleted, life>>, NEW a \in Action,
         queue' = Append(queue, a), NEW x \in Obj, x = a.obj, ~a.own, LedgerOf(x),
         life[x] \in {"made", "known"},
         \A i \in Queued(x) : ~queue[i].own,
         \A n \in Held(x) : ~stack[n].act.own,
         \A n \in Leaving(x) : ~stack[n].first,
         x \in implied' => x \in implied,
         a.tag = "RETRACT" => x \notin implied'
  PROVE  LedgerOf(x)'
<1> DEFINE k == Len(queue) + 1
<1>1. /\ queue'[k] = a /\ Len(queue) \in Nat
      /\ \A i \in 1..Len(queue) : queue'[i] = queue[i]
      /\ Queued(x)' = Queued(x) \union {k}
      /\ \A i \in Queued(x) : i \in 1..Len(queue)
  BY PushedQueue DEF IInv, TypeOK
<1>2. /\ ToldTo' = ToldTo /\ Idle' = Idle /\ Top' = Top /\ SameHeld(x)
      /\ Leaving(x)' = Leaving(x)
  BY PushedWhere
<1>3. Outside(x) => Outside(x)'
  BY DEF Outside
<1>4. FreshOnes(x)' /\ GoneOnes(x)'
  BY DEF FreshOnes, GoneOnes
<1>5. MadeOnes(x)'
  <2> SUFFICES ASSUME life[x] = "made"
               PROVE  \E i \in Queued(x)' : /\ i > ToldTo /\ queue'[i].tag = "INSERT"
                                             /\ \A j \in Queued(x)' : j >= i
    BY <1>2 DEF LedgerOf, MadeOnes, SameHeld
  <2>1. PICK i \in Queued(x) : /\ i > ToldTo /\ queue[i].tag = "INSERT"
                               /\ \A j \in Queued(x) : j >= i
    BY DEF LedgerOf, MadeOnes
  <2> QED BY <1>1, <2>1
<1>6. OwnWaits(x)'
  BY <1>1 DEF OwnWaits
<1>7. OwnRuns(x)'
  BY <1>2 DEF OwnRuns, SameHeld
<1>8. Marked(x)'
  BY <1>2, <1>3 DEF LedgerOf, Marked
<1>9. Leaves(x)'
  <2>1. \A n \in Leaving(x) : n \in Held(x)
    BY DEF Leaving
  <2> QED BY <1>2, <1>3, <2>1 DEF LedgerOf, Leaves, SameHeld
<1>10. RetractWaits(x)'
  BY <1>1 DEF LedgerOf, RetractWaits
<1> QED BY <1>4, <1>5, <1>6, <1>7, <1>8, <1>9, <1>10 DEF LedgerOf

(* A push keeps what is said of the instance on top.                       *)
LEMMA PushNews ==
  ASSUME IInv, ~Idle, UNCHANGED stack, NEW a \in Action, queue' = Append(queue, a),
         NetKnown, NewsKnown,
         \A y \in Obj : life[y] \in {"made", "known"} => life'[y] = life[y],
         life'[a.obj] \in {"made", "known"}
  PROVE  NetKnown' /\ NewsKnown'
<1>1. /\ queue'[Len(queue) + 1] = a /\ Len(queue') = Len(queue) + 1
      /\ \A i \in 1..Len(queue) : queue'[i] = queue[i] /\ queue[i].obj \in Obj
      /\ Len(queue) \in Nat
  BY PushedQueue, ActionAt DEF IInv, TypeOK
<1>2. /\ ToldTo' = ToldTo /\ Idle' = Idle /\ Top' = Top /\ Top.act.obj \in Obj
  BY PushedWhere, TopIsFrame DEF IInv, TypeOK
<1>3. NewsKnown'
  <2> SUFFICES ASSUME ~Idle, Top.pc # "descend", NEW i \in 1..Len(queue'), i > ToldTo
               PROVE  life'[queue'[i].obj] \in {"made", "known"}
    BY <1>2 DEF NewsKnown
  <2>1. CASE i \in 1..Len(queue)
    BY <1>1, <2>1 DEF NewsKnown
  <2>2. CASE i = Len(queue) + 1
    BY <1>1, <2>2
  <2> QED BY <1>1, <2>1, <2>2
<1> QED BY <1>2, <1>3 DEF NetKnown

(* The object a rule creates.                                              *)
LEMMA NewLedger ==
  ASSUME IInv, Ledger, NEW x \in Obj, New(x), implied' \in {implied, implied \union {x}}
  PROVE  Ledger'
<1> DEFINE a == Plain("INSERT", x, FALSE)
           k == Len(queue) + 1
<1>1. a \in Action /\ a.tag = "INSERT" /\ a.obj = x /\ ~a.own
  BY DEF Plain, Action, Tag
<1> HIDE DEF a
<1>2. /\ queue' = Append(queue, a) /\ UNCHANGED <<net, stack, deleted>>
      /\ life[x] = "fresh" /\ life' = [life EXCEPT ![x] = "made"]
      /\ ~Idle /\ Top.pc \in {"net", "rhs"}
      /\ life \in [Obj -> {"fresh", "made", "known", "gone"}]
  BY DEF New, Pushed, InRetraction, InRun, IInv, TypeOK, a
<1>3. \A y \in Obj : y # x => LedgerOf(y)'
  <2> SUFFICES ASSUME NEW y \in Obj, y # x PROVE LedgerOf(y)'
    OBVIOUS
  <2>1. SameAbout(y) /\ LedgerOf(y)
    BY <1>2 DEF SameAbout, Ledger
  <2> QED BY <1>1, <1>2, <2>1, PushBystander
<1>4. LedgerOf(x)'
  <2>1. /\ Outside(x) /\ x \notin deleted /\ Queued(x) = {} /\ Held(x) = {}
    BY <1>2 DEF Ledger, LedgerOf, FreshOnes
  <2>2. /\ queue'[k] = a /\ Len(queue) \in Nat /\ Queued(x)' = {k}
    BY <1>1, <1>2, <2>1, PushedQueue DEF IInv, TypeOK
  <2>3. /\ ToldTo' = ToldTo /\ Idle' = Idle /\ Top' = Top /\ Held(x)' = {}
        /\ ToldTo \in Nat /\ k > ToldTo
    BY <1>2, <2>1, <2>2, PushedWhere DEF SameHeld
  <2>4. life'[x] = "made" /\ net'[x] = Absent /\ x \notin deleted'
    BY <1>2, <2>1 DEF Outside
  <2>5. MadeOnes(x)'
    BY <1>1, <1>2, <2>2, <2>3, <2>4 DEF MadeOnes
  <2>6. /\ FreshOnes(x)' /\ GoneOnes(x)' /\ OwnRuns(x)' /\ Marked(x)'
        /\ OwnWaits(x)' /\ RetractWaits(x)'
    BY <1>1, <2>2, <2>3, <2>4 DEF FreshOnes, GoneOnes, OwnRuns, Marked, OwnWaits, RetractWaits
  <2>7. Leaves(x)'
    BY <2>3 DEF Leaves, Leaving
  <2> QED BY <2>5, <2>6, <2>7 DEF LedgerOf
<1>5. NetKnown' /\ NewsKnown'
  <2>1. \A y \in Obj : life[y] \in {"made", "known"} => life'[y] = life[y]
    BY <1>2
  <2>2. life'[a.obj] \in {"made", "known"}
    BY <1>1, <1>2
  <2> QED BY <1>1, <1>2, <2>1, <2>2, PushNews DEF Ledger
<1> QED BY <1>3, <1>4, <1>5 DEF Ledger

(* An object a right-hand side acts on is live and no Single but that of   *)
(* the net is in use for it.                                               *)
LEMMA TouchableIsLive ==
  ASSUME Discreet, IInv, Ledger, NEW x \in Obj, ~Idle, Touchable(x)
  PROVE  /\ life[x] = "known"
         /\ \A i \in Queued(x) : ~queue[i].own
         /\ \A n \in Held(x) : ~stack[n].act.own
         /\ \A n \in Leaving(x) : ~stack[n].first
<1>1. LedgerOf(x) /\ life \in [Obj -> {"fresh", "made", "known", "gone"}]
  BY DEF Ledger, IInv, TypeOK
<1>2. CASE net[x] # Absent
  BY <1>1, <1>2, InsideIsLive DEF Outside
<1>3. CASE InRetraction /\ x = Top.act.obj /\ ~Top.act.own
           /\ ~(Top.first /\ Top.act.tag = "RETRACT")
  <2>1. Len(stack) \in Held(x)
    BY <1>3, TopIsFrame DEF Held, IInv, TypeOK, Top
  <2>2. life[x] = "known"
    BY <1>3 DEF Ledger, NetKnown, InRetraction
  <2>3. \A i \in Queued(x) : ~queue[i].own
    BY <1>1, <2>1 DEF LedgerOf, OwnWaits
  <2>4. \A n \in Held(x) : ~stack[n].act.own
    BY <1>1, <1>3, <2>1 DEF LedgerOf, OwnRuns, Top
  <2>5. \A n \in Leaving(x) : ~stack[n].first
    BY <1>1, <1>3, <2>1 DEF LedgerOf, Leaves, Leaving, Top
  <2> QED BY <2>2, <2>3, <2>4, <2>5
<1> QED BY <1>2, <1>3 DEF Touchable, Discreet

(* What else a right-hand side does.                                       *)
LEMMA ActLedger ==
  ASSUME IInv, Ledger, NEW x \in Obj, NEW a \in Action, Pushed(a), a.obj = x, ~a.own,
         UNCHANGED life, life[x] \in {"made", "known"},
         \A i \in Queued(x) : ~queue[i].own,
         \A n \in Held(x) : ~stack[n].act.own,
         \A n \in Leaving(x) : ~stack[n].first,
         implied' \in {implied, implied \ {x}},
         a.tag = "RETRACT" => x \notin implied'
  PROVE  Ledger'
<1>1. /\ ~Idle /\ queue' = Append(queue, a) /\ UNCHANGED <<net, stack, deleted>>
  BY DEF Pushed, InRetraction, InRun
<1>2. ASSUME NEW y \in Obj, y # x
      PROVE  LedgerOf(y)'
  <2>1. SameAbout(y) /\ LedgerOf(y)
    BY <1>1, <1>2 DEF SameAbout, Ledger
  <2> QED BY <1>1, <1>2, <2>1, PushBystander
<1>3. LedgerOf(x)'
  BY <1>1, PushSubject DEF Ledger
<1>4. NetKnown' /\ NewsKnown'
  BY <1>1, PushNews DEF Ledger
<1> QED BY <1>2, <1>3, <1>4 DEF Ledger

(* The instructions that push actions (new_call, mod_call, mod_wp_call,    *)
(* del_call, objimp_call) keep the ledger.                                 *)
LEMMA RightHandSideLedger ==
  ASSUME Discreet, IInv, Ledger, RightHandSide
  PROVE  Ledger'
<1>1. PICK x \in Obj :
        \/ Create(x) \/ Imply(x) \/ Change(x) \/ Delete(x) \/ RetractImplied(x)
        \/ \E v \in Value : Modify(x, v) \/ ModifyImplied(x, v)
  BY DEF RightHandSide
<1>2. /\ LedgerOf(x) /\ life \in [Obj -> {"fresh", "made", "known", "gone"}]
      /\ value[x] \in Value
  BY DEF Ledger, IInv, TypeOK
<1>3. \A tag \in Tag : /\ Plain(tag, x, FALSE) \in Action
                       /\ Plain(tag, x, FALSE).tag = tag
                       /\ Plain(tag, x, FALSE).obj = x
                       /\ ~Plain(tag, x, FALSE).own
  BY DEF Plain, Action
<1>4. CASE Create(x) \/ Imply(x)
  BY <1>4, NewLedger DEF Create, Imply
<1>5. CASE Change(x)
  <2>1. Pushed(Plain("CHANGE", x, FALSE)) /\ Touchable(x) /\ ~Idle /\ UNCHANGED <<implied, life>>
    BY <1>5 DEF Change
  <2> QED BY <1>3, <2>1, TouchableIsLive, ActLedger DEF Tag
<1>6. CASE Delete(x)
  <2>1. /\ Pushed(Plain("RETRACT", x, FALSE)) /\ Touchable(x) /\ ~Idle
        /\ UNCHANGED <<implied, life>> /\ x \notin implied
    BY <1>6 DEF Delete, Discreet
  <2> QED BY <1>3, <2>1, TouchableIsLive, ActLedger DEF Tag
<1>7. CASE RetractImplied(x)
  <2>1. /\ Pushed(Plain("RETRACT", x, FALSE)) /\ implied' = implied \ {x}
        /\ UNCHANGED life /\ x \in implied
    BY <1>7 DEF RetractImplied
  <2>2. /\ life[x] \in {"made", "known"} /\ Leaving(x) = {}
        /\ \A i \in Queued(x) : ~queue[i].own
        /\ \A n \in Held(x) : ~stack[n].act.own
    BY <1>2, <2>1, InsideIsLive DEF Outside
  <2>3. x \notin implied'
    BY <2>1
  <2> QED BY <1>3, <2>1, <2>2, <2>3, ActLedger DEF Tag
<1>8. ASSUME NEW v \in Value, Modify(x, v) \/ ModifyImplied(x, v)
      PROVE  Ledger'
  <2> DEFINE a == Rewrite(x, value[x], v, FALSE)
  <2>1. a \in Action /\ a.tag = "MODIFY" /\ a.obj = x /\ ~a.own
    BY <1>2 DEF Rewrite, Action, Tag
  <2>2. Pushed(a) /\ UNCHANGED <<implied, life>>
    BY <1>8 DEF Modify, ModifyImplied, Write
  <2> HIDE DEF a
  <2>3. CASE Modify(x, v)
    BY <2>1, <2>2, <2>3, TouchableIsLive, ActLedger DEF Modify
  <2>4. CASE ModifyImplied(x, v)
    <3>1. /\ life[x] \in {"made", "known"} /\ Leaving(x) = {}
          /\ \A i \in Queued(x) : ~queue[i].own
          /\ \A n \in Held(x) : ~stack[n].act.own
      BY <1>2, <2>4, InsideIsLive DEF Outside, ModifyImplied
    <3> QED BY <2>1, <2>2, <3>1, ActLedger
  <2> QED BY <1>8, <2>3, <2>4
<1> QED BY <1>1, <1>4, <1>5, <1>6, <1>7, <1>8

(* engine_loop called inside inserts a new object of the application.      *)
LEMMA EngineLoopInsideLedger ==
  ASSUME Discreet, IInv, Home, Ledger, NEW x \in Obj, NEW v \in Value,
         NEW tag \in {"INSERT", "MODIFY", "RETRACT"}, EngineLoopInside(tag, x, v)
  PROVE  Ledger'
<1> DEFINE a == External(tag, x, v)
           k == Len(queue) + 1
<1>1. tag = "INSERT" /\ ~Idle
  BY DEF EngineLoopInside, Discreet, Home
<1>2. a \in Action /\ a.tag = "INSERT" /\ a.obj = x /\ a.own
  BY <1>1, ExternalIs
<1>3. queue' = Append(queue, a) /\ UNCHANGED <<net, stack, implied, deleted>>
  BY DEF EngineLoopInside
<1> HIDE DEF a
<1>4. /\ life[x] = "fresh" /\ life' = [life EXCEPT ![x] = "known"]
      /\ life \in [Obj -> {"fresh", "made", "known", "gone"}]
  BY <1>1 DEF EngineLoopInside, MayCall, LifeAfterCall, IInv, TypeOK
<1>5. \A y \in Obj : y # x => LedgerOf(y)'
  <2> SUFFICES ASSUME NEW y \in Obj, y # x PROVE LedgerOf(y)'
    OBVIOUS
  <2>1. SameAbout(y) /\ LedgerOf(y)
    BY <1>3, <1>4 DEF SameAbout, Ledger
  <2> QED BY <1>1, <1>2, <1>3, <2>1, PushBystander
<1>6. LedgerOf(x)'
  <2>1. /\ Outside(x) /\ x \notin deleted /\ Queued(x) = {} /\ Held(x) = {}
    BY <1>4 DEF Ledger, LedgerOf, FreshOnes
  <2>2. /\ queue'[k] = a /\ Queued(x)' = {k}
    BY <1>2, <1>3, <2>1, PushedQueue DEF IInv, TypeOK
  <2>3. Held(x)' = {} /\ Leaving(x)' = {}
    BY <1>1, <1>3, <2>1, PushedWhere DEF SameHeld, Leaving
  <2>4. life'[x] = "known" /\ Outside(x)' /\ x \notin deleted'
    BY <1>3, <1>4, <2>1 DEF Outside
  <2> QED BY <1>2, <2>2, <2>3, <2>4 DEF LedgerOf, FreshOnes, MadeOnes, GoneOnes, OwnWaits,
          OwnRuns, Marked, Leaves, RetractWaits
<1>7. NetKnown' /\ NewsKnown'
  <2>1. \A y \in Obj : life[y] \in {"made", "known"} => life'[y] = life[y]
    BY <1>4
  <2>2. life'[a.obj] \in {"made", "known"}
    BY <1>2, <1>4
  <2> QED BY <1>1, <1>2, <1>3, <2>1, <2>2, PushNews DEF Ledger
<1> QED BY <1>5, <1>6, <1>7 DEF Ledger

-----------------------------------------------------------------------------
(* The instance on top goes on.                                            *)
LEMMA TopHolds ==
  ASSUME stack \in Seq(Frame), ~Idle, NEW f \in Frame, stack' = SetTop(f),
         f.act = Top.act, f.first = Top.first
  PROVE  /\ ~Idle' /\ Top' = f
         /\ \A y : SameHeld(y)
<1>1. Len(stack) \in Nat \ {0} /\ Len(stack) \in 1..Len(stack)
  BY TopIsFrame
<1>2. /\ Len(stack') = Len(stack) /\ stack'[Len(stack)] = f
      /\ \A n \in 1..(Len(stack) - 1) : stack'[n] = stack[n]
  BY <1>1 DEF SetTop
<1>3. \A n \in 1..Len(stack) : /\ stack'[n].act = stack[n].act
                               /\ stack'[n].first = stack[n].first
  BY <1>1, <1>2 DEF Top
<1>4. ~Idle' /\ Top' = f
  BY <1>1, <1>2 DEF Idle, Top
<1> QED BY <1>2, <1>3, <1>4 DEF SameHeld, Held

(* The top instance goes on to another part of do_loop: the ledger asks of *)
(* it only that the actions it calls told are known.                       *)
LEMMA GoesOn ==
  ASSUME IInv, Ledger, ~Idle, NEW f \in Frame, stack' = SetTop(f),
         f.act = Top.act, f.first = Top.first, f.pc # "net",
         UNCHANGED <<net, queue, implied, deleted, life>>,
         \/ ToldTo' = ToldTo /\ f.pc # "descend" /\ Top.pc # "descend"
         \/ f.pc = "descend" /\ \A i \in 1..Len(queue) : ~(i > ToldTo)
         \/ Top.pc = "descend" /\ \A i \in 1..Len(queue) : ~(i > ToldTo')
  PROVE  Ledger'
<1>1. ~Idle' /\ Top' = f /\ \A y : SameHeld(y)
  BY TopHolds DEF IInv, TypeOK
<1>2. ASSUME NEW y \in Obj
      PROVE  LedgerOf(y)'
  <2>1. LedgerOf(y) /\ SameAbout(y) /\ SameQueued(y) /\ SameHeld(y)
    BY <1>1 DEF Ledger, SameAbout, SameQueued, Queued
  <2>2. MadeOnes(y)'
    <3> SUFFICES ASSUME life[y] = "made" PROVE MadeOnes(y)'
      BY DEF MadeOnes
    <3>1. PICK i \in Queued(y) : /\ i > ToldTo /\ queue[i].tag = "INSERT"
                                 /\ \A j \in Queued(y) : j >= i
      BY <2>1 DEF LedgerOf, MadeOnes
    <3>2. Top.pc # "descend" /\ i \in 1..Len(queue)
      BY <2>1 DEF LedgerOf, MadeOnes, Queued
    <3>3. ToldTo' = ToldTo /\ f.pc # "descend"
      BY <3>1, <3>2
    <3> QED BY <1>1, <2>1, <3>1, <3>3 DEF LedgerOf, MadeOnes, SameHeld, Queued
  <2> QED BY <2>1, <2>2, SameIsFewer, Bystander
<1>3. NetKnown' /\ NewsKnown'
  BY <1>1 DEF Ledger, NetKnown, NewsKnown
<1> QED BY <1>2, <1>3 DEF Ledger

(* The steps of do_loop that only move from one part to the next keep the  *)
(* ledger.                                                                 *)
LEMMA MoveLedger ==
  ASSUME IInv, Ledger, RunRule \/ StartTelling \/ AllTold \/ Repeat
  PROVE  Ledger'
<1>1. ~Idle /\ UNCHANGED <<net, queue, implied, deleted, life>>
  BY DEF RunRule, StartTelling, AllTold, Repeat, AtCs, InRun, Drained
<1>2. /\ Top \in Frame /\ Top.base \in Nat /\ queue \in Seq(Action)
      /\ stack \in Seq(Frame)
  BY <1>1, TopIsFrame DEF IInv, TypeOK
<1>3. ASSUME NEW f \in Frame, stack' = SetTop(f), f.act = Top.act, f.first = Top.first
      PROVE  ToldTo' = IF f.pc \in {"tell", "descend"} THEN f.told ELSE f.base
  BY <1>1, <1>2, <1>3, TopHolds DEF ToldTo
<1>4. CASE RunRule
  <2> DEFINE f == [Top EXCEPT !.pc = "rhs", !.ran = TRUE]
  <2>1. /\ f \in Frame /\ f.act = Top.act /\ f.first = Top.first /\ f.pc = "rhs"
        /\ f.base = Top.base
    BY <1>2 DEF Frame
  <2>2. stack' = SetTop(f) /\ ToldTo = Top.base /\ Top.pc # "descend"
    BY <1>4 DEF RunRule, AtCs, ToldTo
  <2> HIDE DEF f
  <2>3. ToldTo' = ToldTo
    BY <1>3, <2>1, <2>2
  <2> QED BY <1>1, <2>1, <2>2, <2>3, GoesOn
<1>5. CASE StartTelling
  <2> DEFINE f == [Top EXCEPT !.pc = "tell", !.told = Top.base, !.ran = InRun]
  <2>1. InRun \in BOOLEAN
    BY DEF InRun
  <2>2. /\ f \in Frame /\ f.act = Top.act /\ f.first = Top.first /\ f.pc = "tell"
        /\ f.told = Top.base
    BY <1>2, <2>1 DEF Frame
  <2>3. stack' = SetTop(f) /\ ToldTo = Top.base /\ Top.pc # "descend"
    BY <1>5 DEF StartTelling, AtCs, InRun, ToldTo
  <2> HIDE DEF f
  <2>4. ToldTo' = ToldTo
    BY <1>3, <2>2, <2>3
  <2> QED BY <1>1, <2>2, <2>3, <2>4, GoesOn
<1>6. CASE AllTold
  <2> DEFINE f == [Top EXCEPT !.pc = "descend"]
  <2>1. f \in Frame /\ f.act = Top.act /\ f.first = Top.first /\ f.pc = "descend"
    BY <1>2 DEF Frame
  <2>2. stack' = SetTop(f) /\ ToldTo = Len(queue)
    BY <1>6 DEF AllTold, ToldTo
  <2> HIDE DEF f
  <2>3. \A i \in 1..Len(queue) : ~(i > ToldTo)
    BY <1>2, <2>2
  <2> QED BY <1>1, <2>1, <2>2, <2>3, GoesOn
<1>7. CASE Repeat
  <2> DEFINE f == [Top EXCEPT !.pc = "cs"]
  <2>1. /\ f \in Frame /\ f.act = Top.act /\ f.first = Top.first /\ f.pc = "cs"
        /\ f.base = Top.base
    BY <1>2 DEF Frame
  <2>2. stack' = SetTop(f) /\ Top.base = Len(queue) /\ Top.pc = "descend"
    BY <1>7 DEF Repeat, Drained
  <2> HIDE DEF f
  <2>3. ToldTo' = Len(queue)
    BY <1>3, <2>1, <2>2
  <2>4. \A i \in 1..Len(queue) : ~(i > ToldTo')
    BY <1>2, <2>3
  <2> QED BY <1>1, <2>1, <2>2, <2>4, GoesOn
<1> QED BY <1>4, <1>5, <1>6, <1>7

(* One turn of the loop that tells: its action is the first on its object  *)
(* if a rule made that.                                                    *)
LEMMA ToldAbout ==
  ASSUME IInv, Ledger, Tell
  PROVE  LET k == Top.told + 1
             x == queue[k].obj
         IN /\ ~Idle /\ Top.pc = "tell" /\ Top.told \in Nat /\ ToldTo = Top.told
            /\ k \in 1..Len(queue) /\ x \in Obj
            /\ life[x] \in {"made", "known"}
            /\ life[x] = "made" => queue[k].tag = "INSERT"
<1> DEFINE k == Top.told + 1
           x == queue[k].obj
<1>1. ~Idle /\ Top.pc = "tell" /\ Top.told \in Nat /\ ToldTo = Top.told
  BY TopIsFrame DEF Tell, IInv, TypeOK, ToldTo
<1>2. k \in 1..Len(queue)
  BY <1>1 DEF Tell, IInv, TypeOK
<1>3. x \in Obj
  BY <1>2, ActionAt DEF IInv, TypeOK
<1>4. life[x] \in {"made", "known"}
  BY <1>1, <1>2 DEF Ledger, NewsKnown
<1>5. ASSUME life[x] = "made"
      PROVE  queue[k].tag = "INSERT"
  <2>1. PICK i \in Queued(x) : /\ i > ToldTo /\ queue[i].tag = "INSERT"
                               /\ \A j \in Queued(x) : j >= i
    BY <1>3, <1>5 DEF Ledger, LedgerOf, MadeOnes
  <2>2. k \in Queued(x) /\ i \in Nat
    BY <1>2 DEF Queued
  <2>3. k >= i
    BY <2>1, <2>2
  <2>4. i = k
    BY <1>1, <2>1, <2>2, <2>3
  <2> QED BY <2>1, <2>4
<1> QED BY <1>1, <1>2, <1>3, <1>4, <1>5

(* The notification of an action keeps it: an object that was made is      *)
(* known once its INSERT is told, and no other is waiting for that.        *)
LEMMA TellLedger ==
  ASSUME IInv, Ledger, Tell
  PROVE  Ledger'
<1> PICK k \in Nat : k = Top.told + 1
  BY ToldAbout
<1> PICK x \in Obj : x = queue[k].obj
  BY ToldAbout
<1> DEFINE f == [Top EXCEPT !.told = k]
<1>1. /\ ~Idle /\ Top.pc = "tell" /\ Top.told \in Nat /\ ToldTo = Top.told
      /\ k \in 1..Len(queue) /\ x \in Obj
      /\ life[x] \in {"made", "known"}
      /\ life[x] = "made" => queue[k].tag = "INSERT"
  BY ToldAbout
<1>2. /\ queue \in Seq(Action) /\ stack \in Seq(Frame) /\ Top \in Frame
      /\ life \in [Obj -> {"fresh", "made", "known", "gone"}]
      /\ UNCHANGED <<net, implied, deleted>>
  BY <1>1, TopIsFrame DEF IInv, TypeOK, Tell
<1>3. /\ f \in Frame /\ f.act = Top.act /\ f.first = Top.first /\ f.told = k
      /\ f.pc = "tell"
  BY <1>1, <1>2 DEF Frame
<1>4. stack' = SetTop(f)
  BY DEF Tell
<1> HIDE DEF f
<1>5. ~Idle' /\ Top' = f /\ \A y : SameHeld(y)
  BY <1>1, <1>2, <1>3, <1>4, TopHolds
<1>6. ToldTo' = k
  BY <1>3, <1>5 DEF ToldTo
<1>7. /\ Len(queue') = Len(queue)
      /\ \A i \in 1..Len(queue) : /\ queue'[i].tag = queue[i].tag
                                  /\ queue'[i].own = queue[i].own
                                  /\ queue'[i].obj = queue[i].obj
  <2>1. CASE queue[k].tag = "MODIFY"
    <3> DEFINE r == [queue[k] EXCEPT !.old = value[x]]
    <3>1. queue' = [queue EXCEPT ![k] = r]
      BY <2>1 DEF Tell, ObjSwap
    <3>2. r.tag = queue[k].tag /\ r.own = queue[k].own /\ r.obj = queue[k].obj
      BY <1>1, <1>2, ActionAt DEF Action
    <3> HIDE DEF r
    <3> QED BY <1>1, <1>2, <3>1, <3>2
  <2>2. CASE queue[k].tag # "MODIFY"
    <3>1. UNCHANGED queue
      BY <2>2 DEF Tell
    <3> QED BY <3>1
  <2> QED BY <2>1, <2>2
<1>8. \A y : SameQueued(y)
  BY <1>7 DEF SameQueued, Queued
<1>9. /\ \A y \in Obj : y # x => life'[y] = life[y]
      /\ life'[x] = IF queue[k].tag = "INSERT" THEN "known" ELSE life[x]
  BY <1>1, <1>2, ActionAt DEF Tell
<1>10. life'[x] = "known"
  BY <1>1, <1>9
<1>11. ASSUME NEW y \in Obj, y # x
       PROVE  LedgerOf(y)'
  <2>1. LedgerOf(y) /\ SameAbout(y) /\ SameQueued(y) /\ SameHeld(y)
    BY <1>2, <1>5, <1>8, <1>9, <1>11 DEF Ledger, SameAbout
  <2>2. MadeOnes(y)'
    <3> SUFFICES ASSUME life[y] = "made" PROVE MadeOnes(y)'
      BY <1>9, <1>11 DEF MadeOnes
    <3>1. PICK i \in Queued(y) : /\ i > ToldTo /\ queue[i].tag = "INSERT"
                                 /\ \A j \in Queued(y) : j >= i
      BY <2>1 DEF LedgerOf, MadeOnes
    <3>2. i \in Nat /\ i # k
      BY <1>11, <3>1 DEF Queued
    <3>3. i > ToldTo'
      BY <1>1, <1>6, <3>1, <3>2
    <3> QED BY <1>3, <1>5, <2>1, <3>1, <3>3 DEF LedgerOf, MadeOnes, SameHeld,
            SameQueued, SameAbout
  <2> QED BY <2>1, <2>2, SameIsFewer, Bystander
<1>12. LedgerOf(x)'
  <2>1. LedgerOf(x) /\ SameQueued(x) /\ SameHeld(x) /\ Outside(x)' = Outside(x)
    BY <1>1, <1>2, <1>5, <1>8 DEF Ledger, Outside
  <2>2. Leaving(x)' = Leaving(x) /\ Leaving(x) \subseteq Held(x)
    BY <2>1 DEF SameHeld, Leaving
  <2>3. FreshOnes(x)' /\ MadeOnes(x)' /\ GoneOnes(x)'
    BY <1>10 DEF FreshOnes, MadeOnes, GoneOnes
  <2>4. OwnWaits(x)' /\ RetractWaits(x)'
    BY <1>2, <1>10, <2>1 DEF LedgerOf, OwnWaits, RetractWaits, SameQueued, SameHeld
  <2>5. OwnRuns(x)'
    BY <1>2, <1>10, <2>1 DEF LedgerOf, OwnRuns, SameQueued, SameHeld
  <2>6. Marked(x)'
    BY <1>1, <1>2, <1>10, <2>1, <2>2 DEF LedgerOf, Marked
  <2>7. Leaves(x)'
    BY <1>2, <1>10, <2>1, <2>2 DEF LedgerOf, Leaves, SameQueued, SameHeld
  <2> QED BY <2>3, <2>4, <2>5, <2>6, <2>7 DEF LedgerOf
<1>13. NetKnown' /\ NewsKnown'
  <2>1. NetKnown'
    BY <1>3, <1>5 DEF NetKnown
  <2>2. ASSUME NEW i \in 1..Len(queue), i > k
        PROVE  life'[queue[i].obj] \in {"made", "known"}
    <3>1. queue[i].obj \in Obj /\ life[queue[i].obj] \in {"made", "known"}
      BY <1>1, <1>2, <2>2, ActionAt DEF Ledger, NewsKnown
    <3> QED BY <1>9, <1>10, <3>1
  <2> QED BY <1>6, <1>7, <2>1, <2>2 DEF NewsKnown
<1> QED BY <1>11, <1>12, <1>13 DEF Ledger

-----------------------------------------------------------------------------
(* The instance on top ends.                                               *)
LEMMA TopLeaves ==
  ASSUME IInv, Finish
  PROVE  /\ ~Idle /\ Len(stack) \in Nat \ {0} /\ Len(stack) \in 1..Len(stack)
         /\ Len(stack') = Len(stack) - 1
         /\ \A m \in 1..(Len(stack) - 1) : stack'[m] = stack[m]
         /\ Idle' <=> Len(stack) = 1
         /\ ~Idle' => Top'.pc = "descend"
         /\ Top.act.obj \in Obj
         /\ \A y : y # Top.act.obj => SameHeld(y)
         /\ \A x : x = Top.act.obj => /\ Held(x)' = Held(x) \ {Len(stack)}
                                      /\ Len(stack) \in Held(x)
<1>1. ~Idle /\ stack \in Seq(Frame)
  BY DEF Finish, Drained, IInv, TypeOK
<1>2. Len(stack) \in Nat \ {0} /\ Len(stack) \in 1..Len(stack) /\ Top.act.obj \in Obj
  BY <1>1, TopIsFrame
<1> PICK n \in Nat : n = Len(stack) - 1
  BY <1>2
<1>3. n \in 0..Len(stack) /\ stack' = SubSeq(stack, 1, n)
  BY <1>2 DEF Finish, Below
<1>4. /\ Len(stack') = n /\ stack' \in Seq(Frame)
      /\ \A m \in 1..n : stack'[m] = stack[m]
  BY <1>1, <1>3
<1>5. Idle' <=> n = 0
  BY <1>4, EmptySeq DEF Idle
<1>6. ASSUME ~Idle'
      PROVE  Top'.pc = "descend"
  <2>1. n \in 1..n /\ n \in 1..Len(stack) /\ n < Len(stack)
    BY <1>2, <1>5, <1>6
  <2>2. Top' = stack[n] /\ stack[n].pc = "descend"
    BY <1>4, <2>1 DEF Top, IInv, Framed
  <2> QED BY <2>2
<1>7. \A m \in 1..Len(stack) : m \in 1..n \/ m = Len(stack)
  BY <1>2
<1>8. \A m \in 1..n : m \in 1..Len(stack) /\ m # Len(stack)
  BY <1>2
<1>9. \A y : y # Top.act.obj => SameHeld(y)
  BY <1>4, <1>7, <1>8 DEF SameHeld, Held, Top
<1>10. ASSUME NEW x, x = Top.act.obj
       PROVE  Held(x)' = Held(x) \ {Len(stack)} /\ Len(stack) \in Held(x)
  BY <1>2, <1>4, <1>7, <1>8, <1>10 DEF Held, Top
<1> QED BY <1>1, <1>2, <1>4, <1>5, <1>6, <1>9, <1>10

(* The only link of a Single is that of the instance on top.               *)
LEMMA OnlyLink ==
  ASSUME IInv, ~Idle, NEW x \in Obj, x = Top.act.obj, ~Top.act.own, SharedLinks(x) = 1
  PROVE  /\ Outside(x)
         /\ \A i \in Queued(x) : queue[i].own
         /\ \A m \in Held(x) : m = Len(stack) \/ stack[m].act.own
<1> DEFINE Q == {i \in 1..Len(queue) : queue[i].obj = x /\ ~queue[i].own}
           S == {i \in 1..Len(stack) : stack[i].act.obj = x /\ ~stack[i].act.own}
           a == IF net[x] # Absent THEN 1 ELSE 0
           b == IF x \in implied THEN 1 ELSE 0
<1>1. queue \in Seq(Action) /\ stack \in Seq(Frame)
  BY DEF IInv, TypeOK
<1>2. IsFiniteSet(Q) /\ IsFiniteSet(S)
  <2>1. IsFiniteSet(1..Len(queue)) /\ IsFiniteSet(1..Len(stack))
    BY <1>1, FS_Interval
  <2>2. Q \subseteq 1..Len(queue) /\ S \subseteq 1..Len(stack)
    OBVIOUS
  <2> QED BY <2>1, <2>2, FS_Subset, Zenon
<1>3. Cardinality(Q) \in Nat /\ Cardinality(S) \in Nat
  BY <1>2, FS_CardinalityType
<1>4. Len(stack) \in S
  BY <1>1, TopIsFrame DEF Top
<1>5. Cardinality(S) # 0
  <2>1. S # {}
    BY <1>4
  <2> HIDE DEF S
  <2> QED BY <1>2, <2>1, FS_EmptySet
<1>6. Cardinality(Q) + Cardinality(S) + a + b = 1
  BY Zenon DEF SharedLinks
<1>7. Cardinality(Q) = 0 /\ Cardinality(S) = 1 /\ a = 0 /\ b = 0
  <2>1. a \in {0, 1} /\ b \in {0, 1}
    OBVIOUS
  <2> HIDE DEF Q, S, a, b
  <2> QED BY <1>3, <1>5, <1>6, <2>1
<1>8. Q = {}
  <2> HIDE DEF Q
  <2> QED BY <1>2, <1>7, FS_EmptySet
<1>9. \A m \in S : m = Len(stack)
  <2> HIDE DEF S
  <2>1. PICK m : S = {m}
    BY <1>2, <1>7, FS_Singleton
  <2> QED BY <1>4, <2>1
<1> QED BY <1>7, <1>8, <1>9 DEF Outside, Queued, Held

(* An object is live as long as an action on it works that its RETRACT has *)
(* not cut short.                                                          *)
LEMMA HeldIsKnown ==
  ASSUME NEW x \in Obj, LedgerOf(x), Held(x) # {}, x \notin deleted,
         life \in [Obj -> {"fresh", "made", "known", "gone"}]
  PROVE  life[x] = "known"
BY DEF LedgerOf, FreshOnes, MadeOnes, GoneOnes

(* Which objects an instance gives away.                                   *)
GivesAway == Top.act.tag = "RETRACT" \/ LastLink(Top.act)

(* At the end of do_loop an object is given away only when nothing but     *)
(* actions on a marked Single is left for it.                              *)
LEMMA GivenAway ==
  ASSUME IInv, Ledger, Finish, NEW x \in Obj, x = Top.act.obj
  PROVE  /\ ~GivesAway => UNCHANGED life /\ event' = NoEvent
         /\ GivesAway =>
              /\ life' = [life EXCEPT ![x] = "gone"]
              /\ \/ event' = NoEvent
                 \/ \E kind \in {"deleted", "unused"} : event' = Say(kind, x)
              /\ life[x] = "known" /\ Outside(x) /\ Leaving(x)' = {}
              /\ x \in deleted \/ (Queued(x)' = {} /\ Held(x)' = {})
<1> PICK n \in Nat : n = Len(stack)
  BY TopLeaves
<1>1. /\ ~Idle /\ n \in 1..n /\ n \in Held(x) /\ Held(x)' = Held(x) \ {n}
      /\ UNCHANGED queue /\ stack[n] = Top
  BY TopLeaves DEF Finish, Top
<1>2. LedgerOf(x) /\ life \in [Obj -> {"fresh", "made", "known", "gone"}]
  BY DEF Ledger, IInv, TypeOK
<1>3. /\ ~GivesAway => UNCHANGED life /\ event' = NoEvent
      /\ GivesAway =>
           /\ life' = [life EXCEPT ![x] = "gone"]
           /\ \/ event' = NoEvent
              \/ \E kind \in {"deleted", "unused"} : event' = Say(kind, x)
  BY DEF Finish, GivesAway
<1>4. Queued(x)' = Queued(x)
  BY <1>1 DEF Queued
<1>5. \A m \in Held(x)' : m \in 1..(n - 1) /\ stack'[m] = stack[m]
  <2>1. \A m \in Held(x)' : m \in 1..Len(stack')
    BY DEF Held
  <2> QED BY <2>1, TopLeaves
<1>6. Leaving(x)' = Leaving(x) \ {n}
  <2>1. \A m \in Leaving(x) : m \in Held(x)
    BY DEF Leaving
  <2>2. \A m \in Held(x)' : m \in Leaving(x)' <=> m \in Leaving(x)
    BY <1>1, <1>5 DEF Leaving
  <2>3. \A m \in Leaving(x)' : m \in Held(x)'
    BY DEF Leaving
  <2> QED BY <1>1, <2>1, <2>2, <2>3
<1>7. CASE Top.act.tag = "RETRACT"
  <2>1. n \in Leaving(x)
    BY <1>1, <1>7 DEF Leaving
  <2>2. /\ life[x] = "known" /\ Outside(x) /\ Leaving(x) = {n}
        /\ x \in deleted \/ (Queued(x) = {} /\ Held(x) = {n})
    BY <1>2, <2>1 DEF LedgerOf, Leaves
  <2> QED BY <1>1, <1>3, <1>4, <1>6, <2>2
<1>8. CASE Top.act.tag # "RETRACT" /\ LastLink(Top.act)
  <2>1. CASE Top.act.own
    <3>1. life[x] = "known" /\ Outside(x) /\ Queued(x) = {} /\ Held(x) = {n}
      BY <1>1, <1>2, <2>1 DEF LedgerOf, OwnRuns
    <3>2. Held(x)' = {}
      BY <1>1, <3>1
    <3> QED BY <1>3, <1>4, <1>8, <3>1, <3>2 DEF Leaving
  <2>2. CASE ~Top.act.own
    <3>1. SharedLinks(x) = 1 /\ x \notin deleted
      BY <1>8, <2>2 DEF LastLink
    <3>2. /\ Outside(x) /\ \A i \in Queued(x) : queue[i].own
          /\ \A m \in Held(x) : m = n \/ stack[m].act.own
      BY <1>1, <2>2, <3>1, OnlyLink
    <3>3. life[x] = "known"
      BY <1>1, <1>2, <3>1, HeldIsKnown
    <3>4. Queued(x) = {}
      BY <1>1, <1>2, <3>2 DEF LedgerOf, OwnWaits
    <3>5. Held(x) = {n}
      <4>1. \A m \in Held(x) : stack[m].act.own => Held(x) = {m}
        BY <1>2 DEF LedgerOf, OwnRuns
      <4>2. \A m \in Held(x) : ~stack[m].act.own
        BY <1>1, <2>2, <4>1
      <4> QED BY <1>1, <3>2, <4>2
    <3>6. Held(x)' = {}
      BY <1>1, <3>5
    <3> QED BY <1>3, <1>4, <1>8, <3>2, <3>3, <3>4, <3>6 DEF Leaving
  <2> QED BY <2>1, <2>2
<1> QED BY <1>3, <1>7, <1>8 DEF GivesAway

(* The end of do_loop keeps the ledger.                                    *)
LEMMA FinishLedger ==
  ASSUME IInv, Ledger, Finish
  PROVE  Ledger'
<1> PICK x \in Obj : x = Top.act.obj
  BY TopLeaves
<1> PICK n \in Nat : n = Len(stack)
  BY TopLeaves
<1>1. /\ ~Idle /\ Top.pc = "descend" /\ n \in 1..n /\ n \in Held(x)
      /\ Held(x)' = Held(x) \ {n} /\ stack[n] = Top
      /\ UNCHANGED <<queue, net, implied, deleted>>
      /\ \A y : y # x => SameHeld(y)
      /\ life \in [Obj -> {"fresh", "made", "known", "gone"}]
      /\ ~Idle' => Top'.pc = "descend"
  BY TopLeaves DEF Finish, Drained, Top, IInv, TypeOK
<1>2. /\ ~GivesAway => UNCHANGED life
      /\ GivesAway =>
           /\ life' = [life EXCEPT ![x] = "gone"]
           /\ life[x] = "known" /\ Outside(x) /\ Leaving(x)' = {}
           /\ x \in deleted \/ (Queued(x)' = {} /\ Held(x)' = {})
  BY GivenAway
<1>3. \A y : SameQueued(y)
  BY <1>1 DEF SameQueued, Queued
<1>4. ASSUME NEW y \in Obj
      PROVE  LedgerOf(y) /\ life[y] # "made"
  BY <1>1 DEF Ledger, LedgerOf, MadeOnes
<1>5. ASSUME NEW y \in Obj, y # x
      PROVE  LedgerOf(y)'
  <2>1. SameAbout(y) /\ SameHeld(y) /\ SameQueued(y)
    BY <1>1, <1>2, <1>3, <1>5 DEF SameAbout
  <2>2. MadeOnes(y)'
    BY <1>4, <2>1 DEF MadeOnes, SameAbout
  <2> QED BY <1>4, <2>1, <2>2, SameIsFewer, Bystander
<1>6. LedgerOf(x)'
  <2>1. LedgerOf(x) /\ SameQueued(x) /\ Outside(x)' = Outside(x)
    BY <1>1, <1>3, <1>4 DEF Outside
  <2>2. \A m \in Held(x)' : m \in Held(x) /\ stack'[m] = stack[m] /\ m # n
    <3>1. \A m \in Held(x)' : m \in Held(x) /\ m # n /\ m \in 1..Len(stack')
      BY <1>1 DEF Held
    <3> QED BY <1>1, <3>1, TopLeaves
  <2>3. \A m \in Leaving(x)' : m \in Leaving(x) /\ m \in Held(x)'
    BY <2>2 DEF Leaving
  <2>4. CASE ~GivesAway
    <3>1. n \notin Leaving(x)
      BY <1>1, <2>4 DEF Leaving, GivesAway
    <3>2. Leaving(x)' = Leaving(x)
      <4>1. \A m \in Leaving(x) : m \in Held(x)' /\ m \in Leaving(x)'
        <5>1. \A m \in Leaving(x) : m \in Held(x) /\ m # n
          BY <3>1 DEF Leaving
        <5>2. \A m \in Leaving(x) : m \in Held(x)'
          BY <1>1, <5>1
        <5> QED BY <2>2, <5>2 DEF Leaving
      <4> QED BY <2>3, <4>1
    <3>3. FreshOnes(x)' /\ MadeOnes(x)' /\ GoneOnes(x)'
      BY <1>1, <1>2, <1>4, <2>1, <2>4, <3>2 DEF LedgerOf, FreshOnes, MadeOnes, GoneOnes, SameQueued
    <3>4. OwnWaits(x)' /\ RetractWaits(x)'
      BY <1>1, <1>2, <2>1, <2>4 DEF LedgerOf, OwnWaits, RetractWaits, SameQueued
    <3>5. OwnRuns(x)'
      <4>1. \A m \in Held(x)' : stack[m].act.own => Held(x) = {m}
        BY <2>1, <2>2 DEF LedgerOf, OwnRuns
      <4>2. \A m \in Held(x)' : ~stack'[m].act.own
        BY <1>1, <2>2, <4>1
      <4> QED BY <4>2 DEF OwnRuns
    <3>6. Marked(x)'
      BY <1>1, <1>2, <2>1, <2>4, <3>2 DEF LedgerOf, Marked
    <3>7. Leaves(x)'
      BY <1>1, <1>2, <2>1, <2>2, <2>3, <2>4, <3>2 DEF LedgerOf, Leaves, SameQueued
    <3> QED BY <3>3, <3>4, <3>5, <3>6, <3>7 DEF LedgerOf
  <2>5. CASE GivesAway
    <3>1. /\ life'[x] = "gone" /\ life[x] = "known" /\ Outside(x)' /\ Leaving(x)' = {}
          /\ x \in deleted' \/ (Queued(x)' = {} /\ Held(x)' = {})
      BY <1>1, <1>2, <2>1, <2>5
    <3>2. FreshOnes(x)' /\ MadeOnes(x)' /\ GoneOnes(x)' /\ Marked(x)' /\ Leaves(x)'
      BY <3>1 DEF FreshOnes, MadeOnes, GoneOnes, Marked, Leaves
    <3>3. OwnWaits(x)'
      BY <1>1, <2>1 DEF LedgerOf, OwnWaits, SameQueued
    <3>4. OwnRuns(x)'
      <4>1. \A m \in Held(x) : stack[m].act.own => Held(x) = {m}
        BY <2>1 DEF LedgerOf, OwnRuns
      <4>2. \A m \in Held(x)' : ~stack'[m].act.own
        BY <1>1, <2>2, <4>1
      <4> QED BY <4>2 DEF OwnRuns
    <3>5. RetractWaits(x)'
      BY <1>1, <2>1 DEF LedgerOf, RetractWaits, SameQueued
    <3> QED BY <3>2, <3>3, <3>4, <3>5 DEF LedgerOf
  <2> QED BY <2>4, <2>5
<1>7. NetKnown' /\ NewsKnown'
  BY <1>1 DEF NetKnown, NewsKnown
<1> QED BY <1>5, <1>6, <1>7 DEF Ledger

-----------------------------------------------------------------------------
(* What is left of the list is a part of it.                               *)
LEMMA CutQueued ==
  ASSUME NEW q \in Seq(Action), queue = q, NEW base \in 0..Len(q), NEW d \in 0..Len(q),
         Cut(q, base, d)
  PROVE  /\ \A y : FewerQueued(y)
         /\ d > 0 => \A y : \A i \in Queued(y)' :
                       \E j \in Queued(y) : j # base + d /\ queue'[i] = q[j]
<1> DEFINE From(i) == IF i <= base THEN i ELSE i + d
<1>1. \A i \in 1..Len(queue') : From(i) \in 1..Len(q) /\ queue'[i] = q[From(i)]
  BY DEF Cut
<1>2. \A i, j \in 1..Len(queue') : From(i) = From(j) => i = j
  OBVIOUS
<1>3. d > 0 => \A i \in 1..Len(queue') : From(i) # base + d
  OBVIOUS
<1> HIDE DEF From
<1>4. \A y : \A i \in Queued(y)' : From(i) \in Queued(y) /\ i \in 1..Len(queue')
  BY <1>1 DEF Queued
<1>5. \A y : FewerQueued(y)
  <2> SUFFICES ASSUME NEW y, NEW i \in Queued(y)', NEW j \in Queued(y)'
               PROVE  \E k, l \in Queued(y) :
                        /\ queue'[i].tag = queue[k].tag /\ queue'[i].own = queue[k].own
                        /\ queue'[j].tag = queue[l].tag /\ queue'[j].own = queue[l].own
                        /\ k = l => i = j
    BY DEF FewerQueued
  <2> QED BY <1>1, <1>2, <1>4
<1> QED BY <1>1, <1>3, <1>4, <1>5

(* What the propagation of action a on x does to the ledger, when its      *)
(* instance begins above those of below.                                   *)
Enrolled(a, x, first, base, below) ==
  /\ ~HasBeenDeleted(a)
  /\ \A y \in Obj : y # x => net'[y] = net[y]
  /\ Len(stack') = Len(below) + 1
  /\ \A n \in 1..Len(below) : stack'[n] = below[n]
  /\ a.tag = "RETRACT" => net'[x] = Absent
  /\ LET f == stack'[Len(below) + 1]
     IN /\ f.act.obj = x /\ f.act.tag = a.tag
        /\ f.first = first /\ f.base = base /\ f.pc = "net"
        /\ f.act.own => a.own /\ net'[x] = Absent
        /\ deleted' = IF ~first /\ a.tag = "RETRACT" /\ ~f.act.own
                      THEN deleted \union {x} ELSE deleted

(* The propagation of the action taken from the list, so described.        *)
LEMMA TakenEnrols ==
  ASSUME IInv, NEW q \in Seq(Action), NEW k \in 1..Len(q), NEW val \in [Obj -> Value],
         NEW first \in BOOLEAN, NEW base \in Nat, NEW below \in Seq(Frame),
         Taken(q, k, val, first, base, below), NEW x \in Obj, x = q[k].obj
  PROVE  Enrolled(q[k], x, first, base, below)
<1> DEFINE a == q[k]
           v == OtherState(a, val[a.obj])
           s == Swapped(a, val[a.obj])
<1>1. a \in Action /\ a.obj = x /\ val[x] \in Value
  BY ActionAt
<1>2. s \in Action /\ s.obj = x /\ s.tag = a.tag /\ s.own = a.own
  BY <1>1 DEF Swapped, Action, OtherState
<1>3. ~HasBeenDeleted(a) /\ Propagate(s, v, base, first, below)
  BY DEF Taken
<1> HIDE DEF a, v, s
<1>4. PICK entry \in Kept(s, v) :
        /\ net' = [net EXCEPT ![s.obj] = entry]
        /\ stack' = Append(below, [act |-> Unified(s, entry), first |-> first,
                                   base |-> base, ran |-> FALSE,
                                   told |-> base, pc |-> "net"])
        /\ deleted' = IF ~first /\ s.tag = "RETRACT" /\ ~Unified(s, entry).own
                      THEN deleted \union {s.obj} ELSE deleted
  BY <1>3 DEF Propagate
<1> DEFINE u == Unified(s, entry)
<1>5. /\ u \in Action /\ u.obj = x /\ u.tag = a.tag
      /\ u.own => a.own /\ entry = Absent
  BY <1>2 DEF Unified, Action
<1> HIDE DEF u
<1> DEFINE f == [act |-> u, first |-> first, base |-> base, ran |-> FALSE,
                 told |-> base, pc |-> "net"]
<1>6. /\ f \in Frame /\ f.act = u /\ f.first = first /\ f.base = base /\ f.pc = "net"
  BY <1>5 DEF Frame
<1>7. stack' = Append(below, f)
  BY <1>4 DEF u
<1> HIDE DEF f
<1>8. /\ Len(stack') = Len(below) + 1 /\ stack'[Len(below) + 1] = f
      /\ \A n \in 1..Len(below) : stack'[n] = below[n]
  BY <1>6, <1>7
<1>9. a.tag = "RETRACT" => entry = Absent
  BY <1>2, <1>4 DEF Kept
<1>10. deleted' = IF ~first /\ a.tag = "RETRACT" /\ ~u.own
                  THEN deleted \union {x} ELSE deleted
  BY <1>2, <1>4 DEF u
<1>11. (\A y \in Obj : y # x => net'[y] = net[y]) /\ net'[x] = entry
  BY <1>2, <1>4 DEF IInv, TypeOK
<1>12. Enrolled(a, x, first, base, below)
  BY <1>3, <1>5, <1>6, <1>8, <1>9, <1>10, <1>11 DEF Enrolled
<1> QED BY <1>12 DEF a

(* The action a nested instance takes is about a known object, and either  *)
(* the only one on it or one on the Single of the net.                     *)
LEMMA TakenIsKnown ==
  ASSUME NEW x \in Obj, LedgerOf(x), NEW k \in Queued(x), ~HasBeenDeleted(queue[k]),
         queue[k].obj = x, Top.pc = "descend",
         life \in [Obj -> {"fresh", "made", "known", "gone"}]
  PROVE  /\ life[x] = "known" /\ x \notin deleted /\ Leaving(x) = {}
         /\ \A n \in Held(x) : ~stack[n].act.own
         /\ \A i \in Queued(x) : i # k => ~queue[i].own
         /\ queue[k].own => /\ Outside(x) /\ Queued(x) = {k} /\ Held(x) = {}
                            /\ queue[k].tag = "INSERT"
<1>1. queue[k].own => /\ Outside(x) /\ Queued(x) = {k} /\ Held(x) = {}
                      /\ queue[k].tag = "INSERT" /\ x \notin deleted
  BY DEF LedgerOf, OwnWaits
<1>2. x \notin deleted
  BY <1>1 DEF HasBeenDeleted
<1>3. life[x] = "known"
  BY <1>2 DEF LedgerOf, FreshOnes, MadeOnes, GoneOnes
<1>4. Leaving(x) = {}
  BY <1>2 DEF LedgerOf, Leaves
<1>5. \A n \in Held(x) : ~stack[n].act.own
  BY DEF LedgerOf, OwnRuns
<1>6. \A i \in Queued(x) : i # k => ~queue[i].own
  BY DEF LedgerOf, OwnWaits
<1> QED BY <1>1, <1>2, <1>3, <1>4, <1>5, <1>6

(* do_loop on the next action keeps the ledger, whether the action is      *)
(* dropped for its marked Single or propagated.                            *)
LEMMA DescendLedger ==
  ASSUME IInv, IInv', Ledger, Descend
  PROVE  Ledger'
<1>1. /\ ~Idle /\ Top.pc = "descend" /\ UNCHANGED <<implied, life>>
      /\ queue \in Seq(Action) /\ stack \in Seq(Frame) /\ HasOld
      /\ value \in [Obj -> Value] /\ net \in [Obj -> Value \union {Absent}]
      /\ life \in [Obj -> {"fresh", "made", "known", "gone"}] /\ deleted \subseteq Obj
      /\ Len(queue') \in Nat
  BY DEF Descend, IInv, TypeOK
<1> PICK base \in 0..Len(queue) : base = Top.base
  BY DescendBegins
<1>2. PICK d \in 0..Len(queue) :
         /\ Cut(queue, base, d)
         /\ \/ UNCHANGED <<value, stack, net, deleted>>
            \/ /\ d > 0
               /\ Taken(queue, base + d, value, FALSE, Len(queue'), stack)
  BY DescendBegins
<1>3. /\ \A y : FewerQueued(y)
      /\ d > 0 => \A y : \A i \in Queued(y)' :
                    \E j \in Queued(y) : j # base + d /\ queue'[i] = queue[j]
  BY <1>1, <1>2, CutQueued
<1>4. ASSUME NEW y \in Obj
      PROVE  LedgerOf(y) /\ life[y] # "made"
  BY <1>1 DEF Ledger, LedgerOf, MadeOnes
<1>5. ASSUME NEW y \in Obj, SameHeld(y), net'[y] = net[y], y \in deleted' <=> y \in deleted
      PROVE  LedgerOf(y)'
  <2>1. SameAbout(y) /\ MadeOnes(y)'
    BY <1>1, <1>4, <1>5 DEF SameAbout, MadeOnes
  <2> QED BY <1>3, <1>4, <1>5, <2>1, Bystander
<1>6. CASE UNCHANGED <<value, stack, net, deleted>>
  <2>1. \A y : SameHeld(y)
    BY <1>6 DEF SameHeld, Held
  <2>2. \A y \in Obj : LedgerOf(y)'
    BY <1>5, <1>6, <2>1
  <2>3. NetKnown' /\ NewsKnown'
    BY <1>1, <1>6 DEF NetKnown, NewsKnown, Top, Idle
  <2> QED BY <2>2, <2>3 DEF Ledger
<1>7. CASE d > 0 /\ Taken(queue, base + d, value, FALSE, Len(queue'), stack)
  <2> PICK k \in Nat : k = base + d
    OBVIOUS
  <2>1. k \in 1..Len(queue) /\ Taken(queue, k, value, FALSE, Len(queue'), stack)
    <3>1. k \in 1..Len(queue)
      BY <1>2, <1>7 DEF Cut
    <3> QED BY <1>7, <3>1
  <2> PICK x \in Obj : x = queue[k].obj
    BY <1>1, <2>1, ActionAt
  <2> PICK n \in Nat : n = Len(stack) + 1
    BY <1>1
  <2>2. /\ ~HasBeenDeleted(queue[k])
        /\ \A y \in Obj : y # x => net'[y] = net[y]
        /\ Len(stack') = n
        /\ \A m \in 1..Len(stack) : stack'[m] = stack[m]
        /\ stack'[n].act.obj = x /\ stack'[n].act.tag = queue[k].tag
        /\ ~stack'[n].first /\ stack'[n].base = Len(queue') /\ stack'[n].pc = "net"
        /\ stack'[n].act.own => queue[k].own /\ net'[x] = Absent
        /\ deleted' = IF queue[k].tag = "RETRACT" /\ ~stack'[n].act.own
                      THEN deleted \union {x} ELSE deleted
        /\ queue[k].tag = "RETRACT" => net'[x] = Absent
    <3>1. Enrolled(queue[k], x, FALSE, Len(queue'), stack)
      <4>1. FALSE \in BOOLEAN
        OBVIOUS
      <4> QED BY <1>1, <2>1, <4>1, TakenEnrols, Zenon
    <3> QED BY <3>1 DEF Enrolled
  <2>3. k \in Queued(x) /\ LedgerOf(x)
    BY <1>4, <2>1 DEF Queued
  <2>4. /\ life[x] = "known" /\ x \notin deleted /\ Leaving(x) = {}
        /\ \A m \in Held(x) : ~stack[m].act.own
        /\ \A i \in Queued(x) : i # k => ~queue[i].own
        /\ queue[k].own => /\ Outside(x) /\ Queued(x) = {k} /\ Held(x) = {}
                           /\ queue[k].tag = "INSERT"
    <3>1. /\ ~HasBeenDeleted(queue[k]) /\ queue[k].obj = x /\ Top.pc = "descend"
          /\ life \in [Obj -> {"fresh", "made", "known", "gone"}]
      BY <1>1, <2>2
    <3> QED BY <2>3, <3>1, TakenIsKnown
  <2>5. \A m \in 1..n : m \in 1..Len(stack) \/ m = n
    OBVIOUS
  <2>6. \A m \in 1..Len(stack) : m \in 1..n /\ m # n
    OBVIOUS
  <2>7. ASSUME NEW y \in Obj, y # x
        PROVE  LedgerOf(y)'
    <3>1. SameHeld(y)
      BY <2>2, <2>5, <2>6, <2>7 DEF SameHeld, Held
    <3>2. net'[y] = net[y]
      BY <2>2, <2>7
    <3>3. y \in deleted' <=> y \in deleted
      BY <2>2, <2>7
    <3> QED BY <1>5, <2>7, <3>1, <3>2, <3>3, Zenon
  <2>8. /\ Held(x)' = Held(x) \union {n} /\ n \notin Held(x)
        /\ \A m \in Held(x) : stack'[m] = stack[m]
    <3>1. n \in 1..n
      BY <1>1
    <3> QED BY <2>2, <2>5, <2>6, <3>1 DEF Held
  <2>9. Leaving(x)' = IF queue[k].tag = "RETRACT" THEN {n} ELSE {}
    BY <2>2, <2>4, <2>8 DEF Leaving
  <2>10. \A i \in Queued(x)' : \E j \in Queued(x) : j # k /\ queue'[i] = queue[j]
    BY <1>3, <1>7
  <2>11. life'[x] = "known"
    BY <1>1, <2>4
  <2>12. FreshOnes(x)' /\ MadeOnes(x)' /\ GoneOnes(x)'
    BY <2>11 DEF FreshOnes, MadeOnes, GoneOnes
  <2>13. OwnWaits(x)'
    BY <2>4, <2>10 DEF OwnWaits
  <2>14. OwnRuns(x)'
    <3> SUFFICES ASSUME NEW m \in Held(x)', stack'[m].act.own
                 PROVE  /\ Outside(x)' /\ x \notin deleted'
                        /\ Queued(x)' = {} /\ Held(x)' = {m}
      BY <2>11 DEF OwnRuns
    <3>1. m = n
      BY <2>4, <2>8
    <3>2. /\ net'[x] = Absent /\ x \notin implied /\ Queued(x) = {k} /\ Held(x) = {}
          /\ x \notin deleted'
      BY <2>2, <2>4, <3>1 DEF Outside
    <3> QED BY <1>1, <2>8, <2>10, <3>1, <3>2 DEF Outside
  <2>15. queue[k].tag = "RETRACT" => Outside(x)' /\ x \in deleted'
    <3>1. queue[k].tag = "RETRACT" => x \notin implied /\ ~queue[k].own
      BY <2>3, <2>4 DEF LedgerOf, RetractWaits
    <3> QED BY <1>1, <2>2, <3>1 DEF Outside
  <2>16. Marked(x)' /\ Leaves(x)'
    BY <2>2, <2>4, <2>9, <2>11, <2>15 DEF Marked, Leaves
  <2>17. RetractWaits(x)'
    BY <1>1, <2>3, <2>10 DEF LedgerOf, RetractWaits
  <2>18. ~Idle' /\ Top' = stack'[n]
    BY <1>1, <2>2 DEF Idle, Top
  <2>19. NetKnown' /\ NewsKnown'
    <3>1. ToldTo' = Len(queue')
      BY <2>2, <2>18 DEF ToldTo
    <3>2. \A i \in 1..Len(queue') : ~(i > ToldTo')
      BY <1>1, <3>1
    <3> QED BY <2>2, <2>11, <2>18, <3>2 DEF NetKnown, NewsKnown
  <2> QED BY <2>7, <2>12, <2>13, <2>14, <2>16, <2>17, <2>19 DEF Ledger, LedgerOf
<1> QED BY <1>2, <1>6, <1>7

(* engine_loop begins with nothing else under way.                         *)
LEMMA EngineLoopLedger ==
  ASSUME Discreet, IInv, Home, Ledger, NEW x \in Obj, NEW v \in Value,
         NEW tag \in {"INSERT", "MODIFY", "RETRACT"}, EngineLoop(tag, x, v)
  PROVE  Ledger'
<1> DEFINE a == External(tag, x, v)
           q == <<a>>
<1>1. /\ stack = <<>> /\ queue = <<>> /\ queue' = <<>> /\ UNCHANGED implied
      /\ life' = LifeAfterCall(tag, x) /\ x \notin implied
      /\ IF tag = "INSERT" THEN life[x] = "fresh" ELSE life[x] = "known"
      /\ life \in [Obj -> {"fresh", "made", "known", "gone"}]
  BY FirstBegins DEF EngineLoop, MayCall, Idle, Home, Discreet, IInv, TypeOK
<1>2. Taken(q, 1, value, TRUE, 0, <<>>)
  BY FirstBegins
<1>3. a \in Action /\ a.tag = tag /\ a.obj = x
  BY ExternalIs
<1> HIDE DEF a
<1>4. q \in Seq(Action) /\ 1 \in 1..Len(q) /\ q[1] = a /\ <<>> \in Seq(Frame) /\ 0 \in Nat
  BY <1>3
<1> HIDE DEF q
<1>5. Enrolled(a, x, TRUE, 0, <<>>)
  <2>1. TRUE \in BOOLEAN /\ value \in [Obj -> Value]
    BY DEF IInv, TypeOK
  <2>2. Enrolled(q[1], x, TRUE, 0, <<>>)
    BY <1>2, <1>3, <1>4, <2>1, TakenEnrols, Zenon
  <2> QED BY <1>4, <2>2
<1>6. /\ \A y \in Obj : y # x => net'[y] = net[y]
      /\ Len(stack') = 1
      /\ stack'[1].act.obj = x /\ stack'[1].act.tag = tag
      /\ stack'[1].first /\ stack'[1].base = 0 /\ stack'[1].pc = "net"
      /\ stack'[1].act.own => net'[x] = Absent
      /\ deleted' = deleted
      /\ tag = "RETRACT" => net'[x] = Absent
  BY <1>3, <1>5, EmptySeq DEF Enrolled
<1>7. \A y : Held(y) = {} /\ Queued(y) = {} /\ Queued(y)' = {}
  BY <1>1, EmptySeq DEF Held, Queued
<1>8. Held(x)' = {1} /\ \A y : y # x => Held(y)' = {}
  BY <1>6 DEF Held
<1>9. /\ life'[x] = "known"
      /\ \A y \in Obj : y # x => life'[y] = life[y]
  BY <1>1 DEF LifeAfterCall
<1>10. ASSUME NEW y \in Obj, y # x
       PROVE  LedgerOf(y)'
  <2>1. SameAbout(y) /\ SameHeld(y) /\ FewerQueued(y)
    BY <1>1, <1>6, <1>7, <1>8, <1>9, <1>10 DEF SameAbout, SameHeld, FewerQueued
  <2>2. LedgerOf(y) /\ MadeOnes(y)'
    BY <1>7, <1>9, <1>10 DEF Ledger, LedgerOf, MadeOnes
  <2> QED BY <2>1, <2>2, Bystander
<1>11. LedgerOf(x)'
  <2>1. x \notin deleted
    BY <1>1, <1>7 DEF Ledger, LedgerOf, FreshOnes, Marked, Leaving
  <2>2. Leaving(x)' = IF tag = "RETRACT" THEN {1} ELSE {}
    BY <1>6, <1>8 DEF Leaving
  <2>3. net'[x] = Absent => Outside(x)'
    BY <1>1 DEF Outside
  <2>4. FreshOnes(x)' /\ MadeOnes(x)' /\ GoneOnes(x)' /\ Marked(x)'
    BY <1>6, <1>9, <2>1 DEF FreshOnes, MadeOnes, GoneOnes, Marked
  <2>5. OwnWaits(x)' /\ RetractWaits(x)'
    BY <1>7 DEF OwnWaits, RetractWaits
  <2>6. OwnRuns(x)'
    BY <1>6, <1>7, <1>8, <1>9, <2>1, <2>3 DEF OwnRuns
  <2>7. Leaves(x)'
    BY <1>6, <1>7, <1>8, <1>9, <2>1, <2>2, <2>3 DEF Leaves
  <2> QED BY <2>4, <2>5, <2>6, <2>7 DEF LedgerOf
<1>12. NetKnown' /\ NewsKnown'
  <2>1. Top' = stack'[1]
    BY <1>6 DEF Top
  <2>2. Len(queue') = 0
    BY <1>1
  <2> QED BY <1>6, <1>9, <2>1, <2>2 DEF NetKnown, NewsKnown
<1> QED BY <1>10, <1>11, <1>12 DEF Ledger

-----------------------------------------------------------------------------
(* Every step keeps the ledger.                                            *)
LEMMA LedgerOK ==
  ASSUME Discreet, IInv, IInv', Home, Ledger, [Next]_vars
  PROVE  Ledger'
<1>1. CASE Application
  BY <1>1, EngineLoopLedger, EngineLoopInsideLedger DEF Application
<1>2. CASE RightHandSide
  BY <1>2, RightHandSideLedger
<1>3. CASE DoLoop
  BY <1>3, MoveLedger, TellLedger, DescendLedger, FinishLedger DEF DoLoop
<1>4. CASE UNCHANGED vars
  BY <1>4 DEF vars, Ledger, LedgerOf, FreshOnes, MadeOnes, GoneOnes, OwnWaits, OwnRuns,
     Marked, Leaves, RetractWaits, NetKnown, NewsKnown, Outside, Queued, Held, Leaving,
     ToldTo, Top, Idle
<1> QED BY <1>1, <1>2, <1>3, <1>4 DEF Next

(* The ledger is an invariant of the engine used as Discreet says.         *)
THEOREM LedgerHolds ==
  ASSUME Discreet
  PROVE  Spec => [](Home /\ Ledger)
<1>1. Init => Home /\ Ledger
  <2> SUFFICES ASSUME Init PROVE Home /\ Ledger
    OBVIOUS
  <2>1. Len(queue) = 0 /\ Len(stack) = 0 /\ Idle
    BY EmptySeq DEF Init, Idle
  <2>2. Home
    BY <2>1 DEF Init, Home
  <2>3. \A x \in Obj : /\ Queued(x) = {} /\ Held(x) = {} /\ life[x] = "fresh"
                       /\ Outside(x) /\ x \notin deleted
    BY <2>1 DEF Init, Queued, Held, Outside
  <2>4. \A x \in Obj : LedgerOf(x)
    BY <2>3 DEF LedgerOf, FreshOnes, MadeOnes, GoneOnes, OwnWaits, OwnRuns,
       Marked, Leaves, RetractWaits, Leaving
  <2>5. NetKnown /\ NewsKnown
    BY <2>1 DEF NetKnown, NewsKnown
  <2> QED BY <2>2, <2>4, <2>5 DEF Ledger
<1>2. IInv /\ IInv' /\ Home /\ Ledger /\ [Next]_vars => (Home /\ Ledger)'
  BY HomeOK, LedgerOK DEF Discreet
<1> QED BY <1>1, <1>2, Invariance, PTL DEF Spec

(* Nothing the engine still refers to has been given away.                 *)
THEOREM NothingDangles ==
  ASSUME Discreet
  PROVE  Spec => []NoDangling
<1>1. Ledger => NoDangling
  BY DEF Ledger, LedgerOf, GoneOnes, Outside, Queued, NoDangling
<1> QED BY <1>1, LedgerHolds, PTL

-----------------------------------------------------------------------------
(* What the application is told is a behaviour of ObjectFeed.              *)
InHand == {x \in Obj : life[x] = "known"}
Parted == {x \in Obj : life[x] = "gone"}
Heard == IF event = NoEvent THEN NoEvent ELSE [kind |-> event.kind, obj |-> event.obj]

(* What is said is an event.                                               *)
LEMMA SaidIsHeard ==
  ASSUME IInv, NEW kind \in Kind, NEW x \in Obj, event' = Say(kind, x)
  PROVE  Heard' = OF!Said(kind, x)
<1>1. Say(kind, x) \in [kind : Kind, obj : Obj, shown : Value]
  BY DEF IInv, TypeOK, Say
<1>2. event' # NoEvent /\ event'.kind = kind /\ event'.obj = x
  BY <1>1, ConstantsAssumption DEF Say
<1> QED BY <1>2 DEF Heard, OF!Said

(* The step from a life to another.                                        *)
LEMMA FeedSteps ==
  ASSUME TypeOK, NEW x \in Obj
  PROVE  /\ UNCHANGED life /\ event' = NoEvent => OF!Silent
         /\ life[x] = "fresh" /\ life' = [life EXCEPT ![x] = "made"] /\ event' = NoEvent
              => OF!Silent
         /\ life[x] \in {"fresh", "made"} /\ life' = [life EXCEPT ![x] = "known"]
              => /\ event' = NoEvent => OF!Insert(x)
                 /\ Heard' = OF!Said("created", x) => OF!Created(x)
         /\ life[x] = "known" /\ UNCHANGED life
              => /\ Heard' = OF!Said("created", x) => OF!Echoed(x)
                 /\ Heard' = OF!Said("modified", x) => OF!Modified(x)
         /\ life[x] = "known" /\ life' = [life EXCEPT ![x] = "gone"]
              => /\ event' = NoEvent => OF!Retract(x)
                 /\ Heard' = OF!Said("deleted", x) => OF!Deleted(x)
                 /\ Heard' = OF!Said("unused", x) => OF!NoMoreUsed(x)
<1>1. life \in [Obj -> {"fresh", "made", "known", "gone"}]
  BY DEF TypeOK
<1>2. UNCHANGED life => UNCHANGED <<InHand, Parted>>
  BY DEF InHand, Parted
<1>3. life[x] = "fresh" /\ life' = [life EXCEPT ![x] = "made"] => UNCHANGED <<InHand, Parted>>
  BY <1>1 DEF InHand, Parted
<1>4. life[x] \in {"fresh", "made"} /\ life' = [life EXCEPT ![x] = "known"]
      => /\ x \notin InHand /\ x \notin Parted
         /\ InHand' = InHand \union {x} /\ Parted' = Parted
  BY <1>1 DEF InHand, Parted
<1>5. life[x] = "known" => x \in InHand
  BY DEF InHand
<1>6. life[x] = "known" /\ life' = [life EXCEPT ![x] = "gone"]
      => InHand' = InHand \ {x} /\ Parted' = Parted \union {x}
  BY <1>1 DEF InHand, Parted
<1>7. event' = NoEvent => Heard' = NoEvent
  BY DEF Heard
<1> QED BY <1>2, <1>3, <1>4, <1>5, <1>6, <1>7
        DEF OF!Silent, OF!Insert, OF!Created, OF!Echoed, OF!Modified, OF!Retract,
            OF!Deleted, OF!NoMoreUsed, OF!Learn, OF!Part, OF!Unknown, InHand, Parted, Heard

(* Every step is one of ObjectFeed, or says and changes nothing.           *)
LEMMA FeedOK ==
  ASSUME Discreet, IInv, Home, Ledger, [Next]_vars
  PROVE  OF!Next \/ UNCHANGED <<InHand, Parted, Heard>>
<1>1. /\ TypeOK /\ life \in [Obj -> {"fresh", "made", "known", "gone"}]
  BY DEF IInv, TypeOK
<1>2. CASE Application
  <2>1. PICK x \in Obj, v \in Value, tag \in {"INSERT", "MODIFY", "RETRACT"} :
          EngineLoop(tag, x, v) \/ EngineLoopInside(tag, x, v)
    BY <1>2 DEF Application
  <2>2. event' = NoEvent /\ MayCall(tag, x) /\ life' = LifeAfterCall(tag, x)
    BY <2>1 DEF EngineLoop, EngineLoopInside
  <2>3. CASE tag = "INSERT"
    <3>1. life[x] = "fresh" /\ life' = [life EXCEPT ![x] = "known"]
      BY <2>2, <2>3 DEF MayCall, LifeAfterCall
    <3> QED BY <1>1, <2>2, <3>1, FeedSteps DEF OF!Next
  <2>4. CASE tag # "INSERT"
    <3>1. UNCHANGED life
      BY <2>2, <2>4 DEF LifeAfterCall
    <3> QED BY <1>1, <2>2, <3>1, FeedSteps DEF OF!Next
  <2> QED BY <2>3, <2>4
<1>3. CASE RightHandSide
  <2>1. PICK x \in Obj :
          \/ Create(x) \/ Imply(x) \/ Change(x) \/ Delete(x) \/ RetractImplied(x)
          \/ \E v \in Value : Modify(x, v) \/ ModifyImplied(x, v)
    BY <1>3 DEF RightHandSide
  <2>2. /\ event' = NoEvent
        /\ \/ UNCHANGED life
           \/ life[x] = "fresh" /\ life' = [life EXCEPT ![x] = "made"]
    BY <2>1 DEF Create, Imply, New, Change, Delete, RetractImplied, Modify, ModifyImplied,
       Write, Pushed
  <2> QED BY <1>1, <2>2, FeedSteps DEF OF!Next
<1>4. CASE RunRule \/ StartTelling \/ AllTold \/ Repeat \/ Descend
  <2>1. UNCHANGED life /\ event' = NoEvent
    BY <1>4 DEF RunRule, StartTelling, AllTold, Repeat, Descend
  <2>2. \E x : x \in Obj
    <3>1. ~Idle /\ stack \in Seq(Frame)
      BY <1>1, <1>4 DEF TypeOK, RunRule, StartTelling, AllTold, Repeat, Descend, AtCs,
         InRun, Drained
    <3> QED BY <3>1, TopIsFrame
  <2> QED BY <1>1, <2>1, <2>2, FeedSteps DEF OF!Next
<1>5. CASE Tell
  <2> PICK k \in Nat : k = Top.told + 1
    BY <1>5, ToldAbout
  <2> PICK x \in Obj : x = queue[k].obj
    BY <1>5, ToldAbout
  <2>1. /\ life[x] \in {"made", "known"}
        /\ life[x] = "made" => queue[k].tag = "INSERT"
        /\ k \in 1..Len(queue)
    BY <1>5, ToldAbout
  <2>2. queue[k].tag \in Tag
    BY <1>1, <2>1, ActionAt DEF TypeOK
  <2>3. CASE queue[k].tag = "INSERT"
    <3>1. event' = Say("created", x) /\ life' = [life EXCEPT ![x] = "known"]
      BY <1>5, <2>3 DEF Tell
    <3>2. Heard' = OF!Said("created", x)
      BY <3>1, SaidIsHeard DEF Kind
    <3>3. life[x] = "known" => UNCHANGED life
      BY <1>1, <3>1
    <3> QED BY <1>1, <2>1, <3>1, <3>2, <3>3, FeedSteps DEF OF!Next
  <2>4. CASE queue[k].tag = "MODIFY"
    <3>1. event' = Say("modified", x) /\ UNCHANGED life /\ life[x] = "known"
      BY <1>5, <2>1, <2>4 DEF Tell
    <3>2. Heard' = OF!Said("modified", x)
      BY <3>1, SaidIsHeard DEF Kind
    <3> QED BY <1>1, <3>1, <3>2, FeedSteps DEF OF!Next
  <2>5. CASE queue[k].tag \in {"RETRACT", "CHANGE"}
    <3>1. event' = NoEvent /\ UNCHANGED life
      BY <1>5, <2>5 DEF Tell
    <3> QED BY <1>1, <3>1, FeedSteps DEF OF!Next
  <2> QED BY <2>2, <2>3, <2>4, <2>5 DEF Tag
<1>6. CASE Finish
  <2> PICK x \in Obj : x = Top.act.obj
    BY <1>6, TopLeaves
  <2>1. /\ ~GivesAway => UNCHANGED life /\ event' = NoEvent
        /\ GivesAway =>
             /\ life' = [life EXCEPT ![x] = "gone"] /\ life[x] = "known"
             /\ \/ event' = NoEvent
                \/ \E kind \in {"deleted", "unused"} : event' = Say(kind, x)
    BY <1>6, GivenAway
  <2>2. \A kind \in {"deleted", "unused"} :
          event' = Say(kind, x) => Heard' = OF!Said(kind, x)
    BY SaidIsHeard DEF Kind
  <2> QED BY <1>1, <2>1, <2>2, FeedSteps DEF OF!Next
<1>7. CASE UNCHANGED vars
  BY <1>7 DEF vars, InHand, Parted, Heard
<1> QED BY <1>2, <1>3, <1>4, <1>5, <1>6, <1>7 DEF Next, DoLoop

(* The application is told what ObjectFeed promises.                       *)
THEOREM FeedIsObeyed ==
  ASSUME Discreet
  PROVE  Spec => FeedsApplication
<1>1. Init => OF!Init
  BY DEF Init, OF!Init
<1>2. IInv /\ Home /\ Ledger /\ [Next]_vars => [OF!Next]_(OF!vars)
  BY FeedOK DEF OF!vars, InHand, Parted, Heard
<1> QED BY <1>1, <1>2, Invariance, LedgerHolds, PTL DEF Spec, FeedsApplication, OF!Spec

-----------------------------------------------------------------------------
(* What the engine drops, and who has it then.                             *)
(* A set of numbers that is not empty has a least one.                     *)
LEMMA LeastNat ==
  ASSUME NEW T \in SUBSET Nat, T # {}
  PROVE  \E k \in T : \A j \in T : k <= j
<1>1. PICK k \in T : \A j \in T : ~(<<j, k>> \in OpToRel(<, Nat))
  BY NatLessThanWellFounded, WFMin, Zenon
<1>2. \A j \in T : ~(j < k)
  BY <1>1 DEF OpToRel
<1> QED BY <1>2

(* Action::pop finds an action unless all that are left are CHANGEs.       *)
LEMMA NoHeadIsAllChange ==
  ASSUME NEW q \in Seq(Action), NEW base \in 0..Len(q), HeadPlace(q, base) = {}
  PROVE  \A i \in 1..Len(q) : i > base => q[i].tag = "CHANGE"
<1> DEFINE T == {i \in (base + 1)..Len(q) : q[i].tag # "CHANGE"}
<1> SUFFICES ASSUME T # {} PROVE FALSE
  OBVIOUS
<1>1. T \in SUBSET Nat
  OBVIOUS
<1>2. PICK k \in T : \A j \in T : k <= j
  BY <1>1, LeastNat
<1>3. k \in HeadPlace(q, base)
  BY <1>2 DEF HeadPlace
<1> QED BY <1>3

(* The references to an object in the words of the ledger.                 *)
LEMMA ReferencedIs ==
  ASSUME NEW x
  PROVE  /\ Referenced(x) <=> ~Outside(x) \/ Queued(x) # {} \/ Held(x) # {}
         /\ Referenced(x)' <=> ~Outside(x)' \/ Queued(x)' # {} \/ Held(x)' # {}
BY DEF Referenced, Outside, Queued, Held

(* An object of which the list loses the last action is that of a CHANGE,  *)
(* of an action dropped for its marked Single, or of the one propagated.   *)
LEMMA EnterForgets ==
  ASSUME queue \in Seq(Action), NEW base \in 0..Len(queue), NEW first \in BOOLEAN,
         Enter(queue, base, value, first, stack), NEW x \in Obj, Queued(x) # {}, Queued(x)' = {}
  PROVE  \/ ChangeWaits(x)
         \/ \E k \in Queued(x) : /\ \/ HasBeenDeleted(queue[k]) /\ UNCHANGED <<stack, net>>
                                    \/ Taken(queue, k, value, first, Len(queue'), stack)
<1>0. PICK i \in 1..Len(queue) : queue[i].obj = x
  BY DEF Queued
<1>1. CASE HeadPlace(queue, base) = {} /\ queue' = SubSeq(queue, 1, base)
  <2>1. i > base
    <3> SUFFICES ASSUME i <= base PROVE FALSE
      OBVIOUS
    <3>1. i \in 1..Len(queue') /\ queue'[i] = queue[i]
      BY <1>0, <1>1
    <3> QED BY <1>0, <3>1 DEF Queued
  <2>2. queue[i].tag = "CHANGE"
    BY <1>1, <2>1, NoHeadIsAllChange
  <2> QED BY <1>0, <2>2 DEF ChangeWaits
<1>2. ASSUME NEW k \in HeadPlace(queue, base), queue' = Without(queue, base, k),
             \/ HasBeenDeleted(queue[k]) /\ UNCHANGED <<stack, net>>
             \/ Taken(queue, k, value, first, Len(queue) - (k - base), stack)
      PROVE  \/ ChangeWaits(x)
             \/ \E l \in Queued(x) : /\ \/ HasBeenDeleted(queue[l]) /\ UNCHANGED <<stack, net>>
                                        \/ Taken(queue, l, value, first, Len(queue'), stack)
  <2>1. /\ k \in (base + 1)..Len(queue)
        /\ \A j \in (base + 1)..(k - 1) : queue[j].tag = "CHANGE"
    BY <1>2 DEF HeadPlace
  <2>2. Cut(queue, base, k - base)
    BY <1>2, <2>1, WithoutCuts
  <2>3. Len(queue') = Len(queue) - (k - base)
    BY <2>2 DEF Cut
  <2>4. CASE i <= base
    <3>1. i \in 1..Len(queue') /\ queue'[i] = queue[i]
      BY <2>1, <2>2, <2>3, <2>4 DEF Cut
    <3> QED BY <1>0, <3>1 DEF Queued
  <2>5. CASE i \in (base + 1)..(k - 1)
    BY <1>0, <2>1, <2>5 DEF ChangeWaits
  <2>6. CASE i = k
    <3>1. k \in Queued(x)
      BY <1>0, <2>6 DEF Queued
    <3> QED BY <1>2, <2>3, <3>1
  <2>7. CASE i > k
    <3>1. i - (k - base) \in 1..Len(queue') /\ i - (k - base) > base
      BY <2>1, <2>3, <2>7
    <3>2. queue'[i - (k - base)] = queue[i]
      BY <2>1, <2>2, <3>1, <2>7 DEF Cut
    <3> QED BY <1>0, <3>1, <3>2 DEF Queued
  <2> QED BY <2>1, <2>4, <2>5, <2>6, <2>7
<1>3. CASE \E k \in HeadPlace(queue, base) :
             /\ queue' = Without(queue, base, k)
             /\ \/ HasBeenDeleted(queue[k]) /\ UNCHANGED <<stack, net>>
                \/ Taken(queue, k, value, first, Len(queue) - (k - base), stack)
  BY <1>2, <1>3
<1> QED BY <1>1, <1>3 DEF Enter, Taken

(* A push drops no reference: the object a production node gives up is the *)
(* one of the action.                                                      *)
LEMMA PushRefers ==
  ASSUME IInv, NEW a \in Action, queue' = Append(queue, a), UNCHANGED <<stack, net>>,
         implied \subseteq implied' \union {a.obj}, NEW x \in Obj, Referenced(x)
  PROVE  Referenced(x)'
<1>1. /\ queue'[Len(queue) + 1] = a
      /\ \A i \in 1..Len(queue) : queue'[i] = queue[i]
      /\ Len(queue) \in Nat /\ Len(queue') = Len(queue) + 1
  BY PushedQueue DEF IInv, TypeOK
<1>2. \A i \in 1..Len(queue) : i \in 1..Len(queue')
  BY <1>1
<1>3. Len(queue) + 1 \in 1..Len(queue')
  BY <1>1
<1>4. CASE x \in implied
  BY <1>1, <1>3, <1>4 DEF Referenced
<1>5. CASE x \notin implied
  BY <1>1, <1>2, <1>5 DEF Referenced
<1> QED BY <1>4, <1>5

(* The application's calls drop none.                                      *)
LEMMA CallRefers ==
  ASSUME IInv, Home, Application, NEW x \in Obj, Referenced(x)
  PROVE  Referenced(x)'
<1> PICK y \in Obj, v \in Value, tag \in {"INSERT", "MODIFY", "RETRACT"} :
           EngineLoop(tag, y, v) \/ EngineLoopInside(tag, y, v)
  BY DEF Application
<1> DEFINE a == External(tag, y, v)
<1>1. a \in Action /\ a.obj = y
  BY ExternalIs
<1>2. CASE EngineLoopInside(tag, y, v)
  <2>1. queue' = Append(queue, a) /\ UNCHANGED <<stack, net>> /\ implied' = implied
    BY <1>2 DEF EngineLoopInside
  <2> HIDE DEF a
  <2> QED BY <1>1, <2>1, PushRefers
<1>3. CASE EngineLoop(tag, y, v)
  <2>1. /\ queue = <<>> /\ stack = <<>> /\ UNCHANGED implied
        /\ Taken(<<a>>, 1, value, TRUE, 0, <<>>)
    BY <1>3, EngineLoopBegins DEF Home, EngineLoop, Idle
  <2> HIDE DEF a
  <2>2. Len(queue) = 0 /\ Len(stack) = 0
    BY <2>1
  <2>3. <<a>> \in Seq(Action) /\ 1 \in 1..Len(<<a>>) /\ <<a>>[1] = a
    BY <1>1
  <2>4. Enrolled(a, y, TRUE, 0, <<>>)
    <3>1. value \in [Obj -> Value] /\ <<>> \in Seq(Frame) /\ TRUE \in BOOLEAN /\ 0 \in Nat
      BY DEF IInv, TypeOK
    <3> QED BY <1>1, <2>1, <2>3, <3>1, TakenEnrols, Zenon
  <2>5. /\ \A z \in Obj : z # y => net'[z] = net[z]
        /\ Len(stack') = 1 /\ stack'[1].act.obj = y
    BY <2>4 DEF Enrolled
  <2>6. net[x] # Absent \/ x \in implied
    BY <2>2 DEF Referenced
  <2> QED BY <2>1, <2>5, <2>6 DEF Referenced
<1> QED BY <1>2, <1>3

(* Nor do the right-hand sides.                                            *)
LEMMA RightHandSideRefers ==
  ASSUME IInv, RightHandSide, NEW x \in Obj, Referenced(x)
  PROVE  Referenced(x)'
<1>1. PICK y \in Obj :
        \/ Create(y) \/ Imply(y) \/ Change(y) \/ Delete(y) \/ RetractImplied(y)
        \/ \E v \in Value : Modify(y, v) \/ ModifyImplied(y, v)
  BY DEF RightHandSide
<1>2. \E a \in Action : /\ a.obj = y /\ queue' = Append(queue, a)
                        /\ UNCHANGED <<stack, net>> /\ implied \subseteq implied' \union {y}
  <2>1. \A tag \in Tag : Plain(tag, y, FALSE) \in Action /\ Plain(tag, y, FALSE).obj = y
    BY DEF Plain, Action
  <2>2. /\ \A v \in Value : /\ Rewrite(y, value[y], v, FALSE) \in Action
                            /\ Rewrite(y, value[y], v, FALSE).obj = y
    BY DEF Rewrite, Action, Tag, IInv, TypeOK
  <2>3. {"INSERT", "CHANGE", "RETRACT"} \subseteq Tag
    BY DEF Tag
  <2>4. CASE Create(y) \/ Imply(y)
    BY <2>1, <2>3, <2>4 DEF Create, Imply, New, Pushed
  <2>5. CASE Change(y) \/ Delete(y) \/ RetractImplied(y)
    BY <2>1, <2>3, <2>5 DEF Change, Delete, RetractImplied, Pushed
  <2>6. ASSUME NEW v \in Value, Modify(y, v) \/ ModifyImplied(y, v)
        PROVE  \E a \in Action : /\ a.obj = y /\ queue' = Append(queue, a)
                                 /\ UNCHANGED <<stack, net>> /\ implied \subseteq implied' \union {y}
    BY <2>2, <2>6 DEF Modify, ModifyImplied, Write, Pushed
  <2> QED BY <1>1, <2>4, <2>5, <2>6
<1>3. PICK a \in Action :
        /\ a.obj = y /\ queue' = Append(queue, a)
        /\ UNCHANGED <<stack, net>> /\ implied \subseteq implied' \union {y}
  BY <1>2
<1> QED BY <1>3, PushRefers

(* do_loop on the next action drops a reference to a living object only    *)
(* with a CHANGE.                                                          *)
LEMMA DescendForgets ==
  ASSUME IInv, Ledger, Descend, NEW x \in Obj, Referenced(x), ~Referenced(x)'
  PROVE  life'[x] = "gone" \/ ChangeWaits(x)
<1>1. /\ ~Idle /\ Top.base \in 0..Len(queue) /\ UNCHANGED <<implied, life>>
      /\ Enter(queue, Top.base, value, FALSE, stack)
      /\ queue \in Seq(Action) /\ stack \in Seq(Frame) /\ value \in [Obj -> Value]
      /\ LedgerOf(x)
  <2>1. Top.base \in Nat /\ Len(queue) \in Nat
    BY TopIsFrame DEF Descend, IInv, TypeOK
  <2>2. Top.base <= Len(queue)
    BY <2>1 DEF Descend
  <2>3. Top.base \in 0..Len(queue)
    BY <2>1, <2>2
  <2> QED BY <2>3 DEF Descend, IInv, TypeOK, Ledger
<1>2. ASSUME NEW k \in 1..Len(queue), Taken(queue, k, value, FALSE, Len(queue'), stack)
      PROVE  /\ queue[k].obj # x
             /\ net'[x] = net[x]
             /\ \A n \in 1..Len(stack) : n \in 1..Len(stack') /\ stack'[n] = stack[n]
  <2> PICK y \in Obj : y = queue[k].obj
    BY <1>1, ActionAt
  <2>0. Len(queue') \in Nat /\ Len(stack) \in Nat
    <3>1. \E d \in 0..Len(queue) : Cut(queue, Top.base, d)
      BY <1>1, EnterCuts
    <3> QED BY <1>1, <3>1 DEF Cut
  <2>1. Enrolled(queue[k], y, FALSE, Len(queue'), stack)
    BY <1>1, <1>2, <2>0, TakenEnrols, Zenon
  <2>2. /\ \A z \in Obj : z # y => net'[z] = net[z]
        /\ Len(stack') = Len(stack) + 1
        /\ \A n \in 1..Len(stack) : stack'[n] = stack[n]
        /\ stack'[Len(stack) + 1].act.obj = y
    BY <2>1 DEF Enrolled
  <2>3. Len(stack) + 1 \in 1..Len(stack')
    BY <2>0, <2>2
  <2>4. x # y
    BY <2>2, <2>3 DEF Referenced
  <2> QED BY <2>0, <2>2, <2>4
<1>3. /\ Outside(x)' /\ Queued(x)' = {} /\ Held(x)' = {}
  BY ReferencedIs
<1>4. CASE Queued(x) # {}
  <2>1. \/ ChangeWaits(x)
        \/ \E k \in Queued(x) : \/ HasBeenDeleted(queue[k]) /\ UNCHANGED <<stack, net>>
                                \/ Taken(queue, k, value, FALSE, Len(queue'), stack)
    BY <1>1, <1>3, <1>4, EnterForgets
  <2>2. ASSUME NEW k \in Queued(x), HasBeenDeleted(queue[k]), UNCHANGED <<stack, net>>
        PROVE  life'[x] = "gone"
    <3>1. x \in deleted
      BY <2>2 DEF HasBeenDeleted, Queued
    <3>2. Held(x) = {} /\ Leaving(x) = {}
      BY <1>3, <2>2 DEF Held, Leaving
    <3> QED BY <1>1, <3>1, <3>2 DEF LedgerOf, Marked
  <2>3. ASSUME NEW k \in Queued(x), Taken(queue, k, value, FALSE, Len(queue'), stack)
        PROVE  FALSE
    BY <1>2, <2>3 DEF Queued
  <2> QED BY <2>1, <2>2, <2>3
<1>5. CASE Queued(x) = {}
  <2>1. PICK d \in 0..Len(queue) :
          \/ UNCHANGED <<stack, net>>
          \/ /\ d > 0 /\ Top.base + d <= Len(queue)
             /\ Taken(queue, Top.base + d, value, FALSE, Len(queue'), stack)
    <3>1. \A d \in 0..Len(queue) : Cut(queue, Top.base, d) => Top.base + d <= Len(queue)
      BY DEF Cut
    <3> QED BY <1>1, <3>1, EnterCuts
  <2>2. net'[x] = net[x] /\ \A n \in 1..Len(stack) : n \in 1..Len(stack') /\ stack'[n] = stack[n]
    <3>1. CASE UNCHANGED <<stack, net>>
      BY <3>1
    <3>2. CASE /\ d > 0 /\ Top.base + d <= Len(queue)
               /\ Taken(queue, Top.base + d, value, FALSE, Len(queue'), stack)
      <4>1. Top.base + d \in 1..Len(queue)
        BY <1>1, <3>2
      <4> QED BY <1>2, <3>2, <4>1
    <3> QED BY <2>1, <3>1, <3>2
  <2>3. Held(x) = {} /\ Outside(x)
    BY <1>1, <1>3, <2>2 DEF Held, Outside
  <2> QED BY <1>5, <2>3, ReferencedIs
<1> QED BY <1>4, <1>5

(* A Single with one link is dropped with the last reference.              *)
LEMMA NoLinkLeft ==
  ASSUME IInv, ~Idle, NEW x \in Obj, x = Top.act.obj, ~Top.act.own,
         Outside(x), Queued(x) = {}, Held(x) = {Len(stack)}
  PROVE  SharedLinks(x) = 1
<1> DEFINE Q == {i \in 1..Len(queue) : queue[i].obj = x /\ ~queue[i].own}
           S == {i \in 1..Len(stack) : stack[i].act.obj = x /\ ~stack[i].act.own}
<1>1. Q = {}
  BY DEF Queued
<1>2. S = {Len(stack)}
  BY DEF Held, Top
<1>3. Cardinality(Q) = 0 /\ Cardinality(S) = 1
  BY <1>1, <1>2, FS_EmptySet, FS_Singleton
<1>4. net[x] = Absent /\ x \notin implied
  BY DEF Outside
<1>5. SharedLinks(x) = Cardinality(Q) + Cardinality(S) + 0 + 0
  BY <1>4, Zenon DEF SharedLinks
<1> QED BY <1>3, <1>5

(* The end of do_loop.                                                     *)
LEMMA FinishForgets ==
  ASSUME IInv, Ledger, Finish, NEW x \in Obj, Referenced(x), ~Referenced(x)'
  PROVE  life'[x] = "gone"
<1>1. /\ ~Idle /\ UNCHANGED <<net, queue, implied>>
      /\ LedgerOf(x) /\ life \in [Obj -> {"fresh", "made", "known", "gone"}]
  BY DEF Finish, Drained, IInv, TypeOK, Ledger
<1>2. /\ Outside(x)' /\ Queued(x)' = {} /\ Held(x)' = {}
  BY ReferencedIs
<1>3. Outside(x) /\ Queued(x) = {}
  BY <1>1, <1>2 DEF Outside, Queued
<1>4. Held(x) # {}
  BY <1>3, ReferencedIs
<1>5. x = Top.act.obj
  BY <1>2, <1>4, TopLeaves DEF SameHeld
<1>6. Held(x) = {Len(stack)}
  BY <1>2, <1>5, TopLeaves
<1>7. CASE GivesAway
  BY <1>1, <1>5, <1>7, GivenAway
<1>8. CASE ~GivesAway
  <2>1. UNCHANGED life /\ Top.act.tag # "RETRACT" /\ ~Top.act.own
        /\ (SharedLinks(x) # 1 \/ x \in deleted)
    BY <1>5, <1>8, GivenAway DEF GivesAway, LastLink
  <2>2. x \in deleted
    BY <1>1, <1>3, <1>5, <1>6, <2>1, NoLinkLeft
  <2>3. Leaving(x) = {}
    BY <1>6, <2>1 DEF Leaving, Top
  <2> QED BY <1>1, <2>1, <2>2, <2>3 DEF LedgerOf, Marked
<1> QED BY <1>7, <1>8

(* The moves from one part of do_loop to the next, and the notifications,  *)
(* drop none.                                                              *)
LEMMA MoveRefers ==
  ASSUME IInv, RunRule \/ StartTelling \/ AllTold \/ Repeat \/ Tell,
         NEW x \in Obj, Referenced(x)
  PROVE  Referenced(x)'
<1>1. /\ ~Idle /\ UNCHANGED <<net, implied>> /\ stack \in Seq(Frame) /\ queue \in Seq(Action)
  BY DEF RunRule, StartTelling, AllTold, Repeat, Tell, AtCs, InRun, Drained, IInv, TypeOK
<1>2. /\ Top \in Frame /\ Top.base \in Nat /\ Len(stack) \in 1..Len(stack)
  BY <1>1, TopIsFrame
<1>3. \E f : f.act = Top.act /\ stack' = SetTop(f)
  BY <1>2 DEF RunRule, StartTelling, AllTold, Repeat, Tell, Frame
<1>4. Len(stack') = Len(stack) /\ \A n \in 1..Len(stack) : stack'[n].act = stack[n].act
  BY <1>1, <1>2, <1>3 DEF SetTop, Top
<1>5. Len(queue') = Len(queue) /\ \A i \in 1..Len(queue) : queue'[i].obj = queue[i].obj
  <2>1. CASE UNCHANGED queue
    BY <2>1
  <2>2. CASE queue' = [queue EXCEPT ![Top.told + 1].old = value[queue[Top.told + 1].obj]]
    <3>1. \A i \in 1..Len(queue) : queue[i] \in Action
      BY <1>1, ElementOfSeq
    <3> QED BY <1>1, <2>2, <3>1 DEF Action
  <2> QED BY <2>1, <2>2 DEF RunRule, StartTelling, AllTold, Repeat, Tell, ObjSwap
<1> QED BY <1>1, <1>4, <1>5 DEF Referenced

(* No object is forgotten: when the engine drops its last reference to an  *)
(* object the application has it (Action::pop drops CHANGEs in silence).   *)
THEOREM NothingLeaks ==
  ASSUME Discreet
  PROVE  Spec => NoLeak
<1>1. ASSUME IInv, Home, Ledger, [Next]_vars, NEW x \in Obj, Referenced(x), ~Referenced(x)'
      PROVE  life'[x] = "gone" \/ ChangeWaits(x)
  <2>1. CASE Application
    BY <1>1, <2>1, CallRefers
  <2>2. CASE RightHandSide
    BY <1>1, <2>2, RightHandSideRefers
  <2>3. CASE DoLoop
    BY <1>1, <2>3, MoveRefers, DescendForgets, FinishForgets DEF DoLoop
  <2>4. CASE UNCHANGED vars
    BY <1>1, <2>4 DEF vars, Referenced
  <2> QED BY <1>1, <2>1, <2>2, <2>3, <2>4 DEF Next
<1>2. IInv /\ Home /\ Ledger /\ [Next]_vars =>
        [\A x \in Obj : Referenced(x) /\ ~Referenced(x)' => life'[x] = "gone" \/ ChangeWaits(x)]_vars
  BY <1>1
<1> QED BY <1>2, Invariance, LedgerHolds, PTL DEF Spec, NoLeak
=============================================================================
