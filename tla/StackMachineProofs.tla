-------------------------- MODULE StackMachineProofs --------------------------
(***************************************************************************)
(* Whatever balanced code a node executes, the loops find the stack as it  *)
(* was when they began, take no value of one another and end where they    *)
(* are said to.                                                            *)
(***************************************************************************)
EXTENDS StackMachine, WellFoundedInduction, TLAPS

(* A set of naturals that is not empty has a least element.                *)
LEMMA LeastNat ==
  ASSUME NEW S \in SUBSET Nat, S # {}
  PROVE  \E k \in S : \A j \in S : k <= j
<1>1. PICK k \in S : \A j \in S : ~(<<j, k>> \in OpToRel(<, Nat))
  BY NatLessThanWellFounded, WFMin, Zenon
<1>2. \A j \in S : ~(j < k)
  BY <1>1 DEF OpToRel
<1> QED BY <1>2

-----------------------------------------------------------------------------
(* Fits has a value: what fits from a place depends on later places only.  *)
Turn(codes, f, p) == [e \in Nat |-> [h \in Nat |-> Fitting(codes, f, p, e, h)]]

(* The last m + 1 places of the code, the end among them.                  *)
Lasts(codes, m) == {p \in 1..(Len(codes) + 1) : p + m > Len(codes)}

LEMMA JumpsType ==
  ASSUME NEW codes \in Seq(CodeWord), NEW p \in 1..Len(codes)
  PROVE  /\ codes[p] \in CodeWord /\ codes[p].len \in Nat /\ Takes(codes[p]) \in Nat
         /\ Jumps(codes, p) \in Seq(Nat)
         /\ \A i \in DOMAIN Jumps(codes, p) : Jumps(codes, p)[i] > p
<1>1. codes[p] \in CodeWord
  OBVIOUS
<1>2. codes[p].len \in Nat /\ codes[p].jumps \in Seq(Nat)
  BY <1>1 DEF CodeWord
<1>3. Takes(codes[p]) \in Nat
  BY <1>2 DEF Takes
<1> DEFINE s == codes[p].jumps
<1>4. s \in Seq(Nat) /\ DOMAIN s = 1..Len(s) /\ Len(s) \in Nat
  BY <1>2
<1>5. Jumps(codes, p) = [i \in 1..Len(s) |-> p + 1 + s[i]]
  BY <1>4 DEF Jumps
<1>6. \A i \in 1..Len(s) : s[i] \in Nat
  BY <1>4
<1> HIDE DEF s
<1>7. /\ Jumps(codes, p) \in Seq(Nat)
      /\ \A i \in DOMAIN Jumps(codes, p) : Jumps(codes, p)[i] > p
  BY <1>4, <1>5, <1>6
<1> QED BY <1>1, <1>2, <1>3, <1>7

(* Fitting asks f of places after p alone, up to the end of the code.      *)
Agree(codes, p, f, g) == \A q \in (p + 1)..(Len(codes) + 1) : f[q] = g[q]

LEMMA Prefixed ==
  ASSUME NEW s \in Seq(Nat), NEW n \in Nat, NEW i \in DOMAIN s, i # 1
  PROVE  i - 1 \in DOMAIN s /\ (<<n>> \o s)[i] = s[i - 1]
<1>1. i \in 1..Len(s) /\ Len(s) \in Nat /\ DOMAIN s = 1..Len(s)
  OBVIOUS
<1>2. i - 1 \in 1..Len(s)
  BY <1>1
<1>3. (<<n>> \o s)[i] = s[i - 1]
  BY <1>1
<1> QED BY <1>1, <1>2, <1>3

LEMMA FittingLooksOn ==
  ASSUME NEW codes \in Seq(CodeWord), NEW p \in 1..(Len(codes) + 1), NEW e \in Nat, NEW h \in Nat,
         NEW f, NEW g, Agree(codes, p, f, g)
  PROVE  Fitting(codes, f, p, e, h) = Fitting(codes, g, p, e, h)
<1>0. \A q \in (p + 1)..(Len(codes) + 1) : f[q] = g[q]
  BY DEF Agree
<1>1. CASE p = e \/ ~(p < e /\ e <= Len(codes) + 1)
  BY <1>1 DEF Fitting
<1>2. CASE p < e /\ e <= Len(codes) + 1
  <2> DEFINE ins == codes[p]
             ends == Jumps(codes, p)
             starts == <<p + 1>> \o ends
  <2>1. p \in 1..Len(codes)
    BY <1>2
  <2>2. /\ ins.len \in Nat /\ Takes(ins) \in Nat /\ ends \in Seq(Nat)
        /\ \A i \in DOMAIN ends : ends[i] > p
    BY <2>1, JumpsType
  <2>3. f[p + 1] = g[p + 1]
    BY <1>0, <2>1
  <2>4. p + 1 + ins.len <= e => f[p + 1 + ins.len] = g[p + 1 + ins.len]
    <3>1. ASSUME NEW n \in Nat, p + 1 + n <= e PROVE f[p + 1 + n] = g[p + 1 + n]
      BY <1>0, <1>2, <3>1
    <3> QED BY <2>2, <3>1
  <2>5. ASSUME \A i \in DOMAIN ends : ends[i] <= e, ends # <<>>
        PROVE  /\ f[ends[Len(ends)]] = g[ends[Len(ends)]]
               /\ \A i \in DOMAIN ends : f[starts[i]] = g[starts[i]]
    <3> HIDE DEF ends
    <3>1. \A i \in DOMAIN ends : ends[i] \in (p + 1)..(Len(codes) + 1)
      BY <1>2, <2>2, <2>5
    <3>2. Len(ends) \in DOMAIN ends
      BY <2>2, <2>5
    <3>3. \A i \in DOMAIN ends : starts[i] \in (p + 1)..(Len(codes) + 1)
      <4> TAKE i \in DOMAIN ends
      <4>1. CASE i = 1
        <5>1. starts[i] = p + 1
          BY <4>1, <2>2
        <5>2. p + 1 \in (p + 1)..(Len(codes) + 1)
          BY <1>2
        <5> QED BY <5>1, <5>2
      <4>2. CASE i # 1
        <5>1. i - 1 \in DOMAIN ends /\ starts[i] = ends[i - 1]
          <6>1. ends \in Seq(Nat) /\ p + 1 \in Nat
            BY <2>2
          <6> QED BY <4>2, <6>1, Prefixed, Zenon
        <5> QED BY <5>1, <3>1
      <4> QED BY <4>1, <4>2
    <3> QED BY <1>0, <3>1, <3>2, <3>3
  <2> DEFINE Rest(r) ==
             \/ /\ ins.op \in Computing
                /\ h >= Takes(ins)
                /\ r[p + 1][e][h - Takes(ins) + 1]
             \/ /\ ins.op \in Testing
                /\ h = Takes(ins)
                /\ r[p + 1][e][0]
             \/ /\ ins.op = "EVAL"
                /\ p + 1 + ins.len <= e
                /\ r[p + 1][p + 1 + ins.len][0]
                /\ r[p + 1 + ins.len][e][h + 1]
             \/ /\ ins.op = "TOR"
                /\ h = 0
                /\ ends # <<>>
                /\ \A i \in DOMAIN ends : ends[i] <= e
                /\ \A i \in DOMAIN ends : r[starts[i]][ends[i]][0]
                /\ r[ends[Len(ends)]][e][0]
  <2>6. p # e
    BY <1>2
  <2>7. Fitting(codes, f, p, e, h) = Rest(f) /\ Fitting(codes, g, p, e, h) = Rest(g)
    BY <1>2, <2>6, Zenon DEF Fitting
  <2>8. Rest(f) = Rest(g)
    <3> HIDE DEF ends, starts, ins
    <3> QED BY <2>3, <2>4, <2>5, Zenon
  <2> HIDE DEF Rest
  <2> QED BY <2>7, <2>8
<1> QED BY <1>1, <1>2

LEMMA TurnLooksOn ==
  ASSUME NEW codes \in Seq(CodeWord), NEW p \in 1..(Len(codes) + 1),
         NEW f, NEW g, Agree(codes, p, f, g)
  PROVE  Turn(codes, f, p) = Turn(codes, g, p)
<1>1. ASSUME NEW e \in Nat, NEW h \in Nat
      PROVE  Fitting(codes, f, p, e, h) = Fitting(codes, g, p, e, h)
  BY FittingLooksOn
<1> QED BY <1>1, Zenon DEF Turn

LEMMA FitsExists ==
  ASSUME NEW codes \in Seq(CodeWord)
  PROVE  \E f : f = [p \in 1..(Len(codes) + 1) |-> Turn(codes, f, p)]
<1> DEFINE Partly(m) == \E f : f = [p \in Lasts(codes, m) |-> Turn(codes, f, p)]
           S == {m \in Nat : ~Partly(m)}
<1>0. /\ Lasts(codes, Len(codes)) = 1..(Len(codes) + 1)
      /\ Lasts(codes, 0) = {Len(codes) + 1}
      /\ Len(codes) \in Nat
  BY DEF Lasts
<1>1. ASSUME S # {} PROVE FALSE
  <2>1. PICK k \in S : \A m \in S : k <= m
    BY <1>1, LeastNat
  <2>2. \E P \in SUBSET Lasts(codes, k) : \E g :
           /\ g = [p \in P |-> Turn(codes, g, p)]
           /\ \A p \in Lasts(codes, k) : \A q \in (p + 1)..(Len(codes) + 1) : q \in P
    <3>1. CASE k = 0
      <4> DEFINE g == [p \in {} |-> {}]
      <4>1. g = [p \in {} |-> Turn(codes, g, p)]
        OBVIOUS
      <4> HIDE DEF g
      <4>2. \A p \in Lasts(codes, k) : \A q \in (p + 1)..(Len(codes) + 1) : q \in {}
        BY <1>0, <3>1
      <4> QED BY <4>1, <4>2
    <3>2. CASE k # 0
      <4>1. k - 1 \in Nat /\ k - 1 \notin S
        BY <2>1, <3>2
      <4>2. Partly(k - 1)
        BY <4>1
      <4>3. Lasts(codes, k - 1) \in SUBSET Lasts(codes, k)
        BY <1>0, <3>2 DEF Lasts
      <4>4. \A p \in Lasts(codes, k) : \A q \in (p + 1)..(Len(codes) + 1) :
               q \in Lasts(codes, k - 1)
        BY <1>0, <3>2 DEF Lasts
      <4> QED BY <4>2, <4>3, <4>4
    <3> QED BY <3>1, <3>2
  <2> PICK P \in SUBSET Lasts(codes, k) :
           \E g : /\ g = [p \in P |-> Turn(codes, g, p)]
                  /\ \A p \in Lasts(codes, k) : \A q \in (p + 1)..(Len(codes) + 1) : q \in P
    BY <2>2
  <2>3. PICK g :
           /\ g = [p \in P |-> Turn(codes, g, p)]
           /\ \A p \in Lasts(codes, k) : \A q \in (p + 1)..(Len(codes) + 1) : q \in P
    OBVIOUS
  <2> DEFINE f == [p \in Lasts(codes, k) |-> Turn(codes, g, p)]
  <2>4. \A p \in P : f[p] = g[p]
    BY <2>3
  <2>5. \A p \in Lasts(codes, k) : f[p] = Turn(codes, g, p)
    OBVIOUS
  <2>6. f = [p \in Lasts(codes, k) |-> f[p]]
    OBVIOUS
  <2> HIDE DEF f
  <2>7. ASSUME NEW p \in Lasts(codes, k) PROVE Turn(codes, f, p) = Turn(codes, g, p)
    <3>1. p \in 1..(Len(codes) + 1)
      BY DEF Lasts
    <3>2. \A q \in (p + 1)..(Len(codes) + 1) : f[q] = g[q]
      BY <2>3, <2>4
    <3>3. Agree(codes, p, f, g)
      BY <3>2 DEF Agree
    <3> QED BY <3>1, <3>3, TurnLooksOn
  <2>8. f = [p \in Lasts(codes, k) |-> Turn(codes, f, p)]
    BY <2>5, <2>6, <2>7
  <2>9. Partly(k)
    BY <2>8
  <2> QED BY <2>1, <2>9
<1>2. Partly(Len(codes))
  BY <1>0, <1>1
<1> QED BY <1>0, <1>2

(* What fits from a place, of any code that is a sequence.                 *)
LEMMA FitsIs ==
  ASSUME NEW codes \in Seq(CodeWord), NEW p \in 1..(Len(codes) + 1), NEW e \in Nat, NEW h \in Nat
  PROVE  Fits(codes)[p][e][h] = Fitting(codes, Fits(codes), p, e, h)
<1> DEFINE fits == CHOOSE f : f = [q \in 1..(Len(codes) + 1) |-> Turn(codes, f, q)]
<1>1. fits = [q \in 1..(Len(codes) + 1) |-> Turn(codes, fits, q)]
  BY FitsExists, Zenon
<1>2. Fits(codes) = fits
  BY Zenon DEF Fits, Turn
<1> HIDE DEF fits
<1>3. fits[p] = Turn(codes, fits, p)
  BY <1>1, Zenon
<1>4. fits[p][e] = [n \in Nat |-> Fitting(codes, fits, p, e, n)]
  BY <1>3, Zenon DEF Turn
<1>5. fits[p][e][h] = Fitting(codes, fits, p, e, h)
  BY <1>4, Zenon
<1> QED BY <1>2, <1>5

-----------------------------------------------------------------------------
(* What fits, by the instruction it begins with.                           *)
LEMMA FitsWithin ==
  ASSUME NEW codes \in Seq(CodeWord), NEW p \in 1..(Len(codes) + 1), NEW e \in Nat, NEW h \in Nat,
         Fits(codes)[p][e][h]
  PROVE  /\ p = e => h = 0
         /\ p # e => p < e /\ e <= Len(codes) + 1 /\ p \in 1..Len(codes)
<1>1. Fitting(codes, Fits(codes), p, e, h)
  BY FitsIs
<1>2. p = e => h = 0
  BY <1>1, Zenon DEF Fitting
<1>3. p # e => p < e /\ e <= Len(codes) + 1
  BY <1>1, Zenon DEF Fitting
<1> QED BY <1>2, <1>3

LEMMA FitsComputing ==
  ASSUME NEW codes \in Seq(CodeWord), NEW p \in 1..Len(codes), NEW e \in Nat, NEW h \in Nat,
         Fits(codes)[p][e][h], p # e, codes[p].op \in Computing
  PROVE  h >= Takes(codes[p]) /\ Fits(codes)[p + 1][e][h - Takes(codes[p]) + 1]
<1>1. Fitting(codes, Fits(codes), p, e, h)
  BY FitsIs
<1>2. codes[p].op \notin Testing /\ codes[p].op # "EVAL" /\ codes[p].op # "TOR"
  BY DEF Computing, Testing
<1> QED BY <1>1, <1>2, Zenon DEF Fitting

LEMMA FitsTesting ==
  ASSUME NEW codes \in Seq(CodeWord), NEW p \in 1..Len(codes), NEW e \in Nat, NEW h \in Nat,
         Fits(codes)[p][e][h], p # e, codes[p].op \in Testing
  PROVE  h = Takes(codes[p]) /\ Fits(codes)[p + 1][e][0]
<1>1. Fitting(codes, Fits(codes), p, e, h)
  BY FitsIs
<1>2. codes[p].op \notin Computing /\ codes[p].op # "EVAL" /\ codes[p].op # "TOR"
  BY DEF Computing, Testing
<1> QED BY <1>1, <1>2, Zenon DEF Fitting

LEMMA FitsEval ==
  ASSUME NEW codes \in Seq(CodeWord), NEW p \in 1..Len(codes), NEW e \in Nat, NEW h \in Nat,
         Fits(codes)[p][e][h], p # e, codes[p].op = "EVAL"
  PROVE  /\ p + 1 + codes[p].len <= e
         /\ Fits(codes)[p + 1][p + 1 + codes[p].len][0]
         /\ Fits(codes)[p + 1 + codes[p].len][e][h + 1]
<1>1. Fitting(codes, Fits(codes), p, e, h)
  BY FitsIs
<1>2. codes[p].op \notin Computing /\ codes[p].op \notin Testing /\ codes[p].op # "TOR"
  BY DEF Computing, Testing
<1> QED BY <1>1, <1>2, Zenon DEF Fitting

TorFits(codes, p, e, jumps) ==
  /\ jumps # <<>>
  /\ \A i \in DOMAIN jumps : jumps[i] <= e
  /\ \A i \in DOMAIN jumps : Fits(codes)[(<<p + 1>> \o jumps)[i]][jumps[i]][0]
  /\ Fits(codes)[jumps[Len(jumps)]][e][0]

LEMMA FitsTor ==
  ASSUME NEW codes \in Seq(CodeWord), NEW p \in 1..Len(codes), NEW e \in Nat, NEW h \in Nat,
         Fits(codes)[p][e][h], p # e, codes[p].op = "TOR"
  PROVE  h = 0 /\ TorFits(codes, p, e, Jumps(codes, p))
<1>1. Fitting(codes, Fits(codes), p, e, h)
  BY FitsIs
<1>2. codes[p].op \notin Computing /\ codes[p].op \notin Testing /\ codes[p].op # "EVAL"
  BY DEF Computing, Testing
<1> QED BY <1>1, <1>2, Zenon DEF Fitting, TorFits

-----------------------------------------------------------------------------
(* The inductive invariant: the loops, from the outermost, each with what  *)
(* is left of its code when the loop in it ends, and the innermost with    *)
(* what it is executing.                                                   *)
FrameType == [kind : {"node", "eval", "tor"}, end : Nat, jumps : Seq(Nat), base : Nat]

TypesOK ==
  /\ code \in Seq(CodeWord)
  /\ codeP \in Nat
  /\ \E V : dstack \in Seq(V)
  /\ frames \in Seq(FrameType)
  /\ res \in {0, 1}

Place(codes) == 1..(Len(codes) + 1)

(* The alternatives of a TOR that have not begun.                          *)
Remaining(codes, loop) ==
  loop.kind = "tor" =>
    /\ loop.jumps # <<>>
    /\ loop.end = loop.jumps[Len(loop.jumps)]
    /\ \A j \in 1..Len(loop.jumps) : loop.jumps[j] \in Place(codes)
    /\ \A j \in 1..(Len(loop.jumps) - 1) : Fits(codes)[loop.jumps[j]][loop.jumps[j + 1]][0]

(* Where a loop goes on after the one in it, with one value more if that   *)
(* was of an EVAL.                                                         *)
Resumes(codes, loop, inner) ==
  /\ inner.kind \in {"eval", "tor"}
  /\ inner.end <= EndOf(loop)
  /\ inner.base >= loop.base
  /\ inner.kind = "tor" =>
       inner.base = loop.base /\ Fits(codes)[inner.end][EndOf(loop)][0]
  /\ inner.kind = "eval" => Fits(codes)[inner.end][EndOf(loop)][inner.base - loop.base + 1]

LoopsOK(codes, loops) ==
  /\ \A i \in 1..Len(loops) : Remaining(codes, loops[i]) /\ loops[i].end \in Place(codes)
  /\ loops # <<>> => loops[1].kind = "node" /\ loops[1].end = Len(codes) + 1
  /\ \A i \in 2..Len(loops) : Resumes(codes, loops[i - 1], loops[i])

Running(codes, loop, p, height, r) ==
  /\ height >= loop.base
  /\ r = 0 => height = loop.base
  /\ r = 1 => p \in 1..EndOf(loop) /\ Fits(codes)[p][EndOf(loop)][height - loop.base]

IInv == /\ TypesOK
        /\ LoopsOK(code, frames)
        /\ frames # <<>> => Running(code, Loop, codeP, Len(dstack), res)

-----------------------------------------------------------------------------
(* The loops.                                                              *)
LEMMA EndIs ==
  ASSUME NEW codes \in Seq(CodeWord), NEW loop \in FrameType,
         Remaining(codes, loop), loop.end \in Place(codes)
  PROVE  EndOf(loop) \in Place(codes) /\ loop.base \in Nat
<1>1. loop.end \in Nat /\ loop.jumps \in Seq(Nat) /\ loop.base \in Nat
  BY DEF FrameType
<1>2. CASE loop.kind = "tor"
  <2>1. loop.jumps # <<>> /\ \A j \in 1..Len(loop.jumps) :
           loop.jumps[j] \in Place(codes)
    BY <1>2 DEF Remaining
  <2>2. 1 \in 1..Len(loop.jumps) /\ Head(loop.jumps) = loop.jumps[1]
    BY <1>1, <2>1
  <2> QED BY <1>1, <1>2, <2>1, <2>2 DEF EndOf
<1>3. CASE loop.kind # "tor"
  BY <1>1, <1>3 DEF EndOf
<1> QED BY <1>2, <1>3

(* The innermost loop.                                                     *)
LEMMA LoopIs ==
  ASSUME NEW codes \in Seq(CodeWord), NEW loops \in Seq(FrameType), LoopsOK(codes, loops),
         NEW i \in 1..Len(loops)
  PROVE  /\ loops[i] \in FrameType /\ loops[i].base \in Nat
         /\ Remaining(codes, loops[i])
         /\ loops[i].end \in Place(codes) /\ EndOf(loops[i]) \in Place(codes)
         /\ loops[i].kind = "node" <=> i = 1
<1>1. loops[i] \in FrameType
  OBVIOUS
<1>2. Remaining(codes, loops[i]) /\ loops[i].end \in Place(codes)
  BY DEF LoopsOK
<1>3. loops[i].kind = "node" <=> i = 1
  <2>1. CASE i = 1
    BY <2>1 DEF LoopsOK
  <2>2. CASE i # 1
    <3>1. i \in 2..Len(loops)
      BY <2>2
    <3>2. Resumes(codes, loops[i - 1], loops[i])
      BY <3>1 DEF LoopsOK
    <3> QED BY <2>2, <3>2 DEF Resumes
  <2> QED BY <2>1, <2>2
<1> QED BY <1>1, <1>2, <1>3, EndIs

(* A loop begins in the innermost.                                         *)
LEMMA LoopBegins ==
  ASSUME NEW codes \in Seq(CodeWord), NEW loops \in Seq(FrameType), LoopsOK(codes, loops),
         loops # <<>>,
         NEW inner \in FrameType, Remaining(codes, inner), inner.end \in Place(codes),
         Resumes(codes, loops[Len(loops)], inner)
  PROVE  /\ LoopsOK(codes, Append(loops, inner))
         /\ Append(loops, inner) \in Seq(FrameType)
         /\ Append(loops, inner) # <<>>
         /\ Append(loops, inner)[Len(Append(loops, inner))] = inner
<1> DEFINE n == Len(loops)
           all == Append(loops, inner)
<1>1. n \in Nat /\ n # 0
  OBVIOUS
<1>2. /\ all \in Seq(FrameType) /\ Len(all) = n + 1 /\ all[n + 1] = inner
      /\ \A i \in 1..n : all[i] = loops[i]
  OBVIOUS
<1> HIDE DEF all
<1>3. \A i \in 1..Len(all) : Remaining(codes, all[i]) /\ all[i].end \in Place(codes)
  BY <1>1, <1>2 DEF LoopsOK
<1>4. all[1].kind = "node" /\ all[1].end = Len(codes) + 1
  BY <1>1, <1>2 DEF LoopsOK
<1>5. ASSUME NEW i \in 2..Len(all) PROVE Resumes(codes, all[i - 1], all[i])
  <2>1. CASE i = n + 1
    <3>1. all[i - 1] = loops[n] /\ all[i] = inner
      BY <1>1, <1>2, <2>1
    <3> QED BY <3>1
  <2>2. CASE i # n + 1
    <3>1. i \in 2..n /\ i - 1 \in 1..n /\ i \in 1..n
      BY <1>1, <1>2, <2>2
    <3>2. all[i - 1] = loops[i - 1] /\ all[i] = loops[i]
      BY <1>2, <3>1
    <3> QED BY <3>1, <3>2 DEF LoopsOK
  <2> QED BY <2>1, <2>2
<1>6. all # <<>>
  BY <1>1, <1>2
<1>7. LoopsOK(codes, all)
  BY <1>3, <1>4, <1>5 DEF LoopsOK
<1> QED BY <1>2, <1>6, <1>7 DEF all

(* The innermost loop, of a TOR, goes on with its next alternative.        *)
LEMMA LoopChanges ==
  ASSUME NEW codes \in Seq(CodeWord), NEW loops \in Seq(FrameType), LoopsOK(codes, loops),
         loops # <<>>,
         NEW inner \in FrameType, Remaining(codes, inner),
         inner.kind = loops[Len(loops)].kind, inner.end = loops[Len(loops)].end,
         inner.base = loops[Len(loops)].base
  PROVE  LET all == [loops EXCEPT ![Len(loops)] = inner]
         IN LoopsOK(codes, all) /\ all \in Seq(FrameType) /\ all # <<>> /\ all[Len(all)] = inner
<1> DEFINE n == Len(loops)
           all == [loops EXCEPT ![n] = inner]
<1>1. n \in Nat /\ n # 0
  OBVIOUS
<1>2. /\ all \in Seq(FrameType) /\ Len(all) = n /\ all[n] = inner
      /\ \A i \in 1..n : i # n => all[i] = loops[i]
  BY <1>1
<1> HIDE DEF all
<1>3. \A i \in 1..n : all[i].kind = loops[i].kind /\ all[i].end = loops[i].end
                      /\ all[i].base = loops[i].base
  BY <1>1, <1>2
<1>4. \A i \in 1..n : Remaining(codes, all[i]) /\ all[i].end \in Place(codes)
  BY <1>1, <1>2, <1>3 DEF LoopsOK
<1>5. all[1].kind = "node" /\ all[1].end = Len(codes) + 1
  BY <1>1, <1>3 DEF LoopsOK
<1>6. ASSUME NEW i \in 2..n PROVE Resumes(codes, all[i - 1], all[i])
  <2>1. i - 1 \in 1..n /\ i - 1 # n /\ i \in 1..n
    BY <1>1
  <2>2. all[i - 1] = loops[i - 1]
    BY <1>2, <2>1
  <2>3. Resumes(codes, loops[i - 1], loops[i])
    BY DEF LoopsOK
  <2> QED BY <1>3, <2>1, <2>2, <2>3 DEF Resumes
<1>7. LoopsOK(codes, all)
  BY <1>2, <1>4, <1>5, <1>6 DEF LoopsOK
<1> QED BY <1>1, <1>2, <1>7 DEF all

(* The innermost loop ends, which is not that of the node.                 *)
LEMMA LoopGoes ==
  ASSUME NEW codes \in Seq(CodeWord), NEW loops \in Seq(FrameType), LoopsOK(codes, loops),
         loops # <<>>, loops[Len(loops)].kind # "node"
  PROVE  LET rest == SubSeq(loops, 1, Len(loops) - 1)
         IN /\ LoopsOK(codes, rest)
            /\ rest \in Seq(FrameType) /\ rest # <<>>
            /\ Resumes(codes, rest[Len(rest)], loops[Len(loops)])
            /\ rest[Len(rest)] \in FrameType
            /\ EndOf(rest[Len(rest)]) \in Place(codes)
<1> DEFINE n == Len(loops) - 1
           rest == SubSeq(loops, 1, n)
<1>1. n \in Nat /\ n # 0 /\ Len(loops) = n + 1
  <2>1. Len(loops) \in Nat /\ Len(loops) # 0 /\ Len(loops) \in 1..Len(loops)
    OBVIOUS
  <2>2. Len(loops) # 1
    BY <2>1, LoopIs
  <2> QED BY <2>1, <2>2
<1>2. rest \in Seq(FrameType) /\ Len(rest) = n /\ \A i \in 1..n : rest[i] = loops[i]
  BY <1>1
<1> HIDE DEF rest
<1>3. \A i \in 1..Len(rest) : Remaining(codes, rest[i]) /\ rest[i].end \in Place(codes)
  BY <1>1, <1>2 DEF LoopsOK
<1>4. rest[1].kind = "node" /\ rest[1].end = Len(codes) + 1
  BY <1>1, <1>2 DEF LoopsOK
<1>5. ASSUME NEW i \in 2..Len(rest) PROVE Resumes(codes, rest[i - 1], rest[i])
  <2>1. i \in 2..Len(loops) /\ i - 1 \in 1..n /\ i \in 1..n
    BY <1>1, <1>2
  <2>2. rest[i - 1] = loops[i - 1] /\ rest[i] = loops[i]
    BY <1>2, <2>1
  <2> QED BY <2>1, <2>2 DEF LoopsOK
<1>6. LoopsOK(codes, rest)
  BY <1>3, <1>4, <1>5 DEF LoopsOK
<1>7. rest # <<>> /\ rest[Len(rest)] = loops[n]
  BY <1>1, <1>2
<1>8. Resumes(codes, loops[n], loops[n + 1])
  <2>1. n + 1 \in 2..Len(loops) /\ (n + 1) - 1 = n
    BY <1>1
  <2> QED BY <2>1 DEF LoopsOK
<1>9. loops[n] \in FrameType /\ EndOf(loops[n]) \in Place(codes)
  <2>1. n \in 1..Len(loops)
    BY <1>1
  <2> QED BY <2>1, LoopIs
<1> QED BY <1>1, <1>2, <1>6, <1>7, <1>8, <1>9 DEF rest
-----------------------------------------------------------------------------
(* The innermost loop, before a step.                                      *)
LEMMA InLoop ==
  ASSUME IInv, frames # <<>>
  PROVE  /\ Len(frames) \in 1..Len(frames) /\ Loop \in FrameType /\ Loop.base \in Nat
         /\ Remaining(code, Loop) /\ Loop.end \in Place(code)
         /\ LoopEnd \in Place(code)
         /\ Loop.kind = "node" <=> Len(frames) = 1
         /\ Len(dstack) \in Nat /\ Len(code) \in Nat
<1>1. TypesOK /\ LoopsOK(code, frames)
  BY DEF IInv
<1>2. Len(frames) \in 1..Len(frames) /\ frames \in Seq(FrameType) /\ code \in Seq(CodeWord)
  BY <1>1 DEF TypesOK
<1>3. Len(dstack) \in Nat /\ Len(code) \in Nat
  BY <1>1 DEF TypesOK
<1> QED BY <1>1, <1>2, <1>3, LoopIs DEF Loop, LoopEnd

LEMMA Ended ==
  ASSUME IInv, LoopEnds
  PROVE  Len(dstack) = Loop.base
<1>1. frames # <<>> /\ Running(code, Loop, codeP, Len(dstack), res) /\ res \in {0, 1}
  BY DEF IInv, TypesOK, LoopEnds
<1>2. CASE res = 0
  BY <1>1, <1>2 DEF Running
<1>3. CASE res = 1
  <2>1. AtEnd /\ codeP \in 1..LoopEnd /\ LoopEnd \in Place(code) /\ Loop.base \in Nat
    BY <1>1, <1>3, InLoop DEF Running, LoopEnds, LoopEnd
  <2>2. codeP = LoopEnd
    BY <2>1 DEF AtEnd, Place
  <2>3. Len(dstack) - Loop.base \in Nat /\ Fits(code)[LoopEnd][LoopEnd][Len(dstack) - Loop.base]
    BY <1>1, <1>3, <2>1, <2>2, InLoop DEF Running, LoopEnd
  <2>4. LoopEnd \in 1..(Len(code) + 1) /\ LoopEnd \in Nat /\ code \in Seq(CodeWord)
    BY <1>1, InLoop DEF IInv, TypesOK, Place
  <2>5. Len(dstack) - Loop.base = 0
    BY <2>3, <2>4, FitsWithin
  <2> QED BY <1>1, <2>1, <2>5, InLoop
<1> QED BY <1>1, <1>2, <1>3

LEMMA Goes ==
  ASSUME IInv, frames # <<>>, ~LoopEnds
  PROVE  /\ res = 1 /\ codeP \in 1..Len(code) /\ codeP < LoopEnd
         /\ LoopEnd \in Nat /\ LoopEnd <= Len(code) + 1
         /\ code \in Seq(CodeWord) /\ Fetched \in CodeWord
         /\ Len(dstack) - Loop.base \in Nat
         /\ Fits(code)[codeP][LoopEnd][Len(dstack) - Loop.base]
<1>1. Running(code, Loop, codeP, Len(dstack), res) /\ res \in {0, 1} /\ code \in Seq(CodeWord)
  BY DEF IInv, TypesOK
<1>2. ~(res <= 0) /\ ~AtEnd
  BY DEF LoopEnds
<1>3. res = 1
  BY <1>1, <1>2
<1>4. LoopEnd \in 1..(Len(code) + 1) /\ Loop.base \in Nat /\ Len(dstack) \in Nat /\ Len(code) \in Nat
  BY InLoop DEF Place
<1>5. codeP \in 1..LoopEnd /\ Fits(code)[codeP][LoopEnd][Len(dstack) - Loop.base]
      /\ Len(dstack) >= Loop.base
  BY <1>1, <1>3 DEF Running, LoopEnd
<1>6. codeP # LoopEnd
  BY <1>2, <1>4, <1>5 DEF AtEnd
<1> QED BY <1>1, <1>3, <1>4, <1>5, <1>6 DEF Fetched

(* What is taken from a stack and left in it.                              *)
LEMMA StackTaken ==
  ASSUME NEW V, NEW stack \in Seq(V), NEW n \in Nat, n <= Len(stack), NEW v
  PROVE  LET rest == SubSeq(stack, 1, Len(stack) - n)
         IN /\ rest \in Seq(V) /\ Len(rest) = Len(stack) - n
            /\ rest \o <<v>> \in Seq(V \union {v}) /\ Len(rest \o <<v>>) = Len(stack) - n + 1
<1> DEFINE rest == SubSeq(stack, 1, Len(stack) - n)
<1>1. rest \in Seq(V) /\ Len(rest) = Len(stack) - n
  OBVIOUS
<1> HIDE DEF rest
<1>2. rest \in Seq(V \union {v}) /\ <<v>> \in Seq(V \union {v}) /\ Len(<<v>>) = 1
  BY <1>1
<1>3. rest \o <<v>> \in Seq(V \union {v}) /\ Len(rest \o <<v>>) = Len(rest) + 1
  BY <1>2
<1> QED BY <1>1, <1>3 DEF rest

(* A step inside the innermost loop.                                       *)
LEMMA InsideOK ==
  ASSUME IInv, frames # <<>>, UNCHANGED <<code, frames>>,
         codeP' \in Nat, \E V : dstack' \in Seq(V), res' \in {0, 1},
         Running(code, Loop, codeP', Len(dstack'), res')
  PROVE  IInv'
<1>1. TypesOK'
  BY DEF IInv, TypesOK
<1>2. LoopsOK(code', frames')
  BY DEF IInv
<1>3. Loop' = Loop
  BY DEF Loop
<1>4. Running(code', Loop', codeP', Len(dstack'), res')
  BY <1>3
<1> QED BY <1>1, <1>2, <1>4 DEF IInv

LEMMA LeavesOK ==
  ASSUME IInv, NEW op \in Computing, Executes(op), NEW value, Leaves(Takes(Fetched), value)
  PROVE  IInv'
<1>1. frames # <<>> /\ ~LoopEnds /\ Fetched.op \in Computing
  BY DEF Executes
<1> DEFINE n == Takes(Fetched)
           h == Len(dstack) - Loop.base
<1>2. codeP \in 1..Len(code) /\ codeP < LoopEnd /\ LoopEnd \in Nat /\ h \in Nat
      /\ code \in Seq(CodeWord) /\ Fits(code)[codeP][LoopEnd][h]
  BY <1>1, Goes
<1>3. Loop.base \in Nat /\ Len(dstack) \in Nat
  BY <1>1, InLoop
<1>4. n \in Nat
  BY <1>2, JumpsType DEF Fetched
<1>5. h >= n /\ Fits(code)[codeP + 1][LoopEnd][h - n + 1]
  <2>1. /\ Fetched = code[codeP] /\ code[codeP].op \in Computing
        /\ codeP # LoopEnd
    BY <1>1, <1>2 DEF Fetched
  <2> HIDE DEF h
  <2> QED BY <1>2, <2>1, FitsComputing
<1>6. PICK V : dstack \in Seq(V)
  BY DEF IInv, TypesOK
<1>7. dstack' \in Seq(V \union {value}) /\ Len(dstack') = Len(dstack) - n + 1
  <2>1. dstack' = SubSeq(dstack, 1, Len(dstack) - n) \o <<value>> /\ n <= Len(dstack)
    BY <1>3, <1>4, <1>5 DEF Leaves, Popped
  <2> HIDE DEF n
  <2> QED BY <1>4, <1>6, <2>1, StackTaken
<1>8. codeP' = codeP + 1 /\ res' = 1 /\ UNCHANGED <<code, frames>>
  BY DEF Leaves
<1>9. Running(code, Loop, codeP', Len(dstack'), res')
  <2> HIDE DEF n
  <2>1. Len(dstack') - Loop.base = h - n + 1 /\ Len(dstack') >= Loop.base
    BY <1>3, <1>4, <1>5, <1>7
  <2>2. codeP + 1 \in 1..LoopEnd
    BY <1>2
  <2> QED BY <1>5, <1>8, <2>1, <2>2 DEF Running, LoopEnd
<1> QED BY <1>1, <1>2, <1>7, <1>8, <1>9, InsideOK

LEMMA AnswersOK ==
  ASSUME IInv, NEW op \in Testing, Executes(op), NEW truth, Answers(Takes(Fetched), truth)
  PROVE  IInv'
<1>1. frames # <<>> /\ ~LoopEnds /\ Fetched.op \in Testing
  BY DEF Executes
<1> DEFINE n == Takes(Fetched)
           h == Len(dstack) - Loop.base
<1>2. codeP \in 1..Len(code) /\ codeP < LoopEnd /\ LoopEnd \in Nat /\ h \in Nat
      /\ code \in Seq(CodeWord) /\ Fits(code)[codeP][LoopEnd][h]
  BY <1>1, Goes
<1>3. Loop.base \in Nat /\ Len(dstack) \in Nat
  BY <1>1, InLoop
<1>4. n \in Nat
  BY <1>2, JumpsType DEF Fetched
<1>5. h = n /\ Fits(code)[codeP + 1][LoopEnd][0]
  <2>1. /\ Fetched = code[codeP] /\ code[codeP].op \in Testing
        /\ codeP # LoopEnd
    BY <1>1, <1>2 DEF Fetched
  <2> HIDE DEF h
  <2> QED BY <1>2, <2>1, FitsTesting
<1>6. PICK V : dstack \in Seq(V)
  BY DEF IInv, TypesOK
<1>7. dstack' \in Seq(V) /\ Len(dstack') = Loop.base
  <2>1. dstack' = SubSeq(dstack, 1, Len(dstack) - n) /\ n <= Len(dstack)
    BY <1>3, <1>4, <1>5 DEF Answers, Popped
  <2>2. Len(dstack) - n = Loop.base
    BY <1>3, <1>5
  <2> HIDE DEF n
  <2> QED BY <1>4, <1>6, <2>1, <2>2, StackTaken
<1>8. codeP' = codeP + 1 /\ res' \in {0, 1} /\ UNCHANGED <<code, frames>>
  BY DEF Answers
<1>9. Running(code, Loop, codeP', Len(dstack'), res')
  <2>1. Len(dstack') - Loop.base = 0
    BY <1>3, <1>7
  <2>2. codeP + 1 \in 1..LoopEnd
    BY <1>2
  <2> QED BY <1>3, <1>5, <1>7, <1>8, <2>1, <2>2 DEF Running, LoopEnd
<1> QED BY <1>1, <1>2, <1>7, <1>8, <1>9, InsideOK
-----------------------------------------------------------------------------
(* The loops of EVAL and TOR begin, and end.                               *)
LEMMA BeginsOK ==
  ASSUME IInv, frames # <<>>, ~LoopEnds,
         NEW inner \in FrameType, Begins(inner),
         Remaining(code, inner), inner.end \in Place(code), Resumes(code, Loop, inner),
         inner.base = Len(dstack),
         codeP + 1 <= EndOf(inner), Fits(code)[codeP + 1][EndOf(inner)][0]
  PROVE  IInv'
<1>1. /\ code' = code /\ dstack' = dstack /\ frames' = Append(frames, inner)
      /\ codeP' = codeP + 1 /\ res' = 1
  BY DEF Begins
<1>2. code \in Seq(CodeWord) /\ frames \in Seq(FrameType) /\ LoopsOK(code, frames)
  BY DEF IInv, TypesOK
<1>3. codeP \in 1..Len(code) /\ Len(dstack) \in Nat
  BY Goes, InLoop
<1>4. /\ LoopsOK(code, Append(frames, inner)) /\ Append(frames, inner) \in Seq(FrameType)
      /\ Append(frames, inner)[Len(Append(frames, inner))] = inner
  BY <1>2, LoopBegins DEF Loop
<1>5. TypesOK'
  BY <1>1, <1>3, <1>4 DEF IInv, TypesOK
<1>6. Loop' = inner
  BY <1>1, <1>4 DEF Loop
<1>7. EndOf(inner) \in Place(code)
  BY <1>2, EndIs
<1>8. Running(code, inner, codeP + 1, Len(dstack), 1)
  <2>1. codeP + 1 \in 1..EndOf(inner)
    BY <1>3, <1>7 DEF Place
  <2>2. Len(dstack) - inner.base = 0
    BY <1>3
  <2> QED BY <1>3, <2>1, <2>2 DEF Running
<1> QED BY <1>1, <1>4, <1>5, <1>6, <1>8 DEF IInv

LEMMA EvalCallOK ==
  ASSUME IInv, EvalCall
  PROVE  IInv'
<1>1. frames # <<>> /\ ~LoopEnds /\ Fetched.op = "EVAL"
  BY DEF EvalCall, Executes
<1>2. PICK p \in 1..Len(code), e \in Nat, h \in Nat, n \in Nat :
         /\ p = codeP /\ e = LoopEnd /\ h = Len(dstack) - Loop.base /\ n = Fetched.len
         /\ p < e /\ e <= Len(code) + 1 /\ code[p].op = "EVAL" /\ code[p].len = n
         /\ code \in Seq(CodeWord) /\ Fits(code)[p][e][h]
  <2>1. Fetched.len \in Nat /\ Fetched = code[codeP]
    BY <1>1, Goes DEF Fetched, CodeWord
  <2>2. /\ codeP \in 1..Len(code) /\ LoopEnd \in Nat /\ Len(dstack) - Loop.base \in Nat
        /\ codeP < LoopEnd /\ LoopEnd <= Len(code) + 1 /\ code \in Seq(CodeWord)
        /\ Fits(code)[codeP][LoopEnd][Len(dstack) - Loop.base]
    BY <1>1, Goes
  <2> QED BY <1>1, <2>1, <2>2, Zenon
<1>3. p + 1 + n <= e /\ Fits(code)[p + 1][p + 1 + n][0] /\ Fits(code)[p + 1 + n][e][h + 1]
  <2>1. /\ p + 1 + code[p].len <= e /\ Fits(code)[p + 1][p + 1 + code[p].len][0]
        /\ Fits(code)[p + 1 + code[p].len][e][h + 1]
    <3>1. p # e
      BY <1>2
    <3> QED BY <1>2, <3>1, FitsEval
  <2>2. code[p].len = n
    BY <1>2
  <2> QED BY <2>1, <2>2, Zenon
<1>4. Loop.base \in Nat /\ Len(dstack) \in Nat
  BY <1>1, InLoop
<1> DEFINE inner == Frame("eval", p + 1 + n, <<>>)
<1>5. /\ inner \in FrameType /\ inner.kind = "eval" /\ inner.end = p + 1 + n
      /\ inner.base = Len(dstack) /\ EndOf(inner) = p + 1 + n
  BY <1>4 DEF Frame, FrameType, EndOf
<1>6. Begins(inner)
  BY <1>2 DEF EvalCall
<1> HIDE DEF inner
<1>7. Remaining(code, inner)
  BY <1>5 DEF Remaining
<1>8. inner.end \in Place(code)
  BY <1>2, <1>3, <1>5 DEF Place
<1>9. Resumes(code, Loop, inner)
  BY <1>2, <1>3, <1>4, <1>5 DEF Resumes, LoopEnd
<1>10. codeP + 1 <= EndOf(inner) /\ Fits(code)[codeP + 1][EndOf(inner)][0]
  BY <1>2, <1>3, <1>5
<1> QED BY <1>1, <1>5, <1>6, <1>7, <1>8, <1>9, <1>10, BeginsOK

LEMMA TorCallOK ==
  ASSUME IInv, TorCall
  PROVE  IInv'
<1>1. frames # <<>> /\ ~LoopEnds /\ Fetched.op = "TOR"
  BY DEF TorCall, Executes
<1>2. PICK p \in 1..Len(code), e \in Nat, h \in Nat, jumps \in Seq(Nat) :
         /\ p = codeP /\ e = LoopEnd /\ h = Len(dstack) - Loop.base /\ jumps = Jumps(code, p)
         /\ p < e /\ e <= Len(code) + 1 /\ code[p].op = "TOR"
         /\ code \in Seq(CodeWord) /\ Fits(code)[p][e][h]
         /\ \A i \in DOMAIN jumps : jumps[i] > p
  BY <1>1, Goes, JumpsType DEF Fetched
<1> DEFINE n == Len(jumps)
<1>3. /\ h = 0 /\ jumps # <<>>
      /\ \A i \in DOMAIN jumps : jumps[i] <= e
      /\ \A i \in DOMAIN jumps : Fits(code)[(<<p + 1>> \o jumps)[i]][jumps[i]][0]
      /\ Fits(code)[jumps[n]][e][0]
  <2>1. p # e
    BY <1>2
  <2>2. h = 0 /\ TorFits(code, p, e, Jumps(code, p))
    BY <1>2, <2>1, FitsTor
  <2>3. jumps = Jumps(code, p)
    BY <1>2
  <2> QED BY <2>2, <2>3, Zenon DEF TorFits
<1>4. /\ n \in 1..n /\ 1 \in 1..n /\ DOMAIN jumps = 1..n /\ Head(jumps) = jumps[1]
      /\ (<<p + 1>> \o jumps)[1] = p + 1
      /\ \A i \in 1..n : i # 1 => (<<p + 1>> \o jumps)[i] = jumps[i - 1] /\ i - 1 \in 1..n
      /\ \A i \in 1..n : jumps[i] \in Nat
  <2>1. n \in Nat /\ n # 0 /\ DOMAIN jumps = 1..n /\ Head(jumps) = jumps[1]
    BY <1>2, <1>3
  <2>2. <<p + 1>> \in Seq(Nat) /\ Len(<<p + 1>>) = 1 /\ <<p + 1>>[1] = p + 1
    BY <1>2
  <2>3. (<<p + 1>> \o jumps)[1] = p + 1
    BY <1>2, <2>2, <2>1
  <2>4. \A i \in 1..n : i # 1 => (<<p + 1>> \o jumps)[i] = jumps[i - 1] /\ i - 1 \in 1..n
    BY <1>2, <2>2, <2>1
  <2> QED BY <2>1, <2>3, <2>4
<1>5. \A i \in 1..n : jumps[i] \in 1..(Len(code) + 1) /\ p + 1 <= jumps[i]
  <2> TAKE i \in 1..n
  <2>1. jumps[i] \in Nat /\ jumps[i] <= e /\ jumps[i] > p
    BY <1>2, <1>3, <1>4
  <2>2. p \in Nat /\ e \in Nat /\ e <= Len(code) + 1 /\ Len(code) \in Nat
    BY <1>2
  <2> QED BY <2>1, <2>2
<1>7. Loop.base \in Nat /\ Len(dstack) \in Nat
  BY <1>1, InLoop
<1> DEFINE inner == Frame("tor", jumps[n], jumps)
<1>8. /\ inner \in FrameType /\ inner.kind = "tor" /\ inner.end = jumps[n]
      /\ inner.base = Len(dstack) /\ EndOf(inner) = jumps[1] /\ inner.jumps = jumps
  BY <1>2, <1>4, <1>7 DEF Frame, FrameType, EndOf
<1>9. Begins(inner)
  BY <1>2 DEF TorCall
<1> HIDE DEF inner
<1>10. Remaining(code, inner)
  <2>1. ASSUME NEW j \in 1..(n - 1) PROVE Fits(code)[jumps[j]][jumps[j + 1]][0]
    <3>1. j + 1 \in 1..n /\ j + 1 # 1 /\ (j + 1) - 1 = j
      BY <1>4
    <3>2. (<<p + 1>> \o jumps)[j + 1] = jumps[j]
      BY <1>4, <3>1
    <3>3. Fits(code)[(<<p + 1>> \o jumps)[j + 1]][jumps[j + 1]][0]
      BY <1>3, <1>4, <3>1
    <3> QED BY <3>2, <3>3
  <2> QED BY <1>3, <1>5, <1>8, <2>1 DEF Remaining, Place
<1>11. inner.end \in Place(code)
  BY <1>4, <1>5, <1>8 DEF Place
<1>12. Resumes(code, Loop, inner)
  BY <1>2, <1>3, <1>4, <1>7, <1>8 DEF Resumes, LoopEnd
<1>13. codeP + 1 <= EndOf(inner) /\ Fits(code)[codeP + 1][EndOf(inner)][0]
  <2>1. Fits(code)[(<<p + 1>> \o jumps)[1]][jumps[1]][0]
    BY <1>3, <1>4
  <2> QED BY <1>2, <1>4, <1>5, <1>8, <2>1
<1> QED BY <1>1, <1>8, <1>9, <1>10, <1>11, <1>12, <1>13, BeginsOK
(* The loop that goes on after an EVAL or a TOR ends.                      *)
LEMMA GoesOn ==
  ASSUME IInv, LoopEnds, Loop.kind # "node"
  PROVE  LET rest == SubSeq(frames, 1, Len(frames) - 1)
         IN /\ LoopsOK(code, rest) /\ rest \in Seq(FrameType) /\ rest # <<>>
            /\ Resumes(code, rest[Len(rest)], Loop)
            /\ rest[Len(rest)].base \in Nat
            /\ EndOf(rest[Len(rest)]) \in Place(code)
<1>1. frames \in Seq(FrameType) /\ frames # <<>> /\ LoopsOK(code, frames) /\ code \in Seq(CodeWord)
  BY DEF IInv, TypesOK, LoopEnds
<1> DEFINE rest == SubSeq(frames, 1, Len(frames) - 1)
<1>2. /\ LoopsOK(code, rest) /\ rest \in Seq(FrameType) /\ rest # <<>>
      /\ Resumes(code, rest[Len(rest)], Loop)
      /\ rest[Len(rest)] \in FrameType
      /\ EndOf(rest[Len(rest)]) \in Place(code)
  BY <1>1, LoopGoes DEF Loop
<1> HIDE DEF rest
<1>3. rest[Len(rest)].base \in Nat
  BY <1>2 DEF FrameType
<1> QED BY <1>2, <1>3 DEF rest

LEMMA EndsOK ==
  ASSUME IInv, LoopEnds, Loop.kind # "node",
         code' = code, frames' = SubSeq(frames, 1, Len(frames) - 1), codeP' = Loop.end,
         \E V : dstack' \in Seq(V),
         \/ Loop.kind = "eval" /\ Len(dstack') = Loop.base + 1 /\ res' = 1
         \/ Loop.kind = "tor" /\ Len(dstack') = Loop.base /\ res' \in {0, 1}
  PROVE  IInv'
<1>0. frames # <<>>
  BY DEF LoopEnds
<1> DEFINE rest == SubSeq(frames, 1, Len(frames) - 1)
<1>1. PICK outer : outer = rest[Len(rest)]
  OBVIOUS
<1>2. /\ LoopsOK(code, rest) /\ rest \in Seq(FrameType) /\ rest # <<>>
      /\ Resumes(code, outer, Loop) /\ outer.base \in Nat /\ EndOf(outer) \in Place(code)
  BY <1>1, GoesOn
<1>3. frames' = rest /\ Loop' = outer
  BY <1>1 DEF Loop
<1> HIDE DEF rest
<1>4. Loop.end \in Place(code) /\ Loop.base \in Nat /\ Len(code) \in Nat
  BY <1>0, InLoop
<1>5. TypesOK'
  <2>1. code' \in Seq(CodeWord) /\ frames' \in Seq(FrameType)
    BY <1>2, <1>3 DEF IInv, TypesOK
  <2>2. codeP' \in Nat
    BY <1>4 DEF Place
  <2>3. res' \in {0, 1}
    OBVIOUS
  <2> QED BY <2>1, <2>2, <2>3 DEF TypesOK
<1>6. Loop.end \in 1..EndOf(outer) /\ Loop.base >= outer.base
  BY <1>2, <1>4 DEF Resumes, Place
<1>7. Running(code, outer, Loop.end, Len(dstack'), res')
  <2>1. CASE Loop.kind = "eval" /\ Len(dstack') = Loop.base + 1 /\ res' = 1
    <3>1. Len(dstack') - outer.base = Loop.base - outer.base + 1 /\ Len(dstack') >= outer.base
      BY <1>2, <1>4, <1>6, <2>1
    <3>2. Fits(code)[Loop.end][EndOf(outer)][Loop.base - outer.base + 1]
      BY <1>2, <2>1 DEF Resumes
    <3> QED BY <1>6, <2>1, <3>1, <3>2 DEF Running
  <2>2. CASE Loop.kind = "tor" /\ Len(dstack') = Loop.base /\ res' \in {0, 1}
    <3>1. Loop.base = outer.base /\ Fits(code)[Loop.end][EndOf(outer)][0]
      BY <1>2, <2>2 DEF Resumes
    <3>2. Len(dstack') - outer.base = 0 /\ Len(dstack') >= outer.base
      BY <1>2, <2>2, <3>1
    <3> QED BY <1>6, <2>2, <3>1, <3>2 DEF Running
  <2> QED BY <2>1, <2>2
<1> QED BY <1>2, <1>3, <1>5, <1>7 DEF IInv

LEMMA EvalEndsOK ==
  ASSUME IInv, EvalEnds
  PROVE  IInv'
<1>1. LoopEnds /\ Loop.kind = "eval" /\ Len(dstack) = Loop.base
  BY Ended DEF EvalEnds
<1>2. PICK V : dstack \in Seq(V)
  BY DEF IInv, TypesOK
<1>3. dstack' \in Seq(V \union {res}) /\ Len(dstack') = Len(dstack) + 1
  <2>1. dstack \in Seq(V \union {res}) /\ dstack' = Append(dstack, res)
    BY <1>2 DEF EvalEnds
  <2> QED BY <2>1
<1>4. /\ code' = code /\ frames' = SubSeq(frames, 1, Len(frames) - 1)
      /\ codeP' = Loop.end /\ res' = 1
  BY DEF EvalEnds
<1>5. Len(dstack') = Loop.base + 1
  BY <1>1, <1>3
<1> QED BY <1>1, <1>3, <1>4, <1>5, EndsOK

LEMMA AlternativePassesOK ==
  ASSUME IInv, AlternativePasses
  PROVE  IInv'
<1>1. LoopEnds /\ Loop.kind = "tor" /\ Len(dstack) = Loop.base
  BY Ended DEF AlternativePasses
<1>2. /\ code' = code /\ frames' = SubSeq(frames, 1, Len(frames) - 1)
      /\ codeP' = Loop.end /\ res' = res /\ dstack' = dstack
  BY DEF AlternativePasses
<1>3. (\E V : dstack \in Seq(V)) /\ res \in {0, 1}
  BY DEF IInv, TypesOK
<1> QED BY <1>1, <1>2, <1>3, EndsOK

LEMMA TailIs ==
  ASSUME NEW s \in Seq(Nat), Len(s) > 1
  PROVE  /\ Tail(s) \in Seq(Nat) /\ Tail(s) # <<>> /\ Len(Tail(s)) = Len(s) - 1
         /\ Len(s) \in Nat /\ Head(Tail(s)) = s[2] /\ Head(s) = s[1]
         /\ \A j \in 1..Len(Tail(s)) : Tail(s)[j] = s[j + 1]
<1>1. Len(s) \in Nat /\ Tail(s) \in Seq(Nat) /\ Len(Tail(s)) = Len(s) - 1
  OBVIOUS
<1>2. \A j \in 1..Len(Tail(s)) : Tail(s)[j] = s[j + 1]
  OBVIOUS
<1>3. \A t \in Seq(Nat) : Len(t) > 0 => t # <<>> /\ Head(t) = t[1]
  OBVIOUS
<1>4. Tail(s)[1] = s[2]
  <2>1. 1 \in 1..Len(Tail(s)) /\ 1 + 1 = 2
    BY <1>1
  <2>2. Tail(s)[1] = s[1 + 1]
    BY <1>2, <2>1, Zenon
  <2> QED BY <2>1, <2>2
<1>5. Tail(s) # <<>> /\ Head(Tail(s)) = Tail(s)[1]
  <2>1. Len(Tail(s)) > 0
    BY <1>1
  <2> QED BY <1>1, <1>3, <2>1, Zenon
<1>6. Head(s) = s[1]
  <2>1. Len(s) > 0
    BY <1>1
  <2> QED BY <1>3, <2>1, Zenon
<1> QED BY <1>1, <1>2, <1>4, <1>5, <1>6

LEMMA AlternativeFailsOK ==
  ASSUME IInv, AlternativeFails
  PROVE  IInv'
<1>1. /\ LoopEnds /\ frames # <<>> /\ Loop.kind = "tor" /\ Len(dstack) = Loop.base
      /\ code' = code /\ dstack' = dstack /\ codeP' = Head(Loop.jumps)
  BY Ended DEF AlternativeFails, LoopEnds
<1>2. PICK loop \in FrameType : loop = Loop
  BY <1>1, InLoop
<1> DEFINE jumps == loop.jumps
<1>3. /\ jumps \in Seq(Nat) /\ jumps # <<>> /\ loop.end = jumps[Len(jumps)]
      /\ loop.kind = "tor" /\ loop.base \in Nat
      /\ \A j \in 1..Len(jumps) : jumps[j] \in Place(code)
      /\ \A j \in 1..(Len(jumps) - 1) : Fits(code)[jumps[j]][jumps[j + 1]][0]
  BY <1>1, <1>2, InLoop DEF Remaining, FrameType
<1>4. (\E V : dstack \in Seq(V)) /\ res \in {0, 1}
  BY DEF IInv, TypesOK
<1>5. CASE Len(jumps) = 1
  <2>1. frames' = SubSeq(frames, 1, Len(frames) - 1) /\ res' = res
    BY <1>2, <1>5 DEF AlternativeFails
  <2>2. Head(jumps) = loop.end
    BY <1>3, <1>5
  <2> QED BY <1>1, <1>2, <1>4, <2>1, <2>2, EndsOK
<1>6. CASE Len(jumps) > 1
  <2> DEFINE rest == Tail(jumps)
             inner == [loop EXCEPT !.jumps = rest]
             n == Len(frames)
  <2>1. frames' = [frames EXCEPT ![n].jumps = Tail(@)] /\ res' = 1
    BY <1>2, <1>6 DEF AlternativeFails
  <2>2. /\ rest \in Seq(Nat) /\ rest # <<>> /\ Len(rest) = Len(jumps) - 1
        /\ Len(jumps) \in Nat /\ Head(rest) = jumps[2] /\ Head(jumps) = jumps[1]
        /\ \A j \in 1..Len(rest) : rest[j] = jumps[j + 1]
    BY <1>3, <1>6, TailIs
  <2>3. /\ inner \in FrameType /\ inner.kind = "tor" /\ inner.end = loop.end
        /\ inner.base = loop.base /\ inner.jumps = rest
    BY <1>3, <2>2 DEF FrameType
  <2>4. frames \in Seq(FrameType) /\ code \in Seq(CodeWord) /\ LoopsOK(code, frames) /\ codeP \in Nat
    BY DEF IInv, TypesOK
  <2>5. n \in 1..n /\ loop = frames[n]
    BY <1>1, <1>2, InLoop DEF Loop
  <2>6. frames' = [frames EXCEPT ![n] = inner]
    BY <2>1, <2>4, <2>5
  <2> HIDE DEF rest, inner, jumps
  <2>7. Remaining(code, inner)
    <3>1. rest[Len(rest)] = inner.end
      BY <1>3, <1>6, <2>2, <2>3
    <3>2. ASSUME NEW j \in 1..Len(rest) PROVE rest[j] \in Place(code)
      <4>1. j + 1 \in 1..Len(jumps)
        BY <2>2
      <4> QED BY <1>3, <2>2, <4>1
    <3>3. ASSUME NEW j \in 1..(Len(rest) - 1) PROVE Fits(code)[rest[j]][rest[j + 1]][0]
      <4>1. PICK k \in 1..(Len(jumps) - 1) : k = j + 1
        BY <2>2
      <4>2. j \in 1..Len(rest) /\ k \in 1..Len(rest)
        BY <2>2, <4>1
      <4>3. rest[j] = jumps[k] /\ rest[k] = jumps[k + 1]
        BY <2>2, <4>1, <4>2
      <4> QED BY <1>3, <4>1, <4>3
    <3> QED BY <2>2, <2>3, <3>1, <3>2, <3>3 DEF Remaining
  <2>8. /\ LoopsOK(code, frames') /\ frames' \in Seq(FrameType) /\ frames' # <<>>
        /\ frames'[Len(frames')] = inner
    <3>1. frames # <<>> /\ inner.kind = frames[n].kind /\ inner.end = frames[n].end
          /\ inner.base = frames[n].base
      BY <1>1, <1>3, <2>3, <2>5
    <3> QED BY <2>3, <2>4, <2>6, <2>7, <3>1, LoopChanges
  <2>9. Fits(code)[jumps[1]][jumps[2]][0] /\ jumps[1] \in Place(code) /\ jumps[2] \in Place(code)
    <3>1. 1 \in 1..Len(jumps) /\ 2 \in 1..Len(jumps) /\ 1 \in 1..(Len(jumps) - 1) /\ 1 + 1 = 2
      BY <1>6, <2>2
    <3>2. Fits(code)[jumps[1]][jumps[1 + 1]][0]
      BY <1>3, <3>1
    <3> QED BY <1>3, <3>1, <3>2
  <2>10. jumps[1] \in 1..jumps[2] /\ jumps[1] \in Nat
    <3>1. jumps[1] \in 1..(Len(code) + 1) /\ jumps[2] \in 1..(Len(code) + 1) /\ Len(code) \in Nat
      BY <2>4, <2>9 DEF Place
    <3>2. jumps[2] \in Nat
      BY <3>1
    <3>3. jumps[1] # jumps[2] => jumps[1] < jumps[2]
      BY <2>4, <2>9, <3>1, <3>2, FitsWithin
    <3> QED BY <3>1, <3>3
  <2>11. EndOf(inner) = jumps[2]
    BY <2>2, <2>3 DEF EndOf
  <2>12. codeP' = jumps[1]
    BY <1>1, <1>2, <2>2 DEF jumps
  <2>13. Running(code, inner, codeP', Len(dstack'), res')
    <3>1. Len(dstack') = inner.base /\ Len(dstack') - inner.base = 0
      BY <1>1, <1>2, <1>3, <2>3
    <3> QED BY <1>3, <2>1, <2>3, <2>9, <2>10, <2>11, <2>12, <3>1 DEF Running
  <2>14. TypesOK'
    BY <1>1, <1>4, <2>1, <2>4, <2>8, <2>10, <2>12 DEF TypesOK
  <2>15. Loop' = inner
    BY <2>8 DEF Loop
  <2> QED BY <1>1, <2>8, <2>13, <2>14, <2>15 DEF IInv
<1>7. Len(jumps) = 1 \/ Len(jumps) > 1
  <2>1. Len(jumps) \in Nat /\ Len(jumps) # 0
    BY <1>3
  <2> HIDE DEF jumps
  <2> QED BY <2>1
<1> QED BY <1>5, <1>6, <1>7, Zenon
-----------------------------------------------------------------------------
(* A node begins, and ends.                                                *)
LEMMA CodeBeginsOK ==
  ASSUME IInv, CodeBegins
  PROVE  IInv'
<1> DEFINE loop == [kind |-> "node", end |-> Len(code') + 1, jumps |-> <<>>, base |-> 0]
<1>1. /\ code' \in Seq(CodeWord) /\ Fits(code')[1][Len(code') + 1][0]
      /\ codeP' = 1 /\ dstack' = <<>> /\ res' = 1 /\ frames' = <<loop>>
  BY DEF CodeBegins, Balanced, ExecuteCode, Frame
<1>2. loop \in FrameType /\ loop.kind = "node" /\ loop.end = Len(code') + 1 /\ loop.base = 0
      /\ EndOf(loop) = Len(code') + 1 /\ Len(code') \in Nat
  BY <1>1 DEF FrameType, EndOf
<1> HIDE DEF loop
<1>3. /\ frames' \in Seq(FrameType) /\ Len(frames') = 1 /\ frames'[1] = loop
      /\ frames' # <<>> /\ Loop' = loop
  BY <1>1, <1>2 DEF Loop
<1>4. LoopsOK(code', frames')
  BY <1>2, <1>3 DEF LoopsOK, Remaining, Place
<1>5. dstack' \in Seq({}) /\ Len(dstack') = 0
  BY <1>1
<1>6. TypesOK'
  BY <1>1, <1>3, <1>5 DEF TypesOK
<1>7. Running(code', loop, codeP', Len(dstack'), res')
  BY <1>1, <1>2, <1>5 DEF Running
<1> QED BY <1>3, <1>4, <1>6, <1>7 DEF IInv

LEMMA CodeEndsOK ==
  ASSUME IInv, CodeEnds
  PROVE  IInv'
<1>1. frames' = <<>> /\ UNCHANGED <<code, codeP, dstack, res>>
  BY DEF CodeEnds
<1>2. TypesOK'
  BY <1>1 DEF IInv, TypesOK
<1>3. LoopsOK(code', frames')
  BY <1>1 DEF LoopsOK
<1> QED BY <1>1, <1>2, <1>3 DEF IInv

(* Every instruction that computes takes its values and leaves one.        *)
LEMMA TakesIs ==
  /\ Fetched.op \in {"PUSH", "PUSHS", "COUNT", "SUMS", "PRDS", "MINS", "MAXS"} => Takes(Fetched) = 0
  /\ Fetched.op \in {"CONCS", "MINUS", "NOT", "TTRUE", "TFALSE"} => Takes(Fetched) = 1
  /\ Fetched.op \in {"ADD", "SUB", "MUL", "DIV"} => Takes(Fetched) = 2
  /\ Fetched.op \in {"TEQ", "TNE", "TLT", "TLE", "TGE", "TGT"} => Takes(Fetched) = 2
  /\ Fetched.op = "FCALL" => Takes(Fetched) = Fetched.len
BY DEF Takes, Testing

LEMMA ComputingOK ==
  ASSUME IInv,
         \/ PushCall \/ PushsCall \/ CountCall \/ SumsCall \/ PrdsCall \/ MinsCall \/ MaxsCall
         \/ ConcatCall \/ ArithmeticCall \/ MinusCall \/ NotCall \/ UserFuncCall
  PROVE  IInv'
<1>1. ASSUME NEW op \in Computing, NEW n, NEW v, Executes(op), Leaves(n, v), Takes(Fetched) = n
      PROVE  IInv'
  BY <1>1, LeavesOK
<1>2. CASE PushCall
  <2>1. Executes("PUSH") /\ Fetched.op = "PUSH" /\ \E v : Leaves(0, v)
    BY <1>2 DEF PushCall, Executes
  <2> QED BY <1>1, <2>1, TakesIs DEF Computing
<1>3. CASE PushsCall
  <2>1. Executes("PUSHS") /\ Fetched.op = "PUSHS" /\ \E v : Leaves(0, v)
    BY <1>3 DEF PushsCall, Executes
  <2> QED BY <1>1, <2>1, TakesIs DEF Computing
<1>4. CASE CountCall
  <2>1. Executes("COUNT") /\ Fetched.op = "COUNT" /\ \E v : Leaves(0, v)
    BY <1>4 DEF CountCall, Executes
  <2> QED BY <1>1, <2>1, TakesIs DEF Computing
<1>5. CASE SumsCall
  <2>1. Executes("SUMS") /\ Fetched.op = "SUMS" /\ \E v : Leaves(0, v)
    BY <1>5 DEF SumsCall, Executes
  <2> QED BY <1>1, <2>1, TakesIs DEF Computing
<1>6. CASE PrdsCall
  <2>1. Executes("PRDS") /\ Fetched.op = "PRDS" /\ \E v : Leaves(0, v)
    BY <1>6 DEF PrdsCall, Executes
  <2> QED BY <1>1, <2>1, TakesIs DEF Computing
<1>7. CASE MinsCall
  <2>1. Executes("MINS") /\ Fetched.op = "MINS" /\ \E v : Leaves(0, v)
    BY <1>7 DEF MinsCall, Executes
  <2> QED BY <1>1, <2>1, TakesIs DEF Computing
<1>8. CASE MaxsCall
  <2>1. Executes("MAXS") /\ Fetched.op = "MAXS" /\ \E v : Leaves(0, v)
    BY <1>8 DEF MaxsCall, Executes
  <2> QED BY <1>1, <2>1, TakesIs DEF Computing
<1>9. CASE ConcatCall
  <2>1. Executes("CONCS") /\ Fetched.op = "CONCS" /\ \E v : Leaves(1, v)
    BY <1>9 DEF ConcatCall, Executes
  <2> QED BY <1>1, <2>1, TakesIs DEF Computing
<1>10. CASE MinusCall
  <2>1. Executes("MINUS") /\ Fetched.op = "MINUS" /\ \E v : Leaves(1, v)
    BY <1>10 DEF MinusCall, Executes
  <2> QED BY <1>1, <2>1, TakesIs DEF Computing
<1>11. CASE NotCall
  <2>1. Executes("NOT") /\ Fetched.op = "NOT" /\ \E v : Leaves(1, v)
    BY <1>11 DEF NotCall, Executes
  <2> QED BY <1>1, <2>1, TakesIs DEF Computing
<1>12. CASE ArithmeticCall
  <2>1. PICK op \in {"ADD", "SUB", "MUL", "DIV"} : Executes(op) /\ \E v : Leaves(2, v)
    BY <1>12 DEF ArithmeticCall
  <2>2. Fetched.op = op
    BY <2>1 DEF Executes
  <2> QED BY <1>1, <2>1, <2>2, TakesIs DEF Computing
<1>13. CASE UserFuncCall
  <2>1. Executes("FCALL") /\ Fetched.op = "FCALL" /\ \E v : Leaves(Fetched.len, v)
    BY <1>13 DEF UserFuncCall, Executes
  <2> QED BY <1>1, <2>1, TakesIs DEF Computing
<1> QED BY <1>2, <1>3, <1>4, <1>5, <1>6, <1>7, <1>8, <1>9, <1>10, <1>11, <1>12, <1>13

LEMMA TestingOK ==
  ASSUME IInv, TestCall \/ TTrueCall \/ TFalseCall
  PROVE  IInv'
<1>1. ASSUME NEW op \in Testing, NEW n, NEW b, Executes(op), Answers(n, b), Takes(Fetched) = n
      PROVE  IInv'
  BY <1>1, AnswersOK
<1>2. CASE TestCall
  <2>1. PICK op \in {"TEQ", "TNE", "TLT", "TLE", "TGE", "TGT"} : Executes(op) /\ \E b : Answers(2, b)
    BY <1>2 DEF TestCall
  <2>2. Fetched.op = op
    BY <2>1 DEF Executes
  <2> QED BY <1>1, <2>1, <2>2, TakesIs DEF Testing
<1>3. CASE TTrueCall
  <2>1. Executes("TTRUE") /\ Fetched.op = "TTRUE" /\ \E b : Answers(1, b)
    BY <1>3 DEF TTrueCall, Executes
  <2> QED BY <1>1, <2>1, TakesIs DEF Testing
<1>4. CASE TFalseCall
  <2>1. Executes("TFALSE") /\ Fetched.op = "TFALSE" /\ \E b : Answers(1, b)
    BY <1>4 DEF TFalseCall, Executes
  <2> QED BY <1>1, <2>1, TakesIs DEF Testing
<1> QED BY <1>2, <1>3, <1>4

-----------------------------------------------------------------------------
LEMMA InitOK == MachineInit => IInv
<1> SUFFICES ASSUME MachineInit PROVE IInv
  OBVIOUS
<1>1. frames = <<>> /\ code = <<>> /\ codeP = 1 /\ dstack = <<>> /\ res = 1
  BY DEF MachineInit
<1>2. TypesOK
  <2>1. dstack \in Seq({})
    BY <1>1
  <2> QED BY <1>1, <2>1 DEF TypesOK
<1>3. LoopsOK(code, frames)
  BY <1>1 DEF LoopsOK
<1> QED BY <1>1, <1>2, <1>3 DEF IInv

LEMMA NextOK == IInv /\ [MachineNext]_machine => IInv'
<1> SUFFICES ASSUME IInv, [MachineNext]_machine PROVE IInv'
  OBVIOUS
<1>1. CASE UNCHANGED machine
  <2>1. TypesOK'
    BY <1>1 DEF IInv, TypesOK, machine
  <2>2. LoopsOK(code', frames')
    BY <1>1 DEF IInv, machine
  <2>3. frames' # <<>> => Running(code', Loop', codeP', Len(dstack'), res')
    BY <1>1 DEF IInv, machine, Loop
  <2> QED BY <2>1, <2>2, <2>3 DEF IInv
<1>2. CASE CodeBegins
  BY <1>2, CodeBeginsOK
<1>3. CASE Instruction
  BY <1>3, ComputingOK, TestingOK, EvalCallOK, TorCallOK, EvalEndsOK, AlternativePassesOK,
     AlternativeFailsOK DEF Instruction
<1>4. CASE CodeEnds
  BY <1>4, CodeEndsOK
<1> QED BY <1>1, <1>2, <1>3, <1>4 DEF MachineNext

LEMMA Always == MachineSpec => []IInv
BY InitOK, NextOK, PTL DEF MachineSpec

(* The loops began at ascending heights of the stack.                      *)
LEMMA BasesAscend ==
  ASSUME NEW codes \in Seq(CodeWord), NEW loops \in Seq(FrameType), LoopsOK(codes, loops),
         NEW i \in 1..Len(loops)
  PROVE  loops[i].base <= loops[Len(loops)].base
<1>1. PICK n \in Nat : n = Len(loops)
  OBVIOUS
<1>2. \A j \in 1..n : loops[j].base \in Nat
  BY <1>1, LoopIs
<1>3. ASSUME NEW j \in 1..n, j # 1 PROVE loops[j - 1].base <= loops[j].base
  <2>1. j \in 2..n /\ j - 1 \in 1..n
    BY <1>3
  <2>2. Resumes(codes, loops[j - 1], loops[j])
    BY <1>1, <2>1 DEF LoopsOK
  <2>3. loops[j].base >= loops[j - 1].base
    BY <2>2 DEF Resumes
  <2> QED BY <1>2, <2>1, <2>3
<1> DEFINE above == {k \in 0..(n - 1) : loops[n - k].base > loops[n].base}
<1>4. ASSUME NEW k \in above PROVE k - 1 \in above
  <2>1. k \in 0..(n - 1) /\ loops[n - k].base > loops[n].base
    OBVIOUS
  <2>2. PICK j \in 1..n : j = n - k
    BY <2>1
  <2>3. k # 0
    BY <1>2, <2>1
  <2>4. j + 1 \in 1..n /\ j + 1 # 1 /\ j + 1 = n - (k - 1) /\ k - 1 \in 0..(n - 1)
    BY <2>1, <2>2, <2>3
  <2>5. loops[j].base <= loops[j + 1].base
    <3>1. PICK l \in 1..n : l = j + 1 /\ l # 1 /\ l - 1 = j
      BY <2>4
    <3> QED BY <1>3, <3>1
  <2>6. loops[j].base \in Nat /\ loops[j + 1].base \in Nat /\ loops[n].base \in Nat
    BY <1>2, <2>1, <2>4
  <2>7. loops[n - (k - 1)].base > loops[n].base
    BY <2>1, <2>2, <2>4, <2>5, <2>6
  <2> QED BY <2>4, <2>7
<1>5. above \in SUBSET Nat
  OBVIOUS
<1>6. above = {}
  <2> HIDE DEF above
  <2> SUFFICES ASSUME above # {} PROVE FALSE
    OBVIOUS
  <2>1. PICK k \in above : \A m \in above : k <= m
    BY <1>5, LeastNat
  <2> QED BY <1>4, <1>5, <2>1
<1>7. PICK k \in 0..(n - 1) : k = n - i /\ n - k = i
  BY <1>1
<1>8. ~(loops[i].base > loops[n].base)
  BY <1>6, <1>7
<1>9. loops[i].base \in Nat /\ loops[n].base \in Nat
  BY <1>1, <1>2
<1> QED BY <1>1, <1>8, <1>9

(* What each instruction takes is in the stack, above the base of its loop.*)
LEMMA TakesItsOwn ==
  ASSUME IInv, frames # <<>>, ~LoopEnds
  PROVE  Len(dstack) >= Loop.base + Takes(Fetched)
<1> DEFINE h == Len(dstack) - Loop.base
<1>1. /\ codeP \in 1..Len(code) /\ codeP # LoopEnd /\ LoopEnd \in Nat
      /\ code \in Seq(CodeWord) /\ Fetched \in CodeWord /\ h \in Nat
      /\ Fits(code)[codeP][LoopEnd][h] /\ Fetched = code[codeP]
  BY Goes DEF Fetched
<1>2. Loop.base \in Nat /\ Len(dstack) \in Nat
  BY InLoop
<1> HIDE DEF h
<1>3. PICK ins \in CodeWord : ins = Fetched
  BY <1>1
<1>4. Takes(ins) \in Nat
  BY DEF Takes, CodeWord
<1>5. h >= Takes(ins)
  <2>1. CASE ins.op \in Computing
    BY <1>1, <1>3, <2>1, FitsComputing
  <2>2. CASE ins.op \in Testing
    <3>1. h = Takes(ins)
      BY <1>1, <1>3, <2>2, FitsTesting
    <3> QED BY <1>1, <3>1
  <2>3. CASE ins.op \notin Computing \union Testing
    <3>1. Takes(ins) = 0
      BY <2>3 DEF Takes, Computing, Testing
    <3> QED BY <1>1, <3>1
  <2> QED BY <2>1, <2>2, <2>3
<1>6. PICK t \in Nat : t = Takes(ins)
  BY <1>4
<1> QED BY <1>1, <1>2, <1>3, <1>5, <1>6 DEF h

(* Whatever balanced code a node executes, each loop that ends leaves the  *)
(* stack as it found it and no instruction takes a value of a loop around  *)
(* its own.                                                                *)
THEOREM StackIsRestored == MachineSpec => []StackRestored
<1>1. ASSUME IInv PROVE StackRestored
  <2>1. ASSUME NEW i \in DOMAIN frames PROVE Len(dstack) >= frames[i].base
    <3>1. /\ frames \in Seq(FrameType) /\ code \in Seq(CodeWord) /\ LoopsOK(code, frames)
          /\ \E V : dstack \in Seq(V)
      BY <1>1 DEF IInv, TypesOK
    <3>2. i \in 1..Len(frames) /\ frames # <<>>
      BY <2>1, <3>1
    <3>3. frames[i].base <= Loop.base /\ frames[i].base \in Nat
      BY <3>1, <3>2, BasesAscend, LoopIs DEF Loop
    <3>4. Loop.base \in Nat /\ Len(dstack) \in Nat /\ Len(dstack) >= Loop.base
      BY <1>1, <3>2, InLoop DEF IInv, Running
    <3> QED BY <3>3, <3>4
  <2>2. LoopEnds => Len(dstack) = Loop.base
    BY <1>1, Ended
  <2>3. frames # <<>> /\ ~LoopEnds => Len(dstack) >= Loop.base + Takes(Fetched)
    BY <1>1, TakesItsOwn
  <2> QED BY <2>1, <2>2, <2>3 DEF StackRestored
<1> QED BY <1>1, Always, PTL

(* No loop runs past its end, nor ends past the one around it.             *)
THEOREM LoopsEndInside == MachineSpec => []NeverOverruns
<1>1. ASSUME IInv PROVE NeverOverruns
  <2>1. frames \in Seq(FrameType) /\ LoopsOK(code, frames) /\ res \in {0, 1}
    BY <1>1 DEF IInv, TypesOK
  <2>2. ASSUME NEW i \in DOMAIN frames
        PROVE  frames[i].end <= IF i = 1 THEN Len(code) + 1 ELSE EndOf(frames[i - 1])
    <3>1. i \in 1..Len(frames) /\ frames # <<>>
      BY <2>1, <2>2
    <3>2. CASE i = 1
      <4>1. frames[1].end = Len(code) + 1 /\ Len(code) \in Nat
        BY <1>1, <2>1, <3>1, InLoop DEF LoopsOK
      <4> QED BY <3>2, <4>1
    <3>3. CASE i # 1
      <4>1. i \in 2..Len(frames)
        BY <3>1, <3>3
      <4> QED BY <2>1, <3>3, <4>1 DEF LoopsOK, Resumes
    <3> QED BY <3>2, <3>3
  <2>3. frames # <<>> /\ res > 0 => codeP <= LoopEnd
    <3> SUFFICES ASSUME frames # <<>>, res > 0 PROVE codeP <= LoopEnd
      OBVIOUS
    <3>1. res = 1
      BY <2>1
    <3>2. codeP \in 1..LoopEnd
      BY <1>1, <3>1 DEF IInv, Running, LoopEnd
    <3> QED BY <3>2, <1>1, InLoop DEF Place
  <2> QED BY <2>2, <2>3 DEF NeverOverruns
<1> QED BY <1>1, Always, PTL
=============================================================================
