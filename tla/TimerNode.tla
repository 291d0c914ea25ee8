------------------------------ MODULE TimerNode ------------------------------
(***************************************************************************)
(* The TIMER node (Node::timer_call, timer_refresh) of a rule with a time  *)
(* window: it remembers the objects in a tree ordered by decreasing time.  *)
(* An object that arrives when older ones have left the window pushes      *)
(* their RETRACTs in the list of actions, and itself behind them, so it    *)
(* comes to the node twice.  engine_refresh drives the same refresh from   *)
(* outside, and runs do_loop while it walks the tree.                      *)
(***************************************************************************)
EXTENDS Integers, Sequences, FiniteSets

CONSTANTS
  Singles,   \* the objects, in the order of their addresses
  T,         \* the time of each
  Window     \* the window of the rule

ASSUME TimerAssumption == Singles \subseteq Nat /\ T \in [Singles -> Nat] /\ Window \in Nat

VARIABLES
  mem,      \* the objects in the memory
  queue,    \* the actions the node has pushed, in the order they run
  walk      \* the walk of engine_refresh: its limit and position, if any

timerVars == <<mem, queue, walk>>

Waiting == [tag : {"INSERT", "RETRACT"}, obj : Singles]

NoWalk == [limit |-> 0, loc |-> -1]

TimerInit == mem = {} /\ queue = <<>> /\ walk = NoWalk

-----------------------------------------------------------------------------
(* compare_t; the objects in the only node of the tree, in this order. *)
Before(o, p) == T[o] > T[p] \/ (T[o] = T[p] /\ o < p)

Place(o) == Cardinality({p \in mem : Before(p, o)})

Leaf == [k \in 1..Cardinality(mem) |-> CHOOSE o \in mem : Place(o) = k - 1]

(* SearchNodeBiggerThan with compare_tw: the position behind the object of *)
(* time limit it finds, or behind those later than limit.  Narrowed is one *)
(* turn of its loop, on the places s[1]..s[2].                             *)
Narrowed(search, s, limit) ==
  LET loc == s[1] + (s[2] - s[1]) \div 2
      time == T[Leaf[loc + 1]]
  IN IF s[1] > s[2] THEN s[1]
     ELSE IF time > limit THEN search[<<loc + 1, s[2]>>]
     ELSE IF time < limit THEN search[<<s[1], loc - 1>>]
     ELSE loc + 1

FindBiggerThan(limit) ==
  LET search[s \in (0..Len(Leaf)) \X (-1..Len(Leaf) - 1)] == Narrowed(search, s, limit)
  IN search[<<0, Len(Leaf) - 1>>]

(* timer_refresh, by an arrival: the objects walked. *)
(* Mutant: the walk begins behind the first of them. *)
RefreshedButOne(time) == SubSeq(Leaf, FindBiggerThan(time - Window) + 2, Len(Leaf))

Refreshed(time) == SubSeq(Leaf, FindBiggerThan(time - Window) + 1, Len(Leaf))

Retracts(objs) == [i \in DOMAIN objs |-> [tag |-> "RETRACT", obj |-> objs[i]]]

(* timer_call.  The actions pushed run before those that waited already:   *)
(* the do_loop they are pushed in runs them.                               *)
(* Mutant: the object goes back to wait and the old ones stay. *)
InsertAfterRefreshAlone(o, rest) ==
  LET old == Refreshed(T[o])
  IN /\ old # <<>>
     /\ queue' = <<[tag |-> "INSERT", obj |-> o]>> \o rest
     /\ UNCHANGED <<mem, walk>>

InsertAfterRefresh(o, rest) ==
  LET old == Refreshed(T[o])
  IN /\ old # <<>>
     /\ queue' = Retracts(old) \o <<[tag |-> "INSERT", obj |-> o]>> \o rest
     /\ UNCHANGED <<mem, walk>>

(* An object that is already there goes on as well: it is the same Single. *)
TimerInsert(o, rest) ==
  /\ Refreshed(T[o]) = <<>>
  /\ mem' = mem \union {o}
  /\ queue' = rest
  /\ UNCHANGED walk

TimerKnows(o) == o \in mem

TimerRetract(o, rest) ==
  mem' = mem \ {o} /\ queue' = rest /\ UNCHANGED walk

-----------------------------------------------------------------------------
(* engine_refresh: the walk keeps a position in a tree that each RETRACT   *)
(* it pushes and runs makes shorter.                                       *)
StartRefresh(time) ==
  /\ walk = NoWalk
  /\ walk' = [limit |-> time - Window, loc |-> FindBiggerThan(time - Window)]
  /\ UNCHANGED <<mem, queue>>

(* Walk: the object at the position; do_loop runs its RETRACT at once. *)
WalkOn(o) ==
  /\ walk # NoWalk
  /\ walk.loc < Len(Leaf)
  /\ o = Leaf[walk.loc + 1]
  /\ walk' = [walk EXCEPT !.loc = @ + 1]
  /\ mem' = mem \ {o}
  /\ UNCHANGED queue

EndRefresh ==
  /\ walk # NoWalk
  /\ walk.loc >= Len(Leaf)
  /\ walk' = NoWalk
  /\ UNCHANGED <<mem, queue>>
=============================================================================
