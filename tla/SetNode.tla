------------------------------- MODULE SetNode -------------------------------
(***************************************************************************)
(* The SET node (Node::set_call and set.cpp): it files each object that    *)
(* arrives in the set of its context, the rest of the tuple, and of its    *)
(* key, what the code of the set compares.  A set holds no key: it is      *)
(* recognised by the key one of its elements, the sample, shows.           *)
(*                                                                         *)
(* While the nodes below look at a set, the set goes back and forth        *)
(* between its state before the operation and after it (Set::set_state),   *)
(* by adding and deleting the element of the operation.                    *)
(*                                                                         *)
(* Objects are their addresses.  Several SETs in one rule, which mask each *)
(* other, are left out.                                                    *)
(***************************************************************************)
EXTENDS Integers, FiniteSets

CONSTANTS
  Obj,      \* the objects, in the order of their addresses
  Null,     \* the null single of an optional pattern that matches nothing
  Ctx,      \* what the rest of the tuples can be
  Value,    \* what an object can show
  KeyOf     \* the key the code of the set takes from a value

ASSUME SetAssumption == Obj \subseteq Nat /\ Null \notin Obj

VARIABLES
  groups    \* the memory of the node: the sets and their contexts; the elements
            \* of a set are a function from the objects to their MatchCounts

INSERT == 1
RETRACT == 2
MODIFY == 3
Opposite(tag) == 3 - tag   \* ^ 0x3

SetInit == groups = {}

-----------------------------------------------------------------------------
(* set.cpp.  A set with its operation: _mem, _last_op, _last_obj, _state.  *)
SetOp(s, tag, o) == [elems |-> s.elems, op |-> tag, obj |-> o, st |-> Opposite(tag)]

AddElem(s, o) ==
  IF o = Null THEN s
  ELSE [s EXCEPT !.elems = [p \in DOMAIN @ \union {o} |->
                              IF p # o THEN @[p]
                              ELSE IF o \in DOMAIN @ THEN @[o] + 1 ELSE 0],
                 !.obj = o, !.st = INSERT]

DeleteElem(s, o) ==
  IF o \notin DOMAIN s.elems THEN s
  ELSE [s EXCEPT !.elems = IF @[o] = 0 THEN [p \in DOMAIN @ \ {o} |-> @[p]]
                                       ELSE [@ EXCEPT ![o] = @ - 1],
                 !.st = RETRACT]

(* Set::set_state.                                                         *)
(* Mutant: _state is not consulted.                                        *)
SetStateBlindly(s, desired) ==
  IF desired = INSERT THEN AddElem(s, s.obj)
  ELSE IF desired = RETRACT THEN DeleteElem(s, s.obj)
  ELSE s

SetState(s, desired) ==
  IF s.st = desired THEN s
  ELSE IF desired = INSERT THEN AddElem(s, s.obj)
  ELSE IF desired = RETRACT THEN DeleteElem(s, s.obj)
  ELSE s

(* propagate_modify, and the two-sided nodes it reaches, ask for the old   *)
(* state and then for the new one, as many times as they are.              *)
Flip(s) == SetState(SetState(s, Opposite(s.op)), s.op)

PropagateModify(s, times) ==
  LET flipped[n \in 0..times] == IF n = 0 THEN s ELSE Flip(flipped[n - 1])
  IN flipped[times]

-----------------------------------------------------------------------------
(* The memory.  first_item_of_set: the root of the tree of the set. *)
Sample(elems) == CHOOSE o \in DOMAIN elems : \A p \in DOMAIN elems : o <= p

(* metacmp_objs: the contexts are the same, and the code of the set does   *)
(* not tell the arriving object, which shows v, from the sample.           *)
Belongs(g, ctx, o, v, shown) ==
  /\ g.ctx = ctx
  /\ \/ o = Null \/ DOMAIN g.elems = {}
     \/ KeyOf[v] = KeyOf[shown[Sample(g.elems)]]

Found(gs, ctx, o, v, shown) == {g \in gs : Belongs(g, ctx, o, v, shown)}

With(gs, g, s) == (gs \ {g}) \union {[g EXCEPT !.elems = s.elems]}

(* set_call_INSERT, in the set found or in a new one. *)
SetCallInsert(gs, found, ctx, o, times) ==
  IF found = {}
  THEN LET new == SetOp([elems |-> <<>>], INSERT, o)
       IN gs \union {[ctx |-> ctx, elems |-> AddElem(new, o).elems]}
  ELSE LET g == CHOOSE g \in found : TRUE
       IN With(gs, g, PropagateModify(AddElem(SetOp(g, INSERT, o), o), times))

(* set_call_RETRACT: the last element takes its set with it; any other is  *)
(* deleted by the change of state. *)
SetCallRetract(gs, found, o, times) ==
  IF found = {} THEN gs
  ELSE LET g == CHOOSE g \in found : TRUE
       IN IF o # Null /\ o \notin DOMAIN g.elems THEN gs
          ELSE IF Cardinality(DOMAIN g.elems) <= 1 THEN gs \ {g}
          ELSE With(gs, g, PropagateModify(SetOp(g, RETRACT, o), times))

(* The last branches of set_call_MODIFY, the object stays in its set: it   *)
(* leaves an optional pattern, enters one, or is another of the elements.  *)
ModifyInPlace(gs, g, was, is, times) ==
  LET op == IF is = Null THEN SetOp(g, RETRACT, was)
            ELSE IF DOMAIN g.elems = {} THEN AddElem(SetOp(g, INSERT, is), is)
            ELSE SetOp(AddElem(SetOp(g, 0, is), is),
                       IF is \in DOMAIN g.elems THEN MODIFY ELSE INSERT, is)
  IN With(gs, g, PropagateModify(op, times))

(* set_call_MODIFY: the set is searched with the old state of the tuple    *)
(* and with the new one; the objects in the memory show shownOld and then  *)
(* now.                                                                    *)
SetCallModify(ctx, was, is, before, now, shownOld, times) ==
  LET old == Found(groups, ctx, was, before, shownOld)
      new == Found(groups, ctx, is, now[is], now)
      left == SetCallRetract(groups, old, was, times)
  IN IF old = {} THEN groups
     ELSE IF old # new
     THEN SetCallInsert(left, IF new # {} THEN new ELSE Found(left, ctx, is, now[is], now),
                        ctx, is, times)
     ELSE ModifyInPlace(groups, CHOOSE g \in old : TRUE, was, is, times)

-----------------------------------------------------------------------------
(* Each arrival; times is how often the nodes below change the state.      *)
SetInsert(ctx, o, now, times) ==
  groups' = SetCallInsert(groups, Found(groups, ctx, o, now[o], now), ctx, o, times)

SetRetract(ctx, o, now, times) ==
  groups' = SetCallRetract(groups, Found(groups, ctx, o, now[o], now), o, times)

SetModify(ctx, was, is, before, now, shownOld, times) ==
  groups' = SetCallModify(ctx, was, is, before[was], now, shownOld, times)
=============================================================================
