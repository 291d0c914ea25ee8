----------------------------- MODULE ActionLoop ------------------------------
(***************************************************************************)
(* The loop of actions of the engine: engine_modify, engine_loop, do_loop  *)
(* (eng.cpp), the list of Actions (actions.cpp) and the instructions of a  *)
(* right-hand side that push them (Node::new_call, mod_call, mod_wp_call,  *)
(* del_call, objimp_call).                                                 *)
(*                                                                         *)
(* The application hands an object to engine_loop.  do_loop propagates it  *)
(* through the net, runs the rules of the conflict set one by one, tells   *)
(* the application about the actions each run pushed, and calls itself on  *)
(* each of them.  All the pending actions are in one list: every instance  *)
(* of do_loop owns what lies behind the tail it found on entry.            *)
(*                                                                         *)
(* A modified object is kept in its OLD state while its action waits, so   *)
(* that the rules see it as the net does; objswap exchanges the states.    *)
(*                                                                         *)
(* The net is abstracted to the value it holds for each object.  The rules *)
(* are abstracted to the actions their right-hand sides can push: any      *)
(* action on an object of some match.  The attributes of an object are one *)
(* value.  The actions pushed by inner nodes (timers, sets) are left out.  *)
(***************************************************************************)
EXTENDS Naturals, Sequences, FiniteSets

CONSTANTS
  Ext,         \* objects of the application
  Made,        \* objects the rules may create
  Value,       \* contents of an object
  Absent,      \* not in the net
  NoEvent,
  MaxOps,      \* bound on the actions pushed by right-hand sides
  MaxCalls,    \* bound on the calls of engine_loop
  Inside,      \* tags of the calls made by external functions of rules
  FromEvents,  \* callbacks from which the application inserts objects
  Habits       \* what the rules and the application are used to, see Habit

Obj == Ext \union Made
Tag == {"INSERT", "MODIFY", "RETRACT", "CHANGE"}
Kind == {"created", "modified", "deleted", "unused"}

(* change: MODIFY without propagation.  twice: one batch of actions may    *)
(* modify an object twice.  posthumous: rules may act on the object that   *)
(* the application retracts.  meddling: objects implied by a rule may be   *)
(* deleted by another, or handled by the application.                      *)
Habit == {"change", "twice", "posthumous", "meddling"}

ASSUME ConstantsAssumption ==
  /\ Ext \intersect Made = {}
  /\ Value # {} /\ Absent \notin Value
  /\ MaxOps \in Nat /\ MaxCalls \in Nat
  /\ Inside \subseteq {"INSERT", "MODIFY", "RETRACT"}
  /\ FromEvents \subseteq Kind
  /\ Habits \subseteq Habit
  /\ NoEvent \notin [kind : Kind, obj : Obj, shown : Value]

VARIABLES
  value,     \* value[x]: what the pointer to x shows at this moment
  net,       \* net[x]: the value for which the net holds x, or Absent
  queue,     \* the list of actions
  stack,     \* the active instances of do_loop, the outermost first
  implied,   \* objects a production node keeps alive
  deleted,   \* objects whose Single in the net has been set_deleted
  life,      \* life[x]: "fresh", "made" by a rule, "known" to the
             \* application, "gone" (the application may have freed it)
  event,     \* history: the callback made by the last step, or NoEvent
  ops, calls \* how much of the two bounds is used

vars == <<value, net, queue, stack, implied, deleted, life, event, ops, calls>>

(* own: the action came with a Single of its own that is not (yet) the one *)
(* the net holds.  wrote: history, the new value the author of a MODIFY    *)
(* gave to the object.                                                     *)
Action == [tag : Tag, obj : Obj, old : Value \union {Absent},
           own : BOOLEAN, wrote : Value \union {Absent}]

Frame == [act : Action, first : BOOLEAN, base : Nat, ran : BOOLEAN,
          told : Nat, pc : {"net", "cs", "rhs", "tell", "descend"}]

Plain(tag, x, own) ==
  [tag |-> tag, obj |-> x, old |-> Absent, own |-> own, wrote |-> Absent]

(* Mutant: the copy of the old state is allocated but not filled. *)
RewriteUncopied(x, old, new, own) ==
  [tag |-> "MODIFY", obj |-> x, old |-> Absent, own |-> own, wrote |-> new]

Rewrite(x, old, new, own) ==
  [tag |-> "MODIFY", obj |-> x, old |-> old, own |-> own, wrote |-> new]

Init == /\ value \in [Obj -> {CHOOSE v \in Value : TRUE}]
        /\ net = [x \in Obj |-> Absent]
        /\ queue = <<>>
        /\ stack = <<>>
        /\ implied = {}
        /\ deleted = {}
        /\ life = [x \in Obj |-> "fresh"]
        /\ event = NoEvent
        /\ ops = 0
        /\ calls = 0

-----------------------------------------------------------------------------
Idle == stack = <<>>
Top == stack[Len(stack)]
SetTop(f) == [stack EXCEPT ![Len(stack)] = f]

(* Action::pop: the CHANGE actions at the head are dropped.  The head of   *)
(* the instance with the given base is behind place base of the list.      *)
HeadPlace(q, base) ==
  {k \in (base + 1)..Len(q) :
     /\ q[k].tag # "CHANGE"
     /\ \A j \in (base + 1)..(k - 1) : q[j].tag = "CHANGE"}

Without(q, base, k) == SubSeq(q, 1, base) \o SubSeq(q, k + 1, Len(q))

(* Single::has_been_deleted, and its mutant. *)
NeverDeleted(a) == FALSE

HasBeenDeleted(a) == ~a.own /\ a.obj \in deleted

(* What the net may hold for the object after the propagation of a: its    *)
(* new value if some pattern accepts it.  An INSERT of what is already in  *)
(* the memories changes nothing.                                           *)
Kept(a, v) == IF a.tag = "RETRACT" THEN {Absent}
              ELSE IF a.tag = "INSERT" /\ net[a.obj] # Absent THEN {net[a.obj]}
              ELSE {v, Absent}

(* The Single of the action is unified with the one in the memories.       *)
Unified(a, entry) ==
  [a EXCEPT !.own = @ /\ net[a.obj] = Absent /\ entry = Absent]

(* Action::objswap on the action about to be propagated, whose object      *)
(* shows v: the other state.                                               *)
OtherState(a, v) == IF a.tag = "MODIFY" THEN a.old ELSE v
Swapped(a, v) == IF a.tag = "MODIFY" THEN [a EXCEPT !.old = v] ELSE a

(* The propagation; a derived RETRACT then marks the Single.               *)
Propagate(a, v, base, first, below) ==
  \E entry \in Kept(a, v) :
    /\ net' = [net EXCEPT ![a.obj] = entry]
    /\ stack' = Append(below, [act |-> Unified(a, entry), first |-> first,
                               base |-> base, ran |-> FALSE,
                               told |-> base, pc |-> "net"])
    /\ deleted' = IF ~first /\ a.tag = "RETRACT" /\ ~Unified(a, entry).own
                  THEN deleted \union {a.obj} ELSE deleted

(* do_loop, from its first line to the end of the propagation, on the list *)
(* q from place base on, with the objects showing val.                     *)
Enter(q, base, val, first, below) ==
  \/ /\ HeadPlace(q, base) = {}
     /\ queue' = SubSeq(q, 1, base)
     /\ value' = val
     /\ stack' = below
     /\ UNCHANGED <<net, deleted>>
  \/ \E k \in HeadPlace(q, base) :
       LET a == q[k]
           v == OtherState(a, val[a.obj])
       IN /\ queue' = Without(q, base, k)
          /\ \/ /\ HasBeenDeleted(a)
                /\ value' = val
                /\ stack' = below
                /\ UNCHANGED <<net, deleted>>
             \/ /\ ~HasBeenDeleted(a)
                /\ value' = [val EXCEPT ![a.obj] = v]
                /\ Propagate(Swapped(a, val[a.obj]), v, Len(q) - (k - base), first, below)

(* What engine_loop pushes.  For a MODIFY the application has called       *)
(* engine_modify and written v; engine_loop swaps the object back to OLD.  *)
External(tag, x, v) ==
  IF tag = "MODIFY" THEN Rewrite(x, v, v, TRUE) ELSE Plain(tag, x, TRUE)

MayCall(tag, x) ==
  /\ calls < MaxCalls
  /\ IF tag = "INSERT" THEN x \in Ext /\ life[x] = "fresh" ELSE life[x] = "known"
  /\ x \in implied => "meddling" \in Habits

LifeAfterCall(tag, x) == IF tag = "INSERT" THEN [life EXCEPT ![x] = "known"] ELSE life

(* engine_loop called by the application outside any propagation. *)
EngineLoop(tag, x, v) ==
  /\ Idle
  /\ MayCall(tag, x)
  /\ Enter(Append(queue, External(tag, x, v)), 0, value, TRUE, <<>>)
  /\ life' = LifeAfterCall(tag, x)
  /\ calls' = calls + 1
  /\ event' = NoEvent
  /\ UNCHANGED <<implied, ops>>

(* engine_loop called by an external function while rules are evaluated or *)
(* run, or by a callback: in_the_loop only lets it push.                   *)
EngineLoopInside(tag, x, v) ==
  /\ \/ ~Idle /\ Top.pc \in {"net", "rhs"} /\ tag \in Inside
     \/ event # NoEvent /\ event.kind \in FromEvents /\ tag = "INSERT"
  /\ MayCall(tag, x)
  /\ queue' = Append(queue, External(tag, x, v))
  /\ life' = LifeAfterCall(tag, x)
  /\ calls' = calls + 1
  /\ event' = NoEvent
  /\ UNCHANGED <<value, net, stack, implied, deleted, ops>>

-----------------------------------------------------------------------------
(* Right-hand sides.  They run inside the propagation when a match is      *)
(* retracted, and after run_cs has chosen an entry of the conflict set.    *)
InRetraction == ~Idle /\ Top.pc = "net"
InRun == ~Idle /\ Top.pc = "rhs"

(* The objects of the matches a right-hand side may run on: those in the   *)
(* net, and during a propagation the object that is leaving it (its Single *)
(* is that of a memory, never one the action came with).                   *)
Touchable(x) ==
  \/ net[x] # Absent
  \/ /\ InRetraction
     /\ x = Top.act.obj
     /\ Top.act.tag # "INSERT" /\ ~Top.act.own
     /\ Top.first /\ Top.act.tag = "RETRACT" => "posthumous" \in Habits

Pushed(a) == /\ (InRetraction \/ InRun)
             /\ ops < MaxOps
             /\ ops' = ops + 1
             /\ queue' = Append(queue, a)
             /\ event' = NoEvent
             /\ UNCHANGED <<net, stack, deleted, calls>>

(* new_call, and objimp_call with INSERT_TAG: the production node keeps    *)
(* the implied object.                                                     *)
New(x) == /\ x \in Made /\ life[x] = "fresh"
          /\ Pushed(Plain("INSERT", x, FALSE))
          /\ life' = [life EXCEPT ![x] = "made"]
          /\ UNCHANGED value

Create(x) == New(x) /\ UNCHANGED implied
Imply(x) == InRun /\ New(x) /\ implied' = implied \union {x}

(* mod_call, objimp_call with MODIFY_TAG: the object is copied, then the   *)
(* code that follows stores the new attributes in it.                      *)
Write(x, v) == /\ Pushed(Rewrite(x, value[x], v, FALSE))
               /\ value' = [value EXCEPT ![x] = v]
               /\ UNCHANGED <<implied, life>>

Untold(x) == \E i \in (Top.base + 1)..Len(queue) :
               queue[i].tag = "MODIFY" /\ queue[i].obj = x

Modify(x, v) == /\ ~Idle /\ Touchable(x)
                /\ "twice" \notin Habits => ~Untold(x)
                /\ Write(x, v)

ModifyImplied(x, v) == /\ InRun /\ x \in implied
                       /\ "twice" \notin Habits => ~Untold(x)
                       /\ Write(x, v)

(* mod_wp_call: attributes no pattern tests; a dummy action keeps a link.  *)
Change(x) == /\ "change" \in Habits
             /\ ~Idle /\ Touchable(x)
             /\ Pushed(Plain("CHANGE", x, FALSE))
             /\ UNCHANGED <<value, implied, life>>

(* del_call. *)
Delete(x) == /\ ~Idle /\ Touchable(x)
             /\ x \in implied => "meddling" \in Habits
             /\ Pushed(Plain("RETRACT", x, FALSE))
             /\ UNCHANGED <<value, implied, life>>

(* objimp_call with RETRACT_TAG: the action takes over the link of the     *)
(* production node.                                                        *)
RetractImplied(x) == /\ InRetraction /\ x \in implied
                     /\ Pushed(Plain("RETRACT", x, FALSE))
                     /\ implied' = implied \ {x}
                     /\ UNCHANGED <<value, life>>

RightHandSide ==
  \E x \in Obj :
    \/ Create(x) \/ Imply(x) \/ Change(x) \/ Delete(x) \/ RetractImplied(x)
    \/ \E v \in Value : Modify(x, v) \/ ModifyImplied(x, v)

-----------------------------------------------------------------------------
(* The rest of do_loop.  run_cs runs an entry of the conflict set or finds *)
(* it empty; then the loop over the new actions tells what is pending.      *)
AtCs == ~Idle /\ Top.pc \in {"net", "cs"}

RunRule == /\ AtCs
           /\ stack' = SetTop([Top EXCEPT !.pc = "rhs", !.ran = TRUE])
           /\ event' = NoEvent
           /\ UNCHANGED <<value, net, queue, implied, deleted, life, ops, calls>>

(* Mutant: the loop begins at the head of the list, not at new_init. *)
StartTellingAtHead ==
  /\ AtCs \/ InRun
  /\ stack' = SetTop([Top EXCEPT !.pc = "tell", !.told = 0, !.ran = InRun])
  /\ event' = NoEvent
  /\ UNCHANGED <<value, net, queue, implied, deleted, life, ops, calls>>

StartTelling ==
  /\ AtCs \/ InRun
  /\ stack' = SetTop([Top EXCEPT !.pc = "tell", !.told = Top.base,
                                  !.ran = InRun])
  /\ event' = NoEvent
  /\ UNCHANGED <<value, net, queue, implied, deleted, life, ops, calls>>

(* Mutant: the object is swapped before it is shown. *)
SayAfterSwap(kind, x) ==
  [kind |-> kind, obj |-> x,
   shown |-> IF kind = "modified" THEN queue[Top.told + 1].old ELSE value[x]]

Say(kind, x) == [kind |-> kind, obj |-> x, shown |-> value[x]]

(* Action::objswap on the action at place i of the list.  Mutants: it is   *)
(* forgotten, or the new state is not saved.                               *)
ObjSwapForgotten(i) == UNCHANGED <<value, queue>>

ObjSwapOneWay(i) ==
  /\ value' = [value EXCEPT ![queue[i].obj] = queue[i].old]
  /\ UNCHANGED queue

ObjSwap(i) ==
  /\ value' = [value EXCEPT ![queue[i].obj] = queue[i].old]
  /\ queue' = [queue EXCEPT ![i].old = value[queue[i].obj]]

(* One turn of the loop over new_init: object_created, or object_modified  *)
(* and objswap.  RETRACT is told after the propagation, CHANGE never.      *)
Tell ==
  /\ ~Idle /\ Top.pc = "tell" /\ Top.told < Len(queue)
  /\ LET i == Top.told + 1
         a == queue[i]
         x == a.obj
     IN /\ stack' = SetTop([Top EXCEPT !.told = i])
        /\ \/ /\ a.tag = "INSERT"
              /\ event' = Say("created", x)
              /\ life' = [life EXCEPT ![x] = "known"]
              /\ UNCHANGED <<value, queue>>
           \/ /\ a.tag = "MODIFY"
              /\ event' = Say("modified", x)
              /\ ObjSwap(i)
              /\ UNCHANGED life
           \/ /\ a.tag \in {"RETRACT", "CHANGE"}
              /\ event' = NoEvent
              /\ UNCHANGED <<value, queue, life>>
  /\ UNCHANGED <<net, implied, deleted, ops, calls>>

AllTold == /\ ~Idle /\ Top.pc = "tell" /\ Top.told = Len(queue)
           /\ stack' = SetTop([Top EXCEPT !.pc = "descend"])
           /\ event' = NoEvent
           /\ UNCHANGED <<value, net, queue, implied, deleted, life, ops, calls>>

(* The loop that empties new_init: do_loop on the next action. *)
Descend ==
  /\ ~Idle /\ Top.pc = "descend" /\ Len(queue) > Top.base
  /\ Enter(queue, Top.base, value, FALSE, stack)
  /\ event' = NoEvent
  /\ UNCHANGED <<implied, life, ops, calls>>

(* The condition of the outer loop, not_empty_cs. *)
(* Mutant: the inner loop is an if. *)
DrainedAfterOne == ~Idle /\ Top.pc = "descend"

Drained == ~Idle /\ Top.pc = "descend" /\ Len(queue) = Top.base

Repeat == /\ Drained /\ Top.ran
          /\ stack' = SetTop([Top EXCEPT !.pc = "cs"])
          /\ event' = NoEvent
          /\ UNCHANGED <<value, net, queue, implied, deleted, life, ops, calls>>

(* The links of the Single of an action. *)
SharedLinks(x) ==
  Cardinality({i \in 1..Len(queue) : queue[i].obj = x /\ ~queue[i].own})
  + Cardinality({i \in 1..Len(stack) :
                   stack[i].act.obj = x /\ ~stack[i].act.own})
  + (IF net[x] # Absent THEN 1 ELSE 0)
  + (IF x \in implied THEN 1 ELSE 0)

(* Mutants: links() is not looked at; links() is compared with 0. *)
LastLinkIfAlive(a) == a.own \/ a.obj \notin deleted
LastLinkAtZero(a) == ~a.own /\ SharedLinks(a.obj) = 0 /\ a.obj \notin deleted

LastLink(a) == a.own \/ (SharedLinks(a.obj) = 1 /\ a.obj \notin deleted)

Below == SubSeq(stack, 1, Len(stack) - 1)

(* The end of do_loop: object_deleted, object_no_more_used or nothing.     *)
(* When engine_loop returns from a RETRACT the application frees the       *)
(* object.                                                                 *)
Finish ==
  /\ Drained /\ ~Top.ran
  /\ stack' = Below
  /\ LET a == Top.act
         x == a.obj
         gone == [life EXCEPT ![x] = "gone"]
     IN \/ /\ a.tag = "RETRACT" /\ ~Top.first
           /\ event' = Say("deleted", x)
           /\ life' = gone
        \/ /\ a.tag = "RETRACT" /\ Top.first
           /\ event' = NoEvent
           /\ life' = gone
        \/ /\ a.tag # "RETRACT" /\ LastLink(a)
           /\ event' = Say("unused", x)
           /\ life' = gone
        \/ /\ a.tag # "RETRACT" /\ ~LastLink(a)
           /\ event' = NoEvent
           /\ UNCHANGED life
  /\ UNCHANGED <<value, net, queue, implied, deleted, ops, calls>>

Application ==
  \E x \in Obj, v \in Value, tag \in {"INSERT", "MODIFY", "RETRACT"} :
    EngineLoop(tag, x, v) \/ EngineLoopInside(tag, x, v)

DoLoop == \/ RunRule \/ StartTelling \/ Tell \/ AllTold
          \/ Descend \/ Repeat \/ Finish

Next == Application \/ RightHandSide \/ DoLoop

Spec == Init /\ [][Next]_vars

-----------------------------------------------------------------------------
(* Every variable keeps its type. *)
TypeOK == /\ value \in [Obj -> Value]
          /\ net \in [Obj -> Value \union {Absent}]
          /\ queue \in Seq(Action)
          /\ stack \in Seq(Frame)
          /\ implied \subseteq Obj
          /\ deleted \subseteq Obj
          /\ life \in [Obj -> {"fresh", "made", "known", "gone"}]
          /\ event \in [kind : Kind, obj : Obj, shown : Value] \union {NoEvent}
          /\ ops \in 0..MaxOps
          /\ calls \in 0..MaxCalls

(* An instance of do_loop leaves alone the actions that wait in the list   *)
(* for the instances below it: it neither takes nor swaps them, whatever   *)
(* its rules push (do_loop works behind the tail it finds, new_init).      *)
OthersUntouched ==
  [][~Idle => /\ Len(queue') >= Top.base
              /\ SubSeq(queue', 1, Top.base) = SubSeq(queue, 1, Top.base)]_vars

(* When the outermost do_loop ends nothing is left in the list ("the rest  *)
(* of calls will be queued until this propagation ends", engine_loop).     *)
NothingLeft == Idle => queue = <<>>

(* Rules see the objects as the net does: an object in the net shows the   *)
(* value its memories hold, but for a modification of the batch that is    *)
(* not yet told (objswap, do_loop).                                        *)
Waiting(x) ==
  \E i \in 1..Len(queue) :
    /\ queue[i].tag = "MODIFY" /\ queue[i].obj = x
    /\ i > IF Top.pc \in {"tell", "descend"} THEN Top.told ELSE Top.base

NetShowsObjects ==
  \A x \in Obj : net[x] # Absent /\ net[x] # value[x] => ~Idle /\ Waiting(x)

(* A modification is propagated as it was made: from the value the net     *)
(* holds to the value the author wrote.                                    *)
EntersModify == /\ Len(stack') = Len(stack) + 1
                /\ stack'[Len(stack')].act.tag = "MODIFY"

ModifyIsFaithful ==
  [][EntersModify =>
       LET a == stack'[Len(stack')].act
       IN /\ value'[a.obj] = a.wrote
          /\ net[a.obj] \in {a.old, Absent}]_vars

(* The application is shown the value the author wrote. *)
ShownIsWritten ==
  [][event' # NoEvent /\ event'.kind = "modified" =>
       event'.shown = queue[Top.told + 1].wrote]_vars

(* Nothing the engine still refers to has been given away: no object of    *)
(* the net or of a production node, and no pending action but those on a   *)
(* Single marked as deleted, is about an object the application may have   *)
(* freed ("no additional references will remain in the net's nodes").      *)
NoDangling ==
  \A x \in Obj :
    life[x] = "gone" =>
      /\ net[x] = Absent
      /\ x \notin implied
      /\ x \in deleted \/ \A i \in 1..Len(queue) : queue[i].obj # x

(* No object is forgotten: the step that drops the last reference of the  *)
(* engine to an object is one after which the application knows it, save   *)
(* that Action::pop drops the CHANGE actions in silence.                   *)
Referenced(x) == \/ net[x] # Absent \/ x \in implied
                 \/ \E i \in 1..Len(queue) : queue[i].obj = x
                 \/ \E i \in 1..Len(stack) : stack[i].act.obj = x

ChangeWaits(x) ==
  \E i \in 1..Len(queue) : queue[i].tag = "CHANGE" /\ queue[i].obj = x

NoLeak ==
  [][\A x \in Obj :
       Referenced(x) /\ ~Referenced(x)' => life'[x] = "gone" \/ ChangeWaits(x)]_vars

(* What the application is told obeys ObjectFeed. *)
OF == INSTANCE ObjectFeed WITH
        known <- {x \in Obj : life[x] = "known"},
        freed <- {x \in Obj : life[x] = "gone"},
        event <- IF event = NoEvent THEN NoEvent
                 ELSE [kind |-> event.kind, obj |-> event.obj]

FeedsApplication == OF!Spec
=============================================================================
