------------------------------ MODULE TimedSet -------------------------------
(***************************************************************************)
(* A SET node and what feeds it: a TIMER node, when a rule with a window   *)
(* puts its TEMPORAL objects in a set, or an OAND node, when the set is of *)
(* an optional pattern: then each context has a tuple with the null single *)
(* while it has none with an object, and the first object takes its place. *)
(*                                                                         *)
(* While actions of the TIMER wait, the rules that do_loop runs between    *)
(* two of them go on inserting, modifying and deleting objects.  Rules     *)
(* that act while engine_refresh walks the tree are left out: they change  *)
(* the tree under the walk, as its own RETRACTs do.                        *)
(***************************************************************************)
EXTENDS SetNode, TimerNode

CONSTANTS
  Home,      \* the context whose tuples an object joins
  Refreshes, \* the times engine_refresh may be called with
  Edited,    \* the objects modified without change of their key
  Moved,     \* the objects modified so that their key changes
  Stays,     \* the objects that nobody removes
  Patient,   \* an object whose INSERT waits goes on matching
  MaxCalls   \* bound: the changes the application and the rules make

VARIABLES
  timed,     \* what feeds the set: a TIMER or an OAND
  above,     \* the objects that match the pattern
  open,      \* the contexts with a tuple (OAND)
  dead,      \* the objects deleted (has_been_deleted)
  val,       \* what each object shows
  last,      \* history: the last object that entered the TIMER
  newest,    \* history: the newest time seen
  calls

vars == <<groups, mem, queue, walk, timed, above, open, dead, val, last, newest, calls>>

ASSUME FeedAssumption ==
  /\ Singles = Obj /\ Home \in [Obj -> Ctx]
  /\ Refreshes \subseteq Nat /\ MaxCalls \in Nat

Flips == 1..2   \* how often the nodes below change the state of the set

Init == /\ SetInit /\ TimerInit
        /\ timed \in BOOLEAN
        /\ above = {} /\ dead = {} /\ val \in [Obj -> Value]
        /\ open = {}
        /\ last = Null /\ newest = 0 /\ calls = 0

Some == CHOOSE c \in Ctx : TRUE

Context(o) == IF timed THEN Some ELSE Home[o]

-----------------------------------------------------------------------------
(* The TIMER comes to an INSERT, for the first or for the second time. *)
Enter(o, rest) ==
  \/ InsertAfterRefresh(o, rest) /\ UNCHANGED <<groups, last>>
  \/ /\ TimerInsert(o, rest)
     /\ \E n \in Flips : SetInsert(Some, o, val, n)
     /\ last' = o

Leave(o, rest) ==
  /\ TimerRetract(o, rest)
  /\ IF TimerKnows(o) THEN \E n \in Flips : SetRetract(Some, o, val, n)
                      ELSE UNCHANGED groups

(* do_loop comes to an action of the TIMER; it skips a deleted object. *)
DoLoop ==
  /\ queue # <<>>
  /\ LET act == Head(queue)
         rest == Tail(queue)
     IN IF act.obj \in dead THEN queue' = rest /\ UNCHANGED <<groups, mem, walk, last>>
        ELSE IF act.tag = "INSERT" THEN Enter(act.obj, rest)
        ELSE Leave(act.obj, rest) /\ UNCHANGED last
  /\ UNCHANGED <<timed, above, open, dead, val, newest, calls>>

-----------------------------------------------------------------------------
(* The tuples of an OAND node.  The siblings are the other objects of the  *)
(* context. *)
Siblings(o) == {p \in above \ {o} : Home[p] = Home[o]}

Open(c) ==
  /\ ~timed /\ c \notin open
  /\ open' = open \union {c}
  /\ groups' = SetCallInsert(groups, Found(groups, c, Null, val, val), c, Null, 1)
  /\ UNCHANGED <<mem, queue, walk, timed, above, dead, val, last, newest, calls>>

Close(c) ==
  /\ ~timed /\ c \in open /\ \A o \in above : Home[o] # c
  /\ open' = open \ {c}
  /\ groups' = SetCallRetract(groups, Found(groups, c, Null, val, val), Null, 1)
  /\ UNCHANGED <<mem, queue, walk, timed, above, dead, val, last, newest, calls>>

Joins(o) ==
  \E n \in Flips : IF Siblings(o) = {}
                   THEN SetModify(Home[o], Null, o, val, val, val, n)
                   ELSE SetInsert(Home[o], o, val, n)

Parts(o) ==
  \E n \in Flips : IF Siblings(o) = {}
                   THEN SetModify(Home[o], o, Null, val, val, val, n)
                   ELSE SetRetract(Home[o], o, val, n)

-----------------------------------------------------------------------------
(* What the application and the rules do. *)
Called == walk = NoWalk /\ calls < MaxCalls /\ calls' = calls + 1

Match(o) ==
  /\ Called /\ o \notin above \union dead
  /\ above' = above \union {o}
  /\ IF timed THEN Enter(o, queue)
     ELSE Home[o] \in open /\ Joins(o) /\ UNCHANGED <<mem, queue, walk, last>>
  /\ newest' = IF T[o] > newest THEN T[o] ELSE newest
  /\ UNCHANGED <<timed, open, dead, val>>

InsertWaits(o) == \E i \in DOMAIN queue : queue[i] = [tag |-> "INSERT", obj |-> o]

Lose(o) ==
  /\ Called /\ o \in above \ Stays
  /\ above' = above \ {o}
  /\ IF timed THEN Leave(o, queue)
     ELSE Parts(o) /\ UNCHANGED <<mem, queue, walk>>
  /\ UNCHANGED <<timed, open, val, last, newest>>

Unmatch(o) == ~(Patient /\ InsertWaits(o)) /\ Lose(o) /\ UNCHANGED dead

Delete(o) == Lose(o) /\ dead' = dead \union {o}

(* The objects a set is recognised by. *)
Samples == {Sample(g.elems) : g \in {h \in groups : DOMAIN h.elems # {}}}

(* The Single in the memory of the node above is the one in the set, and   *)
(* goes back to its old state with the one that arrives.                   *)
Modify(o, v) ==
  /\ Called /\ o \in above /\ v # val[o]
  /\ IF KeyOf[v] = KeyOf[val[o]] THEN o \in Edited ELSE o \in Moved \ Samples
  /\ val' = [val EXCEPT ![o] = v]
  /\ IF timed /\ ~TimerKnows(o) THEN UNCHANGED groups
     ELSE \E n \in Flips : SetModify(Context(o), o, o, val, val', val, n)
  /\ UNCHANGED <<mem, queue, walk, timed, above, open, dead, last, newest>>

EngineRefresh(time) ==
  /\ Called /\ timed /\ queue = <<>>
  /\ StartRefresh(time)
  /\ newest' = IF time > newest THEN time ELSE newest
  /\ UNCHANGED <<groups, timed, above, open, dead, val, last>>

RefreshStep ==
  /\ queue = <<>>
  /\ \/ EndRefresh /\ UNCHANGED groups
     \/ \E o \in mem, n \in Flips : WalkOn(o) /\ SetRetract(Some, o, val, n)
  /\ UNCHANGED <<timed, above, open, dead, val, last, newest, calls>>

Next == \/ DoLoop
        \/ RefreshStep
        \/ \E c \in Ctx : Open(c) \/ Close(c)
        \/ \E o \in Obj : \/ Match(o)
                          \/ Unmatch(o)
                          \/ Delete(o)
                          \/ \E v \in Value : Modify(o, v)
        \/ \E time \in Refreshes : EngineRefresh(time)

Spec == Init /\ [][Next]_vars

FairSpec == Spec /\ WF_vars(DoLoop) /\ WF_vars(RefreshStep)

-----------------------------------------------------------------------------
(* The objects the SET node was given, and the empty contexts. *)
Given == IF timed THEN mem ELSE above

Expected ==
  {[ctx |-> Context(o), objs |-> {p \in Given : Context(p) = Context(o)
                                                /\ KeyOf[val[p]] = KeyOf[val[o]]}] :
     o \in Given}
  \union {[ctx |-> c, objs |-> {}] : c \in {d \in open : \A o \in Given : Home[o] # d}}

(* The sets are the classes of what matches: one for each context and key, *)
(* with all its objects and no other ("make a set with all the objects     *)
(* that verify certain conditions", set_call), whatever was removed,       *)
(* modified, refreshed or taken out by the TIMER, and however often the    *)
(* nodes below looked at a set before and after its operation.             *)
SetsFollow ==
  /\ {[ctx |-> g.ctx, objs |-> DOMAIN g.elems] : g \in groups} = Expected
  /\ Cardinality(groups) = Cardinality(Expected)

(* What is in the TIMER matches, and is not older than the window before   *)
(* the last object that entered; and when its actions have run every       *)
(* object that matches is there, but those that fell out of the window     *)
(* (timer_call: "the old element must to get out the set before enter the  *)
(* new").                                                                  *)
KeepsTheWindow ==
  timed => /\ mem \subseteq above
           /\ last # Null => \A o \in mem : T[o] >= T[last] - Window
           /\ queue = <<>> => \A o \in above \ mem : T[o] <= newest - Window

(* An object whose INSERT was put off enters the TIMER, unless it no       *)
(* longer matches or is out of the window itself. *)
SecondArrival ==
  \A o \in Obj : InsertWaits(o) ~> (o \in mem \/ o \notin above \/ T[o] <= newest - Window)

(* After engine_refresh nothing is left in the TIMER that is older than    *)
(* its time minus the window ("Retract all the elements older than the     *)
(* window", timer_refresh).                                                *)
RefreshFrees ==
  [][EndRefresh => \A o \in mem : T[o] >= walk.limit]_vars
=============================================================================
