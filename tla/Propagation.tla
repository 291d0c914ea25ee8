----------------------------- MODULE Propagation -----------------------------
(***************************************************************************)
(* How a modification goes through the net (Node::propagate_modify,        *)
(* propagate, propagate_reached_nodes).  The nodes with memory know what   *)
(* to do with a MODIFY, the tests between them do not: so the net is       *)
(* walked with the old object as a RETRACT and with the new one as an      *)
(* INSERT, only to mark the way of each up to the nodes with memory, and   *)
(* then along the marks to execute these with what the marks add up to.    *)
(* A SET or a TIMER that is executed so begins such a walk of its own.     *)
(*                                                                         *)
(* The children of a node are a list of links (NodeLink); a link is a      *)
(* number, 0 the NULL at the end, and comes before the links that follow   *)
(* it in its list and before those of the node it leads to, which any net  *)
(* without cycles can be numbered for.                                     *)
(***************************************************************************)
EXTENDS Naturals, Sequences

CONSTANTS
  Node, Root,
  Kind,      \* test: of one object; set, timer: its code goes on below; inter
  Links,     \* how many links there are
  Fork,      \* _fork: the first link of each node
  After,     \* next: the link after each
  From,      \* the node in whose list a link is: _parent_left or _parent_right
  To, By,    \* the child of a link, and the side it is entered by
  Value      \* what an object can show

Link == 1..Links
List == 0..Links
Side == {"left", "right"}
Tags == {"RETRACT", "INSERT"}                       \* both: MODIFY

ASSUME NetAssumption ==
  /\ Root \in Node /\ Kind \in [Node -> {"test", "inter", "set", "timer"}]
  /\ Links \in Nat
  /\ Fork \in [Node -> List] /\ After \in [Link -> List]
  /\ From \in [Link -> Node] /\ To \in [Link -> Node] /\ By \in [Link -> Side]

(* Each link is in one place of one list, the list of From. *)
ASSUME ListAssumption ==
  /\ \A n \in Node : Fork[n] # 0 => From[Fork[n]] = n
  /\ \A l \in Link : After[l] # 0 => From[After[l]] = From[l] /\ l < After[l]
  /\ \A l, m \in Link : After[l] = After[m] /\ After[l] # 0 => l = m
  /\ \A l \in Link, n \in Node : After[l] = Fork[n] => After[l] = 0
  /\ \A l \in Link : l = Fork[From[l]] \/ \E m \in Link : After[m] = l

(* The root, a test, is entered by no link; a join by one of each side and *)
(* any other node by one; no node is above itself.  What a join tells to   *)
(* others is a matter of its own (BetaNode): the walk ends there.          *)
ASSUME TreeAssumption ==
  /\ Kind[Root] = "test" /\ \A l \in Link : To[l] # Root
  /\ \A l, m \in Link : /\ To[l] = To[m]
                        /\ By[l] = By[m] \/ Kind[To[l]] # "inter"
                        => l = m
  /\ \A n \in Node : Kind[n] = "inter" => Fork[n] = 0
  /\ \A l \in Link : From[l] = Root \/ \E m \in Link : To[m] = From[l]
  /\ \A l, m \in Link : To[m] = From[l] => m < l

Slot == Node \X (Tags \union Side)     \* a node and a bit of its _mark

VARIABLES
  passes,    \* the values that pass each test
  mark,      \* the bits set: tags of the way, sides a node was reached by
  executed,  \* what the last modification executed: <<node, side, tag>>
  was, is    \* the last modification

vars == <<passes, mark, executed, was, is>>

Test == {n \in Node : Kind[n] = "test"}
HasMemory(n) == n \notin Test

Init == /\ passes \in [Test -> SUBSET Value]
        /\ passes[Root] = Value
        /\ mark = {}
        /\ executed = <<>>
        /\ was \in Value /\ is = was

-----------------------------------------------------------------------------
(* What each test lets through, the old object and the new one. *)
Lets(passed, old, new) ==
  [n \in Test |-> {t \in Tags : (IF t = "RETRACT" THEN old ELSE new) \in passed[n]}]

(* propagate, while checkingScope: the bits set from each link on, none if *)
(* no node with memory is reached.                                         *)
MarkedBy(lets, tag, l, below) ==
  IF HasMemory(To[l]) THEN {<<To[l], By[l]>>}
  ELSE IF tag \in lets[To[l]] /\ below # {} THEN below \union {<<To[l], tag>>}
  ELSE {}

Scope(lets, tag) ==
  LET scope[l \in List] ==
        IF l = 0 THEN {}
        ELSE scope[After[l]] \union MarkedBy(lets, tag, l, scope[Fork[To[l]]])
  IN scope

(* ... from below the code of n.  Mutant: the tag in a mark is the last.   *)
MarkedLast(marks, lets, tag, n) ==
  LET below == Scope(lets, tag)[Fork[n]]
      above == {s \in marks : s[2] \in Side \/ s[1] \notin {b[1] : b \in below} \union {n}}
  IN IF below = {} THEN marks ELSE above \union below \union {<<n, tag>>}

Marked(marks, lets, tag, n) ==
  LET below == Scope(lets, tag)[Fork[n]]
  IN IF below = {} THEN marks ELSE marks \union below \union {<<n, tag>>}

-----------------------------------------------------------------------------
(* The walks that execute work on the marks and on what was executed.  A   *)
(* walk goes along the marks, or in earnest with one tag; below is what it *)
(* does with the children of a node.                                       *)
Way == {"marks"} \union Tags
Walk == [mark : SUBSET Slot, executed : Seq(Node \X Side \X SUBSET Tags)]

MarkOf(w, n) == {b \in Tags \union Side : <<n, b>> \in w.mark}

(* propagate_reached_nodes of n, marked and not as a node reached.         *)
(* Mutant: the mark of n stays.                                            *)
ReachChildrenKeepingMark(n, w, below) == below["marks"][w]

ReachChildren(n, w, below) ==
  LET done == below["marks"][w]
  IN [done EXCEPT !.mark = @ \ ({n} \X (Tags \union Side))]

(* propagate_modify, from below the code of n. *)
PropagateModify(lets, n, w, below) ==
  LET retracted == Marked(w.mark, lets, "RETRACT", n)
      inserted == [w EXCEPT !.mark = Marked(retracted, lets, "INSERT", n)]
  IN IF MarkOf(inserted, n) = {} THEN inserted ELSE ReachChildren(n, inserted, below)

(* propagate, in earnest, from below the code of a node. *)
Propagate(w, tag, below) == below[CHOOSE t \in tag : TRUE][w]

(* The code of the node that l leads to.  A SET with other elements tells  *)
(* a MODIFY whatever happens to one of them; a TIMER, as a SET of one      *)
(* element, tells what it is told.                                         *)
Execute(lets, l, tag, w, below) ==
  LET n == To[l]
      told == [w EXCEPT !.executed = Append(@, <<n, By[l], tag>>)]
  IN CASE n \in Test -> Propagate(w, tag, below)
       [] Kind[n] = "inter" -> told
       [] Kind[n] = "set" \/ (Kind[n] = "timer" /\ tag = Tags)
            -> PropagateModify(lets, n, told, below)
       [] OTHER -> Propagate(told, tag, below)

(* propagate_reached_nodes; the tag is what the mark above is by now. *)
Reach(lets, l, w, below) ==
  LET n == To[l]
  IN IF MarkOf(w, n) = {} THEN w
     ELSE IF MarkOf(w, n) \intersect Side # {}
     THEN Execute(lets, l, MarkOf(w, From[l]), [w EXCEPT !.mark = @ \ {<<n, By[l]>>}], below)
     ELSE ReachChildren(n, w, below)

(* One link of the list of children; then the links after it. *)
Turn(lets, l, way, w, below) ==
  IF way = "marks" THEN Reach(lets, l, w, below)
  ELSE IF HasMemory(To[l]) \/ way \in lets[To[l]] THEN Execute(lets, l, {way}, w, below)
  ELSE w

Visit(lets) ==
  LET visit[l \in List] ==
        [way \in Way |-> [w \in Walk |->
           IF l = 0 THEN w
           ELSE visit[After[l]][way][Turn(lets, l, way, w, visit[Fork[To[l]]])]]]
  IN visit

(* do_loop comes to a MODIFY, which begins at the root, a test that all    *)
(* objects pass. *)
Modify(v) ==
  LET lets == Lets(passes, is, v)
      done == PropagateModify(lets, Root, [mark |-> mark, executed |-> <<>>],
                              Visit(lets)[Fork[Root]])
  IN /\ mark' = done.mark
     /\ executed' = done.executed
     /\ was' = is /\ is' = v
     /\ UNCHANGED passes

Next == \E v \in Value : Modify(v)

Spec == Init /\ [][Next]_vars

-----------------------------------------------------------------------------
(* The tags with which a modification comes along a link: both from the    *)
(* root, those of the walks whose object passes the tests down from there, *)
(* and both again below a SET.                                             *)
Left(lets, n, tags) ==
  CASE Kind[n] = "test" -> tags \intersect lets[n]
    [] Kind[n] = "set" -> IF tags = {} THEN {} ELSE Tags
    [] OTHER -> tags

Into(n) == CHOOSE l \in Link : To[l] = n

Come(lets) ==
  LET come[l \in Link] == IF From[l] = Root THEN Tags
                          ELSE Left(lets, From[l], come[Into(From[l])])
  IN come

Expected(lets) ==
  {<<To[l], By[l], Come(lets)[l]>> : l \in {m \in Link : HasMemory(To[m]) /\ Come(lets)[m] # {}}}

(* A modification executes each node with memory once by each side that    *)
(* the old or the new object comes to, and as what it is there: RETRACT if *)
(* only the old one does, INSERT if only the new one, MODIFY if both, how- *)
(* ever the ways share their tests and whatever SETs and TIMERs walk below.*)
ReachedOnce ==
  [][ /\ \A i, j \in DOMAIN executed' : executed'[i] = executed'[j] => i = j
      /\ {executed'[i] : i \in DOMAIN executed'} = Expected(Lets(passes, was, is))' ]_vars

(* The variables keep their types; a modification leaves no mark behind:   *)
(* the next one would follow it.                                           *)
NoMarkLeft == /\ mark = {}
              /\ executed \in Seq(Node \X Side \X SUBSET Tags)
              /\ passes \in [Test -> SUBSET Value] /\ was \in Value /\ is \in Value
=============================================================================
