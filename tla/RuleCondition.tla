------------------------------ MODULE RuleCondition ------------------------------
(* The condition of a rule from its text to its verdict: match_exp makes nodes *)
(* of an expression, and the objects that arrive pass the nodes or do not.     *)
(* The net is reduced to the nodes of this condition, which the objects meet   *)
(* one after the other, each with the objects of its side or sides.  The code  *)
(* of all the conditions on the same patterns is in one node, their join.      *)
EXTENDS Expression, StackMachine
LOCAL INSTANCE SequencesExt

CONSTANTS
  Sources,   \* the expressions, trees of CreateVal, CreateRel, ...
  Objects,   \* the objects, or the sets of objects, by pattern
  MayMove,   \* whether realloc may move the code of a node that grows
  AfterTor   \* whether the code of a condition may be added after that of a TOR

ASSUME FlagsAssumption == MayMove \in BOOLEAN /\ AfterTor \in BOOLEAN

\* The conditions on several patterns are all on the same two, so there is one join.
ASSUME JoinAssumption ==
  \A e \in Sources :
    LET inter == Conditions(e).inter
        read(i) == {RequiredObjects(inter[i])[k].patt : k \in DOMAIN RequiredObjects(inter[i])}
    IN \A i, j \in DOMAIN inter :
         /\ Cardinality(read(i)) \in {1, 2}
         /\ Cardinality(read(i)) = 2 /\ Cardinality(read(j)) = 2 => read(i) = read(j)

VARIABLES
  source,    \* the expression as it was written
  nodes,     \* its nodes, <<>> before it is compiled
  next,      \* the next node
  verdict    \* "none" until the objects pass or fail

vars == <<source, nodes, next, verdict, machine>>

\* What realloc does makes no difference to a condition: no TOR is in a node that
\* the code of a later condition is added to, after which its jumps are stale.
Settled(e) == Cardinality(MatchExp(e, TRUE)) = 1

Init ==
  /\ source \in Sources
  /\ Settled(source) \/ AfterTor
  /\ objects \in Objects
  /\ nodes = <<>> /\ next = 1 /\ verdict = "none"
  /\ MachineInit

Match ==
  /\ nodes = <<>>
  /\ nodes' \in MatchExp(source, MayMove)
  /\ UNCHANGED <<source, next, verdict, machine>>

Arrives ==
  /\ verdict = "none"
  /\ frames = <<>>
  /\ next <= Len(nodes)

KeyValue(ins) == objects[ins.at][1][ins.attr]

\* A join finds the objects of one side by the keys of the one that arrives at the
\* other, and executes its code for those.
Found(node) == \A k \in DOMAIN node.keys : KeyValue(node.keys[k][1]) = KeyValue(node.keys[k][2])

Enter ==
  /\ Arrives
  /\ Found(nodes[next])
  /\ ExecuteCode(nodes[next].on.patt, nodes[next].code)
  /\ next' = next + 1
  /\ UNCHANGED <<source, nodes, verdict, objects>>

NotFound ==
  /\ Arrives
  /\ ~Found(nodes[next])
  /\ verdict' = "fails"
  /\ UNCHANGED <<source, nodes, next, machine>>

Execute == Instruction /\ UNCHANGED <<source, nodes, next, verdict>>

\* The code of the node ends: the objects go on to the next node, or stop.
Leave ==
  /\ CodeEnds
  /\ verdict' = CASE res <= 0 -> "fails"
                  [] res > 0 /\ next > Len(nodes) -> "passes"
                  [] OTHER -> "none"
  /\ UNCHANGED <<source, nodes, next>>

\* The verdict is given: the only state in which nothing is left to do.
Decided == verdict # "none" /\ UNCHANGED vars

Next == Match \/ Enter \/ NotFound \/ Execute \/ Leave \/ Decided

Spec == Init /\ [][Next]_vars
-------------------------------------------------------------------------------
(* What the expression says, of the tree as it was written. *)

Truth(b) == IF b THEN 1 ELSE 0

Attributes(e) == [i \in DOMAIN objects[e.patt] |-> objects[e.patt][i][e.attr]]

Compared(op, a, b) == CASE op = "TEQ" -> a = b
                        [] op = "TNE" -> a # b
                        [] op = "TLT" -> a < b
                        [] op = "TLE" -> a <= b
                        [] op = "TGE" -> a >= b
                        [] op = "TGT" -> a > b

\* NULL is lower than any string, so strings compare as the numbers they are here.
RECURSIVE Meaning(_)
Meaning(e) ==
  LET l == Meaning(LeftOf(e))
      r == Meaning(RightOf(e))
      values == Attributes(e)
      range == {values[i] : i \in DOMAIN values}
  IN CASE e.op = "PUSH" -> IF e.type = "REF" THEN objects[e.patt][1][e.attr] ELSE e.val
       [] e.op = "TAND" -> Truth(l # 0 /\ r # 0)
       [] e.op = "TOR" -> Truth(l # 0 \/ r # 0)
       [] e.op = "TNOT" -> Truth(r = 0)
       [] e.op \in Comparisons -> Truth(Compared(e.op, l, r))
       [] e.op = "MINUS" -> -r
       [] e.op \in Arithmetic -> Calculated(e.op, l, r)
       [] e.op \in Casts -> l
       [] e.op = "FCALL" -> External([i \in DOMAIN e.args |-> Meaning(e.args[i])])
       [] e.op = "COUNT" -> Len(objects[e.patt])
       [] e.op = "SUMS" -> MapThenSumSet(LAMBDA i : values[i], DOMAIN values)
       [] e.op = "PRDS" -> FoldFunction(LAMBDA v, acc : v * acc, 1, values)
       [] e.op = "MINS" -> Min({LongMax} \union range)
       [] e.op = "MAXS" -> Max({LongMin} \union range)
       [] e.op = "CONCS" -> Concat(values, l)

\* A condition decides as the expression says: whatever its negations, its
\* constants, its division in conditions and the keys taken out of their code, the
\* objects pass exactly when it is true of them (match_exp, add_code,
\* execute_code).
DecidesAsWritten == verdict # "none" => (verdict = "passes") = (Meaning(source) # 0)
===============================================================================
