------------------------------ MODULE Expression ------------------------------
(* The compilation of the condition of a rule, match_exp of expr.cpp: an       *)
(* expression is a tree, which check_type completes with EVAL and TTRUE,       *)
(* optimize_negations rids of its negations, pre_evaluate_exp of its           *)
(* constants, classify_expr divides in conditions on one pattern (INTRA) and   *)
(* on several (INTER), and compile_expresion turns into the code of a node.    *)
(*                                                                             *)
(* The data are small: a number, a boolean (0 or 1) and a string (a natural,   *)
(* 0 is the NULL string) are integers.  An instruction takes one place of the  *)
(* code, whatever its length in words.                                         *)
EXTENDS Integers, Sequences
LOCAL INSTANCE SequencesExt

CONSTANTS
  AttrType,   \* the type of each attribute: "NUM", "BOOL" or "STR"
  Current     \* the pattern that is being read when the expression ends

ASSUME AttrTypeAssumption == \A a \in DOMAIN AttrType : AttrType[a] \in {"NUM", "BOOL", "STR"}

Comparisons == {"TGT", "TGE", "TEQ", "TNE", "TLE", "TLT"}
Arithmetic == {"ADD", "SUB", "MUL", "DIV"}
Aggregates == {"COUNT", "SUMS", "PRDS", "MINS", "MAXS", "CONCS"}
Casts == {"CAST_INT", "CAST_BOO"}

\* is_rel: the operators that create_rel builds.
Rel == Comparisons \union Arithmetic
         \union {"MINUS", "TAND", "TOR", "TNOT", "NOT", "TTRUE", "TFALSE", "EVAL"}

\* The operators that leave their result in the flow of the code, not in the stack.
Tests == Comparisons \union {"TAND", "TOR"}

-------------------------------------------------------------------------------
(* The trees: create_val, create_rel, create_fun and create_primitive. *)

Node(op, args, type, val, patt, attr) ==
  [op |-> op, args |-> args, type |-> type, val |-> val, patt |-> patt, attr |-> attr]

CreateVal(type, val) == Node("PUSH", <<>>, type, val, "", "")

CreateRef(patt, attr) == Node("PUSH", <<>>, "REF", 0, patt, attr)

CreateRel(op, args) == Node(op, args, "", 0, "", "")

CreateFun(args) == Node("FCALL", args, "NUM", 0, "", "")

CreateAggregate(op, patt, attr, args) == Node(op, args, "", 0, patt, attr)

\* The value of f for each element of a sequence.
Each(f(_), s) == [i \in DOMAIN s |-> f(s[i])]

LeftOf(e) == e.args[1]
RightOf(e) == e.args[Len(e.args)]

-------------------------------------------------------------------------------
(* check_type. *)

RECURSIVE TypeOf(_)
TypeOf(e) ==
  CASE e.op \in Tests \union {"TNOT", "NOT", "TTRUE", "TFALSE", "EVAL", "CAST_BOO"} -> "BOOL"
    [] e.op \in Arithmetic \union {"MINUS"} -> TypeOf(LeftOf(e))
    [] e.op \in {"CAST_INT", "COUNT"} -> "NUM"
    [] e.op \in Aggregates \ {"COUNT"} -> AttrType[e.attr]
    [] e.op = "PUSH" /\ e.type = "REF" -> AttrType[e.attr]
    [] OTHER -> e.type

\* Where the operands of an operator must leave a boolean.
OperandsInStack(op, inStack) == CASE op \in {"TAND", "TOR", "CONCS"} -> FALSE
                                  [] op = "TNOT" -> inStack
                                  [] OTHER -> TRUE

RECURSIVE CheckType(_, _)
CheckType(e, inStack) ==
  LET inside == OperandsInStack(e.op, inStack)
      checked == [e EXCEPT !.op = IF @ = "TNOT" /\ inStack THEN "NOT" ELSE @,
                           !.args = Each(LAMBDA a : CheckType(a, inside), @)]
      dataInStack == checked.op \notin Tests \union {"TNOT"}
  IN CASE TypeOf(e) = "BOOL" /\ inStack /\ ~dataInStack -> CreateRel("EVAL", <<checked>>)
       [] TypeOf(e) = "BOOL" /\ ~inStack /\ dataInStack -> CreateRel("TTRUE", <<checked>>)
       [] OTHER -> checked

-------------------------------------------------------------------------------
(* optimize_negations: returns the tree, and whether it tells it complemented  *)
(* it.  A NOT goes only when the operand tells so.                             *)

Complement == [TGT |-> "TLE", TGE |-> "TLT", TEQ |-> "TNE", TNE |-> "TEQ",
               TLE |-> "TGT", TLT |-> "TGE", TAND |-> "TOR", TOR |-> "TAND",
               TTRUE |-> "TFALSE", TFALSE |-> "TTRUE"]

\* Mutant: the two sides of a complemented conjunction stay as they were.
ComplementGoesOnMissed(op) == op \notin DOMAIN Complement

ComplementGoesOn(op) == op \in {"TAND", "TOR"} \/ op \notin DOMAIN Complement

Flipped(e, compl) == IF compl /\ e.type = "BOOL" THEN [e EXCEPT !.val = 1 - @] ELSE e

RECURSIVE OptimizeNegations(_, _)
OptimizeNegations(e, compl) ==
  LET Below(c) == Each(LAMBDA a : OptimizeNegations(a, c).exp, e.args)
      operand == OptimizeNegations(RightOf(e), ~compl)
  IN CASE e.op = "NOT" /\ operand.did = ~compl -> [exp |-> operand.exp, did |-> compl]
       [] e.op = "NOT" /\ operand.did # ~compl ->
            [exp |-> [e EXCEPT !.args = <<operand.exp>>], did |-> compl]
       [] e.op = "TNOT" -> [exp |-> operand.exp, did |-> compl]
       [] e.op = "FCALL" -> [exp |-> [e EXCEPT !.args = Below(FALSE)], did |-> FALSE]
       [] e.op = "PUSH" -> [exp |-> Flipped(e, compl), did |-> FALSE]
       [] e.op \in Rel \ {"NOT", "TNOT"} ->
            [exp |-> [e EXCEPT !.op = IF compl /\ @ \in DOMAIN Complement THEN Complement[@] ELSE @,
                               !.args = Below(compl /\ ComplementGoesOn(e.op))],
             did |-> compl]
       [] OTHER -> [exp |-> e, did |-> compl]

-------------------------------------------------------------------------------
(* pre_evaluate_exp. *)

Abs(n) == IF n < 0 THEN -n ELSE n

Quotient(a, b) == LET q == Abs(a) \div Abs(b) IN IF (a < 0) = (b < 0) THEN q ELSE -q   \* as C divides

Calculated(op, a, b) == CASE op = "ADD" -> a + b
                          [] op = "SUB" -> a - b
                          [] op = "MUL" -> a * b
                          [] op = "DIV" -> Quotient(a, b)

PreEvalArith(e) == CreateVal(LeftOf(e).type, Calculated(e.op, LeftOf(e).val, RightOf(e).val))

PreEvalMinus(e) == CreateVal(RightOf(e).type, -RightOf(e).val)

\* What pre_evaluate_exp answers of what it leaves: a constant that is no string.
IsScalar(e) == e.op = "PUSH" /\ e.type \in {"NUM", "BOOL"}

RECURSIVE PreEvaluate(_)
PreEvaluate(e) ==
  LET visited == Arithmetic \union Comparisons \union {"MINUS", "TAND", "TOR", "FCALL", "TTRUE", "TFALSE"}
      below == IF e.op \in visited
               THEN [e EXCEPT !.args = Each(PreEvaluate, @)] ELSE e
      scalars == \A i \in DOMAIN below.args : IsScalar(below.args[i])
  IN CASE e.op \in Arithmetic /\ scalars -> PreEvalArith(below)
       [] e.op = "MINUS" /\ scalars -> PreEvalMinus(below)
       [] OTHER -> below

-------------------------------------------------------------------------------
(* classify_expr, with find_node_type: the pattern the conditions read so far  *)
(* are on, "" when they read none, "several" when the node must be INTER.      *)

Touched(patt, curr) == IF curr \in {"", patt} THEN patt ELSE "several"

RECURSIVE FindNodeType(_, _)
FindNodeType(e, curr) ==
  CASE curr = "several" -> "several"
    [] e.op = "PUSH" -> IF e.type = "REF" THEN Touched(e.patt, curr) ELSE curr
    [] e.op \in Aggregates ->
         IF \E i \in DOMAIN e.args : FindNodeType(e.args[i], curr) = "several"
         THEN "several" ELSE Touched(e.patt, curr)
    [] OTHER -> FoldLeft(LAMBDA c, arg : FindNodeType(arg, c), curr, e.args)

RECURSIVE Conjuncts(_)
Conjuncts(e) == IF e.op = "TAND" THEN <<LeftOf(e)>> \o Conjuncts(RightOf(e)) ELSE <<e>>

IsIntra(e) == FindNodeType(e, "") # "several"

\* The chain of conditions of one kind: match_exp divides its last one again.
Chain(conditions) == IF conditions = <<>> THEN <<>>
                     ELSE Front(conditions) \o Conjuncts(Last(conditions))

-------------------------------------------------------------------------------
(* join_required_objects: the patterns an expression reads, in order, each as   *)
(* an object or as a set (AS_SINGLE, AS_SET).                                  *)

Access(patt, access) == [patt |-> patt, access |-> access]

RECURSIVE RequiredObjects(_)
RequiredObjects(e) ==
  FlattenSeq(Each(RequiredObjects, e.args))
    \o (IF e.patt = "" THEN <<>>
        ELSE <<Access(e.patt, IF e.op \in Aggregates THEN "SET" ELSE "SINGLE")>>)

-------------------------------------------------------------------------------
(* compile_expresion.  In an INTRA node a reference is to the object that      *)
(* arrives ("here"), in an INTER node to the place of its pattern.             *)

Instr(op) == [op |-> op, type |-> "", val |-> 0, at |-> "", attr |-> "", len |-> 0, jumps |-> <<>>]

AddCode(op, type) == <<[Instr(op) EXCEPT !.type = IF type = "BOOL" THEN "NUM" ELSE type]>>

Place(patt, scope) == IF scope = "INTRA" THEN "here" ELSE patt

CompilePush(e, scope) ==
  IF e.type = "REF"
  THEN <<[Instr("PUSHS") EXCEPT !.at = Place(e.patt, scope), !.attr = e.attr]>>
  ELSE <<[Instr("PUSH") EXCEPT !.val = e.val]>>

\* get_inter_pos of the pattern: in a net of one condition it is the place a
\* reference has.
CompileAggregate(e, scope) ==
  <<[Instr(e.op) EXCEPT !.at = Place(e.patt, scope), !.attr = e.attr]>>

\* Mutant: the jumps are counted from the TOR.
TableFromTor(codes) == [i \in DOMAIN codes |-> Len(FlattenSeq(SubSeq(codes, 1, i))) + 1]

\* The jumps of a TOR, from the end of its table: where each alternative ends.
Table(codes) == [i \in DOMAIN codes |-> Len(FlattenSeq(SubSeq(codes, 1, i)))]

CompileAlternatives(codes) == <<[Instr("TOR") EXCEPT !.jumps = Table(codes)]>> \o FlattenSeq(codes)

RECURSIVE Alternatives(_)
Alternatives(e) == IF e.op = "TOR" THEN <<LeftOf(e)>> \o Alternatives(RightOf(e)) ELSE <<e>>

RECURSIVE Compile(_, _)
Compile(e, scope) ==
  LET operands == FlattenSeq(Each(LAMBDA a : Compile(a, scope), e.args))
      alternatives == Alternatives(e)
  IN CASE e.op \in {"TAND"} \union Casts -> operands
       [] e.op = "TOR" ->
            CompileAlternatives(Each(LAMBDA a : Compile(a, scope), alternatives))
       [] e.op \in Comparisons \union Arithmetic \union {"MINUS"} ->
            operands \o AddCode(e.op, TypeOf(LeftOf(e)))
       [] e.op \in {"TTRUE", "TFALSE", "NOT"} -> operands \o AddCode(e.op, "")
       [] e.op = "EVAL" -> <<[Instr("EVAL") EXCEPT !.len = Len(operands)]>> \o operands
       [] e.op = "FCALL" -> operands \o <<[Instr("FCALL") EXCEPT !.len = Len(e.args)]>>
       [] e.op \in Aggregates -> operands \o CompileAggregate(e, scope)
       [] e.op = "PUSH" -> CompilePush(e, scope)

-------------------------------------------------------------------------------
(* The code of a node, Node::add_code and load_code, which turns the jumps of  *)
(* a TOR into addresses, once.  Here a jump is always the distance from the    *)
(* end of its table to where its address points, so it changes when the code   *)
(* moves and the address stays as it is.                                       *)

Words(ins) == CASE ins.op \in {"PUSH", "PUSHS", "EVAL"} \union Aggregates -> 2
                [] ins.op = "FCALL" -> 4
                [] ins.op = "TOR" -> 2 + Len(ins.jumps)
                [] OTHER -> 1

WordOf(codes, place) ==
  FoldLeftDomain(LAMBDA n, i : IF i < place THEN n + Words(codes[i]) ELSE n, 0, codes)

Nowhere == 0   \* no place of the code

\* The instruction that begins at a word.  A jump between two is lost for good.
PlaceOf(codes, word) ==
  LET places == {p \in 1..(Len(codes) + 1) : WordOf(codes, p) = word}
  IN IF places = {} THEN Nowhere ELSE CHOOSE p \in places : TRUE

\* The code when each jump points to another place.
Repointed(codes, f(_)) ==
  [p \in DOMAIN codes |->
     [codes[p] EXCEPT !.jumps = Each(LAMBDA j : f(p + 1 + j) - (p + 1), @)]]

\* realloc has moved the code: the addresses are in memory that is free.
Abandoned(codes) == Repointed(codes, LAMBDA place : Nowhere)

\* memmove has moved the code n words on, where it was: n new keys are before it.
Displaced(codes, n) ==
  IF n = 0 THEN codes
  ELSE Repointed(codes, LAMBDA place : IF place = Nowhere THEN Nowhere
                                       ELSE PlaceOf(codes, WordOf(codes, place) - n))

\* getInterKeysInCode: the equalities between the sides that the code begins with.
IsKey(codes, k) ==
  /\ 3 * k <= Len(codes)
  /\ codes[3 * k - 2].op = "PUSHS" /\ codes[3 * k - 1].op = "PUSHS" /\ codes[3 * k].op = "TEQ"
  /\ codes[3 * k - 2].at # codes[3 * k - 1].at

KeysInCode(codes) ==
  LET found == {n \in 0..Len(codes) : \A k \in 1..n : IsKey(codes, k)}
      nkeys == CHOOSE n \in found : \A other \in found : n >= other
  IN [k \in 1..nkeys |-> <<codes[3 * k - 2], codes[3 * k - 1]>>]

\* What follows a key is copied with its length in words taken as bytes: what is
\* left is not known.
Copied(codes) == Each(LAMBDA ins : Instr("UNKNOWN"), codes)

IsJoin(node) == node.on.access = "JOIN"

NodeAddCode(node, codes, moved) ==
  LET keys == IF IsJoin(node) THEN KeysInCode(codes) ELSE <<>>
      rest == SubSeq(codes, 3 * Len(keys) + 1, Len(codes))
      before == IF moved THEN Abandoned(node.code) ELSE Displaced(node.code, Len(keys))
  IN [node EXCEPT !.keys = @ \o keys,
                  !.code = before \o (IF keys = <<>> THEN rest ELSE Copied(rest))]

-------------------------------------------------------------------------------
(* match_exp: the nodes of an expression.  An INTRA condition goes to the      *)
(* pattern it reads last, or the current one, an INTER one to the node         *)
(* add_to_inter_assoc answers for the patterns it reads: the join of two, or,  *)
(* when it reads one (a part of a condition that was divided again), the last  *)
(* node of that pattern.                                                       *)

Several == Access("several", "JOIN")

IntraTarget(e) == Last(<<Access(Current, "SINGLE")>> \o RequiredObjects(e))

InterTarget(e) ==
  LET read == RequiredObjects(e)
  IN IF \E i, j \in DOMAIN read : read[i].patt # read[j].patt THEN Several
     ELSE IF read[1].access = "SET" THEN read[1] ELSE Access(read[1].patt, "LAST")

\* insert_intra_node fills the empty node below the pattern and leaves another
\* one.  A set, a join and a last node take the code of all their conditions.
Grows(target) == target.access # "SINGLE"

AddCondition(nodes, target, codes, moved) ==
  LET own == {i \in DOMAIN nodes : Grows(target) /\ nodes[i].on = target}
      node == [on |-> target, keys |-> <<>>, code |-> <<>>]
  IN IF own = {} THEN Append(nodes, NodeAddCode(node, codes, FALSE))
     ELSE [i \in DOMAIN nodes |-> IF i \in own THEN NodeAddCode(nodes[i], codes, moved)
                                             ELSE nodes[i]]

\* The conditions of each kind, as match_exp visits them.
Conditions(source) ==
  LET checked == CheckType(source, FALSE)
      conditions == Conjuncts(PreEvaluate(OptimizeNegations(checked, FALSE).exp))
  IN [intra |-> Chain(SelectSeq(conditions, IsIntra)),
      inter |-> Chain(SelectSeq(conditions, LAMBDA e : ~IsIntra(e)))]

\* Each with the node it goes to and its code.
Compiled(source) ==
  LET c == Conditions(source)
  IN Each(LAMBDA e : <<IntraTarget(e), Compile(e, "INTRA")>>, c.intra)
       \o Each(LAMBDA e : <<InterTarget(e), Compile(e, "INTER")>>, c.inter)

\* The nodes of an expression, as they may come out: "moves" are the conditions for
\* whose code realloc moves the block of the node.
MatchExp(source, mayMove) ==
  LET compiled == Compiled(source)
      NodesIf(moves) ==
        FoldLeftDomain(LAMBDA nodes, i : AddCondition(nodes, compiled[i][1], compiled[i][2], i \in moves),
                       <<>>, compiled)
  IN {NodesIf(moves) : moves \in IF mayMove THEN SUBSET DOMAIN compiled ELSE {{}}}
===============================================================================
