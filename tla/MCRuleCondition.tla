---------------------------- MODULE MCRuleCondition ----------------------------
(* Conditions on two simple patterns "p" and "q" and on a pattern "s" that is a *)
(* set: every combination of a few atoms under negations, conjunctions and      *)
(* disjunctions, and some expressions that nest them in the stack.              *)
EXTENDS RuleCondition

MCAttrType == [n |-> "NUM", b |-> "BOOL", t |-> "STR"]

MCLongMin == -99

\* The function of the application, of any number of numbers.
MCExternal(args) == IF args = <<>> THEN 1 ELSE args[1] + 2 * args[Len(args)]

Object == [n : {0, 1}, b : {0, 1}, t : {0, 1}]

\* Objects whose attributes cover the cases of a comparison, and sets of 0 to 2.
MCObjects ==
  [p : {<<o>> : o \in {[n |-> 0, b |-> 1, t |-> 1], [n |-> 1, b |-> 0, t |-> 0]}},
   q : {<<o>> : o \in Object},
   s : {<<>>, <<[n |-> 2, b |-> 0, t |-> 1]>>,
        <<[n |-> -1, b |-> 0, t |-> 0], [n |-> 3, b |-> 1, t |-> 2]>>}]

Ref(patt, attr) == CreateRef(patt, attr)
Num(n) == CreateVal("NUM", n)
Bool(b) == CreateVal("BOOL", b)
Str(t) == CreateVal("STR", t)
Not(e) == CreateRel("TNOT", <<e>>)
Minus(e) == CreateRel("MINUS", <<e>>)
Bin(op, l, r) == CreateRel(op, <<l, r>>)
And(l, r) == Bin("TAND", l, r)
Or(l, r) == Bin("TOR", l, r)
Set(op, attr) == CreateAggregate(op, "s", attr, <<>>)
ToBool(e) == Node("CAST_BOO", <<e>>, "", 0, "", "")
ToInt(e) == Node("CAST_INT", <<e>>, "", 0, "", "")

Atoms == {Bin("TGT", Ref("p", "n"), Num(0)),
          Bin("TLE", Ref("q", "n"), Ref("p", "n")),
          Ref("q", "b"),
          Bin("TEQ", Ref("p", "t"), Ref("q", "t"))}

Signed == Atoms \union {Not(a) : a \in Atoms}

Pairs == {Bin(op, a, b) : op \in {"TAND", "TOR"}, a \in Signed, b \in Signed}

Nested == {Bin(op, Not(Bin(o, a, b)), c) : op \in {"TAND", "TOR"}, o \in {"TAND", "TOR"},
                                            a \in Atoms, b \in Atoms, c \in Atoms}
  \union {Bin(op, a, Bin(o, b, Not(c))) : op \in {"TAND", "TOR"}, o \in {"TAND", "TOR"},
                                          a \in Atoms, b \in Atoms, c \in Atoms}

\* Booleans that are compared, and so left in the stack by EVAL and NOT.
Stacked == {Bin(op, x, y) : op \in {"TEQ", "TNE"},
                            x \in {Ref("q", "b"), Not(Ref("p", "b")), Not(Not(Ref("p", "b"))), Bool(1)},
                            y \in {And(Ref("q", "b"), Bin("TLT", Ref("p", "n"), Num(1))),
                                   Not(Or(Ref("p", "b"), Bin("TGE", Ref("q", "n"), Num(1)))),
                                   Bin("TNE", Ref("p", "t"), Str(0))}}

Arithmetics ==
  {Bin("TGE", Bin(op, Ref("p", "n"), Bin("ADD", Num(2), Minus(Num(5)))), Minus(Ref("q", "n"))) :
     op \in {"ADD", "SUB", "MUL", "DIV"}}
  \union {Bin(op, Ref("p", "t"), Ref("q", "t")) : op \in {"TLT", "TLE", "TGE", "TGT", "TEQ", "TNE"}}
  \union {Bin(op, Bin("DIV", Num(-7), Num(2)), Minus(Num(3))) : op \in {"TLT", "TEQ", "TGT"}}

Sets ==
  {Bin("TGT", Set(op, "n"), Ref("p", "n")) : op \in {"SUMS", "PRDS", "MINS", "MAXS", "COUNT"}}
  \union {And(Bin("TLT", Set("COUNT", ""), Num(2)), Not(Bin("TEQ", Set("MAXS", "n"), Num(3)))),
          Bin("TEQ", CreateAggregate("CONCS", "s", "t", <<Str(1)>>), Str(0)),
          Bin("TEQ", CreateAggregate("CONCS", "s", "t", <<Str(2)>>), Str(9)),
          Bin("TGE", CreateAggregate("CONCS", "s", "t", <<Str(1)>>), Str(10))}

Functions ==
  {Bin("TEQ", CreateFun(args), Num(3)) : args \in {<<>>, <<Num(3)>>, <<Ref("q", "n"), Bin("ADD", Num(1), Ref("p", "n"))>>}}
  \union {Not(Bin("TLT", CreateFun(<<Ref("p", "n"), ToInt(Or(Ref("q", "b"), Bin("TGT", Ref("p", "n"), Num(0))))>>),
                         Num(2))),
          And(Not(ToBool(Ref("p", "n"))), ToBool(Bin("TEQ", Ref("q", "n"), Num(1))))}

MCSources == Signed \union Pairs \union Nested \union Stacked \union Arithmetics \union Sets \union Functions

\* A disjunction and an equality in the same join, of a size that lets realloc leave
\* the code where it is.
JoinedSources == {And(Not(And(Bin("TGT", Bin("ADD", Ref("p", "n"), Num(1)), Ref("q", "n")), Ref("q", "b"))),
                      Bin("TEQ", Ref("p", "t"), Ref("q", "t")))}

\* A negation whose operand cannot be complemented, in the stack.
OddSources == {Bin("TEQ", Not(ToBool(Ref("p", "n"))), Ref("q", "b")),
               Bin("TEQ", Ref("q", "b"), Not(Bool(1)))}
================================================================================
