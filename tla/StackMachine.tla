------------------------------ MODULE StackMachine ------------------------------
(* The execution of the code of a node: execute_code and the instructions of   *)
(* expressions of nodes_exec.cpp, one step each.  EVAL and TOR execute other   *)
(* instructions in a loop of their own: the loops that have begun and not      *)
(* ended are the frames.                                                       *)
EXTENDS Integers, Sequences
LOCAL INSTANCE Folds

CONSTANTS
  External(_),   \* what the application's function returns for its arguments
  LongMax,       \* LONG_MAX and LONG_MIN, any number beyond the data
  LongMin

ASSUME LongAssumption == LongMax \in Int /\ LongMin \in Int /\ LongMin < LongMax

VARIABLES
  objects,   \* the object, or the objects of the set, by pattern
  here,      \* the pattern of the object that arrives at an INTRA node
  code,      \* the code of the node
  codeP,     \* code_p
  dstack,    \* data_stack up to dstack_p
  frames,    \* the loops, the innermost last
  res        \* what the last instruction returned

\* A loop ends at "end", or for each alternative of a TOR at the first of "jumps".
\* "base" is the height of the stack when it began (not in the code).
Frame(kind, end, jumps) == [kind |-> kind, end |-> end, jumps |-> jumps, base |-> Len(dstack)]

ExecuteCode(on, codes) ==
  /\ here' = on
  /\ code' = codes
  /\ codeP' = 1
  /\ dstack' = <<>>
  /\ res' = 1
  /\ frames' = <<[Frame("node", Len(codes) + 1, <<>>) EXCEPT !.base = 0]>>

Loop == frames[Len(frames)]
EndOf(loop) == IF loop.kind = "tor" THEN Head(loop.jumps) ELSE loop.end
LoopEnd == EndOf(Loop)

\* An alternative of a TOR goes on until code_p is at its end, the others below it.
AtEnd == IF Loop.kind = "tor" THEN codeP = LoopEnd ELSE codeP >= LoopEnd

LoopEnds == frames # <<>> /\ (res <= 0 \/ AtEnd)

Fetched == code[codeP]

Executes(op) == frames # <<>> /\ ~LoopEnds /\ Fetched.op = op

Top(n) == dstack[Len(dstack) - n + 1]
Popped(n) == SubSeq(dstack, 1, Len(dstack) - n)

\* An instruction that takes n values of the stack and leaves one.
Leaves(n, value) ==
  /\ dstack' = Popped(n) \o <<value>>
  /\ codeP' = codeP + 1
  /\ res' = 1
  /\ UNCHANGED <<objects, here, code, frames>>

\* Mutant: a test that fails leaves its operands in the stack.
AnswersEarly(n, truth) ==
  /\ dstack' = IF truth THEN Popped(n) ELSE dstack
  /\ codeP' = codeP + 1
  /\ res' = IF truth THEN 1 ELSE 0
  /\ UNCHANGED <<objects, here, code, frames>>

\* An instruction that takes n values and tells whether the object passes.
Answers(n, truth) ==
  /\ dstack' = Popped(n)
  /\ codeP' = codeP + 1
  /\ res' = IF truth THEN 1 ELSE 0
  /\ UNCHANGED <<objects, here, code, frames>>

-------------------------------------------------------------------------------
Source == objects[IF Fetched.at = "here" THEN here ELSE Fetched.at]

Values == [i \in DOMAIN Source |-> Source[i][Fetched.attr]]

PushCall == Executes("PUSH") /\ Leaves(0, Fetched.val)

PushsCall == Executes("PUSHS") /\ Leaves(0, Values[1])

CountCall == Executes("COUNT") /\ Leaves(0, Len(Source))

\* The values one after the other, from the first.
Accumulate(f(_, _), start, values) ==
  MapThenFoldSet(LAMBDA v, acc : f(acc, v), start, LAMBDA i : values[i],
                 LAMBDA S : CHOOSE i \in S : \A j \in S : i >= j, DOMAIN values)

SumSetN(values) == Accumulate(LAMBDA acc, v : acc + v, 0, values)
ProdSetN(values) == Accumulate(LAMBDA acc, v : acc * v, 1, values)
MinSetN(values) == Accumulate(LAMBDA acc, v : IF acc > v THEN v ELSE acc, LongMax, values)
MaxSetN(values) == Accumulate(LAMBDA acc, v : IF acc < v THEN v ELSE acc, LongMin, values)

SumsCall == Executes("SUMS") /\ Leaves(0, SumSetN(Values))
PrdsCall == Executes("PRDS") /\ Leaves(0, ProdSetN(Values))
MinsCall == Executes("MINS") /\ Leaves(0, MinSetN(Values))
MaxsCall == Executes("MAXS") /\ Leaves(0, MaxSetN(Values))

\* The text is a number whose digits are the values with the separator between
\* them; no object makes no text, the NULL string.
Concat(values, sep) ==
  Accumulate(LAMBDA acc, v : IF acc = 0 THEN 8 + v ELSE (acc * 8 + sep) * 8 + v, 0, values)

ConcatCall == Executes("CONCS") /\ Leaves(1, Concat(Values, Top(1)))

-------------------------------------------------------------------------------
Calculates(op, a, b) == CASE op = "ADD" -> a + b
                          [] op = "SUB" -> a - b
                          [] op = "MUL" -> a * b
                          [] op = "DIV" -> LET q == (IF a < 0 THEN -a ELSE a) \div (IF b < 0 THEN -b ELSE b)
                                           IN IF (a < 0) = (b < 0) THEN q ELSE -q

ArithmeticCall ==
  \E op \in {"ADD", "SUB", "MUL", "DIV"} :
    Executes(op) /\ Leaves(2, Calculates(op, Top(2), Top(1)))

MinusCall == Executes("MINUS") /\ Leaves(1, -Top(1))

NotCall == Executes("NOT") /\ Leaves(1, IF Top(1) = 0 THEN 1 ELSE 0)

UserFuncCall ==
  Executes("FCALL") /\ Leaves(Fetched.len, External(SubSeq(dstack, Len(dstack) - Fetched.len + 1, Len(dstack))))

-------------------------------------------------------------------------------
TestNumbers(op, a, b) == CASE op = "TEQ" -> a = b
                           [] op = "TNE" -> a # b
                           [] op = "TLT" -> a < b
                           [] op = "TLE" -> a <= b
                           [] op = "TGE" -> a >= b
                           [] op = "TGT" -> a > b

NULL == 0

\* Each instruction looks for NULL in an order of its own before strcmp.
TestStrings(op, a, b) == CASE op = "TEQ" -> IF a = NULL THEN b = NULL ELSE b # NULL /\ a = b
                           [] op = "TNE" -> IF a = NULL THEN b # NULL ELSE b = NULL \/ a # b
                           [] op = "TLT" -> b # NULL /\ (a = NULL \/ a < b)
                           [] op = "TLE" -> a = NULL \/ (b # NULL /\ a <= b)
                           [] op = "TGE" -> b = NULL \/ (a # NULL /\ a >= b)
                           [] op = "TGT" -> a # NULL /\ (b = NULL \/ a > b)

TestCall ==
  \E op \in {"TEQ", "TNE", "TLT", "TLE", "TGE", "TGT"} :
    /\ Executes(op)
    /\ Answers(2, IF Fetched.type = "STR" THEN TestStrings(op, Top(2), Top(1))
                                          ELSE TestNumbers(op, Top(2), Top(1)))

TTrueCall == Executes("TTRUE") /\ Answers(1, Top(1) # 0)

TFalseCall == Executes("TFALSE") /\ Answers(1, Top(1) = 0)

-------------------------------------------------------------------------------
Begins(frame) ==
  /\ codeP' = codeP + 1
  /\ frames' = Append(frames, frame)
  /\ res' = 1
  /\ UNCHANGED <<objects, here, code, dstack>>

EvalCall == Executes("EVAL") /\ Begins(Frame("eval", codeP + 1 + Fetched.len, <<>>))

\* load_code made the jumps addresses, from the end of their table.  They are in
\* the code as their distance from there, which whoever moves the code changes.
Jumps(codes, p) == [i \in DOMAIN codes[p].jumps |-> p + 1 + codes[p].jumps[i]]

TorCall ==
  /\ Executes("TOR")
  /\ LET jumps == Jumps(code, codeP)
     IN Begins(Frame("tor", jumps[Len(jumps)], jumps))

EvalEnds ==
  /\ LoopEnds
  /\ Loop.kind = "eval"
  /\ dstack' = Append(dstack, res)
  /\ codeP' = Loop.end
  /\ frames' = SubSeq(frames, 1, Len(frames) - 1)
  /\ res' = 1
  /\ UNCHANGED <<objects, here, code>>

AlternativePasses ==
  /\ LoopEnds
  /\ Loop.kind = "tor"
  /\ res > 0
  /\ codeP' = Loop.end
  /\ frames' = SubSeq(frames, 1, Len(frames) - 1)
  /\ UNCHANGED <<objects, here, code, dstack, res>>

AlternativeFails ==
  /\ LoopEnds
  /\ Loop.kind = "tor"
  /\ res <= 0
  /\ codeP' = Head(Loop.jumps)
  /\ IF Len(Loop.jumps) > 1
     THEN /\ frames' = [frames EXCEPT ![Len(frames)].jumps = Tail(@)]
          /\ res' = 1
     ELSE /\ frames' = SubSeq(frames, 1, Len(frames) - 1)
          /\ UNCHANGED res
  /\ UNCHANGED <<objects, here, code, dstack>>

Instruction ==
  \/ PushCall \/ PushsCall \/ CountCall \/ SumsCall \/ PrdsCall \/ MinsCall \/ MaxsCall
  \/ ConcatCall \/ ArithmeticCall \/ MinusCall \/ NotCall \/ UserFuncCall
  \/ TestCall \/ TTrueCall \/ TFalseCall \/ EvalCall \/ TorCall
  \/ EvalEnds \/ AlternativePasses \/ AlternativeFails

\* execute_code returns.
CodeEnds ==
  /\ LoopEnds
  /\ Loop.kind = "node"
  /\ frames' = <<>>
  /\ UNCHANGED <<objects, here, code, codeP, dstack, res>>

-------------------------------------------------------------------------------
(* What the stack machine asks of the code, and what it promises of any code   *)
(* that is so, whatever compiled it.                                           *)

Computing == {"PUSH", "PUSHS", "COUNT", "SUMS", "PRDS", "MINS", "MAXS", "CONCS",
              "ADD", "SUB", "MUL", "DIV", "MINUS", "NOT", "FCALL"}
Testing == {"TEQ", "TNE", "TLT", "TLE", "TGE", "TGT", "TTRUE", "TFALSE"}

\* The values an instruction takes from the stack.
Takes(ins) == CASE ins.op \in {"CONCS", "MINUS", "NOT", "TTRUE", "TFALSE"} -> 1
                [] ins.op \in {"ADD", "SUB", "MUL", "DIV"} \union (Testing \ {"TTRUE", "TFALSE"}) -> 2
                [] ins.op = "FCALL" -> ins.len
                [] OTHER -> 0

\* The code from p to e finds h values of its loop and leaves none: a test takes
\* all there are, since it may end the loop.
Fitting(codes, fits, p, e, h) ==
  IF p = e THEN h = 0
  ELSE /\ p < e /\ e <= Len(codes) + 1
       /\ LET ins == codes[p]
              ends == Jumps(codes, p)
              starts == <<p + 1>> \o ends
          IN \/ /\ ins.op \in Computing
                /\ h >= Takes(ins)
                /\ fits[p + 1][e][h - Takes(ins) + 1]
             \/ /\ ins.op \in Testing
                /\ h = Takes(ins)
                /\ fits[p + 1][e][0]
             \/ /\ ins.op = "EVAL"
                /\ p + 1 + ins.len <= e
                /\ fits[p + 1][p + 1 + ins.len][0]
                /\ fits[p + 1 + ins.len][e][h + 1]
             \/ /\ ins.op = "TOR"
                /\ h = 0
                /\ ends # <<>>
                /\ \A i \in DOMAIN ends : ends[i] <= e
                /\ \A i \in DOMAIN ends : fits[starts[i]][ends[i]][0]
                /\ fits[ends[Len(ends)]][e][0]

Fits(codes) ==
  LET fits[p \in 1..(Len(codes) + 1)] ==
        [e \in Nat |-> [h \in Nat |-> Fitting(codes, fits, p, e, h)]]
  IN fits

CodeWord == [op : STRING, type : STRING, val : Int, at : STRING, attr : STRING,
             len : Nat, jumps : Seq(Nat)]

\* Code that leaves the stack as it finds it.
Balanced(codes) == codes \in Seq(CodeWord) /\ Fits(codes)[1][Len(codes) + 1][0]

machine == <<objects, here, code, codeP, dstack, frames, res>>

MachineInit ==
  here = "" /\ code = <<>> /\ codeP = 1 /\ dstack = <<>> /\ frames = <<>> /\ res = 1

\* What the rest of the engine does with the machine: a node executes its code,
\* which is balanced (execute_code, and compile_expresion that made the code).
CodeBegins ==
  /\ frames = <<>>
  /\ Balanced(code')
  /\ ExecuteCode(here', code')
  /\ UNCHANGED objects

MachineNext == CodeBegins \/ Instruction \/ CodeEnds

MachineSpec == MachineInit /\ [][MachineNext]_machine

\* Every loop finds the stack, when it ends, as it was when it began, also when a
\* test stopped it in the middle, with the operands of an outer expression below,
\* and no instruction takes a value of an outer loop (eval_call, tor_call,
\* execute_code: nobody resets dstack_p or looks where it is).
StackRestored == /\ \A i \in DOMAIN frames : Len(dstack) >= frames[i].base
                 /\ LoopEnds => Len(dstack) = Loop.base
                 /\ frames # <<>> /\ ~LoopEnds => Len(dstack) >= Loop.base + Takes(Fetched)

\* No loop runs past its end, nor ends past the loop around it: a TOR would never
\* notice (tor_call, eval_call: code_p is only compared with where the jump says).
NeverOverruns ==
  /\ \A i \in DOMAIN frames :
       frames[i].end <= IF i = 1 THEN Len(code) + 1 ELSE EndOf(frames[i - 1])
  /\ frames # <<>> /\ res > 0 => codeP <= LoopEnd
===============================================================================
