# TLA+ models of rcengine

rcengine is a forward-chaining rule engine. A package of rules is compiled into
a net (RETE): objects are tested one by one (O nodes), joined in pairs (AND,
NAND, OAND nodes and their timed variants), grouped (SET nodes), and what
survives reaches the production node of a rule, which queues the rule in the
conflict set. Rules create, modify and delete objects, and those go through the
net in turn, until nothing happens any more. The application owns objects too:
it hands them to the engine with `engine_loop` and is told about the ones the
rules touch by callbacks.

There are no threads. What makes the engine hard to get right is reentrancy and
order: one call of `engine_loop` runs an unbounded cascade of nested `do_loop`s,
every one sharing a list of actions, the net's memories and the objects, which
are shown now in their old and now in their new state; external functions and
callbacks call back into the engine in the middle of it. All of that is reached
from the outside by a handful of calls, so a test fixes one order out of very
many.

File names below are relative to `src/src/` unless they say otherwise.

## 1. Inventory

| Component | State it keeps | Operations | Talks to |
|---|---|---|---|
| Conflict set and production nodes (`confset.cpp`, `prod_call`, `run_cs`, `perform_execution` in `nodes_exec.cpp`) | a LIFO list and a BTree per priority; a memory of matches per rule with the implied object of each | `prod_call` (INSERT, MODIFY, RETRACT), `run_cs`, `best_cset`, the reset of a PROD node | called by the propagation and by `do_loop`; runs right-hand sides, which push actions; links left compounds |
| Loop of actions (`eng.cpp`, `actions.cpp`) | the list of actions, `in_the_loop`, the object copied by `engine_modify`, the frames of `do_loop` | `engine_modify`, `engine_loop`, `do_loop`, `Action::push/pop/objswap`, `new_call`, `mod_call`, `mod_wp_call`, `del_call`, `objimp_call` | propagates through the net, runs the conflict set, calls the callbacks |
| Callbacks (`callbacks.cpp`) | a list of functions and masks | `add_callback_func`, `del_callback_func`, the four notifications | called by `do_loop` and by resets; may call `engine_loop` |
| Two-sided nodes AND, NAND, OAND | two BTrees of items, a `MatchCount` per item by the left (NAND, OAND) | `and_call`, `nand_call`, `oand_call`, by each side; the storing functions | fed by `propagate`, feed their children; the keys choose what is visited |
| Timed nodes WAND, NWAND, OWAND and TIMER | as above plus time windows, timers | `wand_call` and its kin, `push_to_remove_old_item`, `timer_call`, `timer_refresh`, `engine_refresh` | push actions of their own into the list |
| SET nodes (`set.cpp`) | sets of objects with their keys | `set_call`, the storing functions | push actions on sets |
| Propagation (`propagate`, `propagate_modify`, `propagate_reached_nodes`) | the marks of the nodes a MODIFY reaches | marking with the old and the new state, then a visit | all nodes |
| Objects and links (`metaobj.cpp`, `single.cpp`, `compound.cpp`) | link counts, old and new state of a Single | `link`, `unlink`, `set_state`, `set_deleted`, joins and comparisons | everything |
| BTree and keys (`btree.cpp`, `keys.cpp`) | ordered trees | insertion, deletion, search and walk by keys | the memories of every node, the conflict set |
| Rule sets (`load.cpp`, `rules.cpp`) | packages and rule sets, active or not | load, reset, free | frees memories, retracts implied objects through `do_loop` |
| Construction of the net (`nodes.cpp`, `patterns.cpp`) | the nodes | sharing of nodes, extraction of keys from code | done once, when a rule is compiled |
| Compiler (`lex.cpp`, `syntax.y`, `expr.cpp`, `classes.cpp`, `vars.cpp`, `functions.cpp`) | tables of classes, variables, functions; the tree of an expression | text to tree, types and casts, evaluation of constants, negations, the split in tests of one and of several patterns, tree to code | the construction of the net |
| Instructions of expressions (`nodes_exec.cpp`, `primit.cpp`) | the code pointer, the data stack, the loops of EVAL and TOR | arithmetic, strings, comparisons, aggregates on sets, calls of functions | evaluated by every node |
| Errors, text helpers, trace | - | messages | - |

What makes each of them correct, and what is hard about it:

* **Conflict set.** Each match runs its rule with INSERT, then MODIFY any number
  of times, then RETRACT, and RETRACT undoes exactly what INSERT did. A match can
  be withdrawn while its entry waits; an entry lives in two structures that
  different calls change; the links that keep the left compound alive are
  counted by five branches.
* **Loop of actions.** Nested instances share the list: an inner one must not
  touch what waits for the outer. A modified object is shown in its old state
  from the moment the application is told of it to the moment its action is
  propagated, and rules run meanwhile. Objects can be deleted by an action while
  other actions about them wait. The application may free an object after a
  callback, so the engine must not refer to it any more; and must make that
  callback for every object it drops.
* **Two-sided nodes.** What the children hold must equal a function of the two
  memories after every arrival; MODIFY has to be split into INSERT, RETRACT and
  MODIFY per pair by running the test on two states, and NAND and OAND count
  matches incrementally without ever recomputing. One object can arrive by both
  sides.
* **Timed nodes.** As above, while time moves; old items are retracted by actions
  that run later than the decision to retract them.
* **SET nodes.** The set seen by a rule must equal the group of its items. A set
  has no key of its own: it is recognised by what one of its elements shows, and
  it goes back and forth between two states while the nodes below look at it.
* **Propagation.** A MODIFY must visit each node reached in either state once, in
  an order that makes the two arrivals at a join consistent.
* **Links.** No structure freed in use, none leaked.
* **BTree.** Search, order and balance; an item must be found under the key it
  was filed with.
* **Compiler and instructions.** A condition must decide what it says, whatever
  the compiler rewrote: negations, constants, casts, optional patterns that match
  nothing. Each instruction takes from the data stack what the others left there.
* **Rule sets.** A reset retracts exactly the implied objects of the set.

`PROJECT.json` lists the places where each of these could go wrong, by line.

## 2. Modules

```
RuleActivation  <--implements--  ConflictSet  <-- MCConflictSet
                                      ^---------- ConflictSetProofs
ObjectFeed      <--implements--  ActionLoop   <-- MCActionLoop
                                      ^---------- ActionLoopProofs
BetaMemory <-- AndNode ------------\
BetaMemory <-- MatchCounts <-- NandNode, OandNode --> BetaNode <-- MCBetaNode
   AndNodeProofs, and of the other two and the three together BetaNodeProofs
BetaNode   <-- TimedNode           <-- MCTimedNode,  TimedNodeProofs
SetNode, TimerNode <-- TimedSet    <-- MCTimedSet,   TimedSetProofs
Propagation                        <-- MCPropagation, PropagationProofs
Expression, StackMachine <-- RuleCondition <-- MCRuleCondition
   StackMachineProofs, of the machine with any code
ItemSet         <--implements--  BTree        <-- MCBTree
```

### RuleActivation, ConflictSet

`ConflictSet` is `prod_call`, `run_cs`, `perform_execution` and the reset of a
PROD node. Its variables are the program's: `list[c]` is `conflict_set[c]`,
`tree[c]` is `conflict_set_mem[c]`, `memory[r]` the BTree of a production node,
`implied` the right side of a ProdCompound, `links` what the production node
added to the link count of a left compound. `fired` is history: the right-hand
side the last step ran.

One action per branch of the code: `ProdInsert`, `ProdModify`, `CancelInsert`
(RETRACT of a pending INSERT), `RetractModified` (of a pending MODIFY),
`RetractActive` (nothing pending), `RunCs`, `ResetRule`. A RETRACT runs the
right-hand side at once inside the propagation, as in the code; only INSERT and
MODIFY are queued. Nothing is assumed about the order in which the net delivers
tags, because the code defends itself against strays and duplicates.
Right-hand sides are abstracted to the fact that they ran and to the implied
object they create or retract. The link of the conflict set on a left compound
saturates nowhere; `MaxLinks` bounds the leak described in section 5 so that
the state space is finite.

`RuleActivation` is what a rule author relies on: a phase per activation and the
runs between phases. `ConflictSet` implements it by the mapping `PhaseOf`, which
reads the phase off the tag of the pending entry and the memory of the node.

### ObjectFeed, ActionLoop

`ActionLoop` is the loop. `queue` is the static list of `Action`; `stack` holds a
record per active `do_loop`: its action, `first` (`first_loop`), `base` (the
place of the tail it found on entry: the code's `new_init`), `told` (how far the
loop that makes the callbacks has gone), `ran` (the answer of `run_cs`) and the
place in the code, `pc`:

| `pc` | where `do_loop` is | leaves by |
|---|---|---|
| `net` | inside the propagation: RETRACT right-hand sides run | `RunRule`, `StartTelling` |
| `cs` | before another `run_cs` | `RunRule`, `StartTelling` |
| `rhs` | a right-hand side runs | `StartTelling` |
| `tell` | the loop that makes callbacks and swaps objects | `Tell`, `AllTold` |
| `descend` | the loop that calls `do_loop` on each new action | `Descend`, `Repeat`, `Finish` |

`Enter` is `do_loop` from its first line to the propagation: `Action::pop` with
the CHANGE actions it drops, the early return for deleted objects, the
`objswap` and the propagation. `value[x]` is what the object's pointer shows
now; `net[x]` the value the net's memories stand for. `Finish` is the end of
`do_loop` with its three outcomes (`object_deleted`, `object_no_more_used`,
nothing). `EngineLoop` and `EngineLoopInside` are the calls of the application
from outside and, stopped by `in_the_loop`, from external functions and
callbacks.

The net is abstracted to whether it holds an object, a choice made at each
propagation (a pattern may accept it or not), and rules to the actions they may
push, on any object of a match. `Habits` names four things rules and
applications may do that the engine does not survive (section 5); the passing
runs allow only the habits it does survive, and each other one is a constant
away.

`ObjectFeed` is what the application may rely on: announced before anything else
is said, deleted once, silence afterwards.

### BetaMemory, AndNode, MatchCounts, NandNode, OandNode, BetaNode

`BetaMemory` has what the three nodes share: memories, the test (with `InWindow`,
any further condition on two items, which the timed nodes use), `StoredTag` (the storing
functions: a stray RETRACT stops, a MODIFY of an unknown item becomes INSERT, a
TRIGGER item is never stored), `PairTag` (the two evaluations of the test, on
the old and the new state), `Visited` (with a key, only the items filed under
the key the arriving item has now), and the second arrival of an object that
reaches the node by both sides (`due`). An action is one arrival, with
everything the node does about it: `and_call_by_left` ... `check_oand_cond`.
The children are abstracted to the set of pairs they hold, `out`; `sent` is
history, what the last arrival told them.

`MatchCounts` adds the counter of each left item and what becomes of it
(`disposed`: the code deletes a counter that may not be its own).
`BetaNode` composes the three kinds: it extends the NAND and the OAND node, which
share their variables, and has the AND node as the instance `And`, whose
modifications are its own (`AndMoves`). The kind is chosen when the net is built,
and `Next` is the node's own.

### ItemSet, BTree

`BTree` is the tree itself, node by node. `root`, `numItems` and `numKeys` are
those of the class, `answer` is what the last call returned. A node is a record
of `keys` and `kids`; the functions that change nodes in place (`AddItemToRight`,
`Split`, `PushDown`, `DeleteNode`, the rotations, `Join`) return the changed node,
one operator for the two copies of a function that differ in whether they compare
by key or by the order of the caller. In a tree of trees the entries of a node
are roots themselves; `level` counts the keys that are left, so it runs from
`numKeys` down to 0. `Bisect` is the binary search, `Walk` the walk with the stack
of `BTState`. Orders are those of the memories: the numbers of the keys, then
decreasing `t2`, then the address. A difference of two `long` is cut to the
`Width` bits of an `int` (`Narrow`), as in the code.

Two things the program does here have no meaning in C++. The functions are called
on a NULL node and test `this == NULL` (`btree.cpp:715`), which a compiler may
delete: the model is of a build that keeps the test, for in one that does not the
first insertion ends the program. `Free` deletes "the item equal to NULL", which in
a tree with keys reads the attributes of NULL (`keys.cpp:77`): the program ends
there, so `Free` has no step for a tree with keys and items. `load.cpp:669-680`
makes that very call when a package whose AND nodes have keys is reset with
objects in them.

`ItemSet` is what the memories of the net rely on: a set of items that gives back
what it removes. It is the justification of the sets that stand for memories in
`BetaMemory` and `ConflictSet`.

### TimedNode

`wand_call`, `nwand_call` and `owand_call` with what they call. A timed node is a
`BetaNode` (the instance `Node`) whose pairs must also be close in time, and
`removals`, the bag of the actions it has pushed: while a walk looks for the
partners of an arrival, `push_to_remove_old_item` pushes the items of a TEMPORAL
class it meets that are too old, and `Remove` is what `do_loop` makes of one of
them later. Between the two an item may arrive again, be modified, be retracted or
be pushed a second time. `do_loop` takes the actions of a batch in order, last
batch first; here they run in any order. Times are naturals and belong to an item
for good, as in the code.

### SetNode, TimerNode, TimedSet

`SetNode` is `set_call` and `set.cpp`: `groups` are the sets by context, an
element of a set has a count (`MatchCount`), and `SetInsert`, `SetRetract` and
`SetModify` take an arrival to the sets it leaves and enters, with the two states
a set goes through (`SetState`, `Set::set_state`). Objects are their addresses:
the `Sample`, whose key stands for the key of the set, is the first item of the
root of its tree, the lowest address while the tree is one node, as it is here.
`TimerNode` is `timer_call` and `timer_refresh`: `mem` the objects, which the only
leaf of its tree holds in the order of `compare_t` (`Place`), `queue` the RETRACTs
it has pushed with the arrival that waits behind them, `walk` the walk of
`engine_refresh` with its place in the leaf; `FindBiggerThan` is the binary search
that finds where the objects out of the window begin.

`TimedSet` composes them, with the pattern above (`above`, `val`): objects are
inserted, modified with or without a change of key and deleted while actions of
the TIMER wait and between the steps of a walk. It has the SET below a TIMER or
below an OAND node, where the null single takes and leaves the place of the first
object.

### Propagation

`propagate_modify` over a net given by constants. The children of a node are a list
of links as in the code: `Fork[n]` is the first (`_fork`), `After[l]` the next
(`NodeLink::next`), `To[l]` and `By[l]` the child and the side it is entered by,
`From[l]` the parent. Links are numbers and come before those they lead to, which
says no more than that the net has no cycles. The assumptions about them are what
`connect_node` keeps: a link is in one list, a node has one parent by each side, only
a join has two.

`Scope` is the walk that only marks, as the set of bits it sets from a link on;
`Marked` adds that of the old object (RETRACT) and that of the new one (INSERT) to
`_mark`, both together are a MODIFY. `Visit` is the walk that executes: for every
link a function from what is marked and executed before to what is after, either along
the marks (`Reach`, `ReachChildren`, which clear them) or in earnest with one tag
(`Propagate`). `Turn` is the loop over the children with the tag read from the mark
each time. `executed` is what a modification executed: the node, the side, the tag. A
SET or a TIMER on the way begins a propagation of its own. This is where the order of
the two arrivals and the tags that `BetaMemory` takes for granted come from.

The recursions are functions over the numbers of the links and not operators, so
that they can be proved about.

### Expression, StackMachine, RuleCondition

`Expression` is `expr.cpp` as far as a condition goes: the operators of the module
are its functions, on trees that are records; `MatchExp` gives the nodes of a
condition with their code. Conditions on one object have a node each; those on the
same two patterns go one after the other to the node that joins them, and those on
a set to the node that makes it (`AddCondition`). `NodeAddCode` is the growth of a
node's code, `Node::add_code`: the equalities it begins with become keys of the
join (`KeysInCode`), in front of the code that is there, and `realloc` may move the
block. `load_code` makes addresses of the jumps of a TOR once, so that both leave
those of earlier conditions behind; the model keeps a jump as its distance from the
end of its table, which is wrong by as much as the code has moved (`Displaced`), or
leads nowhere (`Abandoned`). `StackMachine` is `execute_code` with the
instructions that code is made of, one step each; the loops that EVAL and TOR run
inside are `frames`. At its end `StackMachine` says what it asks of the code a node
executes, whoever compiled it (`Balanced`, by the recursive function `Fits`: a test
takes all the values that are left in its loop, a loop leaves none, jumps stay
inside the loop around them), and the machine that executes any code of that kind
(`MachineSpec`). `RuleCondition` takes a condition of a set through the
compiler and then objects through the nodes: `Match`, `Enter`, or `NotFound` when
a join finds nothing by its keys, one action per instruction, `Leave`. There is one
join, of two patterns (`JoinAssumption`); a rule has several. What the condition means (`Meaning`) is defined by recursion
on the tree as it was written, apart from the compiler and the machine.

## 3. Runs

Every passing run checks deadlock unless said otherwise.

| Run | Instance | States | Shows |
|---|---|---|---|
| MCConflictSet | 3 rules (HIGH implying, LOW plain, LOW trigger), 2 matches, any order of tags | 109,088 | all the invariants below, priorities, the refinement and termination |
| MCActionLoop | 2 objects of the application, 1 of the rules, 2 pushed actions, 2 calls, inserts from functions and callbacks | 396,541 | the list, the states of objects, the feed |
| MCActionLoopDeep | 1 object of the application, 2 of the rules, 3 pushed actions, 2 calls | 1,413,322 | modifications propagated faithfully, nothing forgotten |
| MCBetaNode | 2 items by the left, 3 by the right, one on both sides, 2 values, each kind of node | 13,511 | the meaning of each node, exact counters |
| MCBTree | 26 items, 4 trees of 21 to 25 of them and a tree of trees, 2 calls | 7,018 | balance, order, search, walks, the refinement of a set |
| MCTimedNode | 2 items by the left, one a compound, 3 by the right, one on both sides, each kind of node, 2 removals that wait | 61,336 | what the children hold, what is removed and that it is |
| MCTimedSet | 4 objects, 2 of the same time, 2 contexts, 2 keys, TIMER or OAND above the SET, 5 calls | 253,587 | the sets, the window, no object lost behind the removals |
| MCPropagation | a net of 15 nodes, any tests in 6 of them | 24,576 | each node executed once by each side with the right tag, no mark left |
| MCRuleCondition | 670 conditions of two patterns and a set, all objects | 339,894 | the code decides what the source means, and no loop disturbs the stack of another |

*MCConflictSet.* `QueuesAgree`: list and BTree hold the same entries, once,
under the right priority. `PendingIsRemembered`: no rule waits for a match that
is gone. `LinksBalance`: links are neither lost nor, for ordinary rules, leaked.
`ImpliedFollowsMatch`: implied objects exist exactly for the matches whose
INSERT ran. `UrgentFirst`: INSERT and MODIFY run by priority. 
`ImplementsActivation`: the refinement. `Drains`: the conflict set empties.
Bounds: three rules are one of each sort the code tells apart, two of them in
the same list so that an entry is removed from the middle of it; two matches
give entries of one rule that must not be confused. All priorities behave alike
but for their order, and two of the three are used.

*MCActionLoop* and *MCActionLoopDeep.* `OthersUntouched`: a nested instance
leaves the actions of the outer ones alone. `NothingLeft`: the list is empty
when `engine_loop` returns. `NetShowsObjects`: an object in the net shows the
value its memories hold unless its modification was not told yet.
`ModifyIsFaithful`: a MODIFY is propagated from what the net holds to what its
author wrote. `ShownIsWritten`: the callback sees the new state. `NoDangling`:
the engine refers to nothing the application may have freed. `NoLeak`: an object
is dropped only with a callback, or with a CHANGE pending. `FeedsApplication`:
the refinement of `ObjectFeed`. Two pushed actions on three objects already
nest three instances; the third action of MCActionLoopDeep lets a batch meet
the batch of a nested instance. Values matter only as equal or different, so two
are enough. `CHECK_DEADLOCK FALSE`: with the bounds used up and the application
silent, nothing remains to be done, and the real program just waits.

*MCBetaNode.* `OutIsJoin`, `OutIsUnmatched`, `OutIsOuterJoin`: when no arrival is
outstanding the children hold exactly the join, the unmatched left items, the
left outer join. `CountsAreExact`. `DeletesItsOwn`: the counter deleted is that
of an item no longer stored. `NoStrays`: children are told INSERT of what they
do not hold and MODIFY or RETRACT of what they hold. Three right items give the
counters 0, 1, 2 and 3, so that leaving zero, staying above it and returning all
happen; the test is an order and not an equality so that it is not symmetric.
Two of the right items may be modified; the AND node lets all four.

*MCBTree.* `Balanced`: the shape of every node after every split, rotation and
join. `FindsEach`, `WalksInOrder`, `WindowIsVisited`: a search finds what is
stored and nothing else, a walk visits the items of a key in order, the walk of
a window those older than its limit. `ImplementsSet`: the refinement of
`ItemSet`, its size included. `MinKeys` is 2 instead of 5, the least for which
`Join` may take a node with one key for the root; the trees of the initial
states are made with the model's own Insert and Delete, most of them three nodes
high, and chosen so that two calls more meet every case: splits up to a new
root, both rotations of leaves and of inner nodes (the tree that had a key
deleted), joins that lower the tree. Their shape is what matters and not what
they hold, so longer runs repeat these cases. Items share values of `t2`, so
that limits of windows fall on ties, some on both sides of an inner key.
`CHECK_DEADLOCK FALSE`: the calls are bounded.

*MCTimedNode.* `OutFollowsMemories`: with items pushed out at any moment the
children still hold the join, the unmatched items or the outer join of what the
memories hold and the window lets in. `OnlyOldLeave`: what is removed is older
than the window. `OldLeaves`: what is pushed out leaves. The times put on each
side an item that some item of the other side finds too old, and an item that
both finds and is found; two waiting removals let one item be pushed twice.

*MCTimedSet.* `SetsFollow`: each set holds exactly the objects that match, have its
key and are in the window, or wait there to be removed, and the null single is
where it has to be. `KeepsTheWindow`: only objects that are too old have left.
`SecondArrival`: an object whose arrival waits behind removals enters in the end.
Two objects of the same time, one of them with its neighbour in the leaf too
old, are what `timer_call` and `engine_refresh` can get wrong; five calls are an
insertion of each object and one modification, removal or refresh.
`CHECK_DEADLOCK FALSE`: the calls are bounded.

*MCPropagation.* `ReachedOnce`: a modification executes each node by each of its
sides once if the old or the new object gets there, and with the tag that the two
ask for. `NoMarkLeft`: nothing remains marked for the next modification. The net
has each form that makes a difference: a shared test, a join reached by both
sides by ways of different length, a dead end, a SET and a TIMER with tests and
joins below, a SET below a TIMER.

*MCRuleCondition.* `DecidesAsWritten`: the verdict of the compiled nodes is what
the condition means. `StackRestored`: each loop finds the data stack when it
ends as it was when it began, and no instruction takes a value of a loop around
its own. `MachineSpec`: all code the compiler makes of these conditions is
balanced and each step of their execution one of the machine, so what is proved
of the machine holds of it: that also `NeverOverruns`, no loop goes past its end
nor ends past the loop around it, which `tor_call` would not notice. The
conditions are every operator on every kind of operand, under a negation, a
cast, an aggregate and in both places of AND and OR, with a limit: no condition
adds code to a node after a TOR (`AfterTor = FALSE`, `Settled`), which is the case
that goes wrong in MCRuleConditionJoined. So `realloc` may move any block
(`MayMove = TRUE`), and nothing comes of it. The objects include the
null one of an optional pattern and sets of none, one and two. Deadlock is
checked, and `Decided`, which stands still, is the only step after the verdict:
the machine never gets stuck.

Fairness, and why the code gives it:

* `ConflictSet!FairSpec` has `WF_vars(RunCs)`, for `Drains`: `do_loop` calls
  `run_cs` again until it answers that the set is empty (`eng.cpp:303-362`), so a
  conflict set that stays non-empty is served.
* `TimedNode!FairSpec` has weak fairness of the second arrival of an object, which
  follows the first in the same propagation, and strong fairness of each `Remove`,
  for `OldLeaves`: `do_loop` ends only when its part of the list is empty. Strong,
  because other arrivals come between two removals.
* `TimedSet!FairSpec` has weak fairness of `DoLoop` and of `RefreshStep`, for
  `SecondArrival`, for the same reason; nothing is assumed of the application.

Every property of a passing run has a mutant in `PROJECT.json`, an operator
beside the one it replaces, that a plausible slip would produce: an entry removed
from one of its homes, a link not given back, the objswap forgotten, the old
state not evaluated, a counter changed before it is compared.

## 4. Proofs

`ConflictSetProofs` proves, for any sets of rules and matches, any priorities,
flags and sorts of rules that satisfy `ConstantsAssumption`:

* `Invariance`, `Spec => []IInv`, and from it `TypeCorrect`, `QueuesCorrect`,
  `NoStaleActivation`, `LinksCorrect`, `ImpliedCorrect`: the five invariants of
  MCConflictSet;
* `Refinement`, `Spec => RA!Spec`: ConflictSet implements RuleActivation;
* `UrgentRunsFirst`, `Spec => UrgentFirst`: only a RETRACT overtakes an entry of a
  more urgent category, because only `run_cs` runs anything else, `best_cset` takes
  it from the first list that is not empty, and what waits is in a list
  (`QueuesAgree`).

None of the invariants is inductive alone: that a RETRACT finds a link to give
back needs `LinksBalance`, which needs to know which matches are remembered when
an entry is found, which needs that list and tree agree so that an entry found in
the tree can be taken out of the list. `IInv` is their conjunction with
`TriggersForget`: a trigger rule's memory stays empty.

The argument: all the invariants but the first two speak of one activation at a
time, so `ActivationWise` and `UnmovedOK` reduce a step
to the activation it moves; `PushAgrees`, `UnlinkAgrees`, `HeadListed` say what
the sequence operations do to a list that agrees with its tree, and
`InsertFound`, `RemoveFound` lift that to the whole set; then one lemma per action
(`ProdInsertOK`, `ProdModifyOK`, `CancelInsertOK`, ...) proves both the invariant
and the step of `RuleActivation` it maps to.

`AndNodeProofs` proves, for any items, values and test, items on both sides and
TRIGGER sides included, and under the assumption `KeysStay` (a node with keys is
not sent modifications, which section 5 shows it needs):

* `Invariance`, and from it `TypeCorrect` and `JoinCorrect`,
  `Spec => []OutIsJoin`: the children of an AND node hold the join;
* `NeverStray`, `Spec => [][EachFits]_vars` when no item is to be paired with
  itself (`~SameObj`): no child is told a RETRACT or a MODIFY of a pair it does not
  hold, or an INSERT of one it holds.

`OutIsJoin` speaks of the moments when no arrival is outstanding and says nothing
of what happens between the two arrivals of an object that is on both sides.
`IInv` does: until the second arrival the pairs of the side it has not
reached are still those of the object's old value (`OutIsPartlyJoin`), and what
is noted of that arrival is right for the other memory (`DueIsFaithful`). The
argument: `ToldByLeft` and `ToldByRight` say which pairs the messages of an
arrival leave the children with; `ByLeftPairs` and `ByRightPairs`, what that means
for the pair of any two items; then one lemma for an arrival that starts and one
for an arrival that ends, by each side.

`BetaNodeProofs` proves first the same of the other two nodes, for any items and tests
and finitely many items by the right, under `AsymKept`: no TRIGGER side and no
modification by the left, which section 5 shows are needed. First what the two
share: the counter of an item is the cardinality of the set of its matches, and an
arrival by the right moves it by one exactly when it moves that set by one. As
items by the left do not change, the counters, and what the children hold, are right between two arrivals of an object
too, only that what is still due counts as it was. `DeletesItsOwn` follows from
the counters: one is deleted only with its item.

It then puts the three together as `BetaNode` states them: `TypeCorrect`,
`JoinCorrect`, `UnmatchedCorrect`, `OuterJoinCorrect`, `CountsCorrect`,
`NeverDeletesInUse`, `NeverStray` are all the properties of MCBetaNode, for any
constants that satisfy `Kept`. The AND node of `BetaNode` is an instance, and so are
its proofs there; `SameAnd` shows, by expanding both, that it is one node.

`TimedNodeProofs` proves `MemoriesFollowed`, `Spec => []OutFollowsMemories`, from
the same modules: the window is one more test, and a removal is an arrival by one
side alone, also for an object that is on both sides, so each module has lemmas
about lone arrivals (`LoneLeftOK`, `LoneRightOK`). `NothingRemovedEarly` is
`Spec => []OnlyOldLeave`, by an invariant on the ages of what waits (`AgeInv`).
Its assumption, `TimesKept`, is that an item spans no more than the window and no
two items of a side have the same end: with ties it fails (section 5).

`ActionLoopProofs` proves of the loop of actions, for any objects, values and
bounds:

* `Invariance`, `TypeCorrect`, and `OthersLeftAlone`, `Spec => OthersUntouched`,
  whatever rules and application do. `IInv` says that the parts of the list follow
  each other as the instances of `do_loop` do (`Framed`) and that each MODIFY has
  its copy; `Cut` is what taking an action does to the list.
* `NothingIsLeft`, `Spec => []NothingLeft`, when the application inserts nothing as
  it is told of an unused object, whatever the rules do (`Home`: the outermost
  instance began with an empty list).
* `NetIsShown`, `ModificationsArrive`, `AuthorsAreShown`, the properties
  `NetShowsObjects`, `ModifyIsFaithful` and `ShownIsWritten`, under `Tame`: no batch
  modifies an object twice, external functions do not modify, nothing is inserted
  from the callback of an unused object. Each of the three is needed (section 5).
  None of the properties is inductive. `Story` is: behind the place up to which the
  list was told every MODIFY is about an object of its own, which shows what the
  author wrote and which the net holds in the old state or not at all; before that
  place every MODIFY is swapped, its copy being the new state; an object that shows
  anything else than the net has its news waiting; and an instance that descends has
  none, nor have those below it (`AllAreTold`), so that the list is swapped
  throughout whenever an action enters.

Its second part proves who holds what in the same loop, for any objects,
values, depth of nesting and bounds:

* `NothingDangles`, `Spec => []NoDangling`: neither the net, the list, an instance of
  `do_loop` nor a production node refers to an object the application may have freed;
* `NothingLeaks`, `Spec => NoLeak`: the last reference to an object goes only when the
  application has it back, or when a CHANGE action that waited for it is dropped;
* `FeedIsObeyed`, `Spec => FeedsApplication`: `ActionLoop` implements `ObjectFeed`,
  initial states and every step.

Whether an object may be given away depends on every other action and instance
about it and on whose its Single is, so none of these is inductive. `LedgerHolds` is
the account that is: `LedgerOf(x)` says, along the life of an object (never seen,
made by a rule and not yet told, known, gone), what waits for it, what works for it
and whether its Single is marked. For one never seen nothing does. One that a rule
made has its INSERT in the part of the list not yet told, ahead of all other actions
on it. An action that came with a Single of its own is alone. A RETRACT that is
propagated is the only one, and when `do_loop` took it from the list the Single is
marked, so that what still waits for the object returns at once. Of one that is gone
there are at most actions on a marked Single. A step moves one object:
`PushSubject`, `PushBystander` and their kin reduce it to that one.

The three hold under `Discreet`: external functions only insert, nothing is inserted
from the callback of an unused object, rules neither act on the object the
application retracts (`posthumous`) nor delete the implied objects of other rules
(`meddling`). `TwiceHabit` is allowed here. TLC finds a counterexample of one of
the three when any one of these conditions is dropped.

`TimedSetProofs` proves of the TIMER and SET nodes, for any objects, times, window,
contexts, keys and bounds:

* `WindowKept`, `Spec => []KeepsTheWindow`, under `Patient`: an object whose INSERT
  waits behind removals goes on matching until it is deleted. `IInv` says of what
  waits that a RETRACT is of an object out of the window and that a matching object
  is in the TIMER, or waits, or is out of the window; and of a walk that what lies
  ahead of it in the leaf is out of the window, so that a skipped object (section 5)
  does no harm to this. Under it lie the binary search on the leaf (`FoundDivides`,
  by a well-founded induction on the length of the interval; the leaf is in the order
  of `compare_t`, which `PlaceOrders` proves total) and what a removal does to the
  places behind it.
* `SetsKept`, `Spec => []SetsFollow`, under `Settled`: the memory of the SET node holds
  one set for each context and key, with what it was given and nothing else. `SInv`
  adds to `IInv` that the memory is exactly the classes of the objects given
  (`Filed`), and that a matching object whose INSERT waits does so once and is not in
  the TIMER (`OnceOK`), so that none is counted twice. The argument goes up from
  classes as data (an object entering or leaving a set of objects adds, removes or
  swaps one class), to the memory that holds them (`HoldsAdd`, `HoldsDrop`,
  `HoldsSwap`), to the operations of `set.cpp` (the node finds one set at most,
  `FoundOne`, because no two classes agree on context and key; an element with count
  one leaves on RETRACT; a set that is shown in its old and new state any number of
  times is as before, `PropagateIs`), to the actions.

`Settled` is `Patient` and, for the objects modified in place, that nobody removes
them, that their key does not change either and that they are never as old as the
window: their count in the set is more than one (section 5, MCTimedSetGhost). Each
of its conjuncts is needed. From MCTimedSet, whose constants satisfy it, TLC finds
`SetsFollow` violated when an edited object is removed, when the key of an edited
object may change (`Moved` with object 4), when a refresh reaches an edited
object (`Refreshes = {2, 5}`), and with `Patient = FALSE`, `T <- <<0, 1, 3, 3>>`, six
calls and nothing modified.

`PropagationProofs` proves both properties of a modification's way through the net,
for any net that satisfies the assumptions of `Propagation`, any values that its tests
let through and any sequence of modifications:

* `NothingStaysMarked`, `Spec => []NoMarkLeft`;
* `EachIsReachedOnce`, `Spec => ReachedOnce`.

`NoMarkLeft` is inductive as it stands; what has to be shown is that one modification,
which begins without marks, does what it should, and that is a claim about every link
of the net (`WalksAreDone`): a walk from it on clears the marks of the links it leads
to and no others, and executes what is due at these, each once (`Done`). Along the
marks it does so if these are exactly what the check set for the tags in the mark above,
and if the check set nothing for the other tags that come (`Marking`); in earnest, if
one tag comes and nothing is marked (`Clean`). The claim holds for a link if it does
for the next in the list and for the first below, so a last link for which it failed
would be a contradiction: that takes the place of an induction, as it does to show
that the recursions have a solution (`ScopeIs`, `VisitIs`, `ComeIs`). That a mark is
not cleared by another part of the walk, and nothing executed twice, is because what
follows a link and what is below it have no link in common (`SubApart`, from the
least one they would share), and so neither marks (`RegionParts`) nor
executions (`DueParts`). `NothingDue` is the case of the tests that pass but lead to
no node with memory.

`StackMachineProofs` proves of the instructions of conditions, for any code that is
balanced, any objects and any function of the application:

* `StackIsRestored`, `MachineSpec => []StackRestored`;
* `LoopsEndInside`, `MachineSpec => []NeverOverruns`.

Neither is inductive: whether an instruction finds its values depends on all that
was executed in its loop, and where a loop goes on, on the loop around it. `IInv`
says for the innermost loop that the code from `code_p` to its end fits the values
the loop has in the stack, or that the last test has failed and none are left
(`Running`); for a TOR, that each alternative not yet begun fits from its start to
its end (`Remaining`); and for each loop around another, that the code from the end
of the inner one fits what the outer one had in the stack as that began, with one
more value after an EVAL (`Resumes`). There is one lemma for the instructions that
compute, one for the tests, and one for each way a loop begins or ends. That `Fits`
has a value for any code (`FitsExists`: a place depends on later places only) is a
well-founded induction on the distance from the end; `FitsComputing`, `FitsTesting`,
`FitsEval` and `FitsTor` say what fits, by its first instruction. The link to the
compiler is the property `MachineSpec` of MCRuleCondition: there each step of a
condition's execution is a step of the machine with balanced code. The code of a
node that has grown after a TOR is not balanced, so neither theorem is about it.

What stays with TLC, and why:

* liveness, `Drains`, `OldLeaves` and `SecondArrival`: out of the prover's reach;
* `Balanced`, `FindsEach`, `WalksInOrder`, `WindowIsVisited`, `ImplementsSet`: `BTree` recurs over nodes in nodes, and what an insertion or a
  deletion does to a tree of any height is an induction over that data;
* `DecidesAsWritten`, and that the code of a condition is balanced (`MachineSpec` of
  MCRuleCondition): the compiler and the meaning of a condition recur over trees of
  any form.

## 5. Where code and promises part

Three have a run that TLC finds violated; `PROJECT.json` quotes the lines.

* **MCTimedSetGhost**: an object modified in place raises its count in its set
  and the RETRACT lowers it by one: it stays in the set when it has gone
  (`nodes_exec.cpp:4089`).
* **MCTimedSetRefresh**: `engine_refresh` walks a leaf from which `do_loop` deletes
  what it retracts, and skips the neighbour (`nodes_exec.cpp:4264`).
* **MCRuleConditionJoined**: a condition with a disjunction of two patterns, followed
  by an equality of the same two. The equality becomes a key of their join and the
  code moves one word on, but the jumps of its TOR do not: an alternative ends
  before its test, and the last test of the disjunction is made on what is in the
  stack (`nodes.cpp:481`). In the run realloc never moves the block
  (`MayMove = FALSE`): the node of this condition has 22 words, and glibc on 64 bits
  gives blocks of an odd number of them, so the key fits. Where the block moves, the
  jumps lead into memory that is free, after any later condition, not only an
  equality; what the program does there is not modelled.

The passing runs leave other cases out through constants, so the properties they
establish are about programs that avoid them, and they say exactly which those
are. Each is one or two constants away from a run above:

* MCConflictSet with `LinksBalance` asked of trigger rules too: the RETRACT that
  replaces a pending MODIFY of a trigger rule links the left compound once too
  often.
* MCActionLoop with `Habits <- TwiceHabit`, `ModifyIsFaithful`: two MODIFY of an
  object in one batch are propagated from and to the wrong states, the second
  swap undoing the first.
* MCActionLoop with `Habits <- PosthumousHabit`, `NoDangling`: a rule that acts,
  while the application retracts an object, on that object brings it back into
  the net.
* MCBetaNode with `Keyed = TRUE`, `Joins <- Same` and `AndMoves` not empty,
  `OutIsJoin`: an AND node with a key does not retract the pairs under the key an
  object had before it was modified.
* MCBetaNode with items by the left in `Moves`, `OutIsUnmatched` and
  `OutIsOuterJoin`: a NAND (OAND) node mishandles the modification by the left that
  gains the first match (or, for OAND, loses the last).
* MCBetaNode with `LeftTrigger = TRUE`, `DeletesItsOwn`: a NAND node deletes an
  unassigned counter on MODIFY or RETRACT of a TRIGGER item.
* MCTimedNode with `T1 <- TiedStarts`, `T2 <- TiedStops`, `OnlyOldLeave`: of two
  objects with the same time one may push out a partner of the other, although
  `src/README.md:96` says that the window is measured between objects.
* MCTimedSet with `Patient = FALSE`, `KeepsTheWindow`: an object that stops matching
  while its second arrival waits is stored all the same.
* `FromEvents <- AtTheEnd` (the callback `object_no_more_used`),
  `NothingLeft`: what the application inserts from that callback of the outermost
  loop waits in the list until its next call, although `eng.cpp:215-216` promises
  that such calls are queued "until this propagation ends".
* `Width = 4` with keys that are 16 apart, `WalksInOrder`: values of an attribute
  that differ by a multiple of 2^32 are taken for the same key (`keys.cpp:89`), and
  the test on that attribute is not made again; with addresses far apart,
  `FindsEach`: an order that is not transitive loses items.
* `Habits = {"meddling"}`, `FeedsApplication`: an implied object that another
  rule deletes is reported again by its production node.
* `Inside = {"MODIFY"}`, `ModifyIsFaithful`, and `Inside = {"RETRACT"}`,
  `FeedsApplication`: `engine_loop` from an external function on an object of
  the current batch.
* `SameObj = TRUE` with the object that is on both sides in `Moves`,
  `CountsAreExact`: `allow_same_obj` counts an object's match with itself twice.
* MCRuleCondition with `Sources <- OddSources`, `DecidesAsWritten`: the negation of a
  BOOLEAN cast is deleted, so that `!BOOLEAN(x) = b` is compiled as
  `BOOLEAN(x) = b`, and that of a constant is applied twice: `b = !TRUE` is compiled
  as `b = TRUE`. `expr.cpp:969` says "If the complementary could be done delete the
  NOT expression", and line 970 takes for done what a cast did not do.
* `NoLeak` without its last disjunct: an object whose last reference is a CHANGE
  action disappears without `object_no_more_used`, which `src/README.md:467`
  announces.

After a counter was deleted wrongly the program has no defined state, so the
model of a node stops there (`Sound`), and the instances that allow it do not
check deadlock.

Read in the code while modelling, and left out of the inputs of the runs:

* the key change of the sample of a set leaves it in its old group;
* `concat` of an empty set returns NULL and not an empty string, and the separator
  of a `concat` is read after the object it should belong to has moved on;
* a negation inside an EVAL inside a cast is not optimised away, and is then
  compiled to nothing;
* an AND whose last condition on several patterns is divided again may be left with
  a constant, which has no node to go to;
* a condition that begins with an equality and is not divided, as the left side of
  `(p.t = q.t & p.n > q.n) & c`, loses the code behind the equality, copied with a
  length in words taken as bytes (`nodes.cpp:489`; `Copied`);
* division by zero ends the compiler or the program;
* the data stack of 50 places is not checked for room, and the maximum of a set
  of floats starts from the least positive float.

## 6. Not modelled, and the plan

Not modelled at all: links of singles and compounds as a structure of their own
(`ConflictSet` counts the links of left compounds, `ActionLoop` those of singles),
the construction of the net beyond the code of a node, errors, text helpers and the trace. The last three
keep no state across the steps of the engine, and each of their functions is
within reach of a unit test.

Left out of the modules above:

* in `ConflictSet` the pointer comparison of `compare_cset` (exact here);
* in `ActionLoop` the actions pushed by timers, windows and sets (they are in
  `TimedNode` and `TimedSet`), the contents of the net (any object may match), the
  `engine_modify` of one object followed by the `engine_loop` of another;
* in the nodes the BTree (`ItemSet` stands for it), the links of items and the
  positions in compounds;
* in `TimedSet` several SETs in one rule, and rules that act while
  `engine_refresh` walks: they change the tree under the walk;
* in `Expression` the joins of more than two patterns and the merging of nodes,
  whose codes are appended in the same way, the grammar, right-hand sides, strings as such, floats, the
  casts to text and to objects, the paths that report an error; in `StackMachine`
  the instructions only right-hand sides use, the built-in functions, dynamic
  strings;
* of the rule sets everything but the freeing of a production memory, of the
  callbacks the list of functions and its changes while it is walked.

In order of importance, what comes next and what it needs:

1. `RuleSets` and `Callbacks`: the reset of a rule set with the `do_loop`s it runs
   on implied objects, on `ActionLoop`'s list; the walk of a list that changes.
2. Proofs about one node of a `BTree`: `Split`, the rotations and `Join` keep order
   and counts. They do not recur, so they can be proved once they stand in a module
   without RECURSIVE; the induction over trees stays with TLC.
3. `KeyedMemory`: a node's two memories as `BTree`s, with the items filed under a
   key that a modification changes, in place of the sets of `BetaMemory`.
4. `Construction`: the sharing of nodes by rules, the associations of more than two
   patterns, the merging of nodes and of their code.
5. `Propagation` in `BetaNode`: a net of one join whose arrivals are those that
   `Propagation` executes, in place of any arrivals.
