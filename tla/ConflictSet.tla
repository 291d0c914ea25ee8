----------------------------- MODULE ConflictSet -----------------------------
(***************************************************************************)
(* The conflict set and the production nodes of the engine (confset.cpp,   *)
(* Node::prod_call, Node::run_cs and Node::perform_execution).             *)
(*                                                                         *)
(* The net delivers matches to the production node of a rule with the tags *)
(* INSERT, MODIFY and RETRACT.  prod_call turns them into ConflictSet      *)
(* entries, which live at once in a LIFO list and in a BTree per priority  *)
(* category; run_cs runs the right-hand side of one entry.  A RETRACT is   *)
(* never queued: prod_call runs it inside the propagation.  Nothing is     *)
(* assumed about the order of the tags a production node receives: the     *)
(* node has to defend itself against duplicates and strays.                *)
(***************************************************************************)
EXTENDS Naturals, Sequences

CONSTANTS
  Rule,       \* production nodes
  Match,      \* the left compounds, told apart by Compound::compare
  Cat,        \* Cat[r]: priority of r, 0 HIGH, 1 NORMAL, 2 LOW
  Trigger,    \* rules with EXEC_TRIGGER: a pattern is on a TRIGGER class
  Flags,      \* Flags[r]: the tags some action of the rule asked for
  Implying,   \* rules that imply an object on their right-hand side
  MaxLinks,   \* bound on the links counted on one left compound
  NoRun

Tag == {"INSERT", "MODIFY", "RETRACT"}
Category == 0..2
Activation == Rule \X Match
Entry == [rule : Rule, match : Match, tag : {"INSERT", "MODIFY"}]

(* notify_for_obj_imply refuses trigger rules and sets EXEC_ALL. *)
ASSUME ConstantsAssumption ==
  /\ Cat \in [Rule -> Category]
  /\ Trigger \subseteq Rule
  /\ Flags \in [Rule -> SUBSET Tag]
  /\ Implying \subseteq Rule \ Trigger
  /\ \A r \in Implying : Flags[r] = Tag
  /\ MaxLinks \in Nat
  /\ NoRun \notin [act : Activation, tag : Tag]

VARIABLES
  list,     \* list[c]: conflict_set[c], the head first
  tree,     \* tree[c]: the entries in conflict_set_mem[c]
  memory,   \* memory[r]: matches whose ProdCompound is in the node's BTree
  links,    \* links[a]: links the production node holds on the left compound
  implied,  \* activations whose ProdCompound has an implied object at right
  fired     \* history: the right-hand side run by the last step, or NoRun

vars == <<list, tree, memory, links, implied, fired>>

KeyOf(e) == <<e.rule, e.match>>
CatOf(a) == Cat[a[1]]
NewEntry(a, tag) == [rule |-> a[1], match |-> a[2], tag |-> tag]

(* The entry of the category tree that compare_cset finds equal to a. *)
Found(a) == {e \in tree[CatOf(a)] : KeyOf(e) = a}

Init == /\ list = [c \in Category |-> <<>>]
        /\ tree = [c \in Category |-> {}]
        /\ memory = [r \in Rule |-> {}]
        /\ links = [a \in Activation |-> 0]
        /\ implied = {}
        /\ fired = NoRun

(* ConflictSet::insert: at the head, once the tree has accepted the entry. *)
InsertCs(c, e) == /\ tree' = [tree EXCEPT ![c] = @ \union {e}]
                  /\ list' = [list EXCEPT ![c] = <<e>> \o @]

(* BTree::Delete and ConflictSet::remove of the entry at place k. *)
Unlinked(s, k) ==
  [i \in 1..(Len(s) - 1) |-> IF i < k THEN s[i] ELSE s[i + 1]]

(* Mutants: the entry leaves only one of its two homes. *)
RemoveCsFromList(c, e) ==
  /\ UNCHANGED tree
  /\ \E k \in 1..Len(list[c]) :
       /\ list[c][k] = e
       /\ list' = [list EXCEPT ![c] = Unlinked(@, k)]

RemoveCsFromTree(c, e) ==
  /\ tree' = [tree EXCEPT ![c] = @ \ {e}]
  /\ UNCHANGED list

RemoveCs(c, e) ==
  /\ tree' = [tree EXCEPT ![c] = @ \ {e}]
  /\ \E k \in 1..Len(list[c]) :
       /\ list[c][k] = e
       /\ list' = [list EXCEPT ![c] = Unlinked(@, k)]

(* perform_execution: run the right-hand side if the rule handles the tag. *)
(* INSERT creates the implied object, RETRACT retracts it; a RETRACT, and  *)
(* any run of a trigger rule, gives back a link of the left compound.      *)
PerformExecution(a, tag) ==
  /\ fired' = IF tag \in Flags[a[1]] THEN [act |-> a, tag |-> tag] ELSE NoRun
  /\ implied' = IF a[1] \notin Implying THEN implied
                ELSE IF tag = "INSERT" THEN implied \union {a}
                ELSE IF tag = "RETRACT" THEN implied \ {a}
                ELSE implied

GivesBack(a, tag) == a[1] \in Trigger \/ tag = "RETRACT"

(* prod_call, INSERT_TAG.  A match already in the memory of the node, or   *)
(* already pending for a trigger rule, is dropped.                         *)
ProdInsert(a) ==
  /\ a[1] \notin Trigger => a[2] \notin memory[a[1]]
  /\ memory' = IF a[1] \in Trigger THEN memory
               ELSE [memory EXCEPT ![a[1]] = @ \union {a[2]}]
  /\ \/ /\ Found(a) = {}
        /\ InsertCs(CatOf(a), NewEntry(a, "INSERT"))
        /\ links' = [links EXCEPT ![a] = @ + 1]
     \/ /\ Found(a) # {}
        /\ UNCHANGED <<list, tree, links>>
  /\ fired' = NoRun
  /\ UNCHANGED implied

(* prod_call, MODIFY_TAG.  Only a remembered match can be modified; an     *)
(* entry already pending keeps its tag.                                    *)
ProdModify(a) ==
  /\ a[1] \notin Trigger => a[2] \in memory[a[1]]
  /\ \/ /\ Found(a) = {}
        /\ InsertCs(CatOf(a), NewEntry(a, "MODIFY"))
        /\ IF a[1] \in Trigger
           THEN links[a] < MaxLinks /\ links' = [links EXCEPT ![a] = @ + 1]
           ELSE UNCHANGED links
     \/ /\ Found(a) # {}
        /\ UNCHANGED <<list, tree, links>>
  /\ fired' = NoRun
  /\ UNCHANGED <<memory, implied>>

(* Mutants of the cancellation: the entry stays, the link stays, the       *)
(* RETRACT runs although INSERT never did.                                 *)
CancelKeepsEntry(a, e) ==
  /\ e.tag = "INSERT"
  /\ links' = [links EXCEPT ![a] = @ - 1]
  /\ fired' = NoRun
  /\ UNCHANGED <<list, tree, implied>>

CancelKeepsLink(a, e) ==
  /\ e.tag = "INSERT"
  /\ RemoveCs(CatOf(a), e)
  /\ fired' = NoRun
  /\ UNCHANGED <<links, implied>>

CancelRunsRetract(a, e) ==
  /\ e.tag = "INSERT"
  /\ RemoveCs(CatOf(a), e)
  /\ links' = [links EXCEPT ![a] = @ - 1]
  /\ PerformExecution(a, "RETRACT")

(* prod_call, RETRACT_TAG.  A pending INSERT is cancelled without a run.   *)
CancelInsert(a, e) ==
  /\ e.tag = "INSERT"
  /\ RemoveCs(CatOf(a), e)
  /\ links' = [links EXCEPT ![a] = @ - 1]
  /\ fired' = NoRun
  /\ UNCHANGED implied

(* Mutant: a pending MODIFY is cancelled like an INSERT. *)
RetractModifiedSilently(a, e) ==
  /\ e.tag = "MODIFY"
  /\ RemoveCs(CatOf(a), e)
  /\ links' = [links EXCEPT ![a] = @ - 1]
  /\ fired' = NoRun
  /\ UNCHANGED implied

(* A pending MODIFY is dropped and RETRACT runs in its place.  A trigger   *)
(* rule first links the left compound once more ("to unify").              *)
RetractModified(a, e) ==
  /\ e.tag = "MODIFY"
  /\ RemoveCs(CatOf(a), e)
  /\ links' = [links EXCEPT ![a] = IF a[1] \in Trigger THEN @ + 1 - 1
                                   ELSE @ - 1]
  /\ PerformExecution(a, "RETRACT")

(* Mutant: the test of ProdCompound against NULL is forgotten. *)
RetractActiveUnchecked(a) ==
  /\ Found(a) = {}
  /\ links' = [links EXCEPT ![a] = @ - 1]
  /\ PerformExecution(a, "RETRACT")
  /\ UNCHANGED <<list, tree>>

(* Nothing pending: RETRACT runs on the remembered compound; a trigger     *)
(* rule has none and does nothing.                                         *)
RetractActive(a) ==
  /\ Found(a) = {}
  /\ IF a[1] \in Trigger
     THEN /\ fired' = NoRun
          /\ UNCHANGED <<links, implied>>
     ELSE /\ links' = [links EXCEPT ![a] = @ - 1]
          /\ PerformExecution(a, "RETRACT")
  /\ UNCHANGED <<list, tree>>

ProdRetract(a) ==
  /\ a[1] \notin Trigger => a[2] \in memory[a[1]]
  /\ memory' = [memory EXCEPT ![a[1]] = @ \ {a[2]}]
  /\ \/ \E e \in Found(a) : CancelInsert(a, e) \/ RetractModified(a, e)
     \/ RetractActive(a)

(* run_cs: the head of the most urgent list that is not empty.  The entry  *)
(* leaves the tree, runs, and leaves the list.                             *)
(* Mutant: the scan of best_cset starts at LOW. *)
BestCatFromLow(c) == /\ list[c] # <<>>
                     /\ \A d \in Category : d > c => list[d] = <<>>

BestCat(c) == /\ list[c] # <<>>
              /\ \A d \in Category : d < c => list[d] = <<>>

RunCs ==
  \E c \in Category :
    /\ BestCat(c)
    /\ LET e == Head(list[c])
           a == KeyOf(e)
       IN /\ RemoveCs(c, e)
          /\ PerformExecution(a, e.tag)
          /\ links' = IF GivesBack(a, e.tag)
                      THEN [links EXCEPT ![a] = @ - 1] ELSE links
    /\ UNCHANGED memory

Empty == \A c \in Category : list[c] = <<>>

(* reset_code on a PROD node: the memory is freed with its links and its   *)
(* implied objects.  The application resets between two propagations.      *)
ResetRule(r) ==
  /\ Empty
  /\ memory' = [memory EXCEPT ![r] = {}]
  /\ links' = [a \in Activation |->
                 IF a[1] = r /\ a[2] \in memory[r] THEN links[a] - 1
                 ELSE links[a]]
  /\ implied' = {a \in implied : a[1] # r}
  /\ fired' = NoRun
  /\ UNCHANGED <<list, tree>>

ProdCall == \E a \in Activation : ProdInsert(a) \/ ProdModify(a) \/ ProdRetract(a)

Next == ProdCall \/ RunCs \/ \E r \in Rule : ResetRule(r)

Spec == Init /\ [][Next]_vars

(* do_loop repeats run_cs until it finds the conflict set empty. *)
FairSpec == Spec /\ WF_vars(RunCs)

-----------------------------------------------------------------------------
Pending(a) == Found(a) # {}
PendingInsert(a) == \E e \in Found(a) : e.tag = "INSERT"
Remembered(a) == a[2] \in memory[a[1]]

(* Every variable keeps its type; in particular no link count goes below  *)
(* zero, which would free a compound still in use.                        *)
TypeOK == /\ list \in [Category -> Seq(Entry)]
          /\ tree \in [Category -> SUBSET Entry]
          /\ memory \in [Rule -> SUBSET Match]
          /\ links \in [Activation -> Nat]
          /\ implied \subseteq Activation
          /\ fired \in [act : Activation, tag : Tag] \union {NoRun}

(* The two homes of an entry agree: the BTree of a category holds exactly *)
(* the entries of its list, no activation is pending twice, and each is   *)
(* in the list of its own rule's priority (prod_call, run_cs).            *)
QueueAgrees(c, s, t) ==
  /\ t = {s[i] : i \in 1..Len(s)}
  /\ \A i, j \in 1..Len(s) : KeyOf(s[i]) = KeyOf(s[j]) => i = j
  /\ \A i \in 1..Len(s) : Cat[s[i].rule] = c

QueuesAgree == \A c \in Category : QueueAgrees(c, list[c], tree[c])

(* No stale activation: a pending entry of an ordinary rule is about a    *)
(* match the production node still remembers, so that a rule never runs   *)
(* on objects whose match was retracted (prod_call, RETRACT_TAG).         *)
PendingIsRemembered ==
  \A a \in Activation :
    Pending(a) /\ a[1] \notin Trigger => Remembered(a)

(* The production node holds one link on the left compound of each match  *)
(* an ordinary rule remembers and none on the others, and at least one on *)
(* each pending match of a trigger rule: never freed early, and for the   *)
(* ordinary rules never leaked (prod_call, perform_execution).            *)
LinksBalance ==
  \A a \in Activation :
    IF a[1] \in Trigger THEN Pending(a) => links[a] >= 1
    ELSE links[a] = IF Remembered(a) THEN 1 ELSE 0

(* The implied object of an activation exists exactly while the match is  *)
(* remembered and its INSERT has run.  With nothing pending the implied   *)
(* objects are those of the remembered matches, which is the promise of   *)
(* object implication (objimp_call dereferences the right side on MODIFY  *)
(* and RETRACT).                                                          *)
ImpliedFollowsMatch ==
  \A a \in Activation :
    a \in implied <=> /\ a[1] \in Implying
                     /\ Remembered(a)
                     /\ ~PendingInsert(a)

(* Only RETRACT may overtake: a run of INSERT or MODIFY happens when no   *)
(* entry of a more urgent category is pending (best_cset).                *)
UrgentFirst ==
  [][fired' # NoRun /\ fired'.tag # "RETRACT" =>
       \A a \in Activation : Pending(a) => CatOf(a) >= CatOf(fired'.act)]_vars

(* The lifecycle of the activations as the two homes and the memories     *)
(* encode it.                                                             *)
PhaseOf == [a \in Activation |->
              IF PendingInsert(a) THEN "armed"
              ELSE IF Pending(a) THEN "changed"
              ELSE IF Remembered(a) THEN "active"
              ELSE "idle"]

RA == INSTANCE RuleActivation WITH
        Transient <- {a \in Activation : a[1] \in Trigger},
        Handled <- {h \in Activation \X Tag : h[2] \in Flags[h[1][1]]},
        phase <- PhaseOf

(* The conflict set implements the lifecycle: INSERT first, RETRACT once  *)
(* and only after INSERT, whatever the interleaving of matches and runs.  *)
ImplementsActivation == RA!Spec

(* The loop of do_loop ends: once the net delivers no more matches, run_cs *)
(* empties the conflict set and it stays empty.                            *)
Drains == <>[][~ProdCall]_vars => <>[]Empty
=============================================================================
