----------------------------- MODULE ObjectFeed ------------------------------
(***************************************************************************)
(* What the application may rely on about the objects it shares with the   *)
(* engine (README, "add_callback_func"): an object made by a rule is       *)
(* announced before anything else is said about it, a deletion is said     *)
(* once, and nothing is said about an object after the callback, or the    *)
(* call of the application, that lets it be freed.                         *)
(***************************************************************************)
CONSTANTS Obj, NoEvent

VARIABLES
  known,   \* objects in the hands of the application
  freed,   \* objects it was allowed to free
  event    \* the callback of the last step, or NoEvent

vars == <<known, freed, event>>

Unknown == Obj \ (known \union freed)

Said(kind, x) == [kind |-> kind, obj |-> x]

Init == /\ known = {}
        /\ freed = {}
        /\ event = NoEvent

Learn(x, e) == /\ x \in Unknown
               /\ known' = known \union {x}
               /\ event' = e
               /\ UNCHANGED freed

Part(x, e) == /\ x \in known
              /\ known' = known \ {x}
              /\ freed' = freed \union {x}
              /\ event' = e

(* The application brings an object of its own, or takes one back. *)
Insert(x) == Learn(x, NoEvent)
Retract(x) == Part(x, NoEvent)

Created(x) == Learn(x, Said("created", x))
Deleted(x) == Part(x, Said("deleted", x))
NoMoreUsed(x) == Part(x, Said("unused", x))

Modified(x) == /\ x \in known
               /\ event' = Said("modified", x)
               /\ UNCHANGED <<known, freed>>

(* An object the application inserted from inside the engine is announced  *)
(* to it as if a rule had made it.                                         *)
Echoed(x) == /\ x \in known
             /\ event' = Said("created", x)
             /\ UNCHANGED <<known, freed>>

(* The rest of the engine's work says nothing. *)
Silent == /\ event' = NoEvent
          /\ UNCHANGED <<known, freed>>

Next == \/ Silent
        \/ \E x \in Obj : \/ Insert(x) \/ Retract(x)
                          \/ Created(x) \/ Modified(x) \/ Echoed(x)
                          \/ Deleted(x) \/ NoMoreUsed(x)

Spec == Init /\ [][Next]_vars
=============================================================================
