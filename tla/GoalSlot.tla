------------------------------ MODULE GoalSlot ------------------------------
(***************************************************************************)
(* What the explorer promises about navigation goals, whatever frontiers it *)
(* chooses: it owns one slot for a goal.  A goal is asked for only while a  *)
(* session is open, in a free slot or in place of a goal not being          *)
(* released; the slot is given up only once the server is done with the     *)
(* goal in it, or refused it.  GoalLifecycle implements this specification. *)
(***************************************************************************)

VARIABLES
  session,  \* exploration is enabled
  slot,     \* the goal the explorer believes it has
  over      \* the server is done with the latest goal, or never got it

slotVars == <<session, slot, over>>

Slots == {"free", "asked", "held", "releasing"}

\* With autostart the first session is open from the start.
Init == session \in BOOLEAN /\ slot = "free" /\ over = TRUE

Open ==
  /\ ~session /\ slot = "free"
  /\ session' = TRUE /\ UNCHANGED <<slot, over>>

\* A stop asks for the release of a held goal; the request may fail.
Shut ==
  /\ session' = FALSE /\ UNCHANGED over
  /\ \/ slot \in {"free", "asked"} /\ UNCHANGED slot
     \/ slot \in {"held", "releasing"} /\ slot' \in {"held", "releasing"}

\* A goal sent out, or lost on the way: it then counts as refused.
Ask ==
  /\ session /\ slot # "releasing"
  /\ \/ slot' = "asked" /\ over' = FALSE
     \/ slot' = "free" /\ over' = TRUE
  /\ UNCHANGED session

ServerDone ==
  /\ slot # "free" /\ over' = TRUE
  /\ UNCHANGED <<session, slot>>

\* The release remembered while the goal was being asked for follows at once.
Grant ==
  /\ slot = "asked" /\ slot' \in {"held", "releasing"}
  /\ UNCHANGED <<session, over>>

Refuse ==
  /\ slot = "asked" /\ over /\ slot' = "free"
  /\ UNCHANGED <<session, over>>

Release ==
  /\ slot = "held" /\ slot' = "releasing"
  /\ UNCHANGED <<session, over>>

ReleaseFails ==
  /\ slot = "releasing" /\ slot' = "held"
  /\ UNCHANGED <<session, over>>

\* The result frees the slot; the next goal may be asked for in the same call.
Close ==
  /\ slot \in {"held", "releasing"} /\ over
  /\ \/ slot' = "free" /\ UNCHANGED over
     \/ session /\ slot' = "asked" /\ over' = FALSE
  /\ UNCHANGED session

\* What happens between the session's opening and shutting.
Move ==
  \/ Ask \/ ServerDone \/ Grant \/ Refuse
  \/ Release \/ ReleaseFails \/ Close

Next == Open \/ Shut \/ Move

Spec == Init /\ [][Next]_slotVars

=============================================================================
