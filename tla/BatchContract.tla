--------------------------- MODULE BatchContract ---------------------------
(***************************************************************************)
(* What one call of agent.execTools promises its caller, the turn loop:    *)
(* tool calls are answered one at a time, none twice, and the batch ends   *)
(* with calls unanswered only when the turn's context was cancelled.       *)
(* ToolBatch implements this; ThinkAct builds its tool step on it.         *)
(***************************************************************************)
EXTENDS Naturals, FiniteSets

CONSTANT Calls      \* the tool calls of the assistant message

VARIABLES answered, \* the calls whose result is in the conversation
          revoked,  \* the turn's context was cancelled
          over      \* execTools has returned

vars == <<answered, revoked, over>>

Init == /\ answered = {}
        /\ revoked = FALSE
        /\ over = FALSE

Revoke == /\ ~revoked
          /\ revoked' = TRUE
          /\ UNCHANGED <<answered, over>>

\* One more call gets its result.
Answer(c) == /\ ~over
             /\ c \notin answered
             /\ answered' = answered \cup {c}
             /\ UNCHANGED <<revoked, over>>

\* The batch may be left incomplete only by a cancellation.
Return == /\ ~over
          /\ answered = Calls \/ revoked
          /\ over' = TRUE
          /\ UNCHANGED <<answered, revoked>>

Next == \/ Revoke
        \/ Return
        \/ \E c \in Calls : Answer(c)

Spec == Init /\ [][Next]_vars
=============================================================================
