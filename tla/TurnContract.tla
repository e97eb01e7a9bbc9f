---------------------------- MODULE TurnContract ----------------------------
(***************************************************************************)
(* What one call of agent.ThinkAct promises Run: the turn ends once, it    *)
(* reports a cancellation only if its context was cancelled, and a turn    *)
(* that completes has put everything in the conversation before the model, *)
(* unless the step cap was changed under it.  A manual compaction is no    *)
(* such promise: the summary replaces what is there, read or not.          *)
(* ThinkAct implements this; AgentLoop builds its turns on it.             *)
(***************************************************************************)

VARIABLES unread,   \* a message is in the conversation that no answered
                    \* request carried
          erased,   \* a manual compaction replaced such a message
          revoked,  \* the turn's context is cancelled
          moved,    \* the step cap was changed during the turn
          outcome   \* how the turn ended, or "running"

vars == <<unread, erased, revoked, moved, outcome>>

\* StopMaxSteps and StopMaxOutputRecoveryExhausted are complete outcomes too.
Outcomes == {"complete", "cancelled", "error", "stopped"}

\* A turn begins on a message, or on the summary that replaced it.
Init == unread \in BOOLEAN /\ erased = FALSE /\ revoked = FALSE /\ moved = FALSE /\ outcome = "running"

Revoke == ~revoked /\ revoked' = TRUE /\ UNCHANGED <<unread, erased, moved, outcome>>
MoveCap == ~moved /\ moved' = TRUE /\ UNCHANGED <<unread, erased, revoked, outcome>>

\* Between steps the turn takes in a message that arrived meanwhile.
Take == outcome = "running" /\ unread' = TRUE /\ UNCHANGED <<erased, revoked, moved, outcome>>

\* Or it takes in the summary of a manual compaction.
Compact == /\ outcome = "running"
           /\ unread' = FALSE
           /\ erased' = (erased \/ unread)
           /\ UNCHANGED <<revoked, moved, outcome>>

\* The model answers a request that carried the whole conversation.
Answer == outcome = "running" /\ unread' = FALSE /\ UNCHANGED <<erased, revoked, moved, outcome>>

End(o) == /\ outcome = "running"
          /\ o = "complete" => ~unread \/ moved
          /\ o = "cancelled" => revoked
          /\ outcome' = o
          /\ UNCHANGED <<unread, erased, revoked, moved>>

\* The answer that ends the turn.
LastAnswer == /\ outcome = "running"
              /\ unread' = FALSE
              /\ outcome' = "complete"
              /\ UNCHANGED <<erased, revoked, moved>>

Next == Revoke \/ MoveCap \/ Take \/ Compact \/ Answer \/ LastAnswer
        \/ \E o \in Outcomes : End(o)

Spec == Init /\ [][Next]_vars
=============================================================================
