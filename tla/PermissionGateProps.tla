------------------------ MODULE PermissionGateProps ------------------------
(* The properties of PermissionGate. *)
EXTENDS PermissionGate

Stages == {"new", "sending", "waiting"} \cup Settled

TypeOK ==
  /\ build \in 0 .. BoundBuilds /\ active \in BOOLEAN
  /\ stage \in [Calls -> Stages] /\ of \in [Calls -> 0 .. BoundBuilds] /\ over \subseteq Calls
  /\ queue \in [Builds -> Calls \cup {None}] /\ polls \in [Builds -> Nat] /\ inbox \subseteq Messages
  /\ pending \in Calls \cup {None} /\ modal \in Calls \cup {None}
  /\ reply \in [Calls -> {"none", "yes", "no"}]
  /\ agreed \subseteq Calls /\ crossed \in BOOLEAN /\ overtaken \in BOOLEAN

\* A call that runs with the user's permission is one whose own modal the user
\* said yes to, though the answer names no request and goes to whatever is
\* pending when it arrives; only a rebuild of the agent in the middle of a
\* prompt can confuse the two.
ConsentIsForThisCall ==
  ~crossed => \A c \in Calls : stage[c] = "approved" => c \in agreed

\* Concurrent calls prompt one after the other: no prompt of a live call is
\* replaced by another's.
LivePromptStays ==
  [][modal # None /\ modal' \notin {None, modal} /\ Live(modal) => crossed]_vars

\* A call that asks is answered or cancelled, however many ask at once: the
\* user sees each prompt, and each answer arrives.
PromptIsSettled ==
  \A c \in Calls : stage[c] = "sending" ~> (stage[c] \in Settled \/ crossed \/ overtaken)

-----------------------------------------------------------------------------
(* What the code says of itself and does not keep. *)

\* InterruptTurn: the next message "resumes the session in place": its prompts
\* are shown as before.
PromptsAfterInterrupt ==
  \A c \in Calls : stage[c] = "sending" ~> (stage[c] \in Settled \/ crossed)

\* InterruptTurn: a prompt that was open at the interrupt "must not survive into
\* the next turn".
InterruptedPromptIsGone == pending # None /\ active => pending \notin over

\* The same without the exemption.
ConsentNeverCrosses == \A c \in Calls : stage[c] = "approved" => c \in agreed
=============================================================================
