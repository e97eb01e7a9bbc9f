--------------------------- MODULE ThinkActProps ---------------------------
(* The properties of ThinkAct. *)
EXTENDS ThinkAct

\* Type invariant of the turn's state.
TypeOK ==
  /\ cap \in Caps /\ capMoved \in BOOLEAN
  /\ ctxDone \in BOOLEAN
  /\ inbox \in Seq(Signals) /\ sent \in 0 .. BoundSends
  /\ canCompact \in BOOLEAN
  /\ size \in 1 .. 3 /\ bulk \in BOOLEAN /\ measured \in Measures
  /\ pc \in Places
  /\ steps \in Nat /\ retries \in 0 .. MaxTurnRetries /\ recovery \in 0 .. MaxRecovery
  /\ asked \in {{}, Calls} /\ answered \subseteq asked
  /\ stop \in Stops
  /\ unread \in BOOLEAN /\ erased \in BOOLEAN /\ late \in Nat /\ collapsed \in BOOLEAN

\* No request is sent while a tool call of this turn has no result: whatever
\* cut a batch short also ends the turn before the next streamInfer.
RequestsAreComplete == pc = "infer" => answered = asked

\* After a cancel the turn sends at most one more request, the one it was
\* past its context check for: not on a retry, a resume or a compaction.
OneLateRequest == late <= 1

\* A message a turn took from the inbox is before the model when the turn
\* ends well.  Two ways out: a cap lowered between the drain and the request
\* can strand one (the turn then stops on the cap at the head of the loop), and
\* a manual compaction can take one out of the conversation (CompactionIsSafe).
NothingSwallowed ==
  stop \in {"end_turn", "exhausted", "max_steps"} /\ unread =>
    stop = "max_steps" /\ capMoved

\* ThinkAct implements what Run relies on.
Outcome ==
  IF pc # "done" THEN "running"
  ELSE IF stop \in {"end_turn", "max_steps", "exhausted"} THEN "complete" ELSE stop
Contract == INSTANCE TurnContract WITH revoked <- ctxDone, moved <- capMoved, outcome <- Outcome
ImplementsContract == Contract!Spec

\* Every turn ends: retries, resumes and compactions cannot chase each other.
TurnReturns == <>(pc = "done")

\* Session.Compact: "Safe because the agent applies it at a phase boundary on
\* its own goroutine."  The summary it sends is older than the messages the
\* agent has taken in meanwhile.
CompactionIsSafe == ~erased

\* applyCompaction: "Zero suppresses the check until the next inference
\* measures the new prompt."
ZeroSuppressesCheck == [][collapsed => ~ProactiveCompact]_vars
=============================================================================
