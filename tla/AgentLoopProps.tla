--------------------------- MODULE AgentLoopProps ---------------------------
(* The properties of AgentLoop. *)
EXTENDS AgentLoop

\* Type invariant of the loop.
TypeOK ==
  /\ run \in Places /\ ctxAlive \in BOOLEAN
  /\ inbox \in Seq([kind : Messages, calls : 0 .. BoundInterrupts])
  /\ Len(inbox) <= InboxCap /\ sent \in 0 .. BoundSends
  /\ pending \in BOOLEAN
  /\ cur \in Nat /\ turn \in {0, cur} /\ closed \in 0 .. cur
  /\ unread \in BOOLEAN /\ erased \in BOOLEAN /\ revoked \in BOOLEAN /\ moved \in BOOLEAN
  /\ outcome \in Turn!Outcomes \cup {"running"}
  /\ ui \in {"idle", "stored", "waiting"} /\ held \in 0 .. cur
  /\ calls \in 0 .. BoundInterrupts /\ inFlight \in 0 .. cur
  /\ revokedBy \in 0 .. calls
  /\ stops \in [1 .. BoundInterrupts -> Nat]
  /\ idleCall \in BOOLEAN /\ quiet \subseteq 1 .. calls /\ newest \in 0 .. BoundInterrupts
  /\ lastEnd \in Turn!Outcomes \cup {"bail"}

\* The agent goes idle with an unanswered message in the conversation only if
\* an interrupt stopped the turn that was to answer it, or the step cap was
\* lowered under it.  (A message a manual compaction took out of the
\* conversation is no longer in it: CompactionIsSafe.)
IdleMeansAnswered ==
  run = "wait" /\ unread => lastEnd \in {"bail", "cancelled"} \/ moved

\* An Esc that begins on an idle agent and finds no turn to cancel stops none
\* later: not by the latch it leaves, whatever turns come next and whatever
\* other calls store and swap meanwhile.  (An Esc that begins on an idle agent
\* but whose swap comes after the next turn is published cancels that turn.)
IdleInterruptIsHarmless == \A k \in quiet : stops[k] = 0

\* The done channel of a turn is closed only after its ThinkAct is over:
\* InterruptTurn clears the pending permission behind it.
DoneMeansUnwound ==
  ui = "waiting" /\ held # 0 /\ DoneClosed => ~(run = "think" /\ cur = held)

\* A message in the inbox is taken, whatever is interrupted meanwhile.
InboxDrains == inbox # <<>> ~> inbox = <<>> \/ run = "exit"

\* Every published turn closes its done channel, interrupted or not, so no
\* waiter depends on its timer.
EveryTurnCloses == closed < cur ~> closed = cur

-----------------------------------------------------------------------------
(* What the code says of itself and does not keep. *)

\* runOneTurn: "any concurrent InterruptCurrentTurn is honored exactly once".
HonoredOnce == \A k \in 1 .. BoundInterrupts : stops[k] <= 1

\* Run: "A fresh message supersedes a latched interrupt".  A message sent
\* after the interrupt had returned is not the one it latches out.
FreshMessageSupersedes == run = "bail" => newest < calls \/ ui # "idle"

\* Session.Compact: "Safe because the agent applies it at a phase boundary on
\* its own goroutine."  A message ingested just before the summary is lost.
CompactionIsSafe == ~erased

\* InterruptCurrentTurn: "Returns a channel that closes when the in-flight
\* ThinkAct has fully unwound".
ClosedMeansQuiescent ==
  ui = "waiting" /\ DoneClosed => ~(run = "think" /\ cur = inFlight)
=============================================================================
