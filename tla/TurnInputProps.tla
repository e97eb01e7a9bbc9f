--------------------------- MODULE TurnInputProps ---------------------------
(* The properties of TurnInput. *)
EXTENDS TurnInput

Messages == SUBSET Tokens

\* Type invariant.
TypeOK ==
  /\ box \in Boxes /\ Len(box.items) <= MaxQueue /\ box.sel <= Len(box.items)
  /\ cronQ \in Seq(Crons) /\ Len(cronQ) <= MaxCron
  /\ hookQ \in Seq(Hooks) /\ mail \subseteq Notices /\ parked \subseteq Notices
  /\ ui \in [stream : BOOLEAN, compact : BOOLEAN, calls : BOOLEAN, active : BOOLEAN]
  /\ outbox \in Seq(Events) /\ Len(outbox) <= OutboxCap
  /\ inbox \in Seq(Messages) /\ sending \subseteq Messages
  /\ agent.at \in Running \cup {"waiting", "start", "between", "dead"}
  /\ agent.steps \in 0 .. MaxSteps /\ agent.detours \in 0 .. BoundDetours
  /\ taken \subseteq Tokens /\ lost \subseteq Tokens /\ halted \in Halts

\* Nothing is under way: no turn, no message to the agent, no event from it.
AtPeace ==
  /\ agent.at \in {"waiting", "dead"}
  /\ outbox = <<>> /\ inbox = <<>> /\ sending = {}

\* Once all is quiet the UI knows it.  A stream flag left set would queue every
\* message the user sends from then on, for a turn end that never comes.
QuietIsIdle == AtPeace => ~ui.stream

\* What waits for a turn to end has a turn to wait for: with a message in the
\* user's queue, not under edit, or a notice parked, something is under way.
\* Two ways out: the turn it waited for was cancelled, swallowed or lost, or the
\* item drained before it was a slash command, which no turn follows
\* (CommandsKeepTheQueueGoing).
Waiting == (box.items # <<>> /\ box.sel = 0) \/ parked # {}
WaitersHaveATurn == Waiting /\ AtPeace => halted \in {"turn", "command"}

Copies(t) ==
  LET In(S) == IF t \in S THEN 1 ELSE 0
      Carried(s) == Cardinality({i \in DOMAIN s : t \in s[i]})
  IN Cardinality({i \in DOMAIN box.items : box.items[i].text = t})
     + In(Range(cronQ)) + In(Range(hookQ)) + In(mail) + In(parked)
     + Cardinality({msg \in sending : t \in msg}) + Carried(inbox)
     + In(taken) + In(lost) + In(unspent)

\* Every prompt, continuation and notice is in exactly one place and reaches the
\* agent once, or was lost with a full cron queue or a dead agent; no text of the
\* user is sent twice.
EachOnce ==
  /\ \A t \in Typed : Copies(t) <= 1
  /\ \A t \in Tokens \ Typed : Copies(t) = 1
  /\ lost \subseteq Crons \/ failures > 0

\* Taking a message from the queue never moves an edit to another item: neither
\* the head under edit goes, nor does the selection slip when the head does.
ReleaseKeepsEdit ==
  [][box'.nextId = box.nextId /\ sending' # sending /\ box.sel # 0 /\ box'.sel # 0 =>
       box'.items[box'.sel].id = box.items[box.sel].id]_vars

-----------------------------------------------------------------------------
\* What the code says of itself and does not keep.

\* "On failure the loop falls through to streamInfer, whose PreInfer clears the
\* indicator" (agent_impl.go:708): the indicator, which refuses every message
\* typed, does not outlive the compaction.
IndicatorIsCleared == AtPeace => ~ui.compact

\* drainInputQueueWhileIdle: "so input queued while a turn was streaming runs
\* right after Ctrl+C/Esc" (update_submit.go:254).  A command drained ahead of it
\* runs, starts no turn and drains no more.
CommandsKeepTheQueueGoing == Waiting /\ AtPeace => halted # "command"

\* SaveCurrentQueueEdit "writes the current textarea content back to the
\* selected queue item" (on_queue.go:198): a text typed over one message never
\* replaces another.
EditsReachTheirItem ==
  [][\A i \in DOMAIN box.items : \A j \in DOMAIN box'.items :
       box'.items[j].id = box.items[i].id /\ box'.items[j].text # box.items[i].text =>
         box.loaded = box.items[i].id]_vars

\* "Each queue has its own later drain, so holding them here loses nothing"
\* (model_agent_events.go:146): a parked notice is delivered.
HeldIsDelivered == parked # {} ~> parked = {}
=============================================================================
