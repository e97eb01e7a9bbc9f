----------------------------- MODULE AgentLoop -----------------------------
(***************************************************************************)
(* agent.Run with its turns, its inbox and InterruptCurrentTurn            *)
(* (internal/core/agent_impl.go), and Session.Stop, Send and InterruptTurn *)
(* (internal/agent/session.go) around it.  Three parties act: the agent    *)
(* goroutine, the goroutines that send to the inbox, and the UI, whose     *)
(* interrupt is a store to the latch, a swap of the turn pointer and a     *)
(* wait with a timeout.  Each atomic operation of the code is one step; a  *)
(* turn behaves as TurnContract says.                                      *)
(*                                                                         *)
(* Turns are numbered in the order they are published; 0 is the nil        *)
(* pointer.  A definition named ...Fault is the one after it with a        *)
(* defect; no action uses it.                                              *)
(***************************************************************************)
EXTENDS Naturals, Sequences

CONSTANTS
  InboxCap,         \* capacity of the inbox channel
  BoundSends,       \* bound: messages sent
  BoundInterrupts   \* bound: calls of InterruptTurn

ASSUME AgentLoopAssumption ==
  InboxCap \in Nat \ {0} /\ BoundSends \in Nat /\ BoundInterrupts \in Nat

\* "compact" is SigCompact with the summary it carries: it starts no turn.
Messages == {"user", "compact", "stop"}

Places == {"wait", "batch", "supersede", "start", "published", "think", "return",
           "closing", "after", "bail", "cancelled", "drain", "exit"}

VARIABLES
  run,       \* where the agent goroutine is
  ctxAlive,  \* Run's context
  inbox,     \* <<[kind, calls]>>: calls is how many interrupts had returned
  sent,
  pending,   \* interruptPending
  turn,      \* the turn pointer: the published turn, or 0
  cur,       \* number of the newest turn
  closed,    \* done channels of the turns up to this one are closed
  unread, erased, revoked, moved, outcome, \* the turn, as in TurnContract
  ui,        \* where the UI is in InterruptTurn
  held,      \* the turn whose done channel it waits for; 0: a closed channel
  calls,     \* history: calls of InterruptTurn
  inFlight,  \* history: the turn in flight when the call began, or 0
  revokedBy, \* history: the call that cancelled the newest turn, or 0
  stops,     \* history: turns each call stopped
  idleCall,  \* history: the newest call began while the agent sat idle
  quiet,     \* history: the calls that did, and then found no turn to cancel
  newest,    \* history: calls returned when the newest unread message was sent
  lastEnd    \* history: how the latest turn ended

loop == <<run, ctxAlive, inbox, sent>>
latch == <<pending, turn, cur, closed>>
turnVars == <<unread, erased, revoked, moved, outcome>>
uiVars == <<ui, held, calls, inFlight>>
hist == <<revokedBy, stops, idleCall, quiet, newest, lastEnd>>
vars == <<loop, latch, turnVars, uiVars, hist>>

Turn == INSTANCE TurnContract

Init ==
  /\ run = "wait" /\ ctxAlive = TRUE /\ inbox = <<>> /\ sent = 0
  /\ pending = FALSE /\ turn = 0 /\ cur = 0 /\ closed = 0
  /\ unread = FALSE /\ erased = FALSE /\ revoked = FALSE /\ moved = FALSE /\ outcome = "stopped"
  /\ ui = "idle" /\ held = 0 /\ calls = 0 /\ inFlight = 0
  /\ revokedBy = 0 /\ stops = [k \in 1 .. BoundInterrupts |-> 0]
  /\ idleCall = FALSE /\ quiet = {} /\ newest = 0 /\ lastEnd = "complete"

-----------------------------------------------------------------------------
\* Senders, and Session.Stop.

Returned == IF ui = "idle" THEN calls ELSE calls - 1

Enqueue(kind) == inbox' = Append(inbox, [kind |-> kind, calls |-> Returned])

Send(kind) ==
  /\ sent < BoundSends /\ Len(inbox) < InboxCap
  /\ kind # "stop"
  /\ Enqueue(kind)
  /\ sent' = sent + 1
  /\ UNCHANGED <<run, ctxAlive, latch, turnVars, uiVars, hist>>

SessionStopFault ==
  /\ ctxAlive
  /\ ctxAlive' = FALSE
  /\ revoked' = TRUE
  /\ Enqueue("stop")
  /\ UNCHANGED <<run, sent, latch, unread, erased, moved, outcome, uiVars, hist>>

\* The context dies with the turn it is parent of; SigStop only if it fits.
SessionStop ==
  /\ ctxAlive
  /\ ctxAlive' = FALSE
  /\ revoked' = TRUE
  /\ IF Len(inbox) < InboxCap THEN Enqueue("stop") ELSE UNCHANGED inbox
  /\ UNCHANGED <<run, sent, latch, unread, erased, moved, outcome, uiVars, hist>>

-----------------------------------------------------------------------------
\* waitForInput, ingestBatch and ingest.

Goto(place) == run' = place /\ UNCHANGED <<ctxAlive, sent>>

\* A user message joins the conversation; a summary takes its place, with the
\* messages it was made too early to cover.
Ingest(m) ==
  /\ unread' = (m.kind = "user" \/ (unread /\ m.kind # "compact"))
  /\ erased' = (erased \/ (unread /\ m.kind = "compact"))
  /\ newest' = IF m.kind = "user" THEN m.calls ELSE newest
  /\ inbox' = Tail(inbox)
  /\ UNCHANGED <<revoked, moved, outcome, revokedBy, stops, idleCall, quiet, lastEnd>>

ReceiveFault ==
  /\ run = "wait" /\ inbox # <<>>
  /\ Ingest(Head(inbox))
  /\ Goto(IF Head(inbox).kind = "user" THEN "batch" ELSE run)
  /\ UNCHANGED <<latch, uiVars>>

Receive ==
  /\ run \in {"wait", "batch"} /\ inbox # <<>>
  /\ Ingest(Head(inbox))
  /\ Goto(CASE Head(inbox).kind = "stop" -> "exit"
            [] Head(inbox).kind = "user" -> "batch"
            [] OTHER -> run)
  /\ UNCHANGED <<latch, uiVars>>

WaitCancelled ==
  /\ run = "wait" /\ ~ctxAlive
  /\ Goto("exit")
  /\ UNCHANGED <<inbox, latch, turnVars, uiVars, hist>>

BatchTaken ==
  /\ run = "batch" /\ inbox = <<>>
  /\ Goto("supersede")
  /\ UNCHANGED <<inbox, latch, turnVars, uiVars, hist>>

SupersedeFault ==
  /\ run = "supersede"
  /\ Goto("start")
  /\ UNCHANGED <<inbox, latch, turnVars, uiVars, hist>>

\* A fresh message supersedes a latched interrupt.
Supersede ==
  /\ run = "supersede"
  /\ pending' = FALSE
  /\ Goto("start")
  /\ UNCHANGED <<inbox, turn, cur, closed, turnVars, uiVars, hist>>

-----------------------------------------------------------------------------
\* runOneTurn.

Publish ==
  /\ run = "start"
  /\ cur' = cur + 1 /\ turn' = cur + 1
  /\ revoked' = ~ctxAlive /\ moved' = FALSE /\ outcome' = "running" /\ revokedBy' = 0
  /\ Goto("published")
  /\ UNCHANGED <<inbox, pending, closed, unread, erased, uiVars, stops, idleCall, quiet, newest, lastEnd>>

CheckLatchFault ==
  /\ run = "published"
  /\ pending' = FALSE
  /\ closed' = cur
  /\ Goto(IF pending THEN "bail" ELSE "think")
  /\ UNCHANGED <<inbox, turn, cur, turnVars, uiVars, hist>>

\* The latch is read after the turn is published.
CheckLatch ==
  /\ run = "published"
  /\ pending' = FALSE
  /\ Goto(IF pending THEN "bail" ELSE "think")
  /\ stops' = IF pending THEN [stops EXCEPT ![calls] = @ + 1] ELSE stops
  /\ UNCHANGED <<inbox, turn, cur, closed, turnVars, uiVars, revokedBy, idleCall, quiet, newest, lastEnd>>

\* The latch was read TRUE: detach, close(h.done), back to waitForInput.
Bail ==
  /\ run = "bail"
  /\ turn' = 0 /\ closed' = cur
  /\ outcome' = "stopped" /\ lastEnd' = "bail"
  /\ Goto("wait")
  /\ UNCHANGED <<inbox, pending, cur, unread, erased, revoked, moved, uiVars, revokedBy, stops,
                 idleCall, quiet, newest>>

\* Between steps ThinkAct drains one message; a stop ends the turn.
TakeInTurn ==
  /\ run = "think" /\ inbox # <<>>
  /\ Ingest(Head(inbox))
  /\ Head(inbox).kind # "stop"
  /\ Goto(run)
  /\ UNCHANGED <<latch, uiVars>>

StopInTurn ==
  /\ run = "think" /\ inbox # <<>> /\ Head(inbox).kind = "stop"
  /\ inbox' = Tail(inbox)
  /\ Turn!End("stopped")
  /\ Goto("return")
  /\ UNCHANGED <<latch, uiVars, hist>>

SetMaxSteps ==
  /\ run = "think"
  /\ Turn!MoveCap
  /\ UNCHANGED <<loop, latch, uiVars, hist>>

Answer ==
  /\ run = "think"
  /\ Turn!Answer
  /\ Goto("think")
  /\ UNCHANGED <<inbox, latch, uiVars, hist>>

EndTurn ==
  /\ run = "think"
  /\ Turn!LastAnswer \/ \E o \in {"complete", "cancelled", "error"} : Turn!End(o)
  /\ Goto("return")
  /\ UNCHANGED <<inbox, latch, uiVars, hist>>

DetachFault ==
  /\ run = "return"
  /\ turn' = IF turn = cur THEN 0 ELSE turn
  /\ Goto(IF turn = cur THEN "closing" ELSE "after")
  /\ UNCHANGED <<inbox, pending, cur, closed, turnVars, uiVars, hist>>

\* Deferred: detach, then release the waiters.
Detach ==
  /\ run = "return"
  /\ turn' = IF turn = cur THEN 0 ELSE turn
  /\ Goto("closing")
  /\ UNCHANGED <<inbox, pending, cur, closed, turnVars, uiVars, hist>>

CloseDone ==
  /\ run = "closing"
  /\ closed' = cur
  /\ lastEnd' = outcome
  /\ Goto("after")
  /\ UNCHANGED <<inbox, pending, turn, cur, turnVars, uiVars, revokedBy, stops, idleCall, quiet, newest>>

-----------------------------------------------------------------------------
\* Run, after a turn.

\* Emits TurnEvent; only a cancelled turn under a live context goes on.
AfterTurn ==
  /\ run = "after"
  /\ Goto(CASE outcome = "complete" -> "drain"
            [] outcome = "cancelled" /\ ctxAlive -> "cancelled"
            [] OTHER -> "exit")
  /\ UNCHANGED <<inbox, latch, turnVars, uiVars, hist>>

\* The latch that came with the cancel is consumed.
TurnCancelled ==
  /\ run = "cancelled"
  /\ pending' = FALSE
  /\ stops' = IF revokedBy = 0 THEN stops ELSE [stops EXCEPT ![revokedBy] = @ + 1]
  /\ Goto("wait")
  /\ UNCHANGED <<inbox, turn, cur, closed, turnVars, uiVars, revokedBy, idleCall, quiet, newest, lastEnd>>

DrainFault ==
  /\ run = "drain"
  /\ IF inbox = <<>> THEN UNCHANGED <<inbox, turnVars, hist>> ELSE Ingest(Head(inbox))
  /\ Goto("wait")
  /\ UNCHANGED <<latch, uiVars>>

Drain ==
  /\ run = "drain"
  /\ \/ /\ inbox = <<>>
        /\ Goto("wait")
        /\ UNCHANGED <<inbox, turnVars, hist>>
     \/ /\ inbox # <<>>
        /\ Ingest(Head(inbox))
        /\ Goto(CASE Head(inbox).kind = "user" -> "start"
                  [] Head(inbox).kind = "stop" -> "exit"
                  [] OTHER -> "wait")
  /\ UNCHANGED <<latch, uiVars>>

-----------------------------------------------------------------------------
\* Session.InterruptTurn, on the UI goroutine.

Interrupt ==
  /\ ui = "idle" /\ calls < BoundInterrupts /\ run # "exit"
  /\ ui' = "stored" /\ calls' = calls + 1
  /\ inFlight' = IF run = "think" THEN cur ELSE 0
  /\ pending' = TRUE
  /\ idleCall' = (run \in {"wait", "batch", "supersede"})
  /\ UNCHANGED <<loop, turn, cur, closed, turnVars, held, revokedBy, stops, quiet, newest, lastEnd>>

\* InterruptCurrentTurn hands out the done channel of the turn it detached.
Swap ==
  /\ ui = "stored"
  /\ ui' = "waiting"
  /\ held' = turn /\ turn' = 0
  /\ \/ /\ turn = 0
        /\ quiet' = IF idleCall THEN quiet \cup {calls} ELSE quiet
        /\ UNCHANGED <<revoked, revokedBy>>
     \/ /\ turn # 0
        /\ revoked' = TRUE /\ revokedBy' = calls
        /\ UNCHANGED quiet
  /\ UNCHANGED <<loop, pending, cur, closed, unread, erased, moved, outcome, calls, inFlight, stops,
                 idleCall, newest, lastEnd>>

DoneClosed == held <= closed

\* The channel is closed, or interruptDrainTimeout has passed.
WaitOver ==
  /\ ui = "waiting"
  /\ ui' = "idle" /\ held' = 0
  /\ UNCHANGED <<loop, latch, turnVars, calls, inFlight, hist>>

-----------------------------------------------------------------------------
RunStep ==
  \/ Receive \/ WaitCancelled \/ BatchTaken \/ Supersede
  \/ Publish \/ CheckLatch \/ Bail
  \/ EndTurn \/ Detach \/ CloseDone
  \/ AfterTurn \/ TurnCancelled \/ Drain

UiStep == Swap \/ WaitOver

Next ==
  \/ RunStep \/ TakeInTurn \/ StopInTurn \/ Answer \/ SetMaxSteps
  \/ Interrupt \/ UiStep
  \/ SessionStop
  \/ \E kind \in Messages : Send(kind)

Spec == Init /\ [][Next]_vars

\* Goroutines run, turns end (ThinkAct's TurnReturns) and the UI's wait is
\* bounded by its timer.  Nobody has to send, interrupt or stop.
FairSpec == Spec /\ WF_vars(RunStep) /\ WF_vars(UiStep)
=============================================================================
