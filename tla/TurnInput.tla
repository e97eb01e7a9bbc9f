----------------------------- MODULE TurnInput -----------------------------
(***************************************************************************)
(* How input reaches the main agent (internal/app).  The Update loop       *)
(* handles one message at a time: keys, agent events from the outbox, cron *)
(* and hook ticks, notices of finished workers.  What may not be sent yet  *)
(* waits in one of four queues: the user's, cron prompts, hook             *)
(* continuations and parked notices.  A send is a goroutine of its own.    *)
(* conv.Stream.Active is all the UI knows of the agent, and it is set and  *)
(* cleared by the agent's events as they are handled.                      *)
(*                                                                         *)
(* The agent of internal/core/agent_impl.go is here as what it emits and   *)
(* takes; ThinkAct and AgentLoop model it in full.  A message is the set   *)
(* of the tokens (texts, prompts, notices) it carries.  A definition named *)
(* ...Fault is the one after it with a defect; no action uses it.          *)
(***************************************************************************)
EXTENDS InputQueue, FiniteSets

CONSTANTS
  Slash,          \* texts that are slash commands, handled without the agent
  Crons, Hooks, Notices,
  MaxCron,        \* maxCronQueueSize
  OutboxCap,
  MaxSteps,       \* step cap of a turn
  BoundDetours,   \* bound: compactions and retries of a turn
  BoundTokens,    \* bound: texts, prompts and notices of one behaviour
  BoundTroubles   \* bound: Esc during a turn, and turns that fail and end the agent

ASSUME TurnInputAssumption ==
  /\ Slash \subseteq Typed /\ IsFiniteSet(Crons) /\ NoText \notin Crons \cup Hooks \cup Notices
  /\ MaxCron \in Nat /\ OutboxCap \in Nat \ {0} /\ MaxSteps \in Nat \ {0}
  /\ BoundTokens \in Nat /\ BoundDetours \in Nat /\ BoundTroubles \in Nat

Tokens == Typed \cup Crons \cup Hooks \cup Notices

Events == {"PreInfer", "Done", "Calls", "Tools", "StreamReset", "CompactStart",
           "Compacted", "Turn", "Cancelled", "Stop"}

VARIABLES
  box,       \* the textarea and the user's queue
  cronQ,     \* CronQueue
  hookQ,     \* AsyncHookQueue
  mail,      \* notices on their way: mainNotices and the goroutines that post
  parked,    \* pendingNotices
  ui,        \* Stream.Active, Compact.Active, tool calls pending, session active
  outbox,
  inbox,
  sending,   \* goroutines in Session.Send
  agent,     \* the agent goroutine: see FreshAgent
  unspent,   \* tokens nobody has typed, fired or posted yet
  taken,     \* tokens in the agent's conversation
  lost,      \* history: tokens that were dropped
  halted,    \* history: why the queues are not drained: see Halts
  cancels, failures

queues == <<box, cronQ, hookQ, parked>>
channels == <<outbox, inbox>>
hist == <<taken, lost, halted>>
bounds == <<cancels, failures>>
vars == <<queues, mail, ui, channels, sending, agent, unspent, hist, bounds>>

\* "turn": a turn that would have drained them was cancelled, swallowed or lost.
\* "command": what was drained last was a slash command, and no turn follows it.
Halts == {"no", "turn", "command"}

Running == {"ready", "compact", "primed", "infer", "rescue", "tools", "ending"}

\* cut: the turn's context is cancelled; latch: interruptPending.
FreshAgent == [at |-> "waiting", cut |-> FALSE, latch |-> FALSE, steps |-> 0, detours |-> 0]

Init ==
  /\ box = EmptyBox /\ cronQ = <<>> /\ hookQ = <<>> /\ mail = {} /\ parked = {}
  /\ ui = [stream |-> FALSE, compact |-> FALSE, calls |-> FALSE, active |-> FALSE]
  /\ outbox = <<>> /\ inbox = <<>> /\ sending = {} /\ agent = FreshAgent
  /\ unspent = Tokens /\ taken = {} /\ lost = {} /\ halted = "no"
  /\ cancels = 0 /\ failures = 0

-----------------------------------------------------------------------------
\* The agent.  An event of a cancelled turn may be dropped (agent.emit).

Emit(e) ==
  \/ Len(outbox) < OutboxCap /\ outbox' = Append(outbox, e)
  \/ agent.cut /\ UNCHANGED outbox

EmitAlways(e) == Len(outbox) < OutboxCap /\ outbox' = Append(outbox, e)

AgentFrame == UNCHANGED <<queues, mail, ui, sending, unspent, lost>>

Goes(from, to) == agent.at = from /\ agent' = [agent EXCEPT !.at = to]

\* waitForInput takes all there is; drainInbox takes one message.
Wake ==
  /\ inbox # <<>> /\ agent.at = "waiting"
  /\ agent' = [agent EXCEPT !.at = "start", !.latch = FALSE]
  /\ taken' = taken \cup UNION Range(inbox) /\ inbox' = <<>>
  /\ AgentFrame /\ UNCHANGED <<outbox, halted, bounds>>

DrainOne ==
  IF inbox = <<>> THEN UNCHANGED <<inbox, taken>>
  ELSE inbox' = Tail(inbox) /\ taken' = taken \cup Head(inbox)

Between ==
  /\ Goes("between", IF inbox = <<>> THEN "waiting" ELSE "start")
  /\ DrainOne
  /\ AgentFrame /\ UNCHANGED <<outbox, halted, bounds>>

\* runOneTurn: a latched interrupt swallows the turn, and no event says so.
StartTurn ==
  /\ agent.at = "start"
  /\ agent' = [agent EXCEPT !.at = IF agent.latch THEN "waiting" ELSE "ready",
                            !.latch = FALSE, !.cut = FALSE, !.steps = 0, !.detours = 0]
  /\ halted' = IF agent.latch THEN "turn" ELSE halted
  /\ AgentFrame /\ UNCHANGED <<channels, taken, bounds>>

\* The head of ThinkAct's loop: cancelled, capped, or on to the inference,
\* with a proactive compaction before it or not.
NextStep ==
  /\ agent.at = "ready" /\ ~agent.cut /\ agent.steps < MaxSteps
  /\ IF agent.steps > 0 THEN DrainOne ELSE UNCHANGED <<inbox, taken>>
  /\ \/ Goes("ready", "primed") /\ UNCHANGED outbox
     \/ /\ agent.detours < BoundDetours /\ Emit("CompactStart")
        /\ agent' = [agent EXCEPT !.at = "compact", !.detours = @ + 1]
  /\ AgentFrame /\ UNCHANGED <<halted, bounds>>

StepCap ==
  /\ ~agent.cut /\ agent.steps >= MaxSteps /\ Goes("ready", "ending")
  /\ AgentFrame /\ UNCHANGED <<channels, taken, halted, bounds>>

\* compact: on success the loop starts over; on failure the proactive one
\* falls through to the inference and the reactive one fails the turn.
Compacted ==
  /\ agent.at \in {"compact", "rescue"}
  /\ Emit("Compacted") /\ agent' = [agent EXCEPT !.at = "ready"]
  /\ AgentFrame /\ UNCHANGED <<inbox, taken, halted, bounds>>

CompactFails ==
  /\ Goes("compact", "primed")
  /\ AgentFrame /\ UNCHANGED <<channels, taken, halted, bounds>>

Infer ==
  /\ Goes("primed", "infer") /\ Emit("PreInfer")
  /\ AgentFrame /\ UNCHANGED <<inbox, taken, halted, bounds>>

\* The inference fails: a retry, a prompt too long, or the end of the agent.
InferFails ==
  /\ agent.at = "infer" /\ ~agent.cut /\ agent.detours < BoundDetours
  /\ \E e \in {"StreamReset", "CompactStart"} :
       /\ Emit(e)
       /\ agent' = [agent EXCEPT !.at = IF e = "StreamReset" THEN "ready" ELSE "rescue",
                                 !.detours = @ + 1]
  /\ AgentFrame /\ UNCHANGED <<inbox, taken, halted, bounds>>

\* Run returns the error: a StopEvent and no TurnEvent.
TurnFails ==
  /\ cancels + failures < BoundTroubles /\ failures' = failures + 1 /\ UNCHANGED cancels
  /\ agent.at \in {"infer", "rescue"} /\ EmitAlways("Stop")
  /\ agent' = [agent EXCEPT !.at = "dead"]
  /\ AgentFrame /\ UNCHANGED <<inbox, taken, halted>>

CallTools ==
  /\ agent.at = "infer" /\ Emit("Calls")
  /\ agent' = [agent EXCEPT !.at = "tools", !.steps = @ + 1]
  /\ AgentFrame /\ UNCHANGED <<inbox, taken, halted, bounds>>

FinishTools ==
  /\ Goes("tools", "ready") /\ Emit("Tools")
  /\ AgentFrame /\ UNCHANGED <<inbox, taken, halted, bounds>>

\* A text ends the turn, or was cut at the output limit and is resumed.
Answer ==
  /\ Emit("Done")
  /\ \/ Goes("infer", "ending")
     \/ /\ agent.at = "infer" /\ agent.detours < BoundDetours
        /\ agent' = [agent EXCEPT !.at = "ready", !.steps = @ + 1, !.detours = @ + 1]
  /\ AgentFrame /\ UNCHANGED <<inbox, taken, halted, bounds>>

\* The TurnEvent goes out under Run's context.
EndTurn ==
  /\ Goes("ending", "between") /\ EmitAlways("Turn")
  /\ AgentFrame /\ UNCHANGED <<inbox, taken, halted, bounds>>

CancelTurn ==
  /\ agent.cut /\ agent.at \in {"ready", "infer"} /\ EmitAlways("Cancelled")
  /\ agent' = [agent EXCEPT !.at = "waiting", !.latch = FALSE]
  /\ AgentFrame /\ UNCHANGED <<inbox, taken, halted, bounds>>

AgentStep ==
  \/ Wake \/ Between \/ StartTurn \/ NextStep \/ StepCap \/ Compacted \/ CompactFails
  \/ Infer \/ InferFails \/ TurnFails \/ CallTools \/ FinishTools \/ Answer
  \/ EndTurn \/ CancelTurn

\* Session.Send runs when the scheduler pleases: no session, no delivery.
Deliver(msg) ==
  /\ sending' = sending \ {msg}
  /\ IF ui.active THEN inbox' = Append(inbox, msg) /\ UNCHANGED lost
                  ELSE lost' = lost \cup msg /\ UNCHANGED inbox
  /\ UNCHANGED <<queues, mail, ui, outbox, agent, unspent, taken, halted, bounds>>

-----------------------------------------------------------------------------
\* Sending, from the Update loop.  The operators set ui', sending', the agent
\* with its channels, and halted'.

NoSend == UNCHANGED <<sending, agent, channels, halted>>

\* SubmitToAgent, after the UI's own change to its state, u: a session that
\* was stopped is built anew.
Submit(u, msg) ==
  /\ ui' = [u EXCEPT !.active = TRUE]
  /\ sending' = sending \cup {msg}
  /\ IF u.active THEN UNCHANGED <<agent, channels>>
     ELSE agent' = FreshAgent /\ inbox' = <<>> /\ outbox' = <<>>
  /\ halted' = "no"

UIFrame == UNCHANGED taken

\* The same where the session is known to be active: a turn runs or has ended.
Send(msg) == sending' = sending \cup {msg} /\ halted' = "no"

\* drainInputQueueWhileIdle, for a box that is b by now: it sends one item,
\* or runs it if it is a command.  The draft in the textarea stays.
DrainIdle(u, b) ==
  IF b.items = <<>> THEN box' = b /\ ui' = u /\ NoSend
  ELSE /\ box' = Dequeue(b)
       /\ IF b.items[1].text \in Slash
          THEN /\ ui' = u /\ halted' = "command" /\ UNCHANGED <<sending, agent, channels>>
          ELSE Submit(u, {b.items[1].text})

\* The texts, prompts and notices that may still come.
Coming == IF Cardinality(Tokens \ unspent) < BoundTokens THEN unspent ELSE {}

-----------------------------------------------------------------------------
\* Keys.

Type(text) ==
  /\ box.sel = 0 /\ box.text = NoText /\ text \in Coming
  /\ box' = [box EXCEPT !.text = text]
  /\ unspent' = unspent \ {text}
  /\ UNCHANGED <<cronQ, hookQ, parked, mail, ui, lost, bounds>> /\ NoSend /\ UIFrame

\* handleSubmit: queued while a turn streams, refused while one compacts.
Enter ==
  /\ box.sel = 0 /\ box.text # NoText
  /\ IF ui.stream
     THEN /\ box' = IF Len(box.items) < MaxQueue THEN Reset(Enqueue(box)) ELSE box
          /\ UNCHANGED ui /\ NoSend
     ELSE IF ui.compact THEN UNCHANGED <<box, ui>> /\ NoSend
     ELSE /\ box' = Reset(box)
          /\ IF box.text \in Slash THEN UNCHANGED ui /\ NoSend
                                   ELSE Submit(ui, {box.text})
  /\ UNCHANGED <<cronQ, hookQ, parked, mail, unspent, lost, bounds>> /\ UIFrame

EditItem ==
  /\ box.sel = 0 /\ box.items # <<>>
  /\ box' = EnterSelection(box)
  /\ UNCHANGED <<cronQ, hookQ, parked, mail, ui, unspent, lost, bounds>> /\ NoSend /\ UIFrame

FreesDrainFault(b) == FALSE

\* Leaving the edit frees the drain it held, if nothing streams.
FreesDrain(b) == b.sel = 0 /\ ~ui.stream

NavigateKey(key) ==
  /\ box.sel # 0
  /\ LET b == Navigate(box, key) IN
       IF FreesDrain(b) THEN DrainIdle(ui, b)
       ELSE box' = b /\ UNCHANGED ui /\ NoSend
  /\ UNCHANGED <<cronQ, hookQ, parked, mail, unspent, lost, bounds>> /\ UIFrame

EditKey(text) ==
  /\ box.sel # 0 /\ text \in Coming \cup {NoText}
  /\ box' = Edit(box, text)
  /\ unspent' = unspent \ {text}
  /\ UNCHANGED <<cronQ, hookQ, parked, mail, ui, lost, bounds>> /\ NoSend /\ UIFrame

Wipe ==
  /\ box.items # <<>> /\ box' = WipeQueue(box)
  /\ UNCHANGED <<cronQ, hookQ, parked, mail, ui, unspent, lost, bounds>> /\ NoSend /\ UIFrame

\* handleStreamCancel.  InterruptTurn sets the latch and cuts a turn that runs.
Interrupted ==
  [agent EXCEPT !.latch = TRUE, !.cut = @ \/ agent.at \in Running]

Cancel ==
  /\ ui.stream /\ box.sel = 0 /\ cancels + failures < BoundTroubles
  /\ cancels' = cancels + 1 /\ UNCHANGED failures
  /\ ui' = [ui EXCEPT !.stream = FALSE, !.calls = FALSE]
  /\ agent' = Interrupted
  /\ LET b == box IN
     IF b.items = <<>> THEN halted' = "turn" /\ UNCHANGED <<box, sending>>
     ELSE /\ box' = Dequeue(b)
          /\ IF b.items[1].text \in Slash
             THEN halted' = "command" /\ UNCHANGED sending
             ELSE Send({b.items[1].text})
  /\ UNCHANGED <<cronQ, hookQ, parked, mail, unspent, lost, channels>> /\ UIFrame

Keys ==
  \/ \E text \in Typed : Type(text)
  \/ Enter \/ EditItem \/ Wipe \/ Cancel
  \/ \E key \in {"up", "down", "exit", "delete"} : NavigateKey(key)
  \/ \E text \in Typed \cup {NoText} : EditKey(text)

-----------------------------------------------------------------------------
\* Agent events, taken from the outbox in order.

Take(e) == outbox # <<>> /\ Head(outbox) = e /\ outbox' = Tail(outbox)

\* A handler that sends nothing; b is the box it leaves, v the UI state.
Shows(v) ==
  /\ ui' = v
  /\ UNCHANGED <<queues, mail, sending, agent, inbox, unspent, taken, lost, halted, bounds>>

OnPreInfer == Take("PreInfer") /\ Shows([ui EXCEPT !.stream = TRUE, !.compact = FALSE])

OnDone == Take("Done") /\ Shows([ui EXCEPT !.stream = FALSE])

OnCalls == Take("Calls") /\ Shows([ui EXCEPT !.calls = TRUE])

OnStreamReset == Take("StreamReset") /\ Shows([ui EXCEPT !.stream = FALSE])

OnCompactStart ==
  Take("CompactStart") /\ Shows([ui EXCEPT !.stream = FALSE, !.compact = TRUE])

OnCompacted == Take("Compacted") /\ Shows([ui EXCEPT !.compact = FALSE])

NoSendNow == UNCHANGED <<sending, halted>>

ReleasableFault == box.items # <<>>

\* releaseQueuedMessage: never the head while it is under edit.
Releasable == box.items # <<>> /\ box.sel # 1

Release == box' = Dequeue(box) /\ Send({box.items[1].text})

\* The last PostTool of a batch is a step boundary, unless Esc has already
\* written results for its calls: DrainQueuedAtStep.
OnTools ==
  /\ Take("Tools")
  /\ IF ui.calls /\ Releasable THEN Release ELSE UNCHANGED box /\ NoSendNow
  /\ ui' = [ui EXCEPT !.calls = FALSE]
  /\ UNCHANGED <<cronQ, hookQ, parked, mail, agent, inbox, unspent, taken, lost, bounds>>

UnparkFault(extra) == Send(parked \cup extra) /\ UNCHANGED parked

\* Parked notices go out as one message, with what has come in since.
Unpark(extra) == Send(parked \cup extra) /\ parked' = {}

\* drainTurnQueues: one item, of the first queue that has one to give.
DrainOnce ==
  \/ Releasable /\ Release /\ UNCHANGED <<cronQ, hookQ, parked, mail>>
  \/ /\ ~Releasable /\ cronQ # <<>>
     /\ Send({Head(cronQ)}) /\ cronQ' = Tail(cronQ) /\ UNCHANGED <<box, hookQ, parked, mail>>
  \/ /\ ~Releasable /\ cronQ = <<>> /\ hookQ # <<>>
     /\ Send({Head(hookQ)}) /\ hookQ' = Tail(hookQ) /\ UNCHANGED <<box, cronQ, parked, mail>>
  \/ /\ ~Releasable /\ cronQ = <<>> /\ hookQ = <<>> /\ parked # {}
     /\ \E extra \in SUBSET mail : Unpark(extra) /\ mail' = mail \ extra
     /\ UNCHANGED <<box, cronQ, hookQ>>
  \/ /\ ~Releasable /\ cronQ = <<>> /\ hookQ = <<>> /\ parked = {}
     /\ NoSendNow /\ UNCHANGED <<queues, mail>>

AtRestFault == ui

\* The state OnTurn and OnStop leave before anything else happens.
AtRest == [ui EXCEPT !.stream = FALSE, !.calls = FALSE]

OnTurn ==
  /\ Take("Turn") /\ DrainOnce /\ ui' = AtRest
  /\ UNCHANGED <<agent, inbox, unspent, taken, lost, bounds>>

\* A cancelled turn holds the queues: OnTurnEnd, StopCancelled.
OnCancelled ==
  /\ Take("Cancelled") /\ ui' = AtRest /\ halted' = "turn"
  /\ UNCHANGED <<queues, mail, sending, agent, inbox, unspent, taken, lost, bounds>>

\* OnAgentStop drops the session, and with it what its agent had not taken.
OnStop ==
  /\ Take("Stop") /\ ui' = [AtRest EXCEPT !.active = FALSE] /\ halted' = "turn"
  /\ lost' = lost \cup UNION Range(inbox) /\ inbox' = <<>>
  /\ UNCHANGED <<queues, mail, sending, agent, unspent, taken, bounds>>

AgentEvent ==
  \/ OnPreInfer \/ OnDone \/ OnCalls \/ OnTools \/ OnStreamReset
  \/ OnCompactStart \/ OnCompacted \/ OnTurn \/ OnCancelled \/ OnStop

-----------------------------------------------------------------------------
\* Ticks and notices.

Inject(msg) == Submit(ui, msg)

\* HandleCronTick queues what fired while a turn streams; while none does it
\* sends the first, or the head of the queue if nothing fired.  A full queue
\* drops the rest.
CronTick ==
  \E fired \in SetToSeqs(Coming \cap Crons) \cup {<<>>} :
    LET idle == ~ui.stream
        later == IF idle /\ fired # <<>> THEN Tail(fired) ELSE fired
        kept == SubSeq(later, 1, Min({Len(later), MaxCron - Len(cronQ)}))
        popped == idle /\ fired = <<>> /\ cronQ # <<>>
    IN /\ fired # <<>> \/ popped
       /\ unspent' = unspent \ Range(fired)
       /\ lost' = lost \cup (Range(later) \ Range(kept))
       /\ cronQ' = IF popped THEN Tail(cronQ) ELSE cronQ \o kept
       /\ CASE popped -> Inject({Head(cronQ)})
            [] idle /\ fired # <<>> -> Inject({Head(fired)})
            [] OTHER -> UNCHANGED ui /\ NoSend
       /\ UNCHANGED <<box, hookQ, parked, mail, bounds>> /\ UIFrame

\* A hook pushes from its own goroutine; HandleAsyncHookTick pops when idle.
HookPush(h) ==
  /\ h \in Coming /\ unspent' = unspent \ {h} /\ hookQ' = Append(hookQ, h)
  /\ UNCHANGED <<box, cronQ, parked, mail, ui, lost, bounds>> /\ NoSend /\ UIFrame

HookTick ==
  /\ ~ui.stream /\ hookQ # <<>>
  /\ hookQ' = Tail(hookQ) /\ Inject({Head(hookQ)})
  /\ UNCHANGED <<box, cronQ, parked, mail, unspent, lost, bounds>> /\ UIFrame

\* notifyMain never blocks and never drops.
Notify(n) ==
  /\ n \in Coming /\ unspent' = unspent \ {n} /\ mail' = mail \cup {n}
  /\ UNCHANGED <<queues, ui, lost, bounds>> /\ NoSend /\ UIFrame

OnMainNotice(n) ==
  /\ n \in mail /\ mail' = mail \ {n}
  /\ IF ui.stream THEN parked' = parked \cup {n} /\ UNCHANGED ui /\ NoSend
                  ELSE Inject({n}) /\ UNCHANGED parked
  /\ UNCHANGED <<box, cronQ, hookQ, unspent, lost, bounds>> /\ UIFrame

Ticks == CronTick \/ HookTick \/ \E n \in Notices : OnMainNotice(n)

-----------------------------------------------------------------------------
Next ==
  \/ AgentStep
  \/ \E msg \in sending : Deliver(msg)
  \/ Keys
  \/ AgentEvent
  \/ Ticks
  \/ (\E h \in Hooks : HookPush(h)) \/ (\E n \in Notices : Notify(n))

\* The scheduler runs every goroutine and the Update loop; the user and the
\* senders of notices need do nothing.
Fairness ==
  /\ WF_vars(AgentStep) /\ WF_vars(AgentEvent)
  /\ \A msg \in SUBSET Tokens : WF_vars(msg \in sending /\ Deliver(msg))
  /\ WF_vars(HookTick) /\ WF_vars(CronTick) /\ WF_vars(\E n \in Notices : OnMainNotice(n))

Spec == Init /\ [][Next]_vars /\ Fairness
=============================================================================
