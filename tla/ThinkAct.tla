------------------------------ MODULE ThinkAct ------------------------------
(***************************************************************************)
(* agent.ThinkAct (internal/core/agent_impl.go): one turn.  Each pass of   *)
(* its loop checks the context and the step cap, takes in one message that *)
(* arrived meanwhile, compacts a full conversation, sends a request and    *)
(* acts on the outcome: retry, resume a truncated answer, run tools, end.  *)
(* The provider, compactFunc, the senders to the inbox and the canceller   *)
(* act at any time.  A batch of tools behaves as BatchContract says.       *)
(*                                                                         *)
(* The conversation is its length up to 3 (compact looks no further), and  *)
(* whether its text estimates as full.  A definition named ...Fault is the *)
(* one after it with a defect; no action uses it.                          *)
(***************************************************************************)
EXTENDS Naturals, Sequences, FiniteSets

CONSTANTS
  Calls,           \* the tool calls of an answer that asks for tools
  Caps,            \* the step caps SetMaxSteps is given; 0 is unlimited
  MaxTurnRetries,  \* retries of one step after a transient failure
  MaxRecovery,     \* resume prompts after a truncated answer
  BoundSteps,      \* bound: steps after which the model asks for no tools
  BoundSends       \* bound: messages sent to the inbox during the turn

ASSUME ThinkActAssumption ==
  /\ Caps \subseteq Nat /\ Caps # {}
  /\ {MaxTurnRetries, MaxRecovery, BoundSteps, BoundSends} \subseteq Nat

Signals == {"user", "compact", "stop"}
Measures == {"none", "low", "full"}
Stops == {"running", "end_turn", "max_steps", "exhausted", "cancelled", "error", "stopped"}
Places == {"top", "check", "infer", "backoff", "tools", "cutTools", "done"}

VARIABLES
  cap, capMoved,  \* a.maxSteps, and whether SetMaxSteps changed it mid-turn
  ctxDone,        \* the turn's context is cancelled
  inbox, sent,    \* messages waiting, and how many were sent
  canCompact,     \* a compactFunc is set and the input limit is known
  size, bulk,     \* the conversation: length up to 3, estimates as full
  measured,       \* lastTotalInputTokens: zero, or below or over the threshold
  pc,             \* where ThinkAct is
  steps, retries, recovery,
  asked, answered, \* tool calls of the latest answer, and those with a result
  stop,           \* the StopReason ("stopped": errStopped)
  unread,         \* history: the conversation holds a message that no answered
                  \* request has carried
  erased,         \* history: a manual compaction replaced such a message
  late,           \* history: requests begun after the cancel
  collapsed       \* history: compacted since the last answer

env == <<cap, capMoved, ctxDone, inbox, sent, canCompact>>
chat == <<size, bulk, measured>>
turn == <<steps, retries, recovery, asked, answered>>
hist == <<unread, erased, late, collapsed>>
vars == <<env, chat, turn, hist, pc, stop>>

Init ==
  /\ cap \in Caps /\ capMoved = FALSE
  /\ ctxDone = FALSE
  /\ inbox = <<>> /\ sent = 0
  /\ canCompact \in BOOLEAN
  /\ size \in 1 .. 3 /\ bulk \in BOOLEAN /\ measured \in Measures
  /\ pc = "top"
  /\ steps = 0 /\ retries = 0 /\ recovery = 0
  /\ asked = {} /\ answered = {}
  /\ stop = "running"
  /\ unread \in BOOLEAN /\ erased = FALSE /\ late = 0 /\ collapsed = FALSE

-----------------------------------------------------------------------------
\* The turn's surroundings.

Cancel ==
  /\ ~ctxDone
  /\ ctxDone' = TRUE
  /\ UNCHANGED <<cap, capMoved, inbox, sent, canCompact, chat, turn, hist, pc, stop>>

SetMaxSteps ==
  /\ ~capMoved
  /\ cap' \in Caps \ {cap}
  /\ capMoved' = TRUE
  /\ UNCHANGED <<ctxDone, inbox, sent, canCompact, chat, turn, hist, pc, stop>>

Send(s) ==
  /\ sent < BoundSends
  /\ sent' = sent + 1
  /\ inbox' = Append(inbox, s)
  /\ UNCHANGED <<cap, capMoved, ctxDone, canCompact, chat, turn, hist, pc, stop>>

-----------------------------------------------------------------------------
\* The conversation.

GrowBy(n) ==
  /\ size' = IF size + n > 3 THEN 3 ELSE size + n
  /\ bulk' \in {bulk, TRUE}

\* applyCompaction: the summary is the whole conversation, unmeasured.  An
\* automatic one (AutoCompact) is made of the messages it replaces, the unread
\* ones among them.
ApplyCompaction ==
  /\ size' = 1 /\ bulk' \in BOOLEAN
  /\ measured' = "none"
  /\ collapsed' = TRUE

\* compact succeeds; otherwise its caller goes on as if it were not there.
AutoCompact == canCompact /\ size >= 3 /\ ApplyCompaction

\* NeedsCompaction(promptTokensOrEstimate()).
Full == measured = "full" \/ (measured = "none" /\ bulk)

-----------------------------------------------------------------------------
\* The head of the loop.

Goto(place) == pc' = place /\ UNCHANGED stop
Stop(reason) == pc' = "done" /\ stop' = reason

Capped == cap > 0 /\ steps >= cap

StopIfCancelled ==
  /\ pc = "top" /\ ctxDone
  /\ Stop("cancelled")
  /\ UNCHANGED <<env, chat, turn, hist>>

StopIfCapped ==
  /\ pc = "top" /\ ~ctxDone /\ Capped
  /\ Stop("max_steps")
  /\ UNCHANGED <<env, chat, turn, hist>>

CarryOnCancelledFault == pc = "top" /\ ~Capped

\* Past the two checks, with nothing read from the inbox yet.
CarryOn ==
  /\ pc = "top"
  /\ ~ctxDone
  /\ ~Capped

SkipDrain ==
  /\ CarryOn
  /\ steps = 0 \/ inbox = <<>>
  /\ Goto("check")
  /\ UNCHANGED <<env, chat, turn, hist>>

\* The drain comes before the two checks.
DrainFault ==
  /\ pc = "top"
  /\ steps > 0 /\ inbox # <<>>
  /\ inbox' = Tail(inbox)
  /\ GrowBy(1) /\ unread' = TRUE
  /\ UNCHANGED <<cap, capMoved, ctxDone, sent, canCompact, measured, turn, erased, late, collapsed, pc, stop>>

\* drainInbox reads one message.  The summary of a manual compaction was made
\* before it was sent: it replaces the messages taken in since unseen.
Drain ==
  /\ CarryOn
  /\ steps > 0 /\ inbox # <<>>
  /\ inbox' = Tail(inbox)
  /\ \/ /\ Head(inbox) = "user"
        /\ GrowBy(1) /\ unread' = TRUE
        /\ Goto("check")
        /\ UNCHANGED <<measured, erased, collapsed>>
     \/ /\ Head(inbox) = "compact"
        /\ ApplyCompaction
        /\ unread' = FALSE /\ erased' = (erased \/ unread)
        /\ Goto("check")
     \/ /\ Head(inbox) = "stop"
        /\ Stop("stopped")
        /\ UNCHANGED <<chat, unread, erased, collapsed>>
  /\ UNCHANGED <<cap, capMoved, ctxDone, sent, canCompact, turn, late>>

ProactiveCompact ==
  /\ pc = "check" /\ Full
  /\ AutoCompact
  /\ Goto("top")
  /\ UNCHANGED <<env, turn, unread, erased, late>>

\* Nothing to compact, or the summary failed.
Request ==
  /\ pc = "check"
  /\ late' = IF ctxDone THEN late + 1 ELSE late
  /\ Goto("infer")
  /\ UNCHANGED <<env, chat, turn, unread, erased, collapsed>>

-----------------------------------------------------------------------------
\* The request fails.

TooLongCompacted ==
  /\ pc = "infer"
  /\ AutoCompact
  /\ Goto("top")
  /\ UNCHANGED <<env, turn, unread, erased, late>>

InferCancelled ==
  /\ pc = "infer" /\ ctxDone
  /\ Stop("cancelled")
  /\ UNCHANGED <<env, chat, turn, hist>>

TransientFault ==
  /\ pc = "infer"
  /\ retries < MaxTurnRetries
  /\ Goto("backoff")
  /\ UNCHANGED <<env, chat, turn, hist>>

\* A RetryableError, a stalled or a truncated stream, within the budget.
Transient ==
  /\ pc = "infer"
  /\ retries < MaxTurnRetries
  /\ retries' = retries + 1
  /\ Goto("backoff")
  /\ UNCHANGED <<env, chat, steps, recovery, asked, answered, hist>>

\* Not retryable (a prompt too long to compact among them), or out of budget.
InferFails ==
  /\ pc = "infer"
  /\ Stop("error")
  /\ UNCHANGED <<env, chat, turn, hist>>

BackoffEndsFault ==
  /\ pc = "backoff"
  /\ Stop("cancelled")
  /\ UNCHANGED <<env, chat, turn, hist>>

BackoffEnds ==
  /\ pc = "backoff"
  /\ \/ Goto("top")
     \/ ctxDone /\ Stop("cancelled")
  /\ UNCHANGED <<env, chat, turn, hist>>

-----------------------------------------------------------------------------
\* The request is answered.

ResumePromptFault(answer) ==
  /\ recovery <= MaxRecovery
  /\ recovery' = recovery + 1
  /\ GrowBy(answer + 1)
  /\ Goto("top")

\* An answer cut at the output limit is resumed a bounded number of times.
\* answer is the number of messages appended just before the prompt.
ResumePrompt(answer) ==
  /\ recovery < MaxRecovery
  /\ recovery' = recovery + 1
  /\ GrowBy(answer + 1)
  /\ Goto("top")

Exhausted == recovery >= MaxRecovery /\ Stop("exhausted")

\* A response is a completed step; the provider measured its prompt.
Answered ==
  /\ pc = "infer"
  /\ retries' = 0
  /\ steps' = steps + 1
  /\ measured' \in {"low", "full"}
  /\ unread' = FALSE /\ collapsed' = FALSE
  /\ UNCHANGED <<env, erased, late>>

AnswerText ==
  /\ Answered
  /\ GrowBy(1)
  /\ Stop("end_turn")
  /\ asked' = {} /\ answered' = {}
  /\ UNCHANGED recovery

AnswerCutText ==
  /\ Answered
  /\ \/ ResumePrompt(1)
     \/ Exhausted /\ GrowBy(1) /\ UNCHANGED recovery
  /\ asked' = {} /\ answered' = {}

AnswerTools ==
  /\ Answered
  /\ steps < BoundSteps
  /\ GrowBy(1)
  /\ asked' = Calls /\ answered' = {}
  /\ Goto("tools") \/ Goto("cutTools")
  /\ UNCHANGED recovery

-----------------------------------------------------------------------------
\* execTools, as BatchContract describes it.

Batch == INSTANCE BatchContract WITH over <- pc \notin {"tools", "cutTools"},
                                     revoked <- ctxDone

ToolResult(c) ==
  /\ UNCHANGED <<env, measured, steps, retries, recovery, asked, hist, pc, stop>>
  /\ Batch!Answer(c)
  /\ GrowBy(1)

ToolsDoneFault ==
  /\ pc = "tools"
  /\ Goto("top")
  /\ UNCHANGED <<env, chat, turn, hist>>

ToolsDone ==
  /\ pc = "tools"
  /\ Goto("top")
  /\ Batch!Return
  /\ UNCHANGED <<env, chat, turn, hist>>

\* A call with truncated arguments among them: the model is asked to reissue.
CutToolsDone ==
  /\ pc = "cutTools"
  /\ \/ ResumePrompt(0)
     \/ Exhausted /\ UNCHANGED <<size, bulk, recovery>>
  /\ Batch!Return
  /\ UNCHANGED <<env, measured, steps, retries, asked, hist>>

-----------------------------------------------------------------------------
Environment == Cancel \/ SetMaxSteps \/ \E s \in Signals : Send(s)

Agent ==
  \/ StopIfCancelled \/ StopIfCapped \/ SkipDrain \/ Drain
  \/ ProactiveCompact \/ Request
  \/ TooLongCompacted \/ InferCancelled \/ Transient \/ InferFails \/ BackoffEnds
  \/ AnswerText \/ AnswerCutText \/ AnswerTools
  \/ (\E c \in Calls : ToolResult(c)) \/ ToolsDone \/ CutToolsDone

Next == Environment \/ Agent

Spec == Init /\ [][Next]_vars

\* The agent goroutine is never blocked for ever: streamInfer has a first
\* chunk and an idle timeout, the backoff a cap of 30 s, tools return.
FairSpec == Spec /\ WF_vars(Agent)
=============================================================================
