----------------------------- MODULE ToolBatch -----------------------------
(***************************************************************************)
(* agent.execTools (internal/core/agent_impl.go): one batch of tool calls  *)
(* is resolved, executed and recorded.  The agent goroutine resolves the   *)
(* calls in order; parallel-safe calls then get a goroutine each, all      *)
(* side-effecting calls share one goroutine; after the join the agent      *)
(* goroutine records the results in order.  The turn's context can be      *)
(* cancelled between any two steps.                                        *)
(*                                                                         *)
(* A definition named ...Fault is the one after it with a defect; no       *)
(* action uses it.  It shows which property notices that defect.           *)
(***************************************************************************)
EXTENDS Naturals, Sequences, FiniteSets

CONSTANT NumCalls   \* tool calls of the assistant message

ASSUME NumCallsAssumption == NumCalls \in Nat

Calls == 1 .. NumCalls

\* "parallel": isParallelSafeToolCall; "serial": any other known tool;
\* "unknown": the registry has no tool of that name.
Kinds == {"parallel", "serial", "unknown"}

\* "ready": the serial goroutine has passed its ctx check for the call.
ExecStates == {"idle", "ready", "running", "finished", "skipped"}
SettledFault == {"finished"}
Settled == {"finished", "skipped"}

\* The zero value of toolTaskOutput carries no error, so a slot nobody wrote
\* reads as "ok"; "cancelled" is the ctx.Err() of a skipped serial call.
Outcomes == {"ok", "error", "cancelled"}

Phases == {"resolve", "dispatch", "inline", "join", "record", "done"}

VARIABLES
  kind,      \* what each call of the batch is (input, never changes)
  ctxDone,   \* the turn's context is cancelled
  phase,     \* where the agent goroutine is
  cursor,    \* loop index of the resolve and record loops
  tasks,     \* calls that resolved to a tool
  exec,      \* execution state of each call
  outcome,   \* the results slice
  replies,   \* tool results appended to the conversation, in order
  late       \* history: side-effecting calls that began after a cancel

vars == <<kind, ctxDone, phase, cursor, tasks, exec, outcome, replies, late>>

Init ==
  /\ kind \in [Calls -> Kinds]
  /\ ctxDone = FALSE
  /\ phase = "resolve"
  /\ cursor = 1
  /\ tasks = {}
  /\ exec = [c \in Calls |-> "idle"]
  /\ outcome = [c \in Calls |-> "ok"]
  /\ replies = <<>>
  /\ late = {}

\* InterruptCurrentTurn, or the cancellation of Run's own context.
Cancel ==
  /\ ~ctxDone
  /\ ctxDone' = TRUE
  /\ UNCHANGED <<kind, phase, cursor, tasks, exec, outcome, replies, late>>

Reply(c, result) == replies' = Append(replies, [call |-> c, result |-> result])

-----------------------------------------------------------------------------
\* Phase 1: resolve each call, failing unknown tools on the spot.

ResolveNext ==
  /\ phase = "resolve"
  /\ cursor \in Calls
  /\ ~ctxDone
  /\ \/ /\ kind[cursor] = "unknown"
        /\ Reply(cursor, "error")
        /\ UNCHANGED tasks
     \/ /\ kind[cursor] # "unknown"
        /\ tasks' = tasks \cup {cursor}
        /\ UNCHANGED replies
  /\ cursor' = cursor + 1
  /\ UNCHANGED <<kind, ctxDone, phase, exec, outcome, late>>

ResolveEnd ==
  /\ phase = "resolve"
  /\ cursor \notin Calls \/ ctxDone
  /\ phase' = "dispatch"
  /\ UNCHANGED <<kind, ctxDone, cursor, tasks, exec, outcome, replies, late>>

-----------------------------------------------------------------------------
\* Phase 2: a single task runs on the agent goroutine, several fan out.

SerialTasks == {c \in tasks : kind[c] = "serial"}
ParallelTasks == {c \in tasks : kind[c] = "parallel"}

Dispatch ==
  /\ phase = "dispatch"
  /\ phase' = CASE tasks = {} -> "done"
                [] \E c \in tasks : tasks = {c} -> "inline"
                [] OTHER -> "join"
  /\ UNCHANGED <<kind, ctxDone, cursor, tasks, exec, outcome, replies, late>>

\* executeToolTask starts: from here the tool's side effects may happen.
Begin(c) ==
  /\ exec' = [exec EXCEPT ![c] = "running"]
  /\ late' = IF ctxDone /\ kind[c] = "serial" THEN late \cup {c} ELSE late
  /\ UNCHANGED <<kind, ctxDone, phase, cursor, tasks, outcome, replies>>

\* The only task: no context check stands between resolution and execution.
BeginInline(c) ==
  /\ phase = "inline"
  /\ c \in tasks
  /\ exec[c] = "idle"
  /\ Begin(c)

BeginParallel(c) ==
  /\ phase = "join"
  /\ c \in ParallelTasks
  /\ exec[c] = "idle"
  /\ Begin(c)

\* The serial goroutine takes its calls in the order of the batch.
SerialTurnFault(c) ==
  phase = "join" /\ c \in SerialTasks

SerialTurn(c) ==
  /\ phase = "join"
  /\ c \in SerialTasks
  /\ \A d \in SerialTasks : d < c => exec[d] \in Settled

CheckSerialFault(c) ==
  /\ SerialTurn(c)
  /\ exec[c] = "idle"
  /\ exec' = [exec EXCEPT ![c] = "ready"]
  /\ UNCHANGED <<kind, ctxDone, phase, cursor, tasks, outcome, replies, late>>

CheckSerial(c) ==
  /\ SerialTurn(c)
  /\ exec[c] = "idle"
  /\ \/ /\ ctxDone
        /\ exec' = [exec EXCEPT ![c] = "skipped"]
        /\ outcome' = [outcome EXCEPT ![c] = "cancelled"]
     \/ /\ ~ctxDone
        /\ exec' = [exec EXCEPT ![c] = "ready"]
        /\ UNCHANGED outcome
  /\ UNCHANGED <<kind, ctxDone, phase, cursor, tasks, replies, late>>

BeginSerial(c) ==
  /\ SerialTurn(c)
  /\ exec[c] = "ready"
  /\ Begin(c)

FinishFault(c) ==
  /\ exec[c] = "running"
  /\ exec' = [exec EXCEPT ![c] = "finished"]
  /\ \E r \in {"ok", "error", "panic"} : outcome' = [outcome EXCEPT ![c] = r]
  /\ UNCHANGED <<kind, ctxDone, phase, cursor, tasks, replies, late>>

\* The tool returns, or panics and executeToolTask recovers into an error.
Finish(c) ==
  /\ exec[c] = "running"
  /\ exec' = [exec EXCEPT ![c] = "finished"]
  /\ \E r \in {"ok", "error"} : outcome' = [outcome EXCEPT ![c] = r]
  /\ UNCHANGED <<kind, ctxDone, phase, cursor, tasks, replies, late>>

JoinFault ==
  /\ phase \in {"inline", "join"}
  /\ \A c \in ParallelTasks : exec[c] \in Settled
  /\ phase' = "record"
  /\ cursor' = 1
  /\ UNCHANGED <<kind, ctxDone, tasks, exec, outcome, replies, late>>

\* wg.Wait, or the inline call returning.
Join ==
  /\ phase \in {"inline", "join"}
  /\ \A c \in tasks : exec[c] \in Settled
  /\ phase' = "record"
  /\ cursor' = 1
  /\ UNCHANGED <<kind, ctxDone, tasks, exec, outcome, replies, late>>

-----------------------------------------------------------------------------
\* Phase 3: record the results in the order of the batch.

Unrecorded == {c \in tasks : c >= cursor}

RecordTwiceFault ==
  /\ phase = "record"
  /\ ~ctxDone
  /\ \E c \in Unrecorded :
       /\ \A d \in Unrecorded : c <= d
       /\ Reply(c, IF outcome[c] = "ok" THEN "ok" ELSE "error")
       /\ cursor' = c
  /\ UNCHANGED <<kind, ctxDone, phase, tasks, exec, outcome, late>>

RecordLastFault ==
  /\ phase = "record"
  /\ ~ctxDone
  /\ \E c \in Unrecorded :
       /\ \A d \in Unrecorded : d <= c
       /\ Reply(c, IF outcome[c] = "ok" THEN "ok" ELSE "error")
       /\ cursor' = c + 1
  /\ UNCHANGED <<kind, ctxDone, phase, tasks, exec, outcome, late>>

RecordNext ==
  /\ phase = "record"
  /\ ~ctxDone
  /\ \E c \in Unrecorded :
       /\ \A d \in Unrecorded : c <= d
       /\ Reply(c, IF outcome[c] = "ok" THEN "ok" ELSE "error")
       /\ cursor' = c + 1
  /\ UNCHANGED <<kind, ctxDone, phase, tasks, exec, outcome, late>>

RecordEnd ==
  /\ phase = "record"
  /\ Unrecorded = {} \/ ctxDone
  /\ phase' = "done"
  /\ UNCHANGED <<kind, ctxDone, cursor, tasks, exec, outcome, replies, late>>

-----------------------------------------------------------------------------
CallStep(c) ==
  \/ BeginInline(c) \/ BeginParallel(c)
  \/ CheckSerial(c) \/ BeginSerial(c)
  \/ Finish(c)

AgentStep ==
  \/ ResolveNext \/ ResolveEnd \/ Dispatch \/ Join \/ RecordNext \/ RecordEnd

Next == Cancel \/ AgentStep \/ \E c \in Calls : CallStep(c)

Spec == Init /\ [][Next]_vars

\* The Go scheduler runs every goroutine that can run, and every tool call
\* returns (a hung tool hangs the turn in the program as well).
FairSpec == /\ Spec
            /\ WF_vars(AgentStep)
            /\ \A c \in Calls : WF_vars(CallStep(c))
=============================================================================
