--------------------------- MODULE BackgroundTask ---------------------------
(***************************************************************************)
(* Background tasks (internal/task): launch by the Bash tool or by the     *)
(* subagent executor, the goroutine that owns the run, Manager.Kill, and   *)
(* the one terminal transition they race for.  The operating system's      *)
(* half (processes, pipes, signals) is modelled as far as this code        *)
(* depends on it.                                                          *)
(*                                                                         *)
(* A definition named ...Fault is the one after it with a defect; no       *)
(* action uses it.                                                         *)
(***************************************************************************)
EXTENDS Naturals, Sequences, FiniteSets

CONSTANTS
  BashTasks, AgentTasks,  \* tasks of either kind that may be launched
  Killers,                \* goroutines that call Manager.Kill
  BoundLaunches,          \* bound: tasks launched; tasks share nothing but their killers
  BoundWrites             \* bound: chunks a command writes

ASSUME BackgroundTaskAssumption ==
  BashTasks \cap AgentTasks = {} /\ BoundLaunches \in Nat /\ BoundWrites \in Nat

Tasks == BashTasks \cup AgentTasks
Statuses == {"running", "completed", "failed", "stopped", "killed"}

\* How a run ends: a command exits or dies of a signal, a subagent's Run
\* returns a result, an error, or the cancellation of its context.
BashEnds == {"exit0", "exit1", "TERM", "KILL"}
AgentEnds == {"ok", "error", "canceled"}

OwnerPlaces == {"unborn", "registered", "wait", "mark", "drain", "append", "complete",
                "record", "notify", "over"}
KillPlaces == {"idle", "stop", "signal", "grace", "force", "verdict", "record", "notify"}

VARIABLES
  owner,    \* where the launcher, then the owning goroutine, of each task is
  run,      \* "none", "alive", or how the run ended
  ctx,      \* the task's context is cancelled
  asked,    \* stopRequested
  termed,   \* SIGTERM reached the group while the command was alive
  reaped,   \* the flag MarkReaped sets
  wrote, kept, \* chunks written to the pipe, and copied out of it
  status,
  file,     \* records of the output file: <<[event, chunks]>>
  created,  \* the creation handler has returned
  notices,  \* statuses passed to the completion handler
  killer, target, \* where each killer is, and the task it stops
  toldBeforeEnd,  \* history: the stop's SIGTERM preceded the end of the run
  lateSignal      \* history: SIGTERM sent to a group already marked reaped

taskVars == <<owner, run, ctx, asked, termed, reaped, wrote, kept>>
outVars == <<status, file, created, notices>>
killVars == <<killer, target>>
hist == <<toldBeforeEnd, lateSignal>>
vars == <<taskVars, outVars, killVars, hist>>

Init ==
  /\ owner = [t \in Tasks |-> "unborn"] /\ run = [t \in Tasks |-> "none"]
  /\ ctx = [t \in Tasks |-> FALSE] /\ asked = [t \in Tasks |-> FALSE]
  /\ termed = [t \in Tasks |-> FALSE] /\ reaped = [t \in Tasks |-> FALSE]
  /\ wrote = [t \in Tasks |-> 0] /\ kept = [t \in Tasks |-> 0]
  /\ status = [t \in Tasks |-> "running"] /\ file = [t \in Tasks |-> <<>>]
  /\ created = [t \in Tasks |-> FALSE] /\ notices = [t \in Tasks |-> <<>>]
  /\ killer = [k \in Killers |-> "idle"] /\ target \in [Killers -> Tasks]
  /\ toldBeforeEnd = [t \in Tasks |-> FALSE] /\ lateSignal = FALSE

-----------------------------------------------------------------------------
\* The run: the child process or the subagent's goroutine.

Ended(t) == run[t] \notin {"none", "alive"}

Write(t) ==
  /\ t \in BashTasks /\ run[t] = "alive" /\ wrote[t] < BoundWrites
  /\ wrote' = [wrote EXCEPT ![t] = @ + 1]
  /\ UNCHANGED <<owner, run, ctx, asked, termed, reaped, kept, outVars, killVars, hist>>

\* io.Copy reads while the pipe is open; Wait closes the reading end.
CopyFault(t) ==
  /\ t \in BashTasks /\ owner[t] = "wait" /\ kept[t] <= wrote[t]
  /\ kept' = [kept EXCEPT ![t] = @ + 1]
  /\ UNCHANGED <<owner, run, ctx, asked, termed, reaped, wrote, outVars, killVars, hist>>

Copy(t) ==
  /\ t \in BashTasks /\ owner[t] = "wait" /\ kept[t] < wrote[t]
  /\ kept' = [kept EXCEPT ![t] = @ + 1]
  /\ UNCHANGED <<owner, run, ctx, asked, termed, reaped, wrote, outVars, killVars, hist>>

\* The endings open to a run: a signal kills or is handled, a cancelled
\* context kills a command and may surface as the subagent's error.
Endings(t) ==
  IF t \in BashTasks
  THEN {"exit0", "exit1"} \cup (IF termed[t] THEN {"TERM"} ELSE {})
                          \cup (IF ctx[t] THEN {"KILL"} ELSE {})
  ELSE {"ok", "error"} \cup (IF ctx[t] THEN {"canceled"} ELSE {})

End(t, how) ==
  /\ run[t] = "alive" /\ how \in Endings(t)
  /\ run' = [run EXCEPT ![t] = how]
  /\ toldBeforeEnd' = [toldBeforeEnd EXCEPT ![t] = asked[t] /\ termed[t]]
  /\ UNCHANGED <<owner, ctx, asked, termed, reaped, wrote, kept, outVars, killVars, lateSignal>>

\* The command's timeout.
TimeOut(t) ==
  /\ t \in BashTasks /\ run[t] = "alive" /\ ~ctx[t]
  /\ ctx' = [ctx EXCEPT ![t] = TRUE]
  /\ UNCHANGED <<owner, run, asked, termed, reaped, wrote, kept, outVars, killVars, hist>>

\* The model signals the group through another Bash call: kill -TERM -- -pgid.
GroupTerm(t) ==
  /\ t \in BashTasks /\ created[t] /\ run[t] = "alive" /\ ~termed[t]
  /\ termed' = [termed EXCEPT ![t] = TRUE]
  /\ UNCHANGED <<owner, run, ctx, asked, reaped, wrote, kept, outVars, killVars, hist>>

-----------------------------------------------------------------------------
\* The one terminal transition, finalize, for the owner and for a killer.

Verdict(t, st) == status' = [status EXCEPT ![t] = st]

WinsFault(t) == TRUE

\* False when the task had already left StatusRunning: the caller is done.
Wins(t) == status[t] = "running"

Log(t, event, chunks) ==
  file' = [file EXCEPT ![t] = Append(@, [event |-> event, chunks |-> chunks])]

NotifyCompleted(t) == notices' = [notices EXCEPT ![t] = Append(@, status[t])]

-----------------------------------------------------------------------------
\* Launch and the owning goroutine.

OwnerTo(t, place) == owner' = [owner EXCEPT ![t] = place]

\* Start, then CreateBashTask or RegisterTask up to the unlock.
Launch(t) ==
  /\ owner[t] = "unborn"
  /\ Cardinality({u \in Tasks : owner[u] # "unborn"}) < BoundLaunches
  /\ run' = [run EXCEPT ![t] = "alive"]
  /\ OwnerTo(t, "registered")
  /\ UNCHANGED <<ctx, asked, termed, reaped, wrote, kept, outVars, killVars, hist>>

\* The goroutine started before the notification.
AnnounceFault(t) ==
  /\ (owner[t] = "registered" \/ (~created[t] /\ owner[t] # "unborn"))
  /\ created' = [created EXCEPT ![t] = owner[t] # "registered"]
  /\ owner' = [owner EXCEPT ![t] = IF @ = "registered" THEN "wait" ELSE @]
  /\ UNCHANGED <<run, ctx, asked, termed, reaped, wrote, kept, status, file, notices, killVars, hist>>

\* notifyTaskCreated, then the goroutine that waits for the run.
Announce(t) ==
  /\ owner[t] = "registered"
  /\ created' = [created EXCEPT ![t] = TRUE]
  /\ OwnerTo(t, "wait")
  /\ UNCHANGED <<run, ctx, asked, termed, reaped, wrote, kept, status, file, notices, killVars, hist>>

\* cmd.Wait reaps the child and closes the pipes; a subagent just returns.
Wait(t) ==
  /\ owner[t] = "wait" /\ Ended(t)
  /\ OwnerTo(t, IF t \in BashTasks THEN "mark" ELSE "append")
  /\ UNCHANGED <<run, ctx, asked, termed, reaped, wrote, kept, outVars, killVars, hist>>

MarkReaped(t) ==
  /\ owner[t] = "mark"
  /\ reaped' = [reaped EXCEPT ![t] = TRUE]
  /\ OwnerTo(t, "drain")
  /\ UNCHANGED <<run, ctx, asked, termed, wrote, kept, outVars, killVars, hist>>

\* wg.Wait: both copies returned, at the end of the pipe or at its closing.
Drain(t) ==
  /\ owner[t] = "drain"
  /\ OwnerTo(t, "append")
  /\ UNCHANGED <<run, ctx, asked, termed, reaped, wrote, kept, outVars, killVars, hist>>

AppendOutput(t) ==
  /\ owner[t] = "append"
  /\ Log(t, "output", kept[t])
  /\ OwnerTo(t, "complete")
  /\ UNCHANGED <<run, ctx, asked, termed, reaped, wrote, kept, status, created, notices, killVars, hist>>

ClassifyFault(t) ==
  IF t \in BashTasks
  THEN CASE run[t] = "TERM" -> {"stopped"}
         [] run[t] = "exit0" -> {"completed"}
         [] OTHER -> {"failed"}
  ELSE IF run[t] = "ok" THEN {"completed"} ELSE {"failed"}

\* A command that exits 0 as its context dies may carry the context's error.
Classify(t) ==
  IF t \in BashTasks
  THEN CASE asked[t] \/ run[t] = "TERM" -> {"stopped"}
         [] ~asked[t] /\ run[t] = "exit0" -> {"completed"} \cup (IF ctx[t] THEN {"failed"} ELSE {})
         [] OTHER -> {"failed"}
  ELSE CASE run[t] = "ok" -> {"completed"}
         [] run[t] = "canceled" -> {"stopped"}
         [] OTHER -> {"failed"}

Complete(t) ==
  /\ owner[t] = "complete"
  /\ IF Wins(t)
     THEN (\E st \in Classify(t) : Verdict(t, st)) /\ OwnerTo(t, "record")
     ELSE UNCHANGED status /\ OwnerTo(t, "over")
  /\ UNCHANGED <<run, ctx, asked, termed, reaped, wrote, kept, file, created, notices, killVars, hist>>

\* The completion record, and close(done).
Record(t) ==
  /\ owner[t] = "record"
  /\ Log(t, "completed", 0)
  /\ OwnerTo(t, "notify")
  /\ UNCHANGED <<run, ctx, asked, termed, reaped, wrote, kept, status, created, notices, killVars, hist>>

NotifyFault(t) ==
  /\ owner[t] = "notify"
  /\ notices' = IF ctx[t] THEN notices ELSE [notices EXCEPT ![t] = Append(@, status[t])]
  /\ OwnerTo(t, "over")
  /\ ctx' = [ctx EXCEPT ![t] = TRUE]
  /\ UNCHANGED <<run, asked, termed, reaped, wrote, kept, status, file, created, killVars, hist>>

\* notifyTaskCompleted, and the deferred cancel.
Notify(t) ==
  /\ owner[t] = "notify"
  /\ NotifyCompleted(t)
  /\ OwnerTo(t, "over")
  /\ ctx' = [ctx EXCEPT ![t] = TRUE]
  /\ UNCHANGED <<run, asked, termed, reaped, wrote, kept, status, file, created, killVars, hist>>

-----------------------------------------------------------------------------
\* Manager.Kill.

KillerTo(k, place) == killer' = [killer EXCEPT ![k] = place] /\ UNCHANGED target

\* The task's id reaches a caller through the result of its launch; a task
\* that is not running is refused.
Kill(k, t) ==
  /\ killer[k] = "idle" /\ created[t] /\ status[t] = "running"
  /\ killer' = [killer EXCEPT ![k] = "stop"] /\ target' = [target EXCEPT ![k] = t]
  /\ UNCHANGED <<taskVars, outVars, hist>>

\* Stop: a subagent's context is cancelled; a command's stop is recorded and
\* the reaped flag read.
Stop(k) ==
  LET t == target[k] IN
  /\ killer[k] = "stop"
  /\ IF t \in AgentTasks
     THEN ctx' = [ctx EXCEPT ![t] = TRUE] /\ KillerTo(k, "grace") /\ UNCHANGED asked
     ELSE /\ asked' = [asked EXCEPT ![t] = TRUE]
          /\ KillerTo(k, IF reaped[t] THEN "grace" ELSE "signal")
          /\ UNCHANGED ctx
  /\ UNCHANGED <<owner, run, termed, reaped, wrote, kept, outVars, hist>>

\* The group is signalled: a live command gets SIGTERM, an empty group is
\* ESRCH, and a group id that was reissued may refuse.
Signal(k) ==
  LET t == target[k] IN
  /\ killer[k] = "signal"
  /\ termed' = [termed EXCEPT ![t] = @ \/ run[t] = "alive"]
  /\ lateSignal' = (lateSignal \/ reaped[t])
  /\ \/ KillerTo(k, "grace")
     \/ owner[t] \notin {"registered", "wait"} /\ KillerTo(k, "force")
  /\ UNCHANGED <<owner, run, ctx, asked, reaped, wrote, kept, outVars, toldBeforeEnd>>

\* The ticker finds the task over.
Tick(k) ==
  /\ killer[k] = "grace" /\ status[target[k]] # "running"
  /\ KillerTo(k, "idle")
  /\ UNCHANGED <<taskVars, outVars, hist>>

EscalateNeverFault(k) ==
  /\ killer[k] = "grace" /\ target[k] \in BashTasks
  /\ KillerTo(k, "force")
  /\ UNCHANGED <<taskVars, outVars, hist>>

EscalateFault(k) ==
  /\ killer[k] = "grace"
  /\ KillerTo(k, "idle")
  /\ UNCHANGED <<taskVars, outVars, hist>>

\* gracefulStopTimeout.
Escalate(k) ==
  /\ killer[k] = "grace"
  /\ KillerTo(k, "force")
  /\ UNCHANGED <<taskVars, outVars, hist>>

\* Kill of the task: the context is cancelled, then markKilled.
ForceKill(k) ==
  /\ killer[k] = "force"
  /\ ctx' = [ctx EXCEPT ![target[k]] = TRUE]
  /\ KillerTo(k, "verdict")
  /\ UNCHANGED <<owner, run, asked, termed, reaped, wrote, kept, outVars, hist>>

MarkKilled(k) ==
  /\ killer[k] = "verdict"
  /\ IF Wins(target[k])
     THEN Verdict(target[k], "killed") /\ KillerTo(k, "record")
     ELSE UNCHANGED status /\ KillerTo(k, "idle")
  /\ UNCHANGED <<taskVars, file, created, notices, hist>>

KillRecord(k) ==
  /\ killer[k] = "record"
  /\ Log(target[k], "completed", 0)
  /\ KillerTo(k, "notify")
  /\ UNCHANGED <<taskVars, status, created, notices, hist>>

KillNotify(k) ==
  /\ killer[k] = "notify"
  /\ NotifyCompleted(target[k])
  /\ KillerTo(k, "idle")
  /\ UNCHANGED <<taskVars, status, file, created, hist>>

-----------------------------------------------------------------------------
OwnerStep(t) ==
  \/ Announce(t) \/ Wait(t) \/ MarkReaped(t) \/ Drain(t) \/ AppendOutput(t)
  \/ Complete(t) \/ Record(t) \/ Notify(t)

KillerStep(k) ==
  \/ Stop(k) \/ Signal(k) \/ Tick(k) \/ Escalate(k) \/ ForceKill(k) \/ MarkKilled(k)
  \/ KillRecord(k) \/ KillNotify(k)

RunStep(t) ==
  \/ Write(t) \/ Copy(t) \/ TimeOut(t) \/ GroupTerm(t)
  \/ \E how \in BashEnds \cup AgentEnds : End(t, how)

Next ==
  \/ \E t \in Tasks : Launch(t) \/ OwnerStep(t) \/ RunStep(t)
  \/ \E k \in Killers : KillerStep(k) \/ \E t \in Tasks : Kill(k, t)

Spec == Init /\ [][Next]_vars

\* Goroutines keep running and timers fire.  A run need not end by itself,
\* except that a command dies at the latest of its timeout.
FairSpec ==
  /\ Spec
  /\ \A t \in Tasks : WF_vars(OwnerStep(t))
  /\ \A t \in BashTasks : WF_vars(TimeOut(t)) /\ WF_vars(End(t, "KILL"))
  /\ \A k \in Killers : WF_vars(KillerStep(k))
=============================================================================
