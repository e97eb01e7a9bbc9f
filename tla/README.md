# Packboy Builder: TLA+ verification project

Packboy Builder (`pcb`) is a terminal agent runtime: a Go program in which a
language model reads a conversation, asks for tool calls, gets their results
and answers. This directory holds TLA+ models of the parts where goroutines,
cancellation, crashes and shared files meet, the TLC runs that check them, and
TLAPS proofs about all ten of them.

Contents: 1 the system, 2 modules and code, 3 runs, 4 proofs, 5 Disagreements,
6 what is left out, 7 plan. `PROJECT.json` maps every definition to the lines
it stands for. Run `tlc -config MCx.cfg MCx` for a model, `tlapm XProofs.tla`
for a proof module.

## 1. The system

### How the parts talk

```
 keys, ticks, notices                 inbox (chan)
        |                 SubmitToAgent   |
        v                 -- goroutine -->v
  UI: Update loop --------------------> Run -> runOneTurn -> ThinkAct -> execTools
        ^                                 |                    |            |
        |        outbox (chan)            |                 provider     tools
        +---------------------------------+                             /   |   \
        ^                                              background tasks  tracker  cron
        |  mainNotices / completion handlers                |    |         |       |
        +---------------------------------------------------+    +-------->+    shared file

 UI <- permission gate <- tools        UI, subagents -> MCP registry -> servers
 agent events -> recorder \
 turn ends ----> Save ------> transcript files, index
```

The UI's `Update` loop handles one message at a time and blocks on nothing but
`InterruptTurn`'s bounded wait. The agent is one goroutine. They share two
channels and two atomics (the interrupt latch and the pointer to the turn in
flight). A manual `/compact` comes through the inbox too: a signal with the summary
the UI has had made. Tools run in goroutines of one batch; background tasks outlive the
turn that started them and report through handlers. The tracker is written by
the agent's tools, by the tasks' handlers and by the UI. Several windows of the
program share a project's file of durable cron jobs, without a lock. A tool that
needs a permission waits for the UI on a gate of one place. The recorder and
`Save` write one transcript each session, one instead of the other: a process names
its first session before anything else (`session.Initialize`), so that session is
recorded, and `Save` writes one only between `/new` and the next build. The panel,
subagents and knowledge tools connect to MCP servers through one registry.

### Components that are modelled

| component | state | operations | what is hard | what makes it correct |
|---|---|---|---|---|
| Tool batch, `agent.execTools` | resolved tasks, results slice, conversation | resolve, dispatch, run, join, record | goroutines of one batch; a cancel at any point | side effects in program order, no call answered twice or with a result nobody produced, at most one start after a cancel |
| Turn, `agent.ThinkAct` | steps, retries, recoveries, measured prompt size | drain, compact, infer, back off, resume, run tools, stop | four loops back to one head; a cancel, a message, a manual compaction or a new step cap between any two | requests carry all results, a cancel is obeyed, no message taken and dropped, it ends |
| Agent loop and session, `agent.Run`, `Session` | inbox, latch, turn pointer, done channel | send, wait, publish a turn, drain, interrupt, stop | the two halves of an interrupt around the end of a turn | going idle means answered; waiters are released, and only once the turn is over |
| Background tasks, `internal/task` | status, output file, stop flags | launch, end, stop, escalate, kill, finalize, notify | end, timeout and several kills race for one transition | one verdict, announced once and after the creation; a kill settles |
| Tracker, `internal/todo` | items, directory, files, saved copy | create, update, reset, adopt, import, track and complete a worker | three writers, two locks in opposite orders, restarts | files follow memory, no item claims a dead worker, no deadlock |
| Cron, `internal/cron` | jobs, known ids, file | create, delete, tick, save, load | read-merge-rename by windows that share no lock | no deletion undone, no foreign job dropped, nothing lost over a restart |
| Permission gate, `internal/agent`, `internal/app` | gate's channel, poll, pending request, modal | ask, poll, show, answer, interrupt, stop, rebuild | concurrent prompts, one modal, an answer that names no request | an answer reaches the call it was given for; every prompt is shown and settled |
| Transcript and recorder, `internal/session` | record files, in-memory cache and index, recorder's parent id | append, save, compact, resume, fork, list, crash | two writers, caches read after later appends, a crash inside an append, an index that is never synced | what is written survives, once, and a resume shows what the screen showed |
| MCP registry, `internal/mcp` | installed Client, generation, leases, flags | connect, lease, release, disconnect, reload, change of registry | dialling outside the lock, leases of an older generation | a release takes down its own temporary connection and nobody else's |
| Turn input, `internal/app` | textarea and user queue, cron and hook queues, parked notices, stream flags | Enter, queue editing, Esc, ten agent events, ticks, notices | the UI sees the agent through events handled late | nothing sent twice or forgotten; quiet means the UI is idle |

### Components that are not

`PROJECT.json` gives a line on each. In short: the questions channel and the
subagent executor have protocols worth modelling and are the next of the plan
(section 7). The self-learning reviewer, the transports of the MCP and LSP
clients and the graph's scheduler are candidates after them. Settings, command
risk, plugins, skills, personas, reminders and the file cache are registries and
pure functions without a protocol between actors. Rendering, providers, hooks'
external commands, the inspector, update and logging are presentation or I/O.

| planned component | state | operations | hard behaviour | what would make it correct |
|---|---|---|---|---|
| Questions to the UI (`internal/app/conv/agent_to_ui.go`) | bounded channels | ask, poll, cancel | full channel, turn ended while asking, a second asker while a question is up | no asker waits for ever |
| Subagent executor (`internal/subagent`) | run, forked settings, inbox | run, message, stop | messages from main race its end | a message accepted is read or refused |
| MCP transports (`internal/mcp/transport`) | pending replies, one lock, pipes | send, read loop, close | a reply racing a timeout, both pipes full | every request returns; a reply goes to its request |

## 2. Modules and code

Each component has a module, a `...Props` module with its properties and an
`MC...` module that TLC runs. An action is one handler or, between
goroutines, one atomic operation. Operators named `...Fault` are defective
twins of the definition after them; no action uses one. They record the bug
each property is there to notice.

**`BatchContract`, `ToolBatch`.** `BatchContract` is what `ThinkAct` relies on:
calls are answered one at a time, none twice, and the batch ends incomplete
only if revoked. `ToolBatch` is `execTools`: `ResolveNext`/`ResolveEnd` phase 1,
`Dispatch` the choice between an inline call and fan-out, `BeginParallel`,
`CheckSerial`, `BeginSerial`, `Finish` the goroutines, `Join` the `WaitGroup`,
`RecordNext`/`RecordEnd` phase 3. The check of `ctx` and the start of a serial
call are two steps, since a cancel fits between them.

**`TurnContract`, `ThinkAct`.** `ThinkAct` has one action per branch of the loop.
Its tool step is `BatchContract` through `INSTANCE`, so what was shown of
`ToolBatch` carries over. The conversation is its length up to three (`compact`
looks no further) and whether its text estimates as full; the chunks of one
stream are folded into the outcome of the request. `unread` says that the
conversation holds a message no answered request has carried. An automatic
compaction is made of the messages it replaces and leaves `unread` alone; a manual
one carries a summary made before it was sent, so taking it in (`Drain`,
`TurnContract!Compact`, `AgentLoop!Ingest`) ends `unread` and records in `erased`
that a message went unread with the rest.

**`AgentLoop`.** `Run`, `waitForInput`, `runOneTurn`, `drainInbox`, and
`Session.Send`, `Stop` and `InterruptTurn`. A turn is `TurnContract`. The store
to the latch, the swap of the pointer, the CAS, the close and the wait are
separate steps, since every order of them is possible. `idleCall` and `quiet` tell
the interrupts that began on an idle agent and those of them that found no turn.

**`BackgroundTask`.** The launcher and the goroutine that owns the run
(`owner`), the run as far as the code depends on it (`run`, `ctx`, pipes as
counts of chunks), and callers of `Manager.Kill` (`killer`). `finalize` is
`Wins` with `Verdict`. In the program only `AgentStop` calls `Manager.Kill`, so
commands are stopped by it in tests alone; a command otherwise ends by itself,
by its timeout, or by a `kill` that the model runs in another shell
(`GroupTerm`).

**`WorkerTracker`.** `Store` with its directory; `TrackWorker` and
`CompleteWorker` as the several locked calls they are; what the UI does to the
list, each locked call a step (`TurnEnd` asks, `Discard` resets); adoption with
the store's lock held while each `IsRunning` takes the manager's.

**`CronShared`.** One scheduler per window over one file. An operation and the
save at its end hold the window's lock, so a window has one thing under way;
the save is two steps, the read and the rename, since nothing excludes the
other windows. A cron expression is its next fire time, which may not exist.

**`InputQueue`, `TurnInput`.** `InputQueue` is the textarea and the user's queue
as functions from a box to a box. `TurnInput` composes it with the other
queues, the UI's flags, both channels and an agent reduced to what it emits
and takes. A handler of `Update` is one action; a send is a goroutine. `halted` says
why the queues are not drained, if they are not: a turn was lost to them, or a
slash command was the last item taken (`Halts`).

**`PermissionGate`.** A call is where its goroutine is in `Check`; the poll, the
request and the answer are commands and messages of the UI, in any order
(`polls`, `inbox`); `pending` is the session's and `modal` the screen's notion of
who is asked. `Interrupt`, `Stop` and `Start` come at any point the UI allows
them. Policy, grants and the judge only decide whether a call is one of these.

**`Transcript`.** A file is a sequence of lines: start, message with its parent,
boundary, fork, and half a record (`Torn`, or `Broken` once glued to the next).
`Projected` is the projector. An append is two steps, the write (`Write` within
`Say`, `Mark`, `SaveMessage`, ...) and the accounting (`Account`: sync, index,
cache), as a crash fits between. One message has two ids, the screen's and the
agent's. State patches and audit records only matter where they are glued to a
torn end, so `Jot` writes nothing else. `TranscriptInit` and `NextProcess` are
`session.Initialize`: each process has a session of its own name, without a file.
`Build` makes its recorder, which starts the file (`Start`), as `NewRecorder` does;
only after `/new` is there no name, no recorder, and a first `Save` that gives one.
The index is renamed into place and never synced: `past` is what it has been since
the last crash, and `MachineCrash` leaves any of these or none that can be read.

**`McpRegistry`.** One server followed through successive registries, since all
operations are about one name. Goroutines dial outside `mu`, leases under
`connectionLifecycleMu`; `Disconnect` and the change of registry take `mu` only.
`RemoveServer` has two ends: `RemoveFails` is the one where the configuration cannot
be written, which keeps the server and has already dropped its Client unclosed.
A Client is a number with a life (dialling, live, dead, closed).

## 3. Runs

A passing run checks every state within its bounds; a `violation` run shows one
disagreement of section 5.

| run | states | asks |
|---|---|---|
| `tool_batch` | 31 thousand | order, answers, at most one late start, the contract, that a batch returns |
| `turn` | 533 thousand | what a request carries, what a cancel lets through, what a turn swallows, the contract, that a turn ends |
| `agent_loop` | 749 thousand | what Esc can and cannot stop, what idle means, that the inbox drains and done channels close |
| `background_task` | 50 thousand | one verdict in order, a stop is no failure, a kill settles, ends are announced |
| `worker_tracker` | 158 thousand | files follow the list, adopted items are tended, locks are freed |
| `cron_shared` | 1.2 million | file against memory, deletions, foreign jobs, losses |
| `turn_input` | 725 thousand | quiet is idle, waiters have a turn, each message once, edits keep their item |
| `mcp_registry` | 1.1 million | what a release takes down, that a temporary connection goes |
| `transcript` | 2.7 million | what survives a crash, nothing twice, what a resume shows, what is listed |
| `permission_gate` | 743 thousand | whose answer a call gets, that no live prompt is replaced, that each is settled |
| `indicator`, `orphaned_history` | | one disagreement each |

Type invariants are not among the runs' properties where a theorem states them
for every instance; nor are `RepliesInOrder` of `ToolBatch` and `KillSettles` of
`BackgroundTask`, which are proved.

**Bounds, and why they are enough.**

- `tool_batch`: four calls of every mix of kinds. Three serial calls show an
  order that pairs do not, and one parallel sibling runs beside them. The
  proof removes the bound.
- `turn`: two calls, one retry, one recovery, two steps with tools, two
  messages. Each loop is entered, left on its budget and combined with every
  other; caps 0, 1 and 2 are none, at once, and after a step.
- `agent_loop`: three messages (one per place a message is taken: idle,
  in-turn, after the turn), two interrupts (the second meets what the first
  left), an inbox of two so that it can be full at the stop.
- `background_task`: one task of either kind, as tasks share only their
  killers, and two killers, as the verdict is between the owner and any one
  killer or between two.
- `worker_tracker`: one worker and one plan item, two sessions, two UI actions.
  Two UI actions make the shortest histories that matter (`/new` then a turn,
  a crash then a resume).
- `cron_shared`: two interchangeable windows (symmetry is sound, as no liveness
  is checked), one job each recurring-durable, one-shot-durable and session-only,
  three starts, one failure of read or write. No job expires in them (`Expired` needs a
later time than `BoundTime`); that path is covered by the theorem alone, which also
removes all the other bounds.
- `turn_input`: two typed texts, one a command, a cron prompt, a hook and a
  notice, a queue of two, an outbox of two so that the agent can be held up by
  it, one compaction or retry, one step with tools. `BoundTokens` of the texts
  arrive in one history and `BoundTroubles` cancels and failures happen, which
  meets every pair of sources and a trouble before and after each other.
- `permission_gate`: three calls (one shown, one in the gate's place, one held up
  behind it) and two builds of the agent, so that an old gate's messages meet the
  new gate's. The proof removes both bounds.
- `transcript`, `orphaned_history`: three sessions, as each process uses one up and a
  fork or a first `Save` another; three messages, the least with something before
  and after a boundary or a rebuild; one end of a process, orderly or in a crash.
  `Small` (a CONSTRAINT, `used + said <= 5`) leaves out the third session with the
  third message. Without it and with two messages the properties were also checked
  (2.4 million states). The proofs remove the bounds.
- `mcp_registry`: two interchangeable goroutines, two registries, three Clients
  (one adopted, one redialled, one racing), two faults. No liveness is checked, so
  the symmetry is sound.

**Fairness.** `WF` on the steps of goroutines, of the `Update` loop and of timers
the code arms. The code justifies each: a stream has a first-chunk and an idle
timeout, a backoff is at most 30 s, `InterruptTurn` waits 250 ms, a command has
a timeout. A hung tool hangs a batch in the program too; `BatchReturns` assumes
tools return. A subagent need not end unless stopped. Nobody has to send, type,
interrupt or kill, but who sees a permission prompt answers it in the end, which
is what a call waits for. `TurnInput`'s `Spec` states fairness, but its run checks
safety only: its liveness fails as section 5 says.

**Deadlock** is not checked (`CHECK_DEADLOCK FALSE`): each of these systems may
stop once it has nothing to do or has met its bounds. Where a deadlock would
be a bug a liveness property looks for it: `LocksAreFreed`, `KillReturns`,
`BatchReturns`, `TurnReturns`, `EveryTurnCloses`.

**Some properties need a word.** `NothingSwallowed` and `IdleMeansAnswered`
excuse a step cap lowered during the turn, which does strand a message. Both speak of
messages in the conversation: one that a manual compaction replaced before it was
read is no longer there (`erased`), and nothing answers it (`CompactionIsSafe`,
section 5). `IdleInterruptIsHarmless` is about an Esc that begins on an idle agent
and finds no turn to cancel; one that begins idle but swaps the pointer after the
next turn is published cancels that turn, in the code as in the model.
`WaitersHaveATurn` excuses a turn that was cancelled, swallowed or lost (`halted =
"turn"`), and a slash command as the last item drained while idle (`halted =
"command"`), after which the rest waits for another turn: the second is not by
design (`CommandsKeepTheQueueGoing`). `EachOnce` lets a full cron queue drop a prompt
(`lost`), which the code does. `SessionsListed` leaves out the sessions of `unlisted`:
those a crash took with an index older than they are or with an unsynced fork, and
those a fork left out of an index it could not read (`SeenAfterACrash`,
`LostIndexIsRebuilt`); and one whose file a crash made unreadable. `NoneIsLost` speaks only of histories without two
overlapping saves; `OthersAreKept` says what holds with them. `SyncedSurvives`
and `HistoryIsWhole` exempt a file whose torn end was continued, and the latter
a session whose recorder was seeded with a stale leaf: both are disagreements of
section 5, and the exemption is the history variable that records exactly them
(`misled`, `Glued`). The properties of `PermissionGate` exempt an agent stopped in
the middle of a prompt (`crossed`), and `PromptIsSettled` an interrupt that
overtook an answer (`overtaken`). `ReleaseSparesOthers` exempts an entry dropped
under a lease (`renumbered`), which is the next disagreement.

## 4. Proofs

TLAPS proves these for all values of the constants under the named `ASSUME`s
of the modules (sizes are naturals, sets are disjoint where the code has
them so).

**`ToolBatchProofs`**: `TypeCorrect`, `SideEffectsOrdered`, `AtMostOneLateStart`,
`SuccessIsReal`, `RepliesOrdered`, and `Implementation`, the refinement of
`BatchContract`, for a batch of any size. None of the properties is inductive
alone. `IInv` is their conjunction with:

- `ExecInv`, `TaskInv`: which execution states each phase allows, that only
  resolved calls execute, and that the join is passed with all of them settled.
  Without them a recorded result could be of an idle call.
- `SkippedInv`: a skipped call carries the context's error, so its zero value
  is never read as a success.
- `LateInv`: after a late start no call is `ready`. The only call that could
  begin after the cancel is one past its check of `ctx`, and serial calls go
  one by one.
- `ReplyInv`: what is recorded lies below `cursor`, and resolved calls have
  results only in the last phase. This keeps results single and ordered.
- `CompleteInv`: without a cancel every call passed so far is resolved or
  answered. This is what lets the return map to the contract's.

Each action has a lemma that it preserves `IInv`; `Implementation` maps each
action to a step of the contract.

**`FileProofs`**, the job store: `CronTypeCorrect`, `DeletionsHold`, `ForeignersHold`,
`WriterIsOnFile`, `NoJobIsLost`, for any number of windows, jobs, restarts and
failures. The argument is about ids: `Memory(w)` says a window's `knownDurable`
holds every durable job it ever removed and otherwise only jobs it holds, so
`Foreign(w)`, the file less what is held or known, is free of its own deletions
and contains everything it never held. This fails for a `known` that forgets at a
save or that takes in all the file at load: both are faults of the module.
`FileInv` keeps what a save read within what was ever saved. On top of `CronInv`
`FileHolds = FileMatchesWriter /\ NoneIsLost` is inductive as one: that a save
loses nothing needs that the file was what it read, and that the
file still matches its writer needs that only a save changes it.

**`FileProofs`**, the transcripts: `MessagesSurvive`, `NoMessageTwice`,
`PickerSeesAll`, for any number of sessions, messages, restarts and crashes.
Each rests on a state the process has beside the file, and `TranscriptInv` says how
far that can be trusted. `SeenInv`: a warmed cache has every message of its file
but the one being written, so that who asks it before writing never doubles one;
`IdInv` gives the recorder the same, as it numbers its messages upwards.
`SyncInv`: what is kept stands in the part of its file that was synced, as itself or
glued to half a record, and `PendInv` the same of the record being written, whose
sync is still to come; a crash cuts behind that part (`RemainsAre`). `FreshInv` says
that a name not yet given has no file, no cache and nothing kept, which a fork and the
next process need. `PickerSeesAll` has a layer of its own, `PickerInv`: half a record
stands at the end of a file only (`EndsInv`), what is being written has its file
(`WrittenInv`), and what was begun and not lost as above has a file and is in the index
and in the loaded copy, where there is one (`ListedInv`). So where a crash left no index
its file is there to be found by the rebuild.

**`FileProofs`**, what a resume shows: `ParentsStand` and `HistoryHolds`, the same way.
`Projected` walks from the last message without a child up the parents, as far as the
last boundary. The proof turns this round: `IsPath(f, c)` says of a sequence `c` that each
message is the parent of the next, from a root or the boundary on. `PathIsRead` shows
that `Projected` reads back the path that ends at the last message, and `ReadIsPath`
that a sound file has one. So an action has to say only what it does to a path:
a message whose parent is the last one lengthens it (`PathGoesOn`), one without a
parent or behind a new boundary begins another, lines without messages leave it
(`AlikeReads`). What goes along a chain is an induction over a set of numbers
(`Induction`, from the well-foundedness of `<`), as the library's takes an operator.
Two invariants carry it:

- `GroundInv`: every parent and every message a boundary names stands further up
  in its file, or in a line that a crash broke (`SoundInv`); the leaf in a warmed
  cache and the message the recorder goes on from are in the file (`LeafInv`,
  `OriginInv`); a session is written by its recorder or by the Saves, never both
  (`RoleInv`); no message has ID 0, which stands for no parent (`NonzeroInv`).
- `WholeInv`, of sessions that `HistoryIsWhole` speaks of (`Fine`): the file has the
  first `k` messages on screen as a path and none of the others (`HeldInv`); the
  recorder's last message is the file's (`HeadInv`); while a summary's boundary is
  to be written the summary is all there is on screen (`SummaryInv`); a Save
  under way copies what is on screen or what was there before a compaction
  (`CopyInv`). `MirrorInv` draws the conclusion: with a recorder and no boundary due
  a resume shows the screen; without one it may fall short, and then the cached leaf
  is behind the file, or a first Save is still copying, and a message on screen is
  missing from the file, so it is not `Saved`.

`AppendMessage` adds a message to the cache and leaves the cached leaf as it was, so the
leaf is behind from the first message appended after the file was first read; a
recorder made then is `misled`, the exemption of `HistoryIsWhole`. A session recorded from its first message is the
shortest way through `WholeInv`: its recorder starts the file, which has no message
(`StartLike`), and adds to one path.

**`ThinkActProofs`**: `TypeCorrect`, `RequestsComplete`, `AtMostOneLateRequest`,
`NothingIsSwallowed`, and `Implementation`, the refinement of `TurnContract`, for
any step cap, budgets of retries and recoveries, and set of calls. `BatchInv`
says that from the check for compaction to the request every call has its
result, and that only a cancel brings the loop to its head without: a cancelled
context is seen there before a request can be made, which is the whole of
`RequestsComplete`. `LateInv` adds that after a late request no way leads back to
one, since each passes the head of the loop or a select on the context.
`ReadInv` keeps a drained message below the step cap it was drained under, so
that the cap cannot end the turn on it unless the cap moves. In `Implementation` the
summary of a manual compaction maps to `Compact`, an automatic one to a stutter.

**`AgentLoopProofs`**: `TypeCorrect`, `IdleIsAnswered`, `IdleEscIsHarmless`,
`DoneIsUnwound`, for an inbox of any capacity, any number of messages and of
interrupts. `EndInv` carries what `TurnContract` promises at the end of a turn
through detach, close and the branches of `Run` to the idle wait; `LatchInv` says
that a latch set on an idle agent is cleared on the one way from idle to a
turn, and `QuietInv` that a call which found no turn has none to its name afterwards,
by the latch or by a cancel: `stops` and `revokedBy` are of other calls; `DoneInv` that the channel of the turn in flight is still open. The turn
enters only through the actions of `TurnContract`, so with `Implementation` above
the argument goes down to the loop of `ThinkAct`.

**`BackgroundWorkProofs`**, the tasks: `TypeCorrect`, `OneVerdictHolds`, `CreationComesFirst`,
`StopHolds`, `KillComesBackSettled`, for any number of commands, subagents and
killers. `VerdictInv` ties each task's status to what was announced of it and to
where its owner stands; `KillerInv` says that the killer who won a task's
transition is alone with it, among the killers and against the owner, until it
has announced it. `KillSettles` is an action property: the only ways back to idle
are past a verdict.

**`BackgroundWorkProofs`**, the list that mirrors them: `MirrorHolds`, `FilesFollow`,
`AdoptionHolds`, for any number of workers, sessions, items and actions of the UI.
`MirrorInv` has two halves. The files of the store's directory are the list after
every locked operation (`StoreInv`, with a lemma for each operation).
And while a list is adopted, every item in it that claims a worker is either still
to be asked about or tended (`AdoptInv`): the store's lock is held, so nothing else
touches the list, and a worker that ends meanwhile still has its report to make.
`PointInv` adds that the list adopted is the one of the session's directory.

**`TurnInputProofs`**: `Invariant`, `TypeCorrect`, `QuietMeansIdle`, `WaitersHaveOne`,
`ReleasesKeepEdit`, `NothingTwice`, for any texts, commands, prompts, hooks and
notices and any capacities of the queues and channels. Lemmas first say what each
operation of `InputQueue` does to a box. Then there are two invariants. `IInv`
follows a turn through both channels: the agent reports every end, a
stop is the last thing it does, an event that is not the last is followed by more,
and without a session nothing waits unless it is held (`Excused`: a lost turn or a
slash command). So a UI that is not idle has
an event to come, which is what `QuietIsIdle` and `WaitersHaveATurn` ask.
`OnceInv` is about the ten places a token can be in (the box, four queues, a message on
its way, the agent's inbox, its conversation, lost, not given yet): `Sole` says that no
two hold the same token, `BoxSole` and `QueueSole` that none holds it twice, and
`Covered` that only a text of the user can be in none. Each action takes tokens
from one place and puts them into one other. Assumed are a finite set of cron prompts
and that the empty box's text is no message.

**`PermissionGateProofs`**: `TypeCorrect`, `ConsentHolds`, `PromptStays`, for any
number of concurrent calls and rebuilt agents. The code has no id that ties an
answer to its request; what does is that one token goes round from the poll to
the request, the modal, the answer and the poll again. `TokenInv` says there is
one, `BuildInv` that it is at the session's gate unless an agent was stopped in
the middle of a prompt, and `AnswerInv` that the answer on its way finds its own
request pending, or none. `Show` breaks this as soon as a request also polls,
which is the fault the run's mutants put in.

**`McpRegistryProofs`**: `TypeCorrect`, `TemporaryHolds`, `ReleaseIsOwn`, for any
number of goroutines, registries, Clients and faults. What has to be tied together
is a count in the entry and the goroutines that have a lease. `LowerInv` says a
generation's count is no less than its leases unless the entry was dropped under
one, so a release that finds 1 is the last; `UpperInv` that the count of the current
generation is no more than the leases on the installed Client, so a count left over
means someone is there to give it back. Between them stand `EpochInv` (a lease on the
installed Client is of the current generation), `LaterInv` (later generations have
no count, so an install starts at zero) and `OwnerInv` (a connection nobody asked
for is temporary and counted, or about to be), which needs `NewInv` and `FoundInv`
for what is seen by a goroutine about to count. Each step's lemma gives `IInv'`;
all but `Count` and `Release` also give `LeasesStand`, from which `ReleaseIsOwn`
knows that only a release can end a lease.

`ImplementsContract` and the action properties are closed by PTL from a
step lemma. Each inductive invariant was checked by TLC before it was proved.

**Only model-checked**: all liveness (`BatchReturns`, `TurnReturns`, `InboxDrains`,
`EveryTurnCloses`, `EndIsAnnounced`, `KillReturns`, `LocksAreFreed`,
`PromptIsSettled`), as fairness and `ENABLED` are beyond the prover. Every safety
and action property of a passing run has its theorem.

## 5. Disagreements

Where the code does something other than what its comments say. Those marked
*run* have a run of expected violation. Those marked *defined* have a definition
in a `...Props` module that TLC refutes; no run is kept for them. The ones marked
*read* come from reading the code with the model at hand.

### Turn and agent loop

- **`FreshMessageSupersedes`** (*defined*). An Esc between the end of a turn and
  `drainInbox` sets the latch; the message sent next is taken by `drainInbox`,
  which does not clear it, and `runOneTurn` swallows the turn.
- **`HonoredOnce`** (*defined*). Preempted between its store and its swap, one
  interrupt makes one turn bail by its latch and cancels the next by its swap.
- **`ClosedMeansQuiescent`** (*defined*). The first Esc leaves the pointer nil
  while its turn unwinds; a second Esc gets a closed channel and
  `Session.InterruptTurn` clears the pending permission at once. (*read*: a tool
  that asks after that leaves a request whose turn is being abandoned.)
- **`CompactionIsSafe`** (*defined*, in `ThinkActProps` and `AgentLoopProps`). The
  comment of `Session.Compact`: "Safe because the agent applies it at a phase boundary
  on its own goroutine." The summary was made before it was sent and replaces the whole
  chain. `handleSubmit` holds what the user types meanwhile for this reason
  (`update_submit.go:48-53`); other senders are not held. A message that reached the agent while the summary was being made (a cron
  prompt, a hook's continuation, a notice: `/compact` stops none of them) and has not
  been answered when it is applied is gone: the turn that was to answer it sees only the summary and ends
  well, or the agent goes idle with nothing unanswered in sight.
- **`ZeroSuppressesCheck`** (*defined*). `applyCompaction` says a measurement of
  zero suppresses the check; `promptTokensOrEstimate` answers zero with the
  text estimate. After a compaction whose summary still estimates as full, two
  transient failures with a drained message each compact the chain again.

### Background tasks

- **`OutputIsWhole`** (*defined*). `executeBackground` calls `cmd.Wait` while the
  copying goroutines read from the pipes that `Wait` closes: the last output
  of a completed command can be missing from its file.
- **`NoSignalOnceReaped`** (*defined*). `Stop` loads `reaped` and then signals;
  `MarkReaped` fits in between, and the window is as long as the scheduler
  makes it, not the instant the comment speaks of.

### Tracker

- **`ListSurvivesTurn`** (*defined*). After `/new` the first save gives the session a
  directory; `SetStorageDir` loads that empty directory over the list.
- **`NoneStranded`** (*defined*). `Import` replaces the items and removes no file.
  An item made after the transcript was saved stays on disk in progress,
  `CompleteWorker` finds nothing to complete, and `ReloadFromDisk` brings it back.
- **`DiscardsOnlyClosed`** (*defined*). `OnTurnEnd` asks `AllMarkedCompleted` and
  then calls `Reset`; an item opened in between is discarded.
- **`InterruptedMeansUnreported`** (*defined*). A worker's end recorded while the
  store has no directory, or after the transcript was saved, is lost to the
  adoption, which shows the worker as interrupted.
- **Reused ids** (*read*). `TrackWorker` and `CompleteWorker` find an item and then
  address it by id in a second call; `Reset` starts ids over, so a reset in
  between can let the second call change another item.

### Cron

- **`ForeignPreserved`** (*defined*). Two windows read, merge and rename without a
  lock: a job written in between is erased until its own window saves again. A
  failing read counts as an empty file and drops the foreign jobs as well (a
  comment of the code accepts this).
- **`StaysRemoved`** (*defined*). A job one window deleted is written back by
  another that had adopted it.
- **`AtMostMaxJobs`** (*defined*). `LoadDurable` does not check `maxJobs`.
- **`FiredIsRescheduled`** (*defined*). The search for the next match ends after
  1460 days; from one 29 February to the next are 1461. The job gets no next
  time and is due at every tick until it expires.
- (*read*) A job expired at load is carried in the file for ever. A durable
  one-shot adopted by two windows fires in both.

### Turn input

- **`IndicatorIsCleared`** (*run*). A compaction begun because the prompt was too
  long fails: `ThinkAct` returns the error, no handler clears
  `Compact.Active`, and every Enter is refused with "Compaction in progress".
- **`EditsReachTheirItem`** (*defined*). Emptying a queued message under edit removes
  it at the next key, the selection then stands on the item that moved up, and
  what is typed replaces it.
- **`HeldIsDelivered`** (*defined*). A notice parked during a stream that Esc cuts
  stays parked until some other turn ends; a later notice, finding the UI
  idle, overtakes it. The comment says each queue has a later drain.
- (*checked in passing; `EachOnce` allows it*) `HandleCronTick` drops prompts when
  the cron queue is full, silently.
- (*read*) Deleting the last queued message under edit loses the stashed draft.
- **`CommandsKeepTheQueueGoing`** (*defined*). The comment of
  `drainInputQueueWhileIdle`: "so input queued while a turn was streaming runs right
  after Ctrl+C/Esc". One item is taken; if it is a slash command it starts no turn and the
  rest waits for another. (*read*) The same command taken by a turn's end goes to the
  model as text.
- (*read*) A message queued after Esc and before the cancelled turn's event is
  handled stays queued. Two sends are independent goroutines and may swap.
- (*read*) A file-watcher hook continues with an empty `ContinuationPrompt`
  (`model_workspace.go:109`): `SubmitToAgent("")` starts an empty turn and
  the hook's context reaches only the screen.
- (*read*) During an automatic compaction the stream flag is off: Esc does
  nothing, and Ctrl+C runs `/new`.

### Permission gate

- **`PromptsAfterInterrupt`** (*defined*). An Esc handled between an answer and its
  message clears the pending request; `handlePermGateDecision` finds none and
  returns without polling again. The agent goes on (the comment of `InterruptTurn`:
  "resumes the session in place"), and its later prompts are never shown.
- **`InterruptedPromptIsGone`** (*defined*). The request of an interrupted call whose
  message is on its way is shown after the interrupt and stays pending into the
  next turn, which the same comment rules out.
- **`ConsentNeverCrosses`** (*defined*). The answer to a modal of a stopped agent goes
  to whatever the rebuilt agent has pending.
- (*read*) `overlayPanels` says at most one overlay is active; a question and an
  approval can be up together, the question in front. A second question replaces
  the first one's reply channel (`update_modal.go:138`).

### Transcript

- **`NothingIsOrphaned`** (*run*). `LastMessageID` answers from a leaf that is cached
  when the file is first read and that `AppendMessage` does not move. The first build
  of a new session asks for it before there is a file. In the run the first session is
  recorded and a message said, `/fork` switches to a copy, an agent is built there, and
  the original is resumed: its new recorder starts from the empty leaf, its next message
  is a second root, and a later resume shows only what follows it. After `/new` a
  conversation that `Save` wrote first is cut off in the same way by its first rebuild.
- **`SeenAfterACrash`** (*defined*). `Start` writes the index at once so that the picker
  sees the session "even after a crash mid-first-turn". So it is when the process dies.
  When the machine does, the index, which `atomicfile.Write` does not sync, may be one
  of before the session; it can be read, so nothing rebuilds it.
- **`LostIndexIsRebuilt`** (*defined*). `upsertIndexEntryLocked` rebuilds an index it
  cannot read, and `index_recovery_test.go:48-63` names "a truncating crash" as the
  cause. `refreshIndexLocked`, for a fork and a compaction, starts from an empty one:
  every earlier session is out of the picker for good.
- **`CrashLeavesItLoadable`** (*defined*). `loadRecordsLocked` takes a malformed line in
  the middle for damage, as "a crash" leaves one at the end only; but the next
  append continues a torn end. That record is lost with it, and after one more
  the file is refused whole.
- (*read*) `onAppend` moves `lastMessageID` before the append: if that fails, the next
  message has a parent that is in no file.
- (*read*) `FlushIndex` counts on a rebuild "on the next List"; `List` rebuilds only an
  index it cannot read, so a stale title or count stays. Two windows each write
  their own copy of the index whole and drop each other's sessions, although
  `Start` promises the entry "even in another process".
- (*read*) With no index at all `AppendMessage` counts a message twice, by the rebuild
  and by itself. After a `/fork`, `/name` saves the screen's copies under ids the
  file does not have. A turn that failed before a session had its recorder is
  not saved once it has one.

### MCP registry

- **`StaleReleaseIsHarmless`** (*defined*). `Disconnect` drops the generation counter
  with the entry: the next connection reuses the number of leases that are still
  out, and the release of one of these closes it.
- **`NoDuplicateTransport`** (*defined*). `Connect` dials without the lock that leases
  hold "so duplicate transports cannot be created"; the last to finish is
  installed and the other stays connected with no owner.
- **`AgentsLeaveTheUsers`** (*defined*). A subagent's cleanup disconnects every server
  it named, including those the user or another subagent connected.
- (*read*) `transferRetainedConnectionsFrom` has no caller: a change of registry moves
  Clients without their leases and flags.

## 6. What the models leave out

- `ThinkAct`: tokens of a stream one by one, images, token counts beyond below
  and above the threshold.
- `AgentLoop`: `Session.Start` and the rebuild after a stop; one agent, one life.
- `BackgroundTask`: `AppendProgress`, `SetIdentity`, `UpdateProgress`, which
  annotate a task; the cap of the output kept in memory.
- `WorkerTracker`: blocking relations; the model's own edits of worker items;
  task ids never repeat; the store's lock is held through an adoption, although
  the code lets it go between `SetStorageDir` and `Import`.
- `CronShared`: `Add`, `Remove` and `Reset`, which have no caller; the parsing of
  expressions. A rename is atomic (`internal/atomicfile`).
- `PermissionGate`: which calls the policy, a grant and the judge settle, what an
  answer grants for later calls, the audit records.
- `ThinkAct`, `AgentLoop`: what the summary of a manual compaction covers; it is taken to
  be older than every message not yet answered.
- `Transcript`: a second process on the same project, deleting a session, values of
  state patches, sidechain transcripts, failing writes; a crash cuts one file.
- `McpRegistry`: the transports and tool calls, the saved list of disabled servers,
  editing a config beyond its being removed, or not, as a whole.
- `TurnInput`: images and the vision pre-pass, blocking prompt and Stop hooks,
  autopilot, manual `/compact`, session changes, history navigation; an edit
  replaces the text of the box at once.

## 7. Plan

Done, in this order: `BatchContract`, `ToolBatch` and proofs; `TurnContract`,
`ThinkAct` on `BatchContract`, and proofs; `AgentLoop` on `TurnContract`, and
proofs; `BackgroundTask` and proofs; `WorkerTracker`; `CronShared` and proofs;
`InputQueue`, `TurnInput`; `McpRegistry` and proofs; `Transcript`; `PermissionGate`
and proofs; then the proofs of `TurnInput`, of `WorkerTracker` and of `Transcript`.

Next modules:

1. **`Questions`**, on the pattern of `PermissionGate`: two askers (main and a
   subagent), a channel of one place, the poll renewed while a question is up, a
   turn's end. Property: every asker is answered or released.
2. **`SubagentRun`**: the executor's messages and its end, on `BackgroundTask`.
3. **`StdioTransport`**: writer, reader and server over two bounded pipes and one
   lock; a request returns, or its timeout fires.
4. A second window in `Transcript`, for the index.

Theorems: no safety property of a passing run is left. Liveness has no proof; the
state predicates a proof by hand would use (`QuietIsIdle`, `WaitersHaveATurn`,
`AnswerInv`) are proved. `HistoryHolds` says what a change of the code would
give: were the cached leaf moved on by `AppendMessage`, `Lagging` would be false and
the exemption of a recorder seeded with a stale leaf could go.
