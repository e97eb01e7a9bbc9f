----------------------------- MODULE CronShared -----------------------------
(***************************************************************************)
(* The cron scheduler (internal/cron), one in each program window opened   *)
(* on a project, over the one file of durable jobs they share.  A window's *)
(* scheduler lock covers an operation and the save at its end, so it has   *)
(* one operation under way; the windows share no lock.                     *)
(*                                                                         *)
(* Times are ticks of an abstract clock; 0 is Go's zero time.  A           *)
(* definition named ...Fault is the one after it with a defect; no action  *)
(* uses it.                                                                *)
(***************************************************************************)
EXTENDS Naturals, FiniteSets

CONSTANTS
  Windows, Jobs,
  Recurring, Durable,   \* the jobs made so
  MaxJobs,              \* maxJobs
  Expiry,               \* defaultExpiry
  None,                 \* no window
  BoundTime,            \* bound: the clock stops there
  BoundBoots,           \* bound: times a window is opened
  BoundFaults           \* bound: failing reads and writes

ASSUME CronAssumption ==
  /\ Recurring \subseteq Jobs /\ Durable \subseteq Jobs
  /\ None \notin Windows
  /\ MaxJobs \in Nat \ {0} /\ Expiry \in Nat \ {0}
  /\ BoundTime \in Nat \ {0} /\ BoundBoots \in Nat /\ BoundFaults \in Nat

VARIABLES
  now, made,        \* the clock; jobs whose random id is taken
  disk,             \* scheduled_tasks.json
  jobs, known,      \* each Scheduler's jobs and knownDurable
  at,               \* where each window's scheduler is
  read,             \* what a save read of the file
  boots, faults,
  removed,          \* history: jobs a window held and removed, since it opened
  ended,            \* history: jobs some window ever removed
  saved,            \* history: jobs that ever were in the file
  overlap,          \* history: some save wrote from what was not the file
  writer            \* history: the last window to write, if it is as it was

files == <<disk, read, faults, saved, overlap, writer>>
gone == <<removed, ended>>
cronVars == <<now, made, jobs, known, at, boots, gone, files>>

Empty == [j \in {} |-> 0]

CronInit ==
  /\ now = 1 /\ made = {} /\ disk = Empty
  /\ jobs = [w \in Windows |-> Empty] /\ known = [w \in Windows |-> {}]
  /\ at = [w \in Windows |-> "down"] /\ read = [w \in Windows |-> Empty]
  /\ boots = 0 /\ faults = 0
  /\ removed = [w \in Windows |-> {}] /\ ended = {}
  /\ saved = {} /\ overlap = FALSE /\ writer = None

-----------------------------------------------------------------------------
\* Times.

\* computeNextFire; a calendar whose next match is over four years off has none.
NextFires == {0, now + 1}

Expired(job) == job.expires # 0 /\ now > job.expires

Advance ==
  /\ now < BoundTime /\ now' = now + 1
  /\ UNCHANGED <<made, jobs, known, at, boots, gone, files>>

-----------------------------------------------------------------------------
\* The shared file.

OwnFault(w) == DOMAIN jobs[w]
Own(w) == DOMAIN jobs[w] \cap Durable

OverwriteFault(w) == {}
\* foreignDurableLocked: what the file holds and this window never held.
Foreign(w) == DOMAIN read[w] \ (Own(w) \cup known[w])

Content(w) ==
  [j \in Own(w) \cup Foreign(w) |-> IF j \in Own(w) THEN jobs[w][j] ELSE read[w][j]]

\* saveDurableLocked: the window's jobs are known from here on, and the file is
\* read; a failing read counts as an empty file.
SaveRead(w) ==
  /\ at[w] = "read"
  /\ known' = [known EXCEPT ![w] = @ \cup Own(w)]
  /\ \/ read' = [read EXCEPT ![w] = disk] /\ UNCHANGED faults
     \/ faults < BoundFaults /\ faults' = faults + 1 /\ read' = [read EXCEPT ![w] = Empty]
  /\ at' = [at EXCEPT ![w] = "write"]
  /\ UNCHANGED <<now, made, jobs, boots, gone, disk, saved, overlap, writer>>

\* atomicfile.WriteJSON renames over the file.
SaveWrite(w) ==
  /\ at[w] = "write"
  /\ disk' = Content(w)
  /\ saved' = saved \cup DOMAIN disk' /\ overlap' = (overlap \/ read[w] # disk) /\ writer' = w
  /\ at' = [at EXCEPT ![w] = "up"] /\ read' = [read EXCEPT ![w] = Empty]
  /\ UNCHANGED <<now, made, jobs, known, boots, gone, faults>>

\* A failing write leaves the file alone and is only logged.
SaveFails(w) ==
  /\ at[w] = "write" /\ faults < BoundFaults /\ faults' = faults + 1
  /\ writer' = IF writer = w THEN None ELSE writer
  /\ at' = [at EXCEPT ![w] = "up"] /\ read' = [read EXCEPT ![w] = Empty]
  /\ UNCHANGED <<now, made, jobs, known, boots, gone, disk, saved, overlap>>

UnknownFault(w, loaded) == known[w]
AllKnownFault(w, loaded) == known[w] \cup DOMAIN disk
\* Jobs adopted at boot are known; those skipped stay another's.
Adopted(w, loaded) == known[w] \cup loaded

\* LoadDurable, once, at start: expired jobs and those without a next time are
\* skipped, recurring ones start from now, an overdue one-shot is due at once.
Boot(w) ==
  /\ at[w] = "down" /\ boots < BoundBoots
  /\ boots' = boots + 1 /\ at' = [at EXCEPT ![w] = "up"]
  /\ \E next \in [DOMAIN disk \cap Recurring -> NextFires] :
       LET loaded == {j \in DOMAIN disk :
                        ~Expired(disk[j]) /\ (j \in Recurring => next[j] # 0)}
           due(j) == IF j \in Recurring THEN next[j]
                     ELSE IF disk[j].next <= now THEN now ELSE disk[j].next
       IN  /\ jobs' = [jobs EXCEPT ![w] =
                         [j \in loaded |-> [disk[j] EXCEPT !.next = due(j)]]]
           /\ known' = [known EXCEPT ![w] = Adopted(w, loaded)]
  /\ UNCHANGED <<now, made, gone, files>>

Crash(w) ==
  /\ at[w] # "down" /\ at' = [at EXCEPT ![w] = "down"]
  /\ jobs' = [jobs EXCEPT ![w] = Empty] /\ known' = [known EXCEPT ![w] = {}]
  /\ read' = [read EXCEPT ![w] = Empty]
  /\ removed' = [removed EXCEPT ![w] = {}]
  /\ writer' = IF writer = w THEN None ELSE writer
  /\ UNCHANGED <<now, made, boots, disk, faults, saved, overlap, ended>>

-----------------------------------------------------------------------------
\* The scheduler.

\* The save an operation ends in, if it touched durable jobs.
Then(w, durable) == at' = [at EXCEPT ![w] = IF durable THEN "read" ELSE "up"]

Create(w, j) ==
  /\ at[w] = "up" /\ j \notin made
  /\ Cardinality(DOMAIN jobs[w]) < MaxJobs
  /\ \E next \in NextFires \ {0} :
       LET job == [next |-> next, expires |-> IF j \in Recurring THEN now + Expiry ELSE 0]
       IN  jobs' = [jobs EXCEPT ![w] = [i \in DOMAIN @ \cup {j} |-> IF i = j THEN job ELSE @[i]]]
  /\ made' = made \cup {j} /\ Then(w, j \in Durable)
  /\ UNCHANGED <<now, known, boots, gone, files>>

Forget(w, S) == removed' = [removed EXCEPT ![w] = @ \cup S] /\ ended' = ended \cup S

Delete(w, j) ==
  /\ at[w] = "up" /\ j \in DOMAIN jobs[w]
  /\ jobs' = [jobs EXCEPT ![w] = [i \in DOMAIN @ \ {j} |-> @[i]]]
  /\ Forget(w, {j}) /\ Then(w, j \in Durable)
  /\ UNCHANGED <<now, made, known, boots, files>>

Due(w) == {j \in DOMAIN jobs[w] : ~Expired(jobs[w][j]) /\ now >= jobs[w][j].next}

Stale(w) == {j \in DOMAIN jobs[w] : Expired(jobs[w][j])}

Gone(w) == Stale(w) \cup (Due(w) \ Recurring)

AdvancedFault(w) == Gone(w)

\* What a tick changes of the jobs.
Touched(w) == Due(w) \cup Stale(w)

\* Scheduler.Tick, called by the UI's ticker every half minute; the UI gets the
\* prompts of the jobs due.
Tick(w) ==
  /\ at[w] = "up"
  /\ \E next \in [Due(w) \cap Recurring -> NextFires] :
       jobs' = [jobs EXCEPT ![w] =
         [j \in DOMAIN @ \ Gone(w) |->
            IF j \in Due(w) THEN [@[j] EXCEPT !.next = next[j]] ELSE @[j]]]
  /\ Forget(w, Gone(w))
  /\ Then(w, Touched(w) \cap Durable # {})
  /\ UNCHANGED <<now, made, known, boots, files>>

-----------------------------------------------------------------------------
CronNext ==
  \/ Advance
  \/ \E w \in Windows :
       \/ SaveRead(w) \/ SaveWrite(w) \/ SaveFails(w)
       \/ Boot(w) \/ Crash(w) \/ Tick(w)
       \/ \E j \in Jobs : Create(w, j) \/ Delete(w, j)

CronSpec == CronInit /\ [][CronNext]_cronVars
=============================================================================
