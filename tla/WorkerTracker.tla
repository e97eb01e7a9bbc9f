--------------------------- MODULE WorkerTracker ---------------------------
(***************************************************************************)
(* The tracker store (internal/todo) with its files, the items that        *)
(* mirror background tasks (TrackWorker, CompleteWorker), and what the UI  *)
(* does to the list: turn end, /clear, /new, first save, resume, a crash.  *)
(* Store and task manager each have a lock; a store operation is one step  *)
(* unless it takes the manager's lock inside.                              *)
(*                                                                         *)
(* A session's directory and its transcript carry the same name.  A        *)
(* definition named ...Fault is the one after it with a defect; no action  *)
(* uses it.                                                                *)
(***************************************************************************)
EXTENDS Naturals, FiniteSets, Functions

CONSTANTS
  Workers,       \* background tasks that may be launched
  Sessions,
  None,          \* no session, no directory, no worker, a free lock
  BoundPlan,     \* bound: plan items get ids up to this one
  BoundUI        \* bound: what the UI does

ASSUME WorkerTrackerAssumption ==
  /\ None \notin Workers \cup Sessions
  /\ BoundPlan \in Nat /\ BoundUI \in Nat

Ids == 1 .. BoundPlan + Cardinality(Workers)
States == {"pending", "in_progress", "completed", "deleted"}
Details == {"none", "running", "ended", "interrupted"}
Items == [task : Workers \cup {None}, status : States, detail : Details]

VARIABLES
  items, nextID, dir,   \* the Store
  disk,                 \* files of each directory
  snap,                 \* tasks in each session's transcript
  session,              \* Setup.SessionID
  ui, queue,            \* where the UI is; items demoteOrphanedItems has left
  acts,
  mlock,                \* holder of the manager's lock
  life,                 \* the task in the manager: "none", "running", "ended"
  track, report, hit,   \* creation handler, completion handler, item found
  told                  \* history: workers whose end an item recorded

store == <<items, nextID, dir, disk>>
uiVars == <<snap, session, ui, queue, acts>>
workVars == <<mlock, life, track, report, hit, told>>
trackerVars == <<store, uiVars, workVars>>

Empty == [i \in {} |-> 0]

TrackerInit ==
  /\ items = Empty /\ nextID = 1 /\ disk = [d \in Sessions |-> Empty]
  /\ session \in Sessions /\ dir = session
  /\ snap = [d \in Sessions |-> Empty]
  /\ ui = "idle" /\ queue = {} /\ acts = 0
  /\ mlock = None /\ life = [w \in Workers |-> "none"]
  /\ track = [w \in Workers |-> "none"] /\ report = [w \in Workers |-> "none"]
  /\ hit = [w \in Workers |-> 0] /\ told = {}

-----------------------------------------------------------------------------
\* The store.

\* SetStorageDir and Import hold the store's lock while they ask the manager.
Adopting == {"adopt", "readopt", "import", "recover"}
StoreFree == ui \notin Adopting

With(f, i, item) == [j \in DOMAIN f \cup {i} |-> IF j = i THEN item ELSE f[j]]
Without(f, S) == Restrict(f, DOMAIN f \ S)

PutFault(i, item) ==
  /\ items' = With(items, i, item)
  /\ disk' = IF dir = None \/ i \in DOMAIN disk[dir] THEN disk
             ELSE [disk EXCEPT ![dir] = With(@, i, item)]

\* persistItem: one file, when there is a directory.
Put(i, item) ==
  /\ items' = With(items, i, item)
  /\ disk' = IF dir = None THEN disk ELSE [disk EXCEPT ![dir] = With(@, i, item)]

Create(task) ==
  /\ Put(nextID, [task |-> task, status |-> "pending",
                  detail |-> IF task = None THEN "none" ELSE "running"])
  /\ nextID' = nextID + 1 /\ UNCHANGED dir

\* Update of an id the store does not know is an error its callers drop.
Update(i, item) ==
  IF i \in DOMAIN items THEN Put(i, item) /\ UNCHANGED <<nextID, dir>>
  ELSE UNCHANGED store

\* FindByMetadata.
Found(w) == {i \in DOMAIN items : items[i].task = w /\ items[i].status # "deleted"}

HighestFault(f) == Cardinality(DOMAIN f)

Highest(f) == CHOOSE n \in DOMAIN f \cup {0} : \A i \in DOMAIN f : i <= n

PlanItems == {i \in DOMAIN items : items[i].task = None}

\* The plan: what the model's tracker tools do to the items it authored.
Plan ==
  /\ StoreFree
  /\ \/ nextID <= BoundPlan /\ Create(None)
     \/ \E i \in PlanItems, st \in {"in_progress", "completed"} :
          Update(i, [items[i] EXCEPT !.status = st])
  /\ UNCHANGED <<uiVars, workVars>>

Delete ==
  /\ StoreFree
  /\ \E i \in PlanItems :
       /\ items' = [items EXCEPT ![i].status = "deleted"]
       /\ disk' = IF dir = None THEN disk ELSE [disk EXCEPT ![dir] = Without(@, {i})]
  /\ UNCHANGED <<nextID, dir, uiVars, workVars>>

\* ReloadFromDisk, on TaskGet; without a change on disk it does nothing.
Reload ==
  /\ StoreFree /\ dir # None
  /\ items' = disk[dir] /\ nextID' = Highest(disk[dir]) + 1
  /\ UNCHANGED <<dir, disk, uiVars, workVars>>

-----------------------------------------------------------------------------
\* A worker: the manager's bookkeeping, then the tracker's handlers.

TrackTo(w, place) == track' = [track EXCEPT ![w] = place]
ReportTo(w, place) == report' = [report EXCEPT ![w] = place]

\* CreateBashTask and RegisterTask under the manager's lock.
Register(w) ==
  /\ track[w] = "none" /\ life[w] = "none" /\ mlock = None
  /\ mlock' = w /\ life' = [life EXCEPT ![w] = "running"]
  /\ TrackTo(w, "registered")
  /\ UNCHANGED <<store, uiVars, report, hit, told>>

\* The handler called with the lock held.
UnlockFault(w) ==
  /\ track[w] = "registered" /\ mlock = w /\ StoreFree
  /\ Create(w)
  /\ mlock' = None /\ hit' = [hit EXCEPT ![w] = nextID]
  /\ TrackTo(w, "begin")
  /\ UNCHANGED <<uiVars, life, report, told>>

\* The lock is dropped before the handler is called.
Unlock(w) ==
  /\ track[w] = "registered" /\ mlock = w
  /\ mlock' = None
  /\ TrackTo(w, "track")
  /\ UNCHANGED <<store, uiVars, life, report, hit, told>>

\* TrackWorker: a task's id is new, so there is no item of it to find.
TrackCreate(w) ==
  /\ track[w] = "track" /\ StoreFree
  /\ Create(w)
  /\ hit' = [hit EXCEPT ![w] = nextID]
  /\ TrackTo(w, "begin")
  /\ UNCHANGED <<uiVars, mlock, life, report, told>>

\* The second half of TrackWorker addresses its item by id.
TrackBegin(w) ==
  /\ track[w] = "begin" /\ StoreFree
  /\ IF hit[w] \in DOMAIN items
     THEN Update(hit[w], [items[hit[w]] EXCEPT !.status = "in_progress"])
     ELSE UNCHANGED store
  /\ TrackTo(w, "up")
  /\ UNCHANGED <<uiVars, mlock, life, report, hit, told>>

\* finalize: the task is over in the manager; its notification follows.
Finish(w) ==
  /\ track[w] = "up" /\ life[w] = "running"
  /\ life' = [life EXCEPT ![w] = "ended"]
  /\ ReportTo(w, "find")
  /\ UNCHANGED <<store, uiVars, mlock, track, hit, told>>

\* CompleteWorker finds the item, or has nothing to do.
ReportFind(w) ==
  /\ report[w] = "find" /\ StoreFree
  /\ \E i \in IF Found(w) = {} THEN {0} ELSE Found(w) :
       /\ hit' = [hit EXCEPT ![w] = i]
       /\ ReportTo(w, IF i = 0 THEN "done" ELSE "update")
  /\ UNCHANGED <<store, uiVars, mlock, life, track, told>>

ReportUpdate(w) ==
  /\ report[w] = "update" /\ StoreFree
  /\ Update(hit[w], [task |-> w, status |-> "completed", detail |-> "ended"])
  /\ told' = IF hit[w] \in DOMAIN items THEN told \cup {w} ELSE told
  /\ ReportTo(w, "done")
  /\ UNCHANGED <<uiVars, mlock, life, track, hit>>

-----------------------------------------------------------------------------
\* The UI goroutine.

Acts == acts < BoundUI /\ acts' = acts + 1

Cleared ==
  /\ items' = Empty /\ nextID' = 1 /\ UNCHANGED dir
  /\ disk' = IF dir = None THEN disk
             ELSE [disk EXCEPT ![dir] = Without(@, DOMAIN items)]

AllMarkedCompleted ==
  /\ items # Empty
  /\ \A i \in DOMAIN items : items[i].status \in {"completed", "deleted"}

\* OnTurnEnd: the question and the reset are two calls.
TurnEnd ==
  /\ ui = "idle" /\ Acts
  /\ ui' = IF AllMarkedCompleted THEN "discard" ELSE "save"
  /\ UNCHANGED <<store, snap, session, queue, workVars>>

Discard ==
  /\ ui = "discard"
  /\ Cleared
  /\ ui' = "save"
  /\ UNCHANGED <<snap, session, queue, acts, workVars>>

Fresh == {d \in Sessions : d # session /\ snap[d] = Empty /\ disk[d] = Empty}

\* persistAfterTurn: a session without an id gets one and its directory.
Save ==
  /\ ui = "save"
  /\ IF session # None
     THEN snap' = [snap EXCEPT ![session] = items] /\ ui' = "idle" /\ UNCHANGED session
     ELSE \E d \in Fresh :
            snap' = [snap EXCEPT ![d] = items] /\ session' = d /\ ui' = "repoint"
  /\ UNCHANGED <<store, queue, acts, workVars>>

\* /clear.
Clear ==
  /\ ui = "idle" /\ Acts
  /\ Cleared
  /\ UNCHANGED <<snap, session, ui, queue, workVars>>

\* /new: persist, reset, then no session and no directory.
NewSession ==
  /\ ui = "idle" /\ Acts
  /\ snap' = IF session = None THEN snap ELSE [snap EXCEPT ![session] = items]
  /\ items' = Empty /\ nextID' = 1 /\ dir' = None
  /\ disk' = IF dir = None THEN disk
             ELSE [disk EXCEPT ![dir] = Without(@, DOMAIN items)]
  /\ session' = None
  /\ UNCHANGED <<ui, queue, workVars>>

\* /fork: the conversation goes on under a new id, with a directory of its own.
Fork ==
  /\ ui = "idle" /\ Acts /\ session # None
  /\ \E d \in Fresh :
       snap' = [snap EXCEPT ![session] = items, ![d] = items] /\ session' = d
  /\ dir' = None /\ ui' = "forked"
  /\ UNCHANGED <<items, nextID, disk, queue, workVars>>

\* loadSessionByID; the session's directory is adopted next.
Resume(d) ==
  /\ ui = "idle" /\ Acts
  /\ session' = d /\ dir' = None /\ ui' = "point"
  /\ UNCHANGED <<items, nextID, disk, snap, queue, workVars>>

InProgress(f) == {i \in DOMAIN f : f[i].status = "in_progress"}

\* SetStorageDir takes the lock and loads the files.
Point ==
  /\ ui \in {"point", "repoint", "forked"}
  /\ dir' = session /\ items' = disk[session]
  /\ nextID' = Highest(disk[session]) + 1
  /\ queue' = InProgress(disk[session])
  /\ ui' = IF ui = "point" THEN "adopt" ELSE "readopt"
  /\ UNCHANGED <<disk, snap, session, acts, workVars>>

\* The item a worker no longer advances: interrupted, or back to pending.
Demoted(item) ==
  IF item.task = None THEN [item EXCEPT !.status = "pending"]
  ELSE [item EXCEPT !.status = "completed", !.detail = "interrupted"]

Live(item) == item.task # None /\ life[item.task] = "running"

DemoteFault ==
  /\ ui \in Adopting /\ mlock = None
  /\ \E i \in queue :
       /\ queue' = queue \ {i}
       /\ IF items[i].task # None THEN UNCHANGED store
          ELSE Put(i, Demoted(items[i])) /\ UNCHANGED <<nextID, dir>>
  /\ UNCHANGED <<snap, session, ui, acts, workVars>>

\* One round of demoteOrphanedItems: IsRunning takes the manager's lock.
Demote ==
  /\ ui \in Adopting /\ mlock = None
  /\ \E i \in queue :
       /\ queue' = queue \ {i}
       /\ IF Live(items[i]) THEN UNCHANGED store
          ELSE Put(i, Demoted(items[i])) /\ UNCHANGED <<nextID, dir>>
  /\ UNCHANGED <<snap, session, ui, acts, workVars>>

\* Import into directory d, up to its own round of demotions.
Import(list, d) ==
  /\ items' = list /\ nextID' = Highest(list) + 1
  /\ disk' = [disk EXCEPT ![d] = [i \in DOMAIN @ \cup DOMAIN list |->
                                   IF i \in DOMAIN list THEN list[i] ELSE @[i]]]
  /\ queue' = InProgress(list)

\* restoreSessionData imports the transcript's tasks over the files'.
Adopted ==
  /\ ui \in {"adopt", "readopt"} /\ queue = {}
  /\ ui' = IF ui = "adopt" THEN "import" ELSE "idle"
  /\ IF ui = "readopt" \/ snap[session] = Empty
     THEN UNCHANGED <<store, queue>>
     ELSE Import(snap[session], dir) /\ UNCHANGED dir
  /\ UNCHANGED <<snap, session, acts, workVars>>

\* loadSessionByID wipes the list of a session whose transcript has none.
Restored ==
  /\ ui \in {"import", "recover"} /\ queue = {}
  /\ ui' = "idle"
  /\ IF ui = "import" /\ snap[session] = Empty THEN Cleared ELSE UNCHANGED store
  /\ UNCHANGED <<snap, session, queue, acts, workVars>>

\* The process dies, its workers with it.  The next one points the store at a
\* fresh directory and may continue a session: initTaskStorage then returns
\* early, and the tasks are imported there.
Crash ==
  /\ Acts
  /\ \E d \in Fresh, old \in Sessions :
       /\ d # dir /\ dir' = d
       /\ \/ session' = d /\ ui' = "idle" /\ items' = Empty /\ nextID' = 1
             /\ queue' = {} /\ UNCHANGED disk
          \/ session' = old /\ ui' = "recover" /\ Import(snap[old], d)
  /\ mlock' = None
  /\ life' = [w \in Workers |-> IF life[w] = "none" THEN "none" ELSE "ended"]
  /\ track' = [w \in Workers |-> IF track[w] = "none" THEN "none" ELSE "up"]
  /\ report' = [w \in Workers |-> IF track[w] = "none" THEN "none" ELSE "done"]
  /\ UNCHANGED <<snap, hit, told>>

-----------------------------------------------------------------------------
Worker(w) ==
  \/ Unlock(w) \/ TrackCreate(w) \/ TrackBegin(w)
  \/ ReportFind(w) \/ ReportUpdate(w)

UI == Discard \/ Save \/ Point \/ Demote \/ Adopted \/ Restored

TrackerNext ==
  \/ Plan \/ Delete \/ Reload \/ UI
  \/ \E w \in Workers : Register(w) \/ Worker(w) \/ Finish(w)
  \/ TurnEnd \/ Clear \/ NewSession \/ Fork \/ Crash
  \/ \E d \in Sessions : Resume(d)

TrackerSpec == TrackerInit /\ [][TrackerNext]_trackerVars

\* A goroutine that has begun an operation finishes it unless a lock is held.
FairTrackerSpec == TrackerSpec /\ WF_trackerVars(UI) /\ \A w \in Workers : WF_trackerVars(Worker(w))
=============================================================================
