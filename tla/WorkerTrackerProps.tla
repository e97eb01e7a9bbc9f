------------------------- MODULE WorkerTrackerProps -------------------------
(* The properties of WorkerTracker. *)
EXTENDS WorkerTracker

Lists == UNION {[S -> Items] : S \in SUBSET Ids}

\* Type invariant.
TrackerTypeOK ==
  /\ items \in Lists /\ nextID \in Ids \cup {BoundPlan + Cardinality(Workers) + 1}
  /\ dir \in Sessions \cup {None} /\ session \in Sessions \cup {None}
  /\ disk \in [Sessions -> Lists] /\ snap \in [Sessions -> Lists]
  /\ ui \in {"idle", "discard", "save", "point", "repoint", "forked"} \cup Adopting
  /\ queue \subseteq DOMAIN items /\ acts \in 0 .. BoundUI
  /\ mlock \in Workers \cup {None}
  /\ life \in [Workers -> {"none", "running", "ended"}]
  /\ track \in [Workers -> {"none", "registered", "track", "begin", "up"}]
  /\ report \in [Workers -> {"none", "find", "update", "done"}]
  /\ hit \in [Workers -> Ids \cup {0}] /\ told \subseteq Workers
  /\ \A i \in DOMAIN items : i < nextID

Claims(i) == items[i].status = "in_progress"

\* The worker behind item i runs, or its end is about to be reported.
Tended(i) ==
  LET w == items[i].task IN
  w # None /\ (life[w] = "running" \/ report[w] \in {"find", "update"})

AllTended == \A i \in DOMAIN items : Claims(i) => Tended(i)

\* Adopting a list, after a crash or in mid-session with workers that run and
\* end meanwhile, leaves no item claiming a worker that is gone.
AdoptedIsTended == [][ui' = "idle" /\ ui \in Adopting => AllTended']_trackerVars

\* What the tracker shows survives a crash: every item of the list is on disk
\* as it is in memory.
DiskHasTheList ==
  dir # None =>
    \A i \in DOMAIN items :
      items[i].status # "deleted" => i \in DOMAIN disk[dir] /\ disk[dir][i] = items[i]

\* Manager lock and store lock are taken in opposite orders by the creation
\* handler and by the adoption; neither ever waits for the other for good.
LocksAreFreed ==
  /\ \A w \in Workers : track[w] \notin {"none", "up"} ~> track[w] = "up"
  /\ \A w \in Workers : report[w] = "find" ~> report[w] = "done"
  /\ ui \in Adopting ~> ui \notin Adopting

-----------------------------------------------------------------------------
(* What the code says of itself and does not keep. *)

\* TrackWorker: the failure it avoids is an item that "names a background task
\* that already ended, so it sits in_progress for the whole session".
NoneStranded ==
  \A i \in DOMAIN items \ queue :
    Claims(i) /\ items[i].task # None => Tended(i)

\* OnTurnEnd: an item left open "is unfinished work, so the list survives the
\* turn and stays on screen".
ListSurvivesTurn ==
  [][ui = "repoint" /\ ui' = "readopt" =>
       \A i \in DOMAIN items : items[i].status \in {"pending", "in_progress"} => i \in DOMAIN items']_trackerVars

\* OnTurnEnd: "Only a list the model closed out is safe to discard".
DiscardsOnlyClosed == [][ui = "discard" /\ items' = Empty => AllMarkedCompleted]_trackerVars

\* StatusDetailInterrupted "marks a worker item whose background task died
\* without reporting a terminal status".
InterruptedMeansUnreported ==
  \A i \in DOMAIN items : items[i].detail = "interrupted" => items[i].task \notin told
=============================================================================
