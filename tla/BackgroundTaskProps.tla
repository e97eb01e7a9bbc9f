------------------------ MODULE BackgroundTaskProps ------------------------
(* The properties of BackgroundTask. *)
EXTENDS BackgroundTask

\* Type invariant.
TypeOK ==
  /\ owner \in [Tasks -> OwnerPlaces]
  /\ run \in [Tasks -> {"none", "alive"} \cup BashEnds \cup AgentEnds]
  /\ ctx \in [Tasks -> BOOLEAN] /\ asked \in [Tasks -> BOOLEAN]
  /\ termed \in [Tasks -> BOOLEAN] /\ reaped \in [Tasks -> BOOLEAN]
  /\ wrote \in [Tasks -> Nat] /\ kept \in [Tasks -> Nat]
  /\ \A t \in Tasks : kept[t] <= wrote[t] /\ wrote[t] <= BoundWrites
  /\ status \in [Tasks -> Statuses]
  /\ file \in [Tasks -> Seq([event : {"output", "completed"}, chunks : Nat])]
  /\ created \in [Tasks -> BOOLEAN] /\ notices \in [Tasks -> Seq(Statuses)]
  /\ killer \in [Killers -> KillPlaces] /\ target \in [Killers -> Tasks]
  /\ toldBeforeEnd \in [Tasks -> BOOLEAN] /\ lateSignal \in BOOLEAN

\* finalize is the only way out of StatusRunning and the first to reach it
\* wins: however the run's end, its timeout and several kills race, a
\* verdict once given stands and is announced at most once, as it was given.
OneVerdict ==
  \A t \in Tasks :
    /\ Len(notices[t]) <= 1
    /\ \A i \in DOMAIN notices[t] : notices[t][i] = status[t] /\ status[t] # "running"

\* The tracker's entry is born before the task can be reported over: a
\* completion announced before the creation would be dropped for good.
CreatedFirst == \A t \in Tasks : notices[t] # <<>> => created[t]

\* A stop is not a failure: a command that received the stop's SIGTERM while
\* it lived is reported stopped or killed whatever it exits with.
StopIsNotFailure ==
  \A t \in BashTasks : toldBeforeEnd[t] => status[t] \in {"running", "stopped", "killed"}

\* A Kill that was accepted comes back only when the task is over.
KillSettles ==
  [][\A k \in Killers :
       killer[k] # "idle" /\ killer'[k] = "idle" => status'[target[k]] # "running"]_vars

\* A run that ended is announced, so its tracker entry is closed; and a command
\* does end, its timeout sees to it.
EndIsAnnounced ==
  /\ \A t \in Tasks : Ended(t) ~> notices[t] # <<>>
  /\ \A t \in BashTasks : created[t] ~> notices[t] # <<>>

\* AgentStop always gets its answer, however deaf the subagent.
KillReturns == \A k \in Killers : killer[k] # "idle" ~> killer[k] = "idle"

-----------------------------------------------------------------------------
(* What the code says of itself and does not keep. *)

\* MarkReaped: "after which Stop and Kill must not signal the raw PGID".
NoSignalOnceReaped == ~lateSignal

\* maxOutputBufferSize: "The full output is always on disk in OutputFile".
OutputIsWhole ==
  \A t \in BashTasks :
    notices[t] = <<"completed">> =>
      \E i \in DOMAIN file[t] : file[t][i].event = "output" /\ file[t][i].chunks = wrote[t]
=============================================================================
