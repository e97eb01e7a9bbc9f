------------------------ MODULE BackgroundWorkProofs ------------------------
(***************************************************************************)
(* Machine-checked proofs about work in the background, for any number of  *)
(* tasks, killers, workers, sessions and items: first of the safety        *)
(* properties of BackgroundTask, the tasks themselves, then of those of    *)
(* WorkerTracker, the list that mirrors them.                              *)
(***************************************************************************)
EXTENDS BackgroundTaskProps, WorkerTrackerProps, TLAPS

-----------------------------------------------------------------------------
(* The inductive invariant. *)

\* Where the owner of a task is tells what has become of its run.
RunInv(t) ==
  /\ (owner[t] = "unborn") <=> (run[t] = "none")
  /\ owner[t] \notin {"unborn", "registered"} => created[t]
  /\ owner[t] \notin {"unborn", "registered", "wait"} => Ended(t)
  /\ toldBeforeEnd[t] => asked[t] /\ Ended(t)

\* A task without a verdict is unannounced and its owner short of finalize's
\* second half; one with a verdict is announced as the verdict says, or not
\* yet.  While the run lives, only a killer can have given the verdict.
VerdictInv(t) ==
  /\ status[t] = "running" => notices[t] = <<>> /\ owner[t] \notin {"record", "notify", "over"}
  /\ status[t] # "running" => created[t]
  /\ notices[t] # <<>> => notices[t] = <<status[t]>>
  /\ owner[t] \in {"record", "notify"} => notices[t] = <<>>
  /\ status[t] \in {"running", "killed"} \/ Ended(t)
  /\ toldBeforeEnd[t] => status[t] \in {"running", "stopped", "killed"} \/ t \notin BashTasks

Won(k) == killer[k] \in {"record", "notify"}

\* Who wins the transition is alone with the task until it is announced.
KillerInv(k) ==
  /\ killer[k] # "idle" => created[target[k]]
  /\ Won(k) =>
       /\ status[target[k]] # "running"
       /\ notices[target[k]] = <<>>
       /\ owner[target[k]] \notin {"record", "notify"}
       /\ \A l \in Killers : Won(l) /\ target[l] = target[k] => l = k

IInv ==
  /\ TypeOK
  /\ \A t \in Tasks : RunInv(t)
  /\ \A t \in Tasks : VerdictInv(t)
  /\ \A k \in Killers : KillerInv(k)

USE BackgroundTaskAssumption

-----------------------------------------------------------------------------
(* Steps that keep the verdicts: what moves is one goroutine's place. *)

LEMMA InitInv == Init => IInv
<1> SUFFICES ASSUME Init PROVE IInv
  OBVIOUS
<1>1. TypeOK
  <2>1. /\ owner \in [Tasks -> OwnerPlaces] /\ run \in [Tasks -> {"none", "alive"} \cup BashEnds \cup AgentEnds]
        /\ status \in [Tasks -> Statuses]
        /\ killer \in [Killers -> KillPlaces] /\ target \in [Killers -> Tasks]
    BY DEF Init, OwnerPlaces, KillPlaces, Statuses
  <2>2. /\ ctx \in [Tasks -> BOOLEAN] /\ asked \in [Tasks -> BOOLEAN] /\ termed \in [Tasks -> BOOLEAN]
        /\ reaped \in [Tasks -> BOOLEAN] /\ created \in [Tasks -> BOOLEAN]
        /\ toldBeforeEnd \in [Tasks -> BOOLEAN] /\ lateSignal \in BOOLEAN
    BY DEF Init
  <2>3. /\ wrote \in [Tasks -> Nat] /\ kept \in [Tasks -> Nat]
        /\ \A t \in Tasks : kept[t] <= wrote[t] /\ wrote[t] <= BoundWrites
    BY DEF Init
  <2>4. /\ file \in [Tasks -> Seq([event : {"output", "completed"}, chunks : Nat])]
        /\ notices \in [Tasks -> Seq(Statuses)]
    BY DEF Init
  <2>5. QED
    BY <2>1, <2>2, <2>3, <2>4 DEF TypeOK
<1>2. \A t \in Tasks : RunInv(t) /\ VerdictInv(t)
  BY DEF Init, RunInv, VerdictInv
<1>3. \A k \in Killers : KillerInv(k)
  BY DEF Init, KillerInv, Won
<1>4. QED
  BY <1>1, <1>2, <1>3 DEF IInv

\* The run's side: no verdict, no place changes.
LEMMA RunFrame ==
  ASSUME IInv, TypeOK',
         UNCHANGED <<owner, run, asked, status, created, notices, killer, target, toldBeforeEnd>>
  PROVE  IInv'
<1>1. \A t \in Tasks : RunInv(t)' /\ VerdictInv(t)'
  BY DEF IInv, RunInv, VerdictInv, Ended
<1>2. \A k \in Killers : KillerInv(k)'
  BY DEF IInv, KillerInv, Won
<1>3. QED
  BY <1>1, <1>2 DEF IInv

\* The owner goes on, short of finalize or past its verdict.
LEMMA OwnerFrame ==
  ASSUME IInv, TypeOK', NEW t \in Tasks, NEW place \in OwnerPlaces, OwnerTo(t, place),
         owner[t] \notin {"unborn", "registered"}, Ended(t),
         \/ place \in {"mark", "drain", "append", "complete"}
         \/ owner[t] = "record" /\ place = "notify"
         \/ status[t] # "running" /\ place = "over",
         UNCHANGED <<run, asked, status, created, notices, killer, target, toldBeforeEnd>>
  PROVE  IInv'
<1>1. owner' = [owner EXCEPT ![t] = place] /\ owner \in [Tasks -> OwnerPlaces]
  BY DEF OwnerTo, IInv, TypeOK
<1>2. \A u \in Tasks : RunInv(u)'
  BY <1>1 DEF IInv, RunInv, Ended
<1>3. \A u \in Tasks : VerdictInv(u)'
  BY <1>1 DEF IInv, VerdictInv, Ended
<1>4. ASSUME NEW k \in Killers PROVE KillerInv(k)'
  <2>1. target[k] \in Tasks /\ KillerInv(k)
    BY DEF IInv, TypeOK
  <2>2. owner'[target[k]] \in {"record", "notify"} => owner[target[k]] \in {"record", "notify"}
    BY <1>1, <2>1
  <2>3. QED
    BY <2>1, <2>2 DEF KillerInv, Won
<1>5. QED
  BY <1>2, <1>3, <1>4 DEF IInv

\* A killer goes on without winning.
LEMMA KillerFrame ==
  ASSUME IInv, TypeOK', NEW k \in Killers, NEW place \in KillPlaces \ {"record", "notify"},
         KillerTo(k, place), killer[k] # "idle", \A t \in Tasks : asked[t] => asked'[t],
         UNCHANGED <<owner, run, status, created, notices, toldBeforeEnd>>
  PROVE  IInv'
<1>1. killer' = [killer EXCEPT ![k] = place] /\ target' = target /\ killer \in [Killers -> KillPlaces]
  BY DEF KillerTo, IInv, TypeOK
<1>2. \A t \in Tasks : RunInv(t)'
  BY DEF IInv, RunInv, Ended
<1>3. \A t \in Tasks : VerdictInv(t)'
  BY DEF IInv, VerdictInv, Ended
<1>4. \A l \in Killers : Won(l)' => Won(l)
  BY <1>1 DEF Won
<1>5. ASSUME NEW l \in Killers PROVE KillerInv(l)'
  <2>1. killer'[l] # "idle" => killer[l] # "idle"
    BY <1>1
  <2>2. KillerInv(l) /\ target[l] \in Tasks
    BY DEF IInv, TypeOK
  <2>3. QED
    BY <1>1, <1>4, <2>1, <2>2 DEF KillerInv
<1>6. QED
  BY <1>2, <1>3, <1>5 DEF IInv

-----------------------------------------------------------------------------
(* The run. *)

LEMMA WriteInv == ASSUME IInv, NEW t \in Tasks, Write(t) PROVE IInv'
<1>1. TypeOK'
  BY DEF IInv, TypeOK, Write, outVars, killVars, hist
<1>2. QED
  BY <1>1, RunFrame DEF Write, outVars, killVars, hist

LEMMA CopyInv == ASSUME IInv, NEW t \in Tasks, Copy(t) PROVE IInv'
<1>1. TypeOK'
  BY DEF IInv, TypeOK, Copy, outVars, killVars, hist
<1>2. QED
  BY <1>1, RunFrame DEF Copy, outVars, killVars, hist

LEMMA TimeOutInv == ASSUME IInv, NEW t \in Tasks, TimeOut(t) PROVE IInv'
<1>1. TypeOK'
  BY DEF IInv, TypeOK, TimeOut, outVars, killVars, hist
<1>2. QED
  BY <1>1, RunFrame DEF TimeOut, outVars, killVars, hist

LEMMA GroupTermInv == ASSUME IInv, NEW t \in Tasks, GroupTerm(t) PROVE IInv'
<1>1. TypeOK'
  BY DEF IInv, TypeOK, GroupTerm, outVars, killVars, hist
<1>2. QED
  BY <1>1, RunFrame DEF GroupTerm, outVars, killVars, hist

\* A run that lives has no verdict but a killer's, whatever it ends with.
LEMMA EndInv ==
  ASSUME IInv, NEW t \in Tasks, NEW how \in BashEnds \cup AgentEnds, End(t, how)
  PROVE  IInv'
<1>1. /\ run' = [run EXCEPT ![t] = how] /\ run[t] = "alive" /\ how \notin {"none", "alive"}
      /\ toldBeforeEnd' = [toldBeforeEnd EXCEPT ![t] = asked[t] /\ termed[t]]
      /\ UNCHANGED <<owner, asked, status, created, notices, killer, target>>
  BY DEF End, outVars, killVars, BashEnds, AgentEnds
<1>2. TypeOK'
  BY DEF IInv, TypeOK, End, outVars, killVars
<1>3. \A u \in Tasks : Ended(u) => Ended(u)'
  BY <1>1 DEF IInv, TypeOK, Ended
<1>4. Ended(t)' /\ ~Ended(t) /\ (toldBeforeEnd'[t] => asked[t])
  BY <1>1 DEF IInv, TypeOK, Ended
<1>5. \A u \in Tasks \ {t} : run'[u] = run[u] /\ toldBeforeEnd'[u] = toldBeforeEnd[u]
  BY <1>1 DEF IInv, TypeOK
<1>6. ASSUME NEW u \in Tasks PROVE RunInv(u)'
  <2>1. CASE u = t
    BY <1>1, <1>4, <2>1 DEF IInv, RunInv, Ended, TypeOK
  <2>2. CASE u # t
    BY <1>1, <1>3, <1>5, <2>2 DEF IInv, RunInv
  <2>3. QED
    BY <2>1, <2>2
<1>7. ASSUME NEW u \in Tasks PROVE VerdictInv(u)'
  <2>1. CASE u = t
    BY <1>1, <1>4, <2>1 DEF IInv, VerdictInv
  <2>2. CASE u # t
    BY <1>1, <1>3, <1>5, <2>2 DEF IInv, VerdictInv
  <2>3. QED
    BY <2>1, <2>2
<1>8. \A k \in Killers : KillerInv(k)'
  BY <1>1 DEF IInv, KillerInv, Won
<1>9. QED
  BY <1>2, <1>6, <1>7, <1>8 DEF IInv

-----------------------------------------------------------------------------
(* The launcher and the owning goroutine. *)

LEMMA LaunchInv == ASSUME IInv, NEW t \in Tasks, Launch(t) PROVE IInv'
<1>1. /\ owner[t] = "unborn" /\ owner' = [owner EXCEPT ![t] = "registered"]
      /\ run' = [run EXCEPT ![t] = "alive"]
      /\ UNCHANGED <<asked, status, created, notices, killer, target, toldBeforeEnd>>
  BY DEF Launch, OwnerTo, outVars, killVars, hist
<1>2. TypeOK'
  BY <1>1 DEF IInv, TypeOK, Launch, outVars, killVars, hist, OwnerPlaces
<1>3. run[t] = "none" /\ ~Ended(t)
  BY <1>1 DEF IInv, RunInv, Ended
<1>4. \A u \in Tasks \ {t} : owner'[u] = owner[u] /\ run'[u] = run[u]
  BY <1>1 DEF IInv, TypeOK
<1>5. owner'[t] = "registered" /\ run'[t] = "alive"
  BY <1>1 DEF IInv, TypeOK
<1>6. \A u \in Tasks : RunInv(u)'
  BY <1>1, <1>3, <1>4, <1>5 DEF IInv, RunInv, Ended
<1>7. \A u \in Tasks : VerdictInv(u)'
  BY <1>1, <1>3, <1>4, <1>5 DEF IInv, VerdictInv, Ended
<1>8. ASSUME NEW k \in Killers PROVE KillerInv(k)'
  <2>1. target[k] \in Tasks /\ KillerInv(k)
    BY DEF IInv, TypeOK
  <2>2. QED
    BY <1>1, <1>4, <1>5, <2>1 DEF KillerInv, Won
<1>9. QED
  BY <1>2, <1>6, <1>7, <1>8 DEF IInv

LEMMA AnnounceInv == ASSUME IInv, NEW t \in Tasks, Announce(t) PROVE IInv'
<1>1. /\ owner[t] = "registered" /\ owner' = [owner EXCEPT ![t] = "wait"]
      /\ created' = [created EXCEPT ![t] = TRUE]
      /\ UNCHANGED <<run, asked, status, notices, killer, target, toldBeforeEnd>>
  BY DEF Announce, OwnerTo, killVars, hist
<1>2. TypeOK'
  BY <1>1 DEF IInv, TypeOK, Announce, killVars, hist, OwnerPlaces
<1>3. \A u \in Tasks \ {t} : owner'[u] = owner[u] /\ created'[u] = created[u]
  BY <1>1 DEF IInv, TypeOK
<1>4. owner'[t] = "wait" /\ created'[t]
  BY <1>1 DEF IInv, TypeOK
<1>5. \A u \in Tasks : RunInv(u)'
  BY <1>1, <1>3, <1>4 DEF IInv, RunInv, Ended
<1>6. \A u \in Tasks : VerdictInv(u)'
  BY <1>1, <1>3, <1>4 DEF IInv, VerdictInv, Ended
<1>7. ASSUME NEW k \in Killers PROVE KillerInv(k)'
  <2>1. target[k] \in Tasks /\ KillerInv(k)
    BY DEF IInv, TypeOK
  <2>2. QED
    BY <1>1, <1>3, <1>4, <2>1 DEF KillerInv, Won
<1>8. QED
  BY <1>2, <1>5, <1>6, <1>7 DEF IInv

LEMMA WaitInv == ASSUME IInv, NEW t \in Tasks, Wait(t) PROVE IInv'
<1>1. TypeOK'
  BY DEF IInv, TypeOK, Wait, OwnerTo, outVars, killVars, hist, OwnerPlaces
<1>2. PICK place \in {"mark", "append"} : OwnerTo(t, place)
  BY DEF Wait
<1>3. QED
  BY <1>1, <1>2, OwnerFrame DEF Wait, outVars, killVars, hist, OwnerPlaces

\* An owner past its wait is one of an ended run.
LEMMA PastWait ==
  ASSUME IInv, NEW t \in Tasks, owner[t] \notin {"unborn", "registered", "wait"}
  PROVE  Ended(t)
BY DEF IInv, RunInv

LEMMA MarkReapedInv == ASSUME IInv, NEW t \in Tasks, MarkReaped(t) PROVE IInv'
<1>1. TypeOK'
  BY DEF IInv, TypeOK, MarkReaped, OwnerTo, outVars, killVars, hist, OwnerPlaces
<1>2. QED
  BY <1>1, PastWait, OwnerFrame DEF MarkReaped, outVars, killVars, hist, OwnerPlaces

LEMMA DrainInv == ASSUME IInv, NEW t \in Tasks, Drain(t) PROVE IInv'
<1>1. TypeOK'
  BY DEF IInv, TypeOK, Drain, OwnerTo, outVars, killVars, hist, OwnerPlaces
<1>2. QED
  BY <1>1, PastWait, OwnerFrame DEF Drain, outVars, killVars, hist, OwnerPlaces

\* One more record of the output file.
LEMMA LogType ==
  ASSUME TypeOK, NEW t \in Tasks, NEW event \in {"output", "completed"}, NEW n \in Nat,
         Log(t, event, n)
  PROVE  file' \in [Tasks -> Seq([event : {"output", "completed"}, chunks : Nat])]
<1>1. file[t] \in Seq([event : {"output", "completed"}, chunks : Nat])
  BY DEF TypeOK
<1>2. Append(file[t], [event |-> event, chunks |-> n])
        \in Seq([event : {"output", "completed"}, chunks : Nat])
  BY <1>1
<1>3. QED
  BY <1>2 DEF TypeOK, Log

LEMMA AppendOutputInv == ASSUME IInv, NEW t \in Tasks, AppendOutput(t) PROVE IInv'
<1>1. file' \in [Tasks -> Seq([event : {"output", "completed"}, chunks : Nat])]
  BY LogType DEF IInv, TypeOK, AppendOutput
<1>2. TypeOK'
  BY <1>1 DEF IInv, TypeOK, AppendOutput, OwnerTo, killVars, hist, OwnerPlaces
<1>3. QED
  BY <1>2, PastWait, OwnerFrame DEF AppendOutput, killVars, hist, OwnerPlaces

\* A command told to stop while it lived is classified as stopped.
LEMMA ClassifyType ==
  ASSUME NEW t \in Tasks
  PROVE  /\ Classify(t) \subseteq {"completed", "failed", "stopped"}
         /\ t \in BashTasks /\ asked[t] => Classify(t) = {"stopped"}
<1>1. CASE t \in BashTasks
  <2>1. CASE asked[t] \/ run[t] = "TERM"
    BY <1>1, <2>1 DEF Classify
  <2>2. CASE ~(asked[t] \/ run[t] = "TERM")
    BY <1>1, <2>2 DEF Classify
  <2>3. QED
    BY <2>1, <2>2
<1>2. CASE t \notin BashTasks
  BY <1>2 DEF Classify
<1>3. QED
  BY <1>1, <1>2

LEMMA CompleteInv == ASSUME IInv, NEW t \in Tasks, Complete(t) PROVE IInv'
<1>1. /\ owner[t] = "complete" /\ Ended(t)
      /\ UNCHANGED <<run, ctx, asked, termed, reaped, wrote, kept, file, created, notices, killer,
                     target, toldBeforeEnd, lateSignal>>
  BY PastWait DEF Complete, killVars, hist
<1>2. CASE ~Wins(t)
  <2>1. status' = status /\ OwnerTo(t, "over") /\ status[t] # "running"
    BY <1>2 DEF Complete, Wins
  <2>2. TypeOK'
    BY <1>1, <2>1 DEF IInv, TypeOK, OwnerTo, OwnerPlaces
  <2>3. QED
    BY <1>1, <2>1, <2>2, OwnerFrame DEF OwnerPlaces
<1>3. CASE Wins(t)
  <2>1. PICK st \in Classify(t) : status' = [status EXCEPT ![t] = st]
    BY <1>3 DEF Complete, Verdict
  <2>2. /\ st \in {"completed", "failed", "stopped"}
        /\ t \in BashTasks /\ asked[t] => st = "stopped"
    BY <2>1, ClassifyType
  <2>3. owner' = [owner EXCEPT ![t] = "record"] /\ status[t] = "running"
    BY <1>3 DEF Complete, OwnerTo, Wins
  <2>4. TypeOK'
    BY <1>1, <2>1, <2>2, <2>3 DEF IInv, TypeOK, OwnerPlaces, Statuses
  <2>5. /\ owner'[t] = "record" /\ status'[t] = st
        /\ \A u \in Tasks \ {t} : owner'[u] = owner[u] /\ status'[u] = status[u]
    BY <2>1, <2>3 DEF IInv, TypeOK
  <2>6. \A u \in Tasks : RunInv(u)'
    BY <1>1, <2>5 DEF IInv, RunInv, Ended
  <2>7. ASSUME NEW u \in Tasks PROVE VerdictInv(u)'
    <3>1. CASE u = t
      BY <1>1, <2>2, <2>3, <2>5, <3>1 DEF IInv, VerdictInv, RunInv, Ended
    <3>2. CASE u # t
      BY <1>1, <2>5, <3>2 DEF IInv, VerdictInv, Ended
    <3>3. QED
      BY <3>1, <3>2
  <2>8. ASSUME NEW k \in Killers PROVE KillerInv(k)'
    <3>1. target[k] \in Tasks /\ KillerInv(k)
      BY DEF IInv, TypeOK
    <3>2. Won(k) => target[k] # t
      BY <2>3, <3>1 DEF KillerInv
    <3>3. QED
      BY <1>1, <2>5, <3>1, <3>2 DEF KillerInv, Won
  <2>9. QED
    BY <2>4, <2>6, <2>7, <2>8 DEF IInv
<1>4. QED
  BY <1>2, <1>3

LEMMA RecordInv == ASSUME IInv, NEW t \in Tasks, Record(t) PROVE IInv'
<1>1. file' \in [Tasks -> Seq([event : {"output", "completed"}, chunks : Nat])]
  BY LogType DEF IInv, Record
<1>2. TypeOK'
  BY <1>1 DEF IInv, TypeOK, Record, OwnerTo, killVars, hist, OwnerPlaces
<1>3. QED
  BY <1>2, PastWait, OwnerFrame DEF Record, killVars, hist, OwnerPlaces

\* The one announcement: the list of notices goes from empty to the verdict.
LEMMA NotifyList ==
  ASSUME IInv, NEW t \in Tasks, notices[t] = <<>>, NotifyCompleted(t)
  PROVE  /\ notices' \in [Tasks -> Seq(Statuses)]
         /\ notices'[t] = <<status[t]>>
         /\ \A u \in Tasks \ {t} : notices'[u] = notices[u]
<1>1. notices \in [Tasks -> Seq(Statuses)] /\ status[t] \in Statuses
  BY DEF IInv, TypeOK
<1>2. Append(notices[t], status[t]) = <<status[t]>> /\ <<status[t]>> \in Seq(Statuses)
  BY <1>1
<1>3. notices' = [notices EXCEPT ![t] = <<status[t]>>]
  BY <1>2 DEF NotifyCompleted
<1>4. QED
  BY <1>1, <1>2, <1>3

LEMMA NotifyInv == ASSUME IInv, NEW t \in Tasks, Notify(t) PROVE IInv'
<1>1. /\ owner[t] = "notify" /\ Ended(t)
      /\ UNCHANGED <<run, asked, status, created, killer, target, toldBeforeEnd>>
  BY PastWait DEF Notify, killVars, hist
<1>2. notices[t] = <<>> /\ status[t] # "running"
  BY <1>1 DEF IInv, VerdictInv
<1>3. /\ notices' \in [Tasks -> Seq(Statuses)] /\ notices'[t] = <<status[t]>>
      /\ \A u \in Tasks \ {t} : notices'[u] = notices[u]
  BY <1>2, NotifyList DEF Notify
<1>4. TypeOK'
  BY <1>3 DEF IInv, TypeOK, Notify, OwnerTo, killVars, hist, OwnerPlaces
<1>5. owner'[t] = "over" /\ \A u \in Tasks \ {t} : owner'[u] = owner[u]
  BY DEF Notify, OwnerTo, IInv, TypeOK
<1>6. \A u \in Tasks : RunInv(u)'
  BY <1>1, <1>5 DEF IInv, RunInv, Ended
<1>7. ASSUME NEW u \in Tasks PROVE VerdictInv(u)'
  <2>1. CASE u = t
    BY <1>1, <1>2, <1>3, <1>5, <2>1 DEF IInv, VerdictInv, Ended
  <2>2. CASE u # t
    BY <1>1, <1>3, <1>5, <2>2 DEF IInv, VerdictInv, Ended
  <2>3. QED
    BY <2>1, <2>2
<1>8. ASSUME NEW k \in Killers PROVE KillerInv(k)'
  <2>1. target[k] \in Tasks /\ KillerInv(k)
    BY DEF IInv, TypeOK
  <2>2. Won(k) => target[k] # t
    BY <1>1, <2>1 DEF KillerInv
  <2>3. QED
    BY <1>1, <1>3, <1>5, <2>1, <2>2 DEF KillerInv, Won
<1>9. QED
  BY <1>4, <1>6, <1>7, <1>8 DEF IInv

-----------------------------------------------------------------------------
(* Manager.Kill. *)

LEMMA KillInv == ASSUME IInv, NEW k \in Killers, NEW t \in Tasks, Kill(k, t) PROVE IInv'
<1>1. /\ killer[k] = "idle" /\ created[t]
      /\ killer' = [killer EXCEPT ![k] = "stop"] /\ target' = [target EXCEPT ![k] = t]
      /\ UNCHANGED <<owner, run, asked, status, created, notices, toldBeforeEnd>>
  BY DEF Kill, taskVars, outVars, hist
<1>2. TypeOK'
  BY <1>1 DEF IInv, TypeOK, Kill, taskVars, outVars, hist, KillPlaces
<1>3. /\ killer'[k] = "stop" /\ target'[k] = t
      /\ \A l \in Killers \ {k} : killer'[l] = killer[l] /\ target'[l] = target[l]
  BY <1>1 DEF IInv, TypeOK
<1>4. \A u \in Tasks : RunInv(u)' /\ VerdictInv(u)'
  BY <1>1 DEF IInv, RunInv, VerdictInv, Ended
<1>5. ASSUME NEW l \in Killers PROVE KillerInv(l)'
  <2>1. CASE l = k
    BY <1>1, <1>3, <2>1 DEF KillerInv, Won
  <2>2. CASE l # k
    BY <1>1, <1>3, <2>2 DEF IInv, KillerInv, Won
  <2>3. QED
    BY <2>1, <2>2
<1>6. QED
  BY <1>2, <1>4, <1>5 DEF IInv

LEMMA StopInv == ASSUME IInv, NEW k \in Killers, Stop(k) PROVE IInv'
<1>1. target[k] \in Tasks /\ asked \in [Tasks -> BOOLEAN]
  BY DEF IInv, TypeOK
<1>2. PICK place \in {"grace", "signal"} : KillerTo(k, place)
  BY DEF Stop
<1>3. TypeOK'
  BY <1>1, <1>2 DEF IInv, TypeOK, Stop, KillerTo, outVars, hist, KillPlaces
<1>4. \A t \in Tasks : asked[t] => asked'[t]
  BY <1>1 DEF Stop
<1>5. QED
  BY <1>2, <1>3, <1>4, KillerFrame DEF Stop, outVars, hist, KillPlaces

LEMMA SignalInv == ASSUME IInv, NEW k \in Killers, Signal(k) PROVE IInv'
<1>1. target[k] \in Tasks /\ termed \in [Tasks -> BOOLEAN]
  BY DEF IInv, TypeOK
<1>2. PICK place \in {"grace", "force"} : KillerTo(k, place)
  BY DEF Signal
<1>3. TypeOK'
  BY <1>1, <1>2 DEF IInv, TypeOK, Signal, KillerTo, outVars, KillPlaces
<1>4. QED
  BY <1>2, <1>3, KillerFrame DEF Signal, outVars, KillPlaces

LEMMA TickInv == ASSUME IInv, NEW k \in Killers, Tick(k) PROVE IInv'
<1>1. TypeOK'
  BY DEF IInv, TypeOK, Tick, KillerTo, taskVars, outVars, hist, KillPlaces
<1>2. QED
  BY <1>1, KillerFrame DEF Tick, taskVars, outVars, hist, KillPlaces

LEMMA EscalateInv == ASSUME IInv, NEW k \in Killers, Escalate(k) PROVE IInv'
<1>1. TypeOK'
  BY DEF IInv, TypeOK, Escalate, KillerTo, taskVars, outVars, hist, KillPlaces
<1>2. QED
  BY <1>1, KillerFrame DEF Escalate, taskVars, outVars, hist, KillPlaces

LEMMA ForceInv == ASSUME IInv, NEW k \in Killers, ForceKill(k) PROVE IInv'
<1>1. TypeOK'
  BY DEF IInv, TypeOK, ForceKill, KillerTo, outVars, hist, KillPlaces
<1>2. QED
  BY <1>1, KillerFrame DEF ForceKill, outVars, hist, KillPlaces

LEMMA MarkKilledInv == ASSUME IInv, NEW k \in Killers, MarkKilled(k) PROVE IInv'
<1> DEFINE t == target[k]
<1>1. /\ killer[k] = "verdict" /\ t \in Tasks /\ created[t]
      /\ UNCHANGED <<owner, run, ctx, asked, termed, reaped, wrote, kept, file, created, notices,
                     toldBeforeEnd, lateSignal>>
  BY DEF MarkKilled, taskVars, hist, IInv, TypeOK, KillerInv
<1>2. CASE ~Wins(t)
  <2>1. status' = status /\ KillerTo(k, "idle")
    BY <1>2 DEF MarkKilled
  <2>2. TypeOK'
    BY <1>1, <2>1 DEF IInv, TypeOK, KillerTo, KillPlaces
  <2>3. QED
    BY <1>1, <2>1, <2>2, KillerFrame DEF KillPlaces
<1>3. CASE Wins(t)
  <2>1. /\ status' = [status EXCEPT ![t] = "killed"] /\ status[t] = "running"
        /\ killer' = [killer EXCEPT ![k] = "record"] /\ target' = target
    BY <1>3 DEF MarkKilled, Verdict, Wins, KillerTo
  <2>2. TypeOK'
    BY <1>1, <2>1 DEF IInv, TypeOK, KillPlaces, Statuses
  <2>3. status'[t] = "killed" /\ \A u \in Tasks \ {t} : status'[u] = status[u]
    BY <1>1, <2>1 DEF IInv, TypeOK
  <2>4. \A u \in Tasks : RunInv(u)'
    BY <1>1 DEF IInv, RunInv, Ended
  <2>5. ASSUME NEW u \in Tasks PROVE VerdictInv(u)'
    <3>1. CASE u = t
      BY <1>1, <2>1, <2>3, <3>1 DEF IInv, VerdictInv
    <3>2. CASE u # t
      BY <1>1, <2>3, <3>2 DEF IInv, VerdictInv, Ended
    <3>3. QED
      BY <3>1, <3>2
  <2>6. \A l \in Killers : Won(l) => target[l] # t
    BY <2>1 DEF IInv, KillerInv
  <2>7. killer'[k] = "record" /\ \A l \in Killers \ {k} : killer'[l] = killer[l]
    BY <2>1 DEF IInv, TypeOK
  <2>8. ASSUME NEW l \in Killers PROVE KillerInv(l)'
    <3>1. target[l] \in Tasks /\ KillerInv(l)
      BY DEF IInv, TypeOK
    <3>2. CASE l = k
      <4>1. notices[t] = <<>> /\ owner[t] \notin {"record", "notify"}
        BY <1>1, <2>1 DEF IInv, VerdictInv
      <4>2. \A m \in Killers \ {k} : Won(m)' => target[m] # t
        BY <2>6, <2>7 DEF Won
      <4>3. QED
        BY <1>1, <2>1, <2>3, <3>2, <4>1, <4>2 DEF KillerInv
    <3>3. CASE l # k
      <4>1. Won(l)' => Won(l) /\ target[l] # t
        BY <2>6, <2>7, <3>3 DEF Won
      <4>2. \A m \in Killers : Won(m)' /\ target[m] = target[l] /\ Won(l)' => m = l
        BY <2>1, <2>7, <3>1, <4>1 DEF KillerInv, Won
      <4>3. QED
        BY <1>1, <2>1, <2>3, <2>7, <3>1, <3>3, <4>1, <4>2 DEF KillerInv
    <3>4. QED
      BY <3>2, <3>3
  <2>9. QED
    BY <2>2, <2>4, <2>5, <2>8 DEF IInv
<1>4. QED
  BY <1>2, <1>3

LEMMA KillRecordInv == ASSUME IInv, NEW k \in Killers, KillRecord(k) PROVE IInv'
<1>1. /\ killer[k] = "record" /\ killer' = [killer EXCEPT ![k] = "notify"]
      /\ UNCHANGED <<owner, run, asked, status, created, notices, target, toldBeforeEnd>>
  BY DEF KillRecord, KillerTo, taskVars, hist
<1>2. file' \in [Tasks -> Seq([event : {"output", "completed"}, chunks : Nat])]
  BY LogType DEF IInv, TypeOK, KillRecord
<1>3. TypeOK'
  BY <1>1, <1>2 DEF IInv, TypeOK, KillRecord, taskVars, hist, KillPlaces
<1>4. \A t \in Tasks : RunInv(t)' /\ VerdictInv(t)'
  BY <1>1 DEF IInv, RunInv, VerdictInv, Ended
<1>5. \A l \in Killers : Won(l)' <=> Won(l)
  BY <1>1 DEF Won, IInv, TypeOK
<1>6. \A l \in Killers : killer'[l] # "idle" => killer[l] # "idle"
  BY <1>1 DEF IInv, TypeOK
<1>7. \A l \in Killers : KillerInv(l)'
  BY <1>1, <1>5, <1>6 DEF IInv, KillerInv
<1>8. QED
  BY <1>3, <1>4, <1>7 DEF IInv

LEMMA KillNotifyInv == ASSUME IInv, NEW k \in Killers, KillNotify(k) PROVE IInv'
<1> DEFINE t == target[k]
<1>1. /\ killer[k] = "notify" /\ killer' = [killer EXCEPT ![k] = "idle"] /\ t \in Tasks
      /\ UNCHANGED <<owner, run, asked, status, created, target, toldBeforeEnd>>
  BY DEF KillNotify, KillerTo, taskVars, hist, IInv, TypeOK
<1>2. /\ notices[t] = <<>> /\ status[t] # "running" /\ owner[t] \notin {"record", "notify"}
      /\ \A l \in Killers \ {k} : Won(l) => target[l] # t
  BY <1>1 DEF IInv, KillerInv, Won
<1>3. /\ notices' \in [Tasks -> Seq(Statuses)] /\ notices'[t] = <<status[t]>>
      /\ \A u \in Tasks \ {t} : notices'[u] = notices[u]
  BY <1>1, <1>2, NotifyList DEF KillNotify
<1>4. TypeOK'
  BY <1>1, <1>3 DEF IInv, TypeOK, KillNotify, taskVars, hist, KillPlaces
<1>5. \A u \in Tasks : RunInv(u)'
  BY <1>1 DEF IInv, RunInv, Ended
<1>6. ASSUME NEW u \in Tasks PROVE VerdictInv(u)'
  <2>1. CASE u = t
    BY <1>1, <1>2, <1>3, <2>1 DEF IInv, VerdictInv, Ended
  <2>2. CASE u # t
    BY <1>1, <1>3, <2>2 DEF IInv, VerdictInv, Ended
  <2>3. QED
    BY <2>1, <2>2
<1>7. killer'[k] = "idle" /\ \A l \in Killers \ {k} : killer'[l] = killer[l]
  BY <1>1 DEF IInv, TypeOK
<1>8. ASSUME NEW l \in Killers PROVE KillerInv(l)'
  <2>1. target[l] \in Tasks /\ KillerInv(l)
    BY DEF IInv, TypeOK
  <2>2. CASE l = k
    BY <1>7, <2>2 DEF KillerInv, Won
  <2>3. CASE l # k
    <3>1. \A m \in Killers : Won(m)' => Won(m)
      BY <1>7 DEF Won
    <3>2. killer'[l] = killer[l] /\ (Won(l) => notices'[target[l]] = notices[target[l]])
      BY <1>2, <1>3, <1>7, <2>1, <2>3
    <3>3. QED
      BY <1>1, <2>1, <3>1, <3>2 DEF KillerInv
  <2>4. QED
    BY <2>2, <2>3
<1>9. QED
  BY <1>4, <1>5, <1>6, <1>8 DEF IInv

-----------------------------------------------------------------------------
LEMMA NextInv == IInv /\ [Next]_vars => IInv'
<1> SUFFICES ASSUME IInv, [Next]_vars PROVE IInv'
  OBVIOUS
<1>1. CASE UNCHANGED vars
  <2>1. TypeOK'
    BY <1>1 DEF IInv, TypeOK, vars, taskVars, outVars, killVars, hist
  <2>2. QED
    BY <1>1, <2>1, RunFrame DEF vars, taskVars, outVars, killVars, hist
<1>2. ASSUME NEW t \in Tasks, Launch(t) \/ OwnerStep(t) PROVE IInv'
  BY <1>2, LaunchInv, AnnounceInv, WaitInv, MarkReapedInv, DrainInv, AppendOutputInv,
     CompleteInv, RecordInv, NotifyInv DEF OwnerStep
<1>3. ASSUME NEW t \in Tasks, RunStep(t) PROVE IInv'
  BY <1>3, WriteInv, CopyInv, TimeOutInv, GroupTermInv, EndInv DEF RunStep
<1>4. ASSUME NEW k \in Killers, KillerStep(k) PROVE IInv'
  BY <1>4, StopInv, SignalInv, TickInv, EscalateInv, ForceInv, MarkKilledInv, KillRecordInv,
     KillNotifyInv DEF KillerStep
<1>5. ASSUME NEW k \in Killers, NEW t \in Tasks, Kill(k, t) PROVE IInv'
  BY <1>5, KillInv
<1>6. QED
  BY <1>1, <1>2, <1>3, <1>4, <1>5 DEF Next

LEMMA Inductive == Spec => []IInv
BY InitInv, NextInv, PTL DEF Spec

-----------------------------------------------------------------------------
(* The theorems. *)

\* Every variable has its type, however many tasks and killers there are.
THEOREM TypeCorrect == Spec => []TypeOK
<1>1. IInv => TypeOK
  BY DEF IInv
<1>2. QED
  BY <1>1, Inductive, PTL

\* For any number of killers racing a task's end: one verdict, announced at
\* most once and as it was given (finalize, notifyTaskCompleted).
THEOREM OneVerdictHolds == Spec => []OneVerdict
<1>1. IInv => OneVerdict
  <2> SUFFICES ASSUME IInv, NEW t \in Tasks
               PROVE  /\ Len(notices[t]) <= 1
                      /\ \A i \in DOMAIN notices[t] :
                           notices[t][i] = status[t] /\ status[t] # "running"
    BY DEF OneVerdict
  <2>1. CASE notices[t] = <<>>
    BY <2>1
  <2>2. CASE notices[t] # <<>>
    <3>1. notices[t] = <<status[t]>> /\ status[t] # "running"
      BY <2>2 DEF IInv, VerdictInv
    <3>2. QED
      BY <3>1
  <2>3. QED
    BY <2>1, <2>2
<1>2. QED
  BY <1>1, Inductive, PTL

\* No completion is announced before the creation (CreateBashTask and
\* RegisterTask notify before they start the goroutine that waits).
THEOREM CreationComesFirst == Spec => []CreatedFirst
<1>1. IInv => CreatedFirst
  BY DEF IInv, VerdictInv, CreatedFirst
<1>2. QED
  BY <1>1, Inductive, PTL

\* A command told to stop while it lived is never reported failed or
\* completed, whatever it exits with.
THEOREM StopHolds == Spec => []StopIsNotFailure
<1>1. IInv => StopIsNotFailure
  BY DEF IInv, VerdictInv, StopIsNotFailure, Tasks
<1>2. QED
  BY <1>1, Inductive, PTL

\* Manager.Kill comes back only when its task is over.
THEOREM KillComesBackSettled == Spec => KillSettles
<1> DEFINE P == \A k \in Killers :
                  killer[k] # "idle" /\ killer'[k] = "idle" => status'[target[k]] # "running"
<1>1. IInv /\ [Next]_vars => P
  <2> SUFFICES ASSUME IInv, [Next]_vars, NEW k \in Killers,
                      killer[k] # "idle", killer'[k] = "idle"
               PROVE  status'[target[k]] # "running"
    OBVIOUS
  <2>1. killer \in [Killers -> KillPlaces] /\ killer' # killer
    BY DEF IInv, TypeOK
  <2>2. ASSUME NEW l \in Killers, NEW t \in Tasks, Kill(l, t) PROVE FALSE
    BY <2>1, <2>2 DEF Kill
  <2>3. ASSUME NEW l \in Killers, KillerStep(l) PROVE l = k
    BY <2>1, <2>3 DEF KillerStep, Stop, Signal, Tick, Escalate, ForceKill, MarkKilled, KillRecord,
                      KillNotify, KillerTo
  <2>4. KillerStep(k)
    BY <2>1, <2>2, <2>3 DEF Next, vars, killVars, Launch, OwnerStep, RunStep, Write, Copy, TimeOut,
                            GroupTerm, End, Announce, Wait, MarkReaped, Drain, AppendOutput,
                            Complete, Record, Notify
  <2>5. Tick(k) \/ MarkKilled(k) \/ KillNotify(k)
    BY <2>1, <2>4 DEF KillerStep, Stop, Signal, Escalate, ForceKill, KillRecord, KillerTo
  <2>6. CASE Tick(k)
    BY <2>6 DEF Tick, outVars
  <2>7. CASE MarkKilled(k)
    BY <2>1, <2>7 DEF MarkKilled, Wins, KillerTo
  <2>8. CASE KillNotify(k)
    BY <2>8 DEF KillNotify, IInv, KillerInv, Won
  <2>9. QED
    BY <2>5, <2>6, <2>7, <2>8
<1>2. QED
  BY <1>1, Inductive, PTL DEF Spec, KillSettles

-----------------------------------------------------------------------------
(* The tracker: its list, its files, and the workers behind its items.     *)

USE WorkerTrackerAssumption

IsList(f) == f \in [DOMAIN f -> Items]

\* Lists are functions from ids to items; the store points at a session's
\* directory or at none.
StoreType ==
  /\ IsList(items) /\ dir \in Sessions \cup {None}
  /\ disk = [d \in Sessions |-> disk[d]] /\ \A d \in Sessions : IsList(disk[d])

SessionType ==
  /\ session \in Sessions \cup {None}
  /\ snap = [d \in Sessions |-> snap[d]] /\ \A d \in Sessions : IsList(snap[d])

WorkType ==
  /\ track \in [Workers -> {"none", "registered", "track", "begin", "up"}]
  /\ life \in [Workers -> {"none", "running", "ended"}]
  /\ report \in [Workers -> {"none", "find", "update", "done"}]

\* While a list is adopted, an item that claims a worker is still to be asked
\* about or is tended.
AdoptInv ==
  ui \in Adopting =>
    /\ queue \subseteq DOMAIN items
    /\ \A i \in DOMAIN items : Claims(i) => i \in queue \/ Tended(i)

\* A list is adopted for a session, from the session's directory.
PointInv ==
  /\ ui \in {"point", "repoint", "forked"} => session # None
  /\ ui \in {"adopt", "readopt"} => session # None /\ dir = session

MirrorInv == StoreType /\ SessionType /\ WorkType /\ AdoptInv /\ PointInv /\ DiskHasTheList

-----------------------------------------------------------------------------
(* Operations of the store: each leaves lists, and the files as the list.  *)

StoreInv == StoreType /\ DiskHasTheList

\* A write through to the file of an item.
LEMMA PutStores ==
  ASSUME StoreInv, NEW i, NEW item \in Items, Put(i, item), dir' = dir
  PROVE  /\ StoreInv'
         /\ DOMAIN items' = DOMAIN items \cup {i} /\ items'[i] = item
         /\ \A j \in DOMAIN items \ {i} : items'[j] = items[j]
<1>1. items' = [j \in DOMAIN items \cup {i} |-> IF j = i THEN item ELSE items[j]]
  BY DEF Put, With
<1>2. DOMAIN items' = DOMAIN items \cup {i} /\ items'[i] = item
      /\ \A j \in DOMAIN items \ {i} : items'[j] = items[j]
  BY <1>1
<1>3. IsList(items')
  BY <1>1 DEF StoreInv, StoreType, IsList
<1>4. CASE dir = None
  BY <1>3, <1>4, <1>2 DEF StoreInv, StoreType, DiskHasTheList, Put
<1>5. CASE dir # None
  <2> DEFINE f == disk[dir]
             g == [j \in DOMAIN f \cup {i} |-> IF j = i THEN item ELSE f[j]]
  <2>1. dir \in Sessions /\ IsList(f) /\ disk' = [disk EXCEPT ![dir] = g]
    BY <1>5 DEF StoreInv, StoreType, Put, With
  <2>2. IsList(g)
    BY <2>1 DEF IsList
  <2>3. DOMAIN g = DOMAIN f \cup {i} /\ \A j \in DOMAIN g : g[j] = IF j = i THEN item ELSE f[j]
    OBVIOUS
  <2> HIDE DEF g
  <2>4. disk' = [d \in Sessions |-> disk'[d]] /\ disk'[dir] = g /\ \A d \in Sessions : IsList(disk'[d])
    BY <2>1, <2>2 DEF StoreInv, StoreType
  <2>5. DiskHasTheList'
    <3> SUFFICES ASSUME NEW j \in DOMAIN items', items'[j].status # "deleted"
                 PROVE  j \in DOMAIN g /\ g[j] = items'[j]
      BY <2>4 DEF DiskHasTheList
    <3>1. CASE j = i
      BY <3>1, <2>3, <1>2
    <3>2. CASE j # i
      <4>1. j \in DOMAIN items /\ items[j] = items'[j]
        BY <3>2, <1>2
      <4>2. j \in DOMAIN f /\ f[j] = items[j]
        BY <4>1, <1>5 DEF StoreInv, DiskHasTheList
      <4>3. QED
        BY <3>2, <4>1, <4>2, <2>3
    <3>3. QED
      BY <3>1, <3>2
  <2>6. QED
    BY <1>2, <1>3, <2>4, <2>5 DEF StoreInv, StoreType
<1>6. QED
  BY <1>4, <1>5

LEMMA SameStore ==
  ASSUME StoreInv, UNCHANGED <<items, dir, disk>>
  PROVE  StoreInv'
BY DEF StoreInv, StoreType, DiskHasTheList

LEMMA UpdateStores ==
  ASSUME StoreInv, NEW i, NEW item \in Items, Update(i, item)
  PROVE  StoreInv'
<1>1. CASE i \in DOMAIN items
  BY <1>1, PutStores DEF Update
<1>2. CASE i \notin DOMAIN items
  BY <1>2, SameStore DEF Update, store
<1>3. QED
  BY <1>1, <1>2

LEMMA CreateStores ==
  ASSUME StoreInv, NEW task \in Workers \cup {None}, Create(task)
  PROVE  StoreInv'
<1> DEFINE item == [task |-> task, status |-> "pending", detail |-> IF task = None THEN "none" ELSE "running"]
<1>1. item \in Items
  BY DEF Items, States, Details
<1>2. Put(nextID, item) /\ dir' = dir
  BY DEF Create
<1> HIDE DEF item
<1>3. QED
  BY <1>1, <1>2, PutStores

\* An empty list, with no file left of the old one; the store points at the
\* same directory or at none.
LEMMA ClearedStores ==
  ASSUME StoreInv, items' = Empty, dir' \in {dir, None},
         disk' = IF dir = None THEN disk ELSE [disk EXCEPT ![dir] = Without(@, DOMAIN items)]
  PROVE  StoreInv'
<1>1. IsList(items') /\ DOMAIN items' = {}
  BY DEF Empty, IsList
<1>2. disk' = [d \in Sessions |-> disk'[d]] /\ \A d \in Sessions : IsList(disk'[d])
  <2>1. \A d \in Sessions : IsList(Without(disk[d], DOMAIN items))
    BY DEF StoreInv, StoreType, IsList, Without, Restrict
  <2>2. QED
    BY <2>1 DEF StoreInv, StoreType
<1>3. QED
  BY <1>1, <1>2 DEF StoreInv, StoreType, DiskHasTheList

\* A list read back from a directory.
LEMMA LoadedStores ==
  ASSUME StoreInv, NEW d \in Sessions \cup {None}, dir' = d, disk' = disk,
         items' = disk[d], d # None
  PROVE  StoreInv'
BY DEF StoreInv, StoreType, DiskHasTheList

\* A list imported: every item of it is written to directory d.
LEMMA ImportStores ==
  ASSUME StoreInv, NEW list, IsList(list), NEW d \in Sessions, Import(list, d), dir' = d
  PROVE  StoreInv'
<1> DEFINE f == disk[d]
           g == [i \in DOMAIN f \cup DOMAIN list |-> IF i \in DOMAIN list THEN list[i] ELSE f[i]]
<1>1. IsList(f) /\ disk' = [disk EXCEPT ![d] = g] /\ items' = list
  BY DEF StoreInv, StoreType, Import
<1>2. IsList(g)
  BY <1>1 DEF IsList
<1>3. \A i \in DOMAIN list : i \in DOMAIN g /\ g[i] = list[i]
  OBVIOUS
<1> HIDE DEF g
<1>4. disk' = [e \in Sessions |-> disk'[e]] /\ disk'[d] = g /\ \A e \in Sessions : IsList(disk'[e])
  BY <1>1, <1>2 DEF StoreInv, StoreType
<1>5. QED
  BY <1>1, <1>3, <1>4 DEF StoreInv, StoreType, DiskHasTheList

\* Without a directory the list is in memory only.
LEMMA Unpointed ==
  ASSUME StoreInv, items' = items, disk' = disk, dir' = None
  PROVE  StoreInv'
BY DEF StoreInv, StoreType, DiskHasTheList

-----------------------------------------------------------------------------
(* Each step leaves the files as the list. *)

LEMMA ItemsAre ==
  ASSUME IsList(items), NEW i \in DOMAIN items
  PROVE  /\ items[i] \in Items /\ Demoted(items[i]) \in Items
         /\ Demoted(items[i]).status # "in_progress"
         /\ \A st \in States : [items[i] EXCEPT !.status = st] \in Items
<1>1. items[i] \in Items
  BY DEF IsList
<1>2. QED
  BY <1>1 DEF Items, States, Details, Demoted

LEMMA DeleteStores ==
  ASSUME StoreInv, Delete
  PROVE  StoreInv'
<1>1. PICK i \in PlanItems :
        /\ items' = [items EXCEPT ![i].status = "deleted"]
        /\ disk' = IF dir = None THEN disk ELSE [disk EXCEPT ![dir] = Without(@, {i})]
  BY DEF Delete
<1>2. i \in DOMAIN items /\ IsList(items) /\ dir' = dir
  BY DEF PlanItems, StoreInv, StoreType, Delete
<1>3. IsList(items') /\ DOMAIN items' = DOMAIN items /\ items'[i].status = "deleted"
      /\ \A j \in DOMAIN items \ {i} : items'[j] = items[j]
  <2>1. items[i] \in Items
    BY <1>2, ItemsAre
  <2>2. [items[i] EXCEPT !.status = "deleted"] \in Items
        /\ [items[i] EXCEPT !.status = "deleted"].status = "deleted"
    BY <2>1 DEF Items, States
  <2>3. items' = [items EXCEPT ![i] = [items[i] EXCEPT !.status = "deleted"]]
    BY <1>1
  <2> DEFINE gone == [items[i] EXCEPT !.status = "deleted"]
  <2>4. gone \in Items /\ gone.status = "deleted" /\ items' = [items EXCEPT ![i] = gone]
    BY <2>2, <2>3
  <2> HIDE DEF gone
  <2>5. QED
    BY <1>2, <2>4 DEF IsList
<1>4. CASE dir = None
  BY <1>1, <1>2, <1>3, <1>4 DEF StoreInv, StoreType, DiskHasTheList
<1>5. CASE dir # None
  <2> DEFINE f == disk[dir]
             g == Without(f, {i})
  <2>1. dir \in Sessions /\ IsList(f) /\ disk' = [disk EXCEPT ![dir] = g]
    BY <1>1, <1>5 DEF StoreInv, StoreType
  <2>2. IsList(g) /\ DOMAIN g = (DOMAIN f) \ {i} /\ \A j \in DOMAIN g : g[j] = f[j]
    BY <2>1 DEF IsList, Without, Restrict
  <2> HIDE DEF g
  <2>3. disk' = [d \in Sessions |-> disk'[d]] /\ disk'[dir] = g /\ \A d \in Sessions : IsList(disk'[d])
    BY <2>1, <2>2 DEF StoreInv, StoreType
  <2>4. DiskHasTheList'
    <3> SUFFICES ASSUME NEW j \in DOMAIN items', items'[j].status # "deleted"
                 PROVE  j \in DOMAIN g /\ g[j] = items'[j]
      BY <1>2, <2>3 DEF DiskHasTheList
    <3>1. j # i /\ j \in DOMAIN items /\ items'[j] = items[j]
      BY <1>3
    <3>2. j \in DOMAIN f /\ f[j] = items[j]
      BY <3>1, <1>5 DEF StoreInv, DiskHasTheList
    <3>3. QED
      BY <3>1, <3>2, <2>2
  <2>5. QED
    BY <1>2, <1>3, <2>3, <2>4 DEF StoreInv, StoreType
<1>6. QED
  BY <1>4, <1>5

\* The plan, the workers and the adoption write single items.
LEMMA WritesStore ==
  ASSUME MirrorInv,
         Plan \/ Demote \/ \E w \in Workers : TrackCreate(w) \/ TrackBegin(w) \/ ReportUpdate(w)
  PROVE  StoreInv'
<1>1. StoreInv /\ IsList(items)
  BY DEF MirrorInv, StoreInv, StoreType
<1>2. CASE Plan
  <2>1. ASSUME Create(None) PROVE StoreInv'
    BY <1>1, <2>1, CreateStores
  <2>2. ASSUME NEW i \in PlanItems, NEW st \in {"in_progress", "completed"},
               Update(i, [items[i] EXCEPT !.status = st])
        PROVE  StoreInv'
    <3>1. [items[i] EXCEPT !.status = st] \in Items
      BY <1>1, ItemsAre DEF PlanItems, States
    <3>2. QED
      BY <1>1, <2>2, <3>1, UpdateStores
  <2>3. QED
    BY <1>2, <2>1, <2>2 DEF Plan
<1>3. CASE Demote
  <2>1. PICK i \in queue :
          IF Live(items[i]) THEN UNCHANGED store
          ELSE Put(i, Demoted(items[i])) /\ UNCHANGED <<nextID, dir>>
    BY <1>3 DEF Demote
  <2>2. i \in DOMAIN items
    BY <1>3 DEF MirrorInv, AdoptInv, Demote
  <2>3. Demoted(items[i]) \in Items
    BY <1>1, <2>2, ItemsAre
  <2>4. CASE Live(items[i])
    BY <1>1, <2>1, <2>4, SameStore DEF store
  <2>5. CASE ~Live(items[i])
    BY <1>1, <2>1, <2>3, <2>5, PutStores
  <2>6. QED
    BY <2>4, <2>5
<1>4. ASSUME NEW w \in Workers, TrackCreate(w) \/ TrackBegin(w) \/ ReportUpdate(w)
      PROVE  StoreInv'
  <2>1. CASE TrackCreate(w)
    BY <1>1, <2>1, CreateStores DEF TrackCreate
  <2>2. CASE TrackBegin(w)
    <3>1. CASE hit[w] \in DOMAIN items
      <4>1. [items[hit[w]] EXCEPT !.status = "in_progress"] \in Items
        BY <1>1, <3>1, ItemsAre DEF States
      <4>2. Update(hit[w], [items[hit[w]] EXCEPT !.status = "in_progress"])
        BY <2>2, <3>1 DEF TrackBegin
      <4>3. QED
        BY <1>1, <4>1, <4>2, UpdateStores
    <3>2. CASE hit[w] \notin DOMAIN items
      BY <1>1, <2>2, <3>2, SameStore DEF TrackBegin, store
    <3>3. QED
      BY <3>1, <3>2
  <2>3. CASE ReportUpdate(w)
    <3>1. [task |-> w, status |-> "completed", detail |-> "ended"] \in Items
      BY DEF Items, States, Details
    <3>2. QED
      BY <1>1, <2>3, <3>1, UpdateStores DEF ReportUpdate
  <2>4. QED
    BY <1>4, <2>1, <2>2, <2>3
<1>5. QED
  BY <1>2, <1>3, <1>4

\* The UI's operations replace the list.
LEMMA UIStores ==
  ASSUME MirrorInv, Reload \/ Discard \/ Clear \/ NewSession \/ Fork \/ Point \/ Adopted \/ Restored
                    \/ Crash \/ \E d \in Sessions : Resume(d)
  PROVE  StoreInv'
<1>1. StoreInv /\ SessionType
  BY DEF MirrorInv, StoreInv
<1>2. dir \in Sessions \cup {None}
  BY <1>1 DEF StoreInv, StoreType
<1>3. CASE Reload
  BY <1>1, <1>2, <1>3, LoadedStores DEF Reload
<1>4. ASSUME Cleared PROVE StoreInv'
  BY <1>1, <1>4, ClearedStores DEF Cleared
<1>5. CASE Discard \/ Clear
  BY <1>4, <1>5 DEF Discard, Clear
<1>6. CASE NewSession
  BY <1>1, <1>6, ClearedStores DEF NewSession
<1>7. CASE Fork \/ \E d \in Sessions : Resume(d)
  BY <1>1, <1>7, Unpointed DEF Fork, Resume
<1>8. CASE Point
  <2>1. session \in Sessions \cup {None} /\ dir' = session /\ disk' = disk /\ items' = disk[session]
    BY <1>1, <1>8 DEF SessionType, Point
  <2>2. session # None
    BY <1>8 DEF MirrorInv, PointInv, Point
  <2>3. QED
    BY <1>1, <2>1, <2>2, LoadedStores
<1>9. CASE Adopted
  <2>1. CASE ui = "readopt" \/ snap[session] = Empty
    BY <1>1, <1>9, <2>1, SameStore DEF Adopted, store
  <2>2. CASE ~(ui = "readopt" \/ snap[session] = Empty)
    <3>1. Import(snap[session], dir) /\ dir' = dir
      BY <1>9, <2>2 DEF Adopted
    <3>2. dir \in Sessions /\ session \in Sessions
      BY <1>1, <1>2, <1>9 DEF MirrorInv, PointInv, SessionType, Adopted
    <3>3. IsList(snap[session])
      BY <1>1, <3>2 DEF SessionType
    <3>4. QED
      BY <1>1, <3>1, <3>2, <3>3, ImportStores
  <2>3. QED
    BY <2>1, <2>2
<1>10. CASE Restored
  BY <1>1, <1>4, <1>10, SameStore DEF Restored, store
<1>11. CASE Crash
  <2>1. PICK d \in Fresh, old \in Sessions :
          /\ dir' = d
          /\ \/ items' = Empty /\ disk' = disk
             \/ Import(snap[old], d)
    BY <1>11 DEF Crash
  <2>2. d \in Sessions
    BY DEF Fresh
  <2>3. CASE items' = Empty /\ disk' = disk
    BY <1>1, <2>1, <2>2, <2>3 DEF StoreInv, StoreType, DiskHasTheList, Empty, IsList
  <2>4. CASE Import(snap[old], d)
    <3>1. IsList(snap[old])
      BY <1>1 DEF SessionType
    <3>2. QED
      BY <1>1, <2>1, <2>2, <2>4, <3>1, ImportStores
  <2>5. QED
    BY <2>1, <2>3, <2>4
<1>12. QED
  BY <1>3, <1>5, <1>6, <1>7, <1>8, <1>9, <1>10, <1>11

-----------------------------------------------------------------------------
(* Each step leaves an adoption its items. *)

LEMMA MirrorInit == TrackerInit => MirrorInv
<1> SUFFICES ASSUME TrackerInit PROVE MirrorInv
  OBVIOUS
<1>1. IsList(Empty)
  BY DEF IsList, Empty
<1>2. StoreType /\ SessionType /\ DiskHasTheList
  BY <1>1 DEF TrackerInit, StoreType, SessionType, DiskHasTheList, Empty
<1>3. WorkType /\ AdoptInv /\ PointInv
  BY DEF TrackerInit, WorkType, AdoptInv, PointInv, Adopting
<1>4. QED
  BY <1>2, <1>3 DEF MirrorInv

\* What a session's transcript has of the list is a list.
LEMMA SessionStep ==
  ASSUME MirrorInv, TrackerNext
  PROVE  SessionType'
<1>1. SessionType /\ IsList(items)
  BY DEF MirrorInv, StoreType
<1>2. CASE UNCHANGED <<snap, session>>
  BY <1>1, <1>2 DEF SessionType
<1>3. CASE Save
  <2>1. CASE session # None
    BY <1>1, <1>3, <2>1 DEF Save, SessionType
  <2>2. CASE session = None
    BY <1>1, <1>3, <2>2 DEF Save, SessionType, Fresh
  <2>3. QED
    BY <2>1, <2>2
<1>4. CASE NewSession
  BY <1>1, <1>4 DEF NewSession, SessionType
<1>5. CASE Fork
  BY <1>1, <1>5 DEF Fork, SessionType, Fresh
<1>6. CASE \E d \in Sessions : Resume(d)
  BY <1>1, <1>6 DEF Resume, SessionType
<1>7. CASE Crash
  BY <1>1, <1>7 DEF Crash, SessionType, Fresh
<1>8. CASE Plan \/ Delete \/ Reload \/ \E w \in Workers : Register(w) \/ Worker(w) \/ Finish(w)
  BY <1>2, <1>8 DEF Plan, Delete, Reload, Register, Worker, Finish, Unlock, TrackCreate, TrackBegin,
     ReportFind, ReportUpdate, uiVars
<1>9. CASE Discard \/ Point \/ Demote \/ Adopted \/ Restored \/ TurnEnd \/ Clear
  BY <1>2, <1>9 DEF Discard, Point, Demote, Adopted, Restored, TurnEnd, Clear
<1>10. QED
  BY <1>3, <1>4, <1>5, <1>6, <1>7, <1>8, <1>9 DEF TrackerNext, UI

LEMMA WorkStep ==
  ASSUME MirrorInv, TrackerNext
  PROVE  WorkType'
<1>1. WorkType
  BY DEF MirrorInv
<1>2. CASE UNCHANGED workVars
  BY <1>1, <1>2 DEF workVars, WorkType
<1>3. ASSUME NEW w \in Workers, Register(w) \/ Worker(w) \/ Finish(w) PROVE WorkType'
  BY <1>1, <1>3 DEF Register, Worker, Finish, Unlock, TrackCreate, TrackBegin, ReportFind, ReportUpdate,
     TrackTo, ReportTo, WorkType
<1>4. CASE Crash
  BY <1>1, <1>4 DEF Crash, WorkType
<1>5. CASE Plan \/ Delete \/ Reload \/ UI \/ TurnEnd \/ Clear \/ NewSession \/ Fork \/ \E d \in Sessions : Resume(d)
  BY <1>2, <1>5 DEF Plan, Delete, Reload, UI, Discard, Save, Point, Demote, Adopted, Restored, TurnEnd,
     Clear, NewSession, Fork, Resume
<1>6. QED
  BY <1>3, <1>4, <1>5 DEF TrackerNext

LEMMA PointStep ==
  ASSUME MirrorInv, TrackerNext
  PROVE  PointInv'
<1>1. PointInv /\ SessionType /\ None \notin Sessions
  BY DEF MirrorInv
<1>2. CASE UNCHANGED <<ui, session, dir>>
  BY <1>1, <1>2 DEF PointInv
<1>3. CASE ui' \notin {"point", "repoint", "forked", "adopt", "readopt"}
  BY <1>3 DEF PointInv
<1>4. CASE Save
  BY <1>1, <1>3, <1>4 DEF Save, Fresh, PointInv
<1>5. CASE Fork \/ \E d \in Sessions : Resume(d)
  BY <1>1, <1>5 DEF Fork, Resume, Fresh, PointInv
<1>6. CASE Point
  BY <1>1, <1>6 DEF Point, PointInv
<1>7. CASE Crash \/ Discard \/ Restored \/ TurnEnd \/ Clear \/ NewSession
  BY <1>3, <1>7 DEF Crash, Discard, Restored, TurnEnd, Clear, NewSession
<1>8. CASE Adopted
  <2>1. CASE ui' = "import" \/ ui' = "idle"
    BY <1>3, <2>1
  <2>2. QED
    BY <1>8, <2>1 DEF Adopted
<1>9. CASE Plan \/ Delete \/ Reload \/ Demote
  <2>1. dir' = dir
    BY <1>9 DEF Plan, Delete, Reload, Demote, Create, Update, store
  <2>2. QED
    BY <1>2, <1>9, <2>1 DEF Plan, Delete, Reload, Demote, uiVars
<1>10. ASSUME NEW w \in Workers, Register(w) \/ Worker(w) \/ Finish(w) PROVE PointInv'
  <2>1. dir' = dir /\ UNCHANGED uiVars
    BY <1>10 DEF Register, Worker, Finish, Unlock, TrackCreate, TrackBegin, ReportFind, ReportUpdate,
       Create, Update, store
  <2>2. QED
    BY <1>2, <2>1 DEF uiVars
<1>11. QED
  BY <1>4, <1>5, <1>6, <1>7, <1>8, <1>9, <1>10 DEF TrackerNext, UI

\* A worker that runs, or is about to report, goes on or gets to report: while
\* a list is adopted no report gets through.
LEMMA TendersStay ==
  ASSUME MirrorInv, ui \in Adopting, NEW w \in Workers, Register(w) \/ Worker(w) \/ Finish(w)
  PROVE  /\ UNCHANGED <<store, uiVars>>
         /\ \A v \in Workers :
              life[v] = "running" \/ report[v] \in {"find", "update"}
                => life'[v] = "running" \/ report'[v] \in {"find", "update"}
<1>1. Register(w) \/ Unlock(w) \/ Finish(w)
  BY DEF Worker, TrackCreate, TrackBegin, ReportFind, ReportUpdate, StoreFree
<1>2. WorkType
  BY DEF MirrorInv
<1>3. QED
  BY <1>1, <1>2 DEF Register, Unlock, Finish, ReportTo, WorkType

LEMMA AdoptStep ==
  ASSUME MirrorInv, TrackerNext
  PROVE  AdoptInv'
<1>1. AdoptInv /\ StoreType /\ SessionType
  BY DEF MirrorInv
<1>2. CASE ui' \notin Adopting
  BY <1>2 DEF AdoptInv, Adopting
<1>3. ASSUME queue' = InProgress(items') PROVE AdoptInv'
  BY <1>3 DEF AdoptInv, InProgress, Claims
<1>4. CASE Demote
  <2>1. PICK i \in queue :
          /\ queue' = queue \ {i}
          /\ IF Live(items[i]) THEN UNCHANGED store
             ELSE Put(i, Demoted(items[i])) /\ UNCHANGED <<nextID, dir>>
    BY <1>4 DEF Demote
  <2>2. ui \in Adopting /\ ui' = ui /\ life' = life /\ report' = report
    BY <1>4 DEF Demote, workVars
  <2>3. i \in DOMAIN items /\ queue \subseteq DOMAIN items
    BY <1>1, <2>2 DEF AdoptInv
  <2>4. CASE Live(items[i])
    <3>1. Tended(i)
      BY <2>4 DEF Live, Tended
    <3>2. items' = items
      BY <2>1, <2>4 DEF store
    <3>3. \A j \in DOMAIN items : Claims(j) => j \in queue' \/ Tended(j)
      BY <1>1, <2>1, <2>2, <3>1 DEF AdoptInv
    <3>4. QED
      BY <2>1, <2>2, <2>3, <3>2, <3>3 DEF AdoptInv, Claims, Tended
  <2>5. CASE ~Live(items[i])
    <3>1. /\ DOMAIN items' = DOMAIN items /\ items'[i].status # "in_progress"
          /\ \A j \in DOMAIN items \ {i} : items'[j] = items[j]
      <4>1. Demoted(items[i]) \in Items /\ Demoted(items[i]).status # "in_progress"
        BY <1>1, <2>3, ItemsAre DEF StoreType
      <4>2. Put(i, Demoted(items[i])) /\ dir' = dir /\ StoreInv
        BY <2>1, <2>5 DEF MirrorInv, StoreInv
      <4>3. /\ DOMAIN items' = DOMAIN items \cup {i} /\ items'[i] = Demoted(items[i])
            /\ \A j \in DOMAIN items \ {i} : items'[j] = items[j]
        BY <4>1, <4>2, PutStores
      <4>4. QED
        BY <4>1, <4>3, <2>3
    <3>2. ASSUME NEW j \in DOMAIN items', Claims(j)' PROVE j \in queue' \/ Tended(j)'
      <4>1. j # i /\ j \in DOMAIN items /\ items'[j] = items[j]
        BY <3>1, <3>2 DEF Claims
      <4>2. j \in queue \/ Tended(j)
        BY <1>1, <2>2, <3>2, <4>1 DEF AdoptInv, Claims
      <4>3. QED
        BY <2>1, <2>2, <4>1, <4>2 DEF Tended
    <3>3. QED
      BY <2>1, <2>3, <3>1, <3>2 DEF AdoptInv
  <2>6. QED
    BY <2>4, <2>5
<1>5. CASE Adopted
  <2>1. CASE ui = "readopt"
    BY <1>2, <1>5, <2>1 DEF Adopted, Adopting
  <2>2. CASE ui # "readopt" /\ snap[session] = Empty
    <3>1. ui \in Adopting /\ UNCHANGED <<items, queue, life, report>>
      BY <1>5, <2>2 DEF Adopted, store, workVars, Adopting
    <3>2. QED
      BY <1>1, <3>1 DEF AdoptInv, Claims, Tended
  <2>3. CASE ui # "readopt" /\ snap[session] # Empty
    BY <1>3, <1>5, <2>3 DEF Adopted, Import
  <2>4. QED
    BY <2>1, <2>2, <2>3
<1>6. CASE Crash
  <2>1. ui' = "idle" \/ \E d \in Sessions, old \in Sessions : Import(snap[old], d)
    BY <1>6 DEF Crash, Fresh
  <2>2. CASE ui' = "idle"
    BY <1>2, <2>2 DEF Adopting
  <2>3. CASE \E d \in Sessions, old \in Sessions : Import(snap[old], d)
    BY <1>3, <2>3 DEF Import
  <2>4. QED
    BY <2>1, <2>2, <2>3
<1>7. CASE Point
  BY <1>3, <1>7 DEF Point
<1>8. ASSUME NEW w \in Workers, Register(w) \/ Worker(w) \/ Finish(w) PROVE AdoptInv'
  <2>1. CASE ui \in Adopting
    <3>1. /\ UNCHANGED <<items, ui, queue>>
          /\ \A v \in Workers :
               life[v] = "running" \/ report[v] \in {"find", "update"}
                 => life'[v] = "running" \/ report'[v] \in {"find", "update"}
      BY <1>8, <2>1, TendersStay DEF store, uiVars
    <3>2. \A i \in DOMAIN items : items[i].task \in Workers \cup {None}
      BY <1>1 DEF StoreType, IsList, Items
    <3>3. \A i \in DOMAIN items : Tended(i) => Tended(i)'
      BY <3>1, <3>2 DEF Tended
    <3>4. QED
      BY <1>1, <2>1, <3>1, <3>3 DEF AdoptInv, Claims
  <2>2. CASE ui \notin Adopting
    <3>1. ui' = ui
      BY <1>8 DEF Register, Worker, Finish, Unlock, TrackCreate, TrackBegin, ReportFind, ReportUpdate, uiVars
    <3>2. QED
      BY <1>2, <2>2, <3>1
  <2>3. QED
    BY <2>1, <2>2
<1>9. CASE Plan \/ Delete \/ Reload
  BY <1>2, <1>9 DEF Plan, Delete, Reload, StoreFree, uiVars
<1>10. CASE Save \/ Discard \/ Restored \/ TurnEnd \/ Clear \/ NewSession \/ Fork \/ \E d \in Sessions : Resume(d)
  BY <1>2, <1>10 DEF Save, Discard, Restored, TurnEnd, Clear, NewSession, Fork, Resume, Adopting
<1>11. QED
  BY <1>4, <1>5, <1>6, <1>7, <1>8, <1>9, <1>10 DEF TrackerNext, UI

LEMMA StoreStep ==
  ASSUME MirrorInv, TrackerNext
  PROVE  StoreInv'
<1>1. StoreInv
  BY DEF MirrorInv, StoreInv
<1>2. CASE UNCHANGED <<items, dir, disk>>
  BY <1>1, <1>2, SameStore
<1>3. CASE Delete
  BY <1>1, <1>3, DeleteStores
<1>4. CASE Plan \/ Demote \/ \E w \in Workers : TrackCreate(w) \/ TrackBegin(w) \/ ReportUpdate(w)
  BY <1>4, WritesStore
<1>5. CASE Reload \/ Discard \/ Clear \/ NewSession \/ Fork \/ Point \/ Adopted \/ Restored
           \/ Crash \/ \E d \in Sessions : Resume(d)
  BY <1>5, UIStores
<1>6. CASE TurnEnd \/ Save \/ \E w \in Workers : Register(w) \/ Unlock(w) \/ Finish(w) \/ ReportFind(w)
  BY <1>2, <1>6 DEF TurnEnd, Save, Register, Unlock, Finish, ReportFind, store
<1>7. QED
  BY <1>3, <1>4, <1>5, <1>6 DEF TrackerNext, UI, Worker

LEMMA MirrorStep == MirrorInv /\ [TrackerNext]_trackerVars => MirrorInv'
<1> SUFFICES ASSUME MirrorInv, [TrackerNext]_trackerVars PROVE MirrorInv'
  OBVIOUS
<1>1. CASE TrackerNext
  BY <1>1, StoreStep, SessionStep, WorkStep, AdoptStep, PointStep DEF MirrorInv, StoreInv
<1>2. CASE UNCHANGED trackerVars
  <2>1. StoreType' /\ DiskHasTheList'
    BY <1>2 DEF trackerVars, store, MirrorInv, StoreType, DiskHasTheList
  <2>2. SessionType' /\ WorkType' /\ PointInv'
    BY <1>2 DEF trackerVars, store, uiVars, workVars, MirrorInv, SessionType, WorkType, PointInv
  <2>3. AdoptInv'
    BY <1>2 DEF trackerVars, store, uiVars, workVars, MirrorInv, AdoptInv, Claims, Tended
  <2>4. QED
    BY <2>1, <2>2, <2>3 DEF MirrorInv
<1>3. QED
  BY <1>1, <1>2

\* The inductive invariant of the tracker holds, across all the UI does to the
\* list and any crash.
THEOREM MirrorHolds == TrackerSpec => []MirrorInv
BY MirrorInit, MirrorStep, PTL DEF TrackerSpec

\* What a crash would leave on disk of the current list is the list, whatever
\* the plan, the workers, the adoptions and the UI did to it.
THEOREM FilesFollow == TrackerSpec => []DiskHasTheList
<1>1. MirrorInv => DiskHasTheList
  BY DEF MirrorInv
<1>2. QED
  BY <1>1, MirrorHolds, PTL

\* The last step of an adoption leaves no item that claims a worker that is
\* gone, with any number of workers that run and end meanwhile.
LEMMA AdoptionEnds ==
  ASSUME MirrorInv, [TrackerNext]_trackerVars
  PROVE  ui' = "idle" /\ ui \in Adopting => AllTended'
<1> SUFFICES ASSUME ui' = "idle", ui \in Adopting PROVE AllTended'
  OBVIOUS
<1>1. AdoptInv /\ ui # ui'
  BY DEF MirrorInv, Adopting
<1>2. Adopted \/ Restored \/ Crash
  <2>1. TrackerNext
    BY <1>1 DEF trackerVars, uiVars
  <2>2. ASSUME NEW w \in Workers, Register(w) \/ Worker(w) \/ Finish(w) PROVE FALSE
    BY <1>1, <2>2, TendersStay DEF uiVars
  <2>3. ~(Plan \/ Delete \/ Reload)
    BY DEF Plan, Delete, Reload, StoreFree
  <2>4. ~(Discard \/ Save \/ Point \/ TurnEnd \/ Clear \/ NewSession \/ Fork \/ \E d \in Sessions : Resume(d))
    BY DEF Discard, Save, Point, TurnEnd, Clear, NewSession, Fork, Resume, Adopting
  <2>5. ~Demote
    BY <1>1 DEF Demote
  <2>6. QED
    BY <2>1, <2>2, <2>3, <2>4, <2>5 DEF TrackerNext, UI
<1>3. ASSUME UNCHANGED <<items, workVars>>, queue = {} PROVE AllTended'
  BY <1>1, <1>3 DEF AdoptInv, AllTended, Claims, Tended, workVars
<1>4. ASSUME items' = Empty PROVE AllTended'
  BY <1>4 DEF AllTended, Empty
<1>5. CASE Adopted
  BY <1>3, <1>5 DEF Adopted, store
<1>6. CASE Restored
  BY <1>3, <1>4, <1>6 DEF Restored, Cleared, store
<1>7. CASE Crash
  BY <1>4, <1>7 DEF Crash
<1>8. QED
  BY <1>2, <1>5, <1>6, <1>7

THEOREM AdoptionHolds == TrackerSpec => AdoptedIsTended
<1>1. MirrorInv /\ [TrackerNext]_trackerVars => [ui' = "idle" /\ ui \in Adopting => AllTended']_trackerVars
  BY AdoptionEnds
<1>2. QED
  BY <1>1, MirrorHolds, PTL DEF TrackerSpec, AdoptedIsTended
=============================================================================
