-------------------------- MODULE ToolBatchProofs --------------------------
(***************************************************************************)
(* Machine-checked proofs, for every number of calls and every mix of      *)
(* kinds, of the safety properties that MCToolBatch checks for a batch of  *)
(* four.                                                                   *)
(***************************************************************************)
EXTENDS ToolBatchProps, TLAPS

-----------------------------------------------------------------------------
(* The inductive invariant.  Each part says what one stretch of execTools  *)
(* leaves for the next.                                                    *)

\* Nothing runs before the tasks are dispatched, only tasks run, and the
\* agent goroutine passes the join only when all of them are over.
ExecInv ==
  /\ \A c \in Calls : exec[c] # "idle" => c \in tasks
  /\ \A c \in Calls : exec[c] \in {"ready", "skipped"} => kind[c] = "serial"
  /\ phase \in {"resolve", "dispatch"} => \A c \in Calls : exec[c] = "idle"
  /\ phase = "inline" => /\ \A c, d \in tasks : c = d
                         /\ \A c \in Calls : exec[c] # "ready"
  /\ phase \in {"record", "done"} => \A c \in tasks : exec[c] \in Settled

\* A call skipped after a cancel carries the context's error.
SkippedInv == \A c \in Calls : exec[c] = "skipped" => outcome[c] = "cancelled"

\* Resolution keeps known tools only, and all it has passed.
TaskInv ==
  /\ \A c \in tasks : kind[c] # "unknown"
  /\ phase = "resolve" => \A c \in tasks : c < cursor

\* A late start leaves no call that could make a second one.
LateInv ==
  /\ \A c \in late : ctxDone /\ c \in tasks /\ exec[c] # "idle" /\ kind[c] = "serial"
  /\ \A c \in late, d \in Calls : exec[d] # "ready"

\* Which calls can have a result in each phase.
ReplyInv ==
  \A i \in DOMAIN replies :
    LET c == replies[i].call IN
      /\ c \in tasks \/ (kind[c] = "unknown" /\ replies[i].result = "error")
      /\ c \in tasks => phase \in {"record", "done"}
      /\ phase = "resolve" => c < cursor
      /\ phase = "record" /\ c \in tasks => c < cursor

\* Without a cancel nothing is passed over.
CompleteInv ==
  ~ctxDone =>
    \A c \in Calls :
      /\ phase # "resolve" \/ c < cursor =>
           IF kind[c] = "unknown" THEN c \in AnsweredCalls ELSE c \in tasks
      /\ phase = "record" /\ c \in tasks /\ c < cursor => c \in AnsweredCalls
      /\ phase = "done" => c \in AnsweredCalls

IInv == /\ TypeOK
        /\ ExecInv
        /\ SkippedInv
        /\ TaskInv
        /\ SideEffectsInOrder
        /\ LateInv
        /\ OneLateStart
        /\ ReplyInv
        /\ RepliesInOrder
        /\ NoPhantomSuccess
        /\ CompleteInv

USE NumCallsAssumption

-----------------------------------------------------------------------------
(* What appending one result does to the conversation. *)

LEMMA AppendReply ==
  ASSUME TypeOK, NEW c \in Calls, NEW r \in {"ok", "error"}, Reply(c, r)
  PROVE  /\ replies' \in Seq([call : Calls, result : {"ok", "error"}])
         /\ DOMAIN replies' = 1 .. Len(replies) + 1
         /\ \A i \in DOMAIN replies :
              i \in DOMAIN replies' /\ replies'[i] = replies[i]
         /\ replies'[Len(replies) + 1] = [call |-> c, result |-> r]
         /\ \A i \in DOMAIN replies' :
              i \in DOMAIN replies \/ i = Len(replies) + 1
         /\ Len(replies) + 1 \notin DOMAIN replies
         /\ AnsweredCalls' = AnsweredCalls \cup {c}
<1>1. replies \in Seq([call : Calls, result : {"ok", "error"}])
  BY DEF TypeOK
<1>2. replies' = Append(replies, [call |-> c, result |-> r])
  BY DEF Reply
<1>3. DOMAIN replies = 1 .. Len(replies) /\ Len(replies) \in Nat
  BY <1>1
<1>4. /\ replies' \in Seq([call : Calls, result : {"ok", "error"}])
      /\ DOMAIN replies' = 1 .. Len(replies) + 1
      /\ \A i \in DOMAIN replies : i \in DOMAIN replies' /\ replies'[i] = replies[i]
      /\ replies'[Len(replies) + 1] = [call |-> c, result |-> r]
  BY <1>1, <1>2, <1>3
<1>5. /\ \A i \in DOMAIN replies' : i \in DOMAIN replies \/ i = Len(replies) + 1
      /\ Len(replies) + 1 \notin DOMAIN replies
  BY <1>3, <1>4
<1>6. AnsweredCalls' = AnsweredCalls \cup {c}
  BY <1>3, <1>4, <1>5 DEF AnsweredCalls
<1>7. QED
  BY <1>4, <1>5, <1>6

LEMMA ReplyAppended ==
  ASSUME TypeOK, NEW c \in Calls, NEW r \in {"ok", "error"}, Reply(c, r)
  PROVE  \A i \in DOMAIN replies' :
           \/ i \in DOMAIN replies /\ replies'[i] = replies[i]
           \/ i = Len(replies) + 1 /\ replies'[i] = [call |-> c, result |-> r]
BY AppendReply

LEMMA ReplyTypes ==
  ASSUME TypeOK
  PROVE  \A i \in DOMAIN replies : i \in 1 .. Len(replies)
           /\ replies[i] \in [call : Calls, result : {"ok", "error"}]
           /\ replies[i].call \in Calls
<1> DEFINE R == [call : Calls, result : {"ok", "error"}]
<1>1. replies \in Seq(R)
  BY DEF TypeOK
<1> HIDE DEF R
<1>2. DOMAIN replies = 1 .. Len(replies)
  BY <1>1
<1>3. \A i \in 1 .. Len(replies) : replies[i] \in R
  BY <1>1
<1>4. QED
  BY <1>2, <1>3 DEF R

\* A step that appends no result leaves the set of answered calls alone.
LEMMA SameAnswers == UNCHANGED replies => UNCHANGED AnsweredCalls
BY DEF AnsweredCalls

LEMMA InitReplies ==
  Init => /\ DOMAIN replies = {}
          /\ replies \in Seq([call : Calls, result : {"ok", "error"}])
          /\ AnsweredCalls = {}
<1> SUFFICES ASSUME Init
             PROVE  /\ DOMAIN replies = {}
                    /\ replies \in Seq([call : Calls, result : {"ok", "error"}])
                    /\ AnsweredCalls = {}
  OBVIOUS
<1>1. replies = <<>> /\ <<>> \in Seq([call : Calls, result : {"ok", "error"}])
  BY DEF Init
<1>2. Len(<<>>) = 0 /\ DOMAIN <<>> = 1 .. Len(<<>>) /\ 1 .. 0 = {}
  OBVIOUS
<1>3. DOMAIN replies = {}
  BY <1>1, <1>2
<1>4. QED
  BY <1>1, <1>3 DEF AnsweredCalls

LEMMA InitIInv == Init => IInv
<1> SUFFICES ASSUME Init PROVE IInv
  OBVIOUS
<1>1. DOMAIN replies = {} /\ replies \in Seq([call : Calls, result : {"ok", "error"}])
  BY InitReplies
<1>2. TypeOK
  <2>1. /\ kind \in [Calls -> Kinds] /\ ctxDone = FALSE /\ phase = "resolve"
        /\ cursor = 1 /\ tasks = {} /\ late = {}
        /\ exec = [c \in Calls |-> "idle"]
        /\ outcome = [c \in Calls |-> "ok"]
    BY DEF Init
  <2>2. exec \in [Calls -> ExecStates] /\ outcome \in [Calls -> Outcomes]
    BY <2>1 DEF ExecStates, Outcomes
  <2>3. cursor \in 1 .. NumCalls + 1 /\ phase \in Phases
    BY <2>1 DEF Phases
  <2>4. QED
    BY <1>1, <2>1, <2>2, <2>3 DEF TypeOK
<1>3. ReplyInv /\ RepliesInOrder /\ NoPhantomSuccess
  BY <1>1 DEF ReplyInv, RepliesInOrder, NoPhantomSuccess
<1>4. ExecInv /\ SkippedInv /\ TaskInv /\ SideEffectsInOrder
  BY DEF Init, ExecInv, SkippedInv, TaskInv, SideEffectsInOrder, SerialTasks, Calls
<1>5. LateInv /\ OneLateStart /\ CompleteInv
  BY DEF Init, LateInv, OneLateStart, CompleteInv, Calls
<1>6. QED
  BY <1>2, <1>3, <1>4, <1>5 DEF IInv

LEMMA TypeStep == TypeOK /\ ExecInv /\ [Next]_vars => TypeOK'
<1> SUFFICES ASSUME TypeOK, ExecInv, [Next]_vars PROVE TypeOK'
  OBVIOUS
<1> USE DEF TypeOK, Phases, Calls
<1>1. CASE Cancel
  BY <1>1 DEF Cancel
<1>2. CASE ResolveNext
  <2>1. cursor \in Calls /\ cursor + 1 \in 1 .. NumCalls + 1
    BY <1>2 DEF ResolveNext
  <2>2. CASE kind[cursor] = "unknown" /\ Reply(cursor, "error") /\ UNCHANGED tasks
    <3>1. replies' \in Seq([call : Calls, result : {"ok", "error"}])
      BY <2>1, <2>2, AppendReply
    <3>2. QED
      BY <1>2, <2>1, <2>2, <3>1 DEF ResolveNext
  <2>3. CASE tasks' = tasks \cup {cursor} /\ UNCHANGED replies
    BY <1>2, <2>1, <2>3 DEF ResolveNext
  <2>4. QED
    BY <1>2, <2>2, <2>3 DEF ResolveNext
<1>3. CASE ResolveEnd
  BY <1>3 DEF ResolveEnd
<1>4. CASE Dispatch
  BY <1>4 DEF Dispatch
<1>5. CASE Join
  BY <1>5 DEF Join
<1>6. CASE RecordNext
  <2>1. PICK c \in Unrecorded :
          /\ Reply(c, IF outcome[c] = "ok" THEN "ok" ELSE "error")
          /\ cursor' = c + 1
    BY <1>6 DEF RecordNext
  <2>2. c \in Calls /\ c + 1 \in 1 .. NumCalls + 1
    BY <2>1 DEF Unrecorded
  <2>3. replies' \in Seq([call : Calls, result : {"ok", "error"}])
    BY <2>1, <2>2, AppendReply
  <2>4. QED
    BY <1>6, <2>1, <2>2, <2>3 DEF RecordNext
<1>7. CASE RecordEnd
  BY <1>7 DEF RecordEnd
<1>8. ASSUME NEW c \in Calls, CallStep(c)
      PROVE TypeOK'
  BY <1>8 DEF CallStep, BeginInline, BeginParallel, CheckSerial, BeginSerial,
     Finish, Begin, ExecStates, Outcomes
<1>9. CASE UNCHANGED vars
  BY <1>9 DEF vars
<1>10. QED
  BY <1>1, <1>2, <1>3, <1>4, <1>5, <1>6, <1>7, <1>8, <1>9 DEF Next, AgentStep

\* A step of one call leaves the agent goroutine's state and the other calls.
LEMMA CallFrame ==
  ASSUME TypeOK, NEW c \in Calls, CallStep(c)
  PROVE  /\ UNCHANGED <<kind, ctxDone, phase, cursor, tasks, replies>>
         /\ \A d \in Calls : d # c => exec'[d] = exec[d] /\ outcome'[d] = outcome[d]
         /\ exec[c] \in {"idle", "ready", "running"}
         /\ Finish(c) \/ exec'[c] \in {"ready", "running", "skipped"}
BY DEF CallStep, BeginInline, BeginParallel, CheckSerial, BeginSerial, Finish, Begin,
   TypeOK

\* Outside the two loops the agent goroutine appends nothing and starts nothing.
LEMMA QuietFrame ==
  Cancel \/ ResolveEnd \/ Dispatch \/ Join \/ RecordEnd \/ UNCHANGED vars
    => UNCHANGED <<kind, tasks, exec, outcome, replies, late>>
BY DEF Cancel, ResolveEnd, Dispatch, Join, RecordEnd, vars

-----------------------------------------------------------------------------
(* Execution: who may run, and when. *)

LEMMA ExecStep == TypeOK /\ ExecInv /\ TaskInv /\ [Next]_vars => ExecInv'
<1> SUFFICES ASSUME TypeOK, ExecInv, TaskInv, [Next]_vars PROVE ExecInv'
  OBVIOUS
<1> USE DEF TypeOK, ExecInv
<1>1. CASE Cancel
  BY <1>1 DEF Cancel
<1>2. CASE ResolveNext
  BY <1>2 DEF ResolveNext, Calls
<1>3. CASE ResolveEnd
  BY <1>3 DEF ResolveEnd
<1>4. CASE Dispatch
  <2>1. CASE tasks = {}
    BY <1>4, <2>1 DEF Dispatch
  <2>2. CASE tasks # {} /\ \E c \in tasks : tasks = {c}
    BY <1>4, <2>2 DEF Dispatch
  <2>3. CASE tasks # {} /\ ~\E c \in tasks : tasks = {c}
    BY <1>4, <2>3 DEF Dispatch
  <2>4. QED
    BY <2>1, <2>2, <2>3
<1>5. CASE Join
  BY <1>5 DEF Join
<1>6. CASE RecordNext
  BY <1>6 DEF RecordNext
<1>7. CASE RecordEnd
  BY <1>7 DEF RecordEnd
<1>8. ASSUME NEW c \in Calls, CallStep(c)
      PROVE ExecInv'
  <2>1. CASE BeginInline(c)
    BY <2>1 DEF BeginInline, Begin, Calls
  <2>2. CASE BeginParallel(c)
    BY <2>2 DEF BeginParallel, Begin, ParallelTasks, Calls
  <2>3. CASE CheckSerial(c)
    BY <2>3 DEF CheckSerial, SerialTurn, SerialTasks, Calls
  <2>4. CASE BeginSerial(c)
    BY <2>4 DEF BeginSerial, SerialTurn, Begin, SerialTasks, Calls
  <2>5. CASE Finish(c)
    BY <2>5 DEF Finish, Settled, Calls
  <2>6. QED
    BY <1>8, <2>1, <2>2, <2>3, <2>4, <2>5 DEF CallStep
<1>9. CASE UNCHANGED vars
  BY <1>9 DEF vars
<1>10. QED
  BY <1>1, <1>2, <1>3, <1>4, <1>5, <1>6, <1>7, <1>8, <1>9 DEF Next, AgentStep

LEMMA TaskStep == TypeOK /\ TaskInv /\ [Next]_vars => TaskInv'
<1> SUFFICES ASSUME TypeOK, TaskInv, [Next]_vars PROVE TaskInv'
  OBVIOUS
<1> USE DEF TypeOK, TaskInv, Calls
<1>1. CASE ResolveNext
  <2>1. /\ cursor \in Nat /\ cursor' = cursor + 1
        /\ tasks' \subseteq tasks \cup {cursor} /\ kind' = kind
        /\ cursor \in tasks' => cursor \in tasks \/ kind[cursor] # "unknown"
        /\ phase = "resolve"
    BY <1>1 DEF ResolveNext
  <2>2. \A c \in tasks' : c \in Nat /\ (c \in tasks \/ c = cursor)
    BY <2>1
  <2>3. QED
    BY <2>1, <2>2
<1>2. CASE UNCHANGED <<kind, tasks>> /\ phase' # "resolve"
  BY <1>2
<1>3. CASE UNCHANGED <<kind, tasks, phase, cursor>>
  BY <1>3
<1>4. ASSUME NEW c \in Calls, CallStep(c)
      PROVE UNCHANGED <<kind, tasks, phase, cursor>>
  BY <1>4 DEF CallStep, BeginInline, BeginParallel, CheckSerial, BeginSerial, Finish, Begin
<1>5. Dispatch => UNCHANGED <<kind, tasks>> /\ phase' # "resolve"
  BY DEF Dispatch
<1>51. ResolveEnd \/ Join \/ RecordNext \/ RecordEnd
        => UNCHANGED <<kind, tasks>> /\ phase' # "resolve"
  BY DEF ResolveEnd, Join, RecordNext, RecordEnd
<1>6. Cancel \/ UNCHANGED vars => UNCHANGED <<kind, tasks, phase, cursor>>
  BY DEF Cancel, vars
<1>7. QED
  BY <1>1, <1>2, <1>3, <1>4, <1>5, <1>51, <1>6 DEF Next, AgentStep

LEMMA SkippedStep == TypeOK /\ SkippedInv /\ [Next]_vars => SkippedInv'
<1> SUFFICES ASSUME TypeOK, SkippedInv, [Next]_vars PROVE SkippedInv'
  OBVIOUS
<1> USE DEF SkippedInv
<1>1. CASE Cancel \/ ResolveEnd \/ Dispatch \/ Join \/ RecordEnd \/ UNCHANGED vars
  BY <1>1, QuietFrame
<1>2. CASE ResolveNext \/ RecordNext
  BY <1>2 DEF ResolveNext, RecordNext
<1>3. ASSUME NEW c \in Calls, CallStep(c)
      PROVE SkippedInv'
  <2>1. exec'[c] = "skipped" => outcome'[c] = "cancelled"
    BY <1>3 DEF CallStep, BeginInline, BeginParallel, CheckSerial, BeginSerial, Finish,
       Begin, TypeOK
  <2>2. QED
    BY <1>3, <2>1, CallFrame
<1>4. QED
  BY <1>1, <1>2, <1>3 DEF Next, AgentStep

\* The serial goroutine's turn is the only way a serial call leaves "idle".
LEMMA OrderStep ==
  TypeOK /\ ExecInv /\ TaskInv /\ SideEffectsInOrder /\ [Next]_vars => SideEffectsInOrder'
<1> SUFFICES ASSUME TypeOK, ExecInv, TaskInv, SideEffectsInOrder, [Next]_vars,
                    NEW c \in SerialTasks', NEW d \in SerialTasks',
                    c < d, exec'[d] # "idle"
             PROVE  exec'[c] \in Settled
  BY DEF SideEffectsInOrder
<1> USE DEF TypeOK, SerialTasks, Calls
<1>1. CASE ResolveNext
  BY <1>1 DEF ResolveNext, ExecInv
<1>2. CASE UNCHANGED <<kind, tasks, exec>>
  BY <1>2 DEF SideEffectsInOrder
<1>3. ASSUME NEW e \in Calls, CallStep(e)
      PROVE exec'[c] \in Settled
  <2>1. c \in SerialTasks /\ d \in SerialTasks /\ c \in Nat /\ d \in Nat
    <3>1. UNCHANGED <<kind, tasks>>
      BY <1>3 DEF CallStep, BeginInline, BeginParallel, CheckSerial, BeginSerial, Finish, Begin
    <3>2. QED
      BY <3>1
  <2>2. exec[e] \in {"idle", "ready", "running"}
    BY <1>3 DEF CallStep, BeginInline, BeginParallel, CheckSerial, BeginSerial, Finish
  <2>3. exec[c] \in Settled => exec'[c] \in Settled
    <3>1. exec[c] \in Settled => c # e
      BY <2>2 DEF Settled
    <3>2. c # e => exec'[c] = exec[c]
      BY <1>3 DEF CallStep, BeginInline, BeginParallel, CheckSerial, BeginSerial,
         Finish, Begin
    <3>3. QED
      BY <3>1, <3>2
  <2>4. CASE exec[d] # "idle"
    BY <2>1, <2>3, <2>4 DEF SideEffectsInOrder
  <2>5. CASE exec[d] = "idle"
    <3>1. d = e /\ ~Finish(e) /\ ~BeginSerial(e)
      BY <1>3, <2>5 DEF CallStep, BeginInline, BeginParallel, CheckSerial, BeginSerial,
         Finish, Begin
    <3>2. ~BeginInline(e) /\ ~BeginParallel(e)
      BY <2>1, <3>1 DEF BeginInline, BeginParallel, ParallelTasks, ExecInv
    <3>3. QED
      BY <1>3, <2>1, <2>3, <3>1, <3>2 DEF CallStep, CheckSerial, SerialTurn
  <2>6. QED
    BY <2>4, <2>5
<1>4. QED
  BY <1>1, <1>2, <1>3 DEF Next, AgentStep, vars, Cancel, ResolveEnd, Dispatch, Join,
     RecordNext, RecordEnd

\* A call that begins late is the last that can.
LEMMA LateStep ==
  TypeOK /\ ExecInv /\ SideEffectsInOrder /\ LateInv /\ OneLateStart /\ [Next]_vars
    => LateInv' /\ OneLateStart'
<1> SUFFICES ASSUME TypeOK, ExecInv, SideEffectsInOrder, LateInv, OneLateStart,
                    [Next]_vars
             PROVE  LateInv' /\ OneLateStart'
  OBVIOUS
<1> USE DEF LateInv, OneLateStart
<1>1. CASE ResolveNext
  BY <1>1 DEF ResolveNext
<1>2. CASE RecordNext
  BY <1>2 DEF RecordNext
<1>3. CASE Cancel \/ ResolveEnd \/ Dispatch \/ Join \/ RecordEnd \/ UNCHANGED vars
  <2>1. ctxDone => ctxDone'
    BY <1>3 DEF TypeOK, Cancel, ResolveEnd, Dispatch, Join, RecordEnd, vars
  <2>2. QED
    BY <1>3, <2>1, QuietFrame
<1>4. ASSUME NEW c \in Calls, CallStep(c)
      PROVE LateInv' /\ OneLateStart'
  <2> USE <1>4, CallFrame
  <2>1. late \subseteq Calls
    BY DEF TypeOK
  <2>2. CASE late' = late /\ exec'[c] # "ready"
    <3>1. \A d \in late : exec'[d] # "idle"
      BY <2>1 DEF Finish, TypeOK
    <3>2. \A d \in late, e \in Calls : exec'[e] # "ready"
      BY <2>2
    <3>3. QED
      BY <2>1, <2>2, <3>1, <3>2
  <2>3. CASE CheckSerial(c)
    <3>1. late' = late /\ (exec'[c] = "ready" => ~ctxDone)
      BY <2>3 DEF CheckSerial, TypeOK
    <3>2. exec'[c] = "ready" => late = {}
      BY <3>1
    <3>3. QED
      BY <2>2, <3>1, <3>2
  <2>4. ASSUME Begin(c), c \in tasks, late \subseteq {c},
               \A d \in Calls : d # c => exec[d] # "ready"
        PROVE  LateInv' /\ OneLateStart'
    <3>1. exec'[c] = "running" /\ late' \subseteq {c}
      BY <2>4 DEF Begin, TypeOK
    <3>2. c \in late' => c \in late \/ (ctxDone /\ kind[c] = "serial")
      BY <2>4 DEF Begin
    <3>3. QED
      BY <2>4, <3>1, <3>2
  <2>5. CASE BeginInline(c)
    <3>1. c \in tasks /\ late \subseteq {c} /\ \A d \in Calls : exec[d] # "ready"
      BY <2>1, <2>5 DEF BeginInline, ExecInv
    <3>2. QED
      BY <2>4, <2>5, <3>1 DEF BeginInline
  <2>6. CASE BeginParallel(c)
    <3>1. exec'[c] = "running" /\ late' = late
      BY <2>6 DEF BeginParallel, Begin, ParallelTasks, TypeOK
    <3>2. QED
      BY <2>2, <3>1
  <2>7. CASE BeginSerial(c)
    <3>1. exec[c] = "ready" /\ c \in SerialTasks /\ late = {}
      BY <2>7 DEF BeginSerial, SerialTurn
    <3>2. ASSUME NEW d \in Calls, d # c, exec[d] = "ready" PROVE FALSE
      <4>1. d \in SerialTasks
        BY <3>2 DEF ExecInv, SerialTasks
      <4>2. CASE d < c
        BY <2>7, <3>2, <4>1, <4>2 DEF BeginSerial, SerialTurn, Settled
      <4>3. CASE c < d
        BY <3>1, <3>2, <4>1, <4>3 DEF SideEffectsInOrder, Settled
      <4>4. QED
        BY <3>2, <4>2, <4>3 DEF Calls
    <3>3. QED
      BY <2>4, <2>7, <3>1, <3>2 DEF BeginSerial, SerialTasks
  <2>8. CASE Finish(c)
    BY <2>2, <2>8 DEF Finish, TypeOK
  <2>9. QED
    BY <2>3, <2>5, <2>6, <2>7, <2>8 DEF CallStep
<1>5. QED
  BY <1>1, <1>2, <1>3, <1>4 DEF Next, AgentStep

-----------------------------------------------------------------------------
(* The conversation: which results it holds, and in which order. *)

LEMMA ReplyStep ==
  TypeOK /\ TaskInv /\ ReplyInv /\ RepliesInOrder /\ [Next]_vars
    => ReplyInv' /\ RepliesInOrder'
<1> SUFFICES ASSUME TypeOK, TaskInv, ReplyInv, RepliesInOrder, [Next]_vars
             PROVE  ReplyInv' /\ RepliesInOrder'
  OBVIOUS
<1> USE DEF ReplyInv, RepliesInOrder
<1>0. \A i \in DOMAIN replies : i \in 1 .. Len(replies) /\ replies[i].call \in Calls
  BY ReplyTypes
<1>1. CASE ResolveNext
  <2>1. /\ phase = "resolve" /\ phase' = phase /\ kind' = kind
        /\ cursor \in Calls /\ cursor' = cursor + 1
    BY <1>1 DEF ResolveNext
  <2>2. CASE kind[cursor] = "unknown" /\ Reply(cursor, "error") /\ UNCHANGED tasks
    <3>1. \A i \in DOMAIN replies : replies[i].call < cursor /\ replies[i].call \notin tasks
      BY <2>1
    <3>2. cursor \notin tasks
      BY <2>2 DEF TaskInv
    <3>3. Len(replies) + 1 \in Nat /\ \A i \in DOMAIN replies : i < Len(replies) + 1
      BY <1>0 DEF TypeOK
    <3>4. \A i \in DOMAIN replies' :
            \/ i \in DOMAIN replies /\ replies'[i] = replies[i]
            \/ i = Len(replies) + 1 /\ replies'[i] = [call |-> cursor, result |-> "error"]
      BY <2>1, <2>2, AppendReply
    <3>5. ReplyInv'
      BY <1>0, <2>1, <2>2, <3>1, <3>2, <3>4 DEF Calls
    <3>6. RepliesInOrder'
      BY <1>0, <2>1, <2>2, <3>1, <3>2, <3>3, <3>4 DEF Calls
    <3>7. QED
      BY <3>5, <3>6
  <2>3. CASE tasks' = tasks \cup {cursor} /\ UNCHANGED replies
    <3>1. \A i \in DOMAIN replies : replies[i].call < cursor /\ replies[i].call \notin tasks
      BY <2>1
    <3>2. QED
      BY <1>0, <2>1, <2>3, <3>1 DEF Calls
  <2>4. QED
    BY <1>1, <2>2, <2>3 DEF ResolveNext
<1>2. CASE RecordNext
  <2>1. PICK c \in Unrecorded, r \in {"ok", "error"} :
          /\ Reply(c, r)
          /\ cursor' = c + 1
    BY <1>2 DEF RecordNext
  <2>2. /\ phase = "record" /\ UNCHANGED <<kind, phase, tasks>>
    BY <1>2 DEF RecordNext
  <2>3. c \in Calls /\ c \in tasks /\ c >= cursor /\ cursor \in Nat /\ c \in Nat
    BY DEF Unrecorded, TypeOK, Calls
  <2>4. Len(replies) + 1 \in Nat /\ \A i \in DOMAIN replies : i < Len(replies) + 1
    BY <1>0 DEF TypeOK
  <2>5. \A i \in DOMAIN replies' :
            \/ i \in DOMAIN replies /\ replies'[i] = replies[i]
            \/ i = Len(replies) + 1 /\ replies'[i] = [call |-> c, result |-> r]
    <3>1. Reply(c, r)
      BY <2>1
    <3>2. QED
      BY <2>3, <3>1, ReplyAppended
  <2>6. \A i \in DOMAIN replies : replies[i].call \in tasks => replies[i].call < c
    BY <1>0, <2>2, <2>3 DEF Calls
  <2>7. ReplyInv'
    BY <1>0, <2>1, <2>2, <2>3, <2>5, <2>6 DEF Calls
  <2>8. RepliesInOrder'
    <3>1. \A i \in DOMAIN replies : replies[i].call # c
      BY <2>3, <2>6
    <3>2. QED
      BY <1>0, <2>2, <2>3, <2>4, <2>5, <2>6, <3>1 DEF Calls
  <2>9. QED
    BY <2>7, <2>8
<1>3. CASE Cancel \/ UNCHANGED vars
  BY <1>3 DEF Cancel, vars
<1>4. CASE ResolveEnd \/ Dispatch \/ Join \/ RecordEnd
  <2>1. UNCHANGED <<kind, tasks, replies>>
    BY <1>4, QuietFrame
  <2>2. phase' # "resolve" /\ (phase \in {"record", "done"} => phase' \in {"record", "done"})
    BY <1>4 DEF ResolveEnd, Dispatch, Join, RecordEnd
  <2>3. phase' = "record" => phase \notin {"record", "done"}
    BY <1>4 DEF ResolveEnd, Dispatch, Join, RecordEnd
  <2>4. QED
    BY <2>1, <2>2, <2>3
<1>5. ASSUME NEW c \in Calls, CallStep(c)
      PROVE ReplyInv' /\ RepliesInOrder'
  BY <1>5, CallFrame
<1>6. QED
  BY <1>1, <1>2, <1>3, <1>4, <1>5 DEF Next, AgentStep

LEMMA SuccessStep ==
  TypeOK /\ ExecInv /\ SkippedInv /\ NoPhantomSuccess /\ [Next]_vars => NoPhantomSuccess'
<1> SUFFICES ASSUME TypeOK, ExecInv, SkippedInv, NoPhantomSuccess, [Next]_vars
             PROVE  NoPhantomSuccess'
  OBVIOUS
<1> USE DEF NoPhantomSuccess
<1>0. \A i \in DOMAIN replies : replies[i].call \in Calls
  BY ReplyTypes
<1>1. CASE ResolveNext
  <2>1. UNCHANGED <<exec, outcome>>
    BY <1>1 DEF ResolveNext
  <2>2. CASE UNCHANGED replies
    BY <2>1, <2>2
  <2>3. CASE cursor \in Calls /\ Reply(cursor, "error")
    BY <2>1, <2>3, ReplyAppended
  <2>4. QED
    BY <1>1, <2>2, <2>3 DEF ResolveNext
<1>2. CASE RecordNext
  <2>1. PICK c \in Unrecorded : Reply(c, IF outcome[c] = "ok" THEN "ok" ELSE "error")
    BY <1>2 DEF RecordNext
  <2>2. /\ c \in tasks /\ c \in Calls /\ phase = "record" /\ UNCHANGED <<exec, outcome>>
    BY <1>2 DEF RecordNext, Unrecorded, TypeOK
  <2>3. exec[c] = "finished" \/ exec[c] = "skipped"
    BY <2>2 DEF ExecInv, Settled
  <2>4. exec[c] = "skipped" => outcome[c] = "cancelled"
    BY <2>2 DEF SkippedInv
  <2>5. CASE outcome[c] = "ok"
    BY <2>1, <2>2, <2>3, <2>4, <2>5, ReplyAppended
  <2>6. CASE outcome[c] # "ok"
    <3>1. Reply(c, "error")
      BY <2>1, <2>6
    <3>2. QED
      BY <2>2, <3>1, ReplyAppended
  <2>7. QED
    BY <2>5, <2>6
<1>3. CASE Cancel \/ ResolveEnd \/ Dispatch \/ Join \/ RecordEnd \/ UNCHANGED vars
  BY <1>3, QuietFrame
<1>4. ASSUME NEW c \in Calls, CallStep(c)
      PROVE NoPhantomSuccess'
  <2>1. UNCHANGED replies /\ exec[c] # "finished"
    BY <1>4, CallFrame
  <2>2. \A i \in DOMAIN replies :
          replies[i].result = "ok" => replies[i].call # c
    BY <2>1
  <2>3. QED
    BY <1>0, <1>4, <2>1, <2>2, CallFrame
<1>5. QED
  BY <1>1, <1>2, <1>3, <1>4 DEF Next, AgentStep

\* Resolution and recording pass over nothing unless the turn is cancelled.
LEMMA CompleteStep ==
  TypeOK /\ TaskInv /\ CompleteInv /\ [Next]_vars => CompleteInv'
<1> SUFFICES ASSUME TypeOK, TaskInv, CompleteInv, [Next]_vars, ~ctxDone'
             PROVE  CompleteInv'
  BY DEF CompleteInv
<1> USE DEF CompleteInv
<1>0. ~ctxDone
  BY DEF Next, AgentStep, CallStep, Cancel, ResolveNext, ResolveEnd, Dispatch, Join,
     RecordNext, RecordEnd, BeginInline, BeginParallel, CheckSerial, BeginSerial,
     Finish, Begin, vars, TypeOK
<1>1. CASE ResolveNext
  <2>1. /\ phase = "resolve" /\ phase' = phase /\ kind' = kind
        /\ cursor \in Calls /\ cursor' = cursor + 1
    BY <1>1 DEF ResolveNext
  <2>2. \A c \in Calls : c < cursor' => c < cursor \/ c = cursor
    BY <2>1 DEF Calls
  <2>3. CASE kind[cursor] = "unknown" /\ Reply(cursor, "error") /\ UNCHANGED tasks
    <3>1. AnsweredCalls' = AnsweredCalls \cup {cursor}
      BY <2>1, <2>3, AppendReply
    <3>2. QED
      BY <1>0, <2>1, <2>2, <2>3, <3>1
  <2>4. CASE kind[cursor] # "unknown" /\ tasks' = tasks \cup {cursor} /\ UNCHANGED replies
    BY <1>0, <2>1, <2>2, <2>4, SameAnswers
  <2>5. QED
    BY <1>1, <2>3, <2>4 DEF ResolveNext
<1>2. CASE ResolveEnd
  <2>1. cursor \notin Calls /\ phase = "resolve" /\ phase' = "dispatch"
        /\ UNCHANGED <<kind, tasks, replies>>
    BY <1>0, <1>2 DEF ResolveEnd
  <2>2. \A c \in Calls : c < cursor
    BY <2>1 DEF TypeOK, Calls
  <2>3. QED
    BY <1>0, <2>1, <2>2, SameAnswers
<1>3. CASE Dispatch
  <2>1. phase = "dispatch" /\ phase' \notin {"resolve", "record"}
    BY <1>3 DEF Dispatch
  <2>2. phase' = "done" => tasks = {}
    BY <1>3 DEF Dispatch
  <2>3. UNCHANGED <<kind, tasks, replies>>
    BY <1>3 DEF Dispatch
  <2>4. QED
    BY <1>0, <2>1, <2>2, <2>3, SameAnswers
<1>4. CASE Join
  <2>1. phase \notin {"resolve", "done"} /\ phase' = "record" /\ cursor' = 1
        /\ UNCHANGED <<kind, tasks, replies>>
    BY <1>4 DEF Join
  <2>2. \A c \in Calls : ~(c < 1)
    BY DEF Calls
  <2>3. QED
    BY <1>0, <2>1, <2>2, SameAnswers
<1>5. CASE RecordNext
  <2>1. PICK c \in Unrecorded, r \in {"ok", "error"} :
          /\ \A d \in Unrecorded : c <= d
          /\ Reply(c, r)
          /\ cursor' = c + 1
    BY <1>5 DEF RecordNext
  <2>2. phase = "record" /\ UNCHANGED <<kind, phase, tasks>>
    BY <1>5 DEF RecordNext
  <2>3. c \in tasks /\ c \in Calls
    BY DEF Unrecorded, TypeOK
  <2>4. AnsweredCalls' = AnsweredCalls \cup {c}
    <3>1. Reply(c, r)
      BY <2>1
    <3>2. QED
      BY <2>3, <3>1, AppendReply
  <2>5. \A d \in tasks : d < cursor' => d < cursor \/ d = c
    <3>1. ASSUME NEW d \in tasks, d < c + 1, ~(d < cursor) PROVE d = c
      <4>1. d \in Nat /\ c \in Nat /\ cursor \in Nat
        BY <2>3 DEF TypeOK, Calls
      <4>2. d \in Unrecorded
        BY <3>1, <4>1 DEF Unrecorded
      <4>3. QED
        BY <2>1, <3>1, <4>1, <4>2
    <3>2. QED
      BY <2>1, <3>1
  <2>6. QED
    BY <1>0, <2>2, <2>4, <2>5
<1>6. CASE RecordEnd
  <2>1. /\ phase = "record" /\ phase' = "done" /\ Unrecorded = {}
        /\ UNCHANGED <<kind, tasks, replies>>
    BY <1>0, <1>6 DEF RecordEnd
  <2>2. \A c \in tasks : c < cursor
    BY <2>1 DEF Unrecorded, TypeOK, Calls
  <2>3. QED
    BY <1>0, <2>1, <2>2, SameAnswers
<1>7. CASE UNCHANGED vars
  BY <1>0, <1>7, SameAnswers DEF vars
<1>8. ASSUME NEW c \in Calls, CallStep(c)
      PROVE CompleteInv'
  BY <1>0, <1>8, CallFrame, SameAnswers
<1>9. QED
  BY <1>0, <1>1, <1>2, <1>3, <1>4, <1>5, <1>6, <1>7, <1>8 DEF Next, AgentStep, Cancel

-----------------------------------------------------------------------------
LEMMA Inductive == Spec => []IInv
<1>1. IInv /\ [Next]_vars => IInv'
  BY TypeStep, ExecStep, SkippedStep, TaskStep, OrderStep, LateStep, ReplyStep,
     SuccessStep, CompleteStep DEF IInv
<1>2. QED
  BY <1>1, InitIInv, PTL DEF Spec

\* The state of the batch always has its type (agent.execTools).
THEOREM TypeCorrect == Spec => []TypeOK
BY Inductive, PTL DEF IInv

\* However the goroutines of a batch interleave, its side-effecting calls
\* begin in program order, each after the one before is over.
THEOREM SideEffectsOrdered == Spec => []SideEffectsInOrder
BY Inductive, PTL DEF IInv

\* After a cancel at most one more side-effecting call begins.
THEOREM AtMostOneLateStart == Spec => []OneLateStart
BY Inductive, PTL DEF IInv

\* A success in the conversation is the success of a tool that ran.
THEOREM SuccessIsReal == Spec => []NoPhantomSuccess
BY Inductive, PTL DEF IInv

\* Each call has at most one result, and results keep the order of the calls.
THEOREM RepliesOrdered == Spec => []RepliesInOrder
BY Inductive, PTL DEF IInv

-----------------------------------------------------------------------------
(* execTools implements BatchContract. *)

\* Every step of the batch is a step of the contract or a stutter.
LEMMA ContractStep ==
  IInv /\ IInv' /\ [Next]_vars => [Contract!Next]_(Contract!vars)
<1> SUFFICES ASSUME IInv, IInv', [Next]_vars
             PROVE  [Contract!Next]_(Contract!vars)
  OBVIOUS
<1> USE DEF Contract!Next, Contract!vars
<1>1. TypeOK /\ ReplyInv /\ CompleteInv /\ CompleteInv'
  BY DEF IInv
<1>2. ASSUME NEW c \in Calls, NEW r \in {"ok", "error"}, Reply(c, r),
             c \notin AnsweredCalls, phase # "done", UNCHANGED <<ctxDone, phase>>
      PROVE  [Contract!Next]_(Contract!vars)
  <2>1. AnsweredCalls' = AnsweredCalls \cup {c}
    BY <1>1, <1>2, AppendReply
  <2>2. Contract!Answer(c)
    BY <1>2, <2>1 DEF Contract!Answer
  <2>3. QED
    BY <2>2
<1>3. CASE Cancel
  <2>1. ~ctxDone /\ ctxDone' /\ ctxDone' = TRUE /\ UNCHANGED <<AnsweredCalls, phase>>
    BY <1>3, SameAnswers DEF Cancel
  <2>2. QED
    BY <2>1 DEF Contract!Revoke
<1>4. CASE ResolveNext
  <2>1. cursor \in Calls /\ phase = "resolve" /\ UNCHANGED <<ctxDone, phase>>
    BY <1>4 DEF ResolveNext
  <2>2. CASE UNCHANGED replies
    BY <2>1, <2>2, SameAnswers
  <2>3. CASE Reply(cursor, "error")
    <3>1. cursor \notin AnsweredCalls
      BY <1>1, <2>1, ReplyTypes DEF ReplyInv, AnsweredCalls, Calls
    <3>2. QED
      BY <1>2, <2>1, <2>3, <3>1
  <2>4. QED
    BY <1>4, <2>2, <2>3 DEF ResolveNext
<1>5. CASE RecordNext
  <2>1. PICK c \in Unrecorded, r \in {"ok", "error"} : Reply(c, r)
    BY <1>5 DEF RecordNext
  <2>2. phase = "record" /\ UNCHANGED <<ctxDone, phase>>
    BY <1>5 DEF RecordNext
  <2>3. c \in tasks /\ c \in Calls /\ c >= cursor /\ cursor \in Nat
    BY <1>1 DEF Unrecorded, TypeOK
  <2>4. c \notin AnsweredCalls
    BY <1>1, <2>2, <2>3, ReplyTypes DEF ReplyInv, AnsweredCalls, Calls
  <2>5. QED
    BY <1>2, <2>1, <2>2, <2>3, <2>4
<1>6. CASE Dispatch \/ RecordEnd
  <2>1. phase # "done" /\ UNCHANGED <<ctxDone, AnsweredCalls>>
    BY <1>6, SameAnswers DEF Dispatch, RecordEnd
  <2>2. AnsweredCalls \subseteq Calls
    BY <1>1, ReplyTypes DEF AnsweredCalls
  <2>3. CASE phase' = "done"
    <3>1. AnsweredCalls = Calls \/ ctxDone
      BY <1>1, <2>1, <2>2, <2>3 DEF CompleteInv
    <3>2. QED
      BY <2>1, <2>3, <3>1 DEF Contract!Return
  <2>4. QED
    BY <2>1, <2>3
<1>7. CASE ResolveEnd \/ Join \/ UNCHANGED vars
  <2>1. (phase' = "done") = (phase = "done") /\ UNCHANGED <<ctxDone, AnsweredCalls>>
    BY <1>7, SameAnswers DEF ResolveEnd, Join, vars
  <2>2. QED
    BY <2>1
<1>8. ASSUME NEW c \in Calls, CallStep(c)
      PROVE [Contract!Next]_(Contract!vars)
  BY <1>1, <1>8, CallFrame, SameAnswers
<1>9. QED
  BY <1>3, <1>4, <1>5, <1>6, <1>7, <1>8 DEF Next, AgentStep

\* For every batch: no call is answered twice, and execTools returns with a
\* call unanswered only when the turn was cancelled.
THEOREM Implementation == Spec => ImplementsContract
<1>1. Init => Contract!Init
  <2>1. Init => AnsweredCalls = {} /\ ctxDone = FALSE /\ (phase = "done") = FALSE
    BY InitReplies DEF Init
  <2>2. QED
    BY <2>1 DEF Contract!Init
<1>2. QED
  BY <1>1, Inductive, ContractStep, PTL DEF Spec, ImplementsContract, Contract!Spec
=============================================================================
