-------------------------- MODULE AgentLoopProofs --------------------------
(***************************************************************************)
(* Machine-checked proofs, for an inbox of any capacity and any number of  *)
(* messages and interrupts, of the safety properties MCAgentLoop checks.   *)
(***************************************************************************)
EXTENDS AgentLoopProps, TLAPS

-----------------------------------------------------------------------------
(* The inductive invariant. *)

\* A turn that is over has answered what it took in, and the loop goes on
\* from it by how it ended.
EndInv ==
  /\ run \in {"return", "closing", "after", "cancelled", "drain"} =>
       outcome # "running" /\ (outcome = "complete" => ~unread \/ moved)
  /\ run \in {"after", "cancelled", "drain"} => lastEnd = outcome
  /\ run = "cancelled" => outcome = "cancelled"
  /\ run = "drain" => outcome = "complete"

\* What an Esc on an idle agent latched is gone once a turn is to start, and
\* stays gone until the next Esc.
LatchInv == idleCall /\ pending => run \in {"wait", "batch", "supersede", "exit"}

\* A call that found no turn has no turn to its name, neither by the latch nor
\* by a cancel: the calls that have are other ones.
QuietInv ==
  /\ IdleInterruptIsHarmless
  /\ revokedBy \notin quiet
  /\ calls \in quiet => idleCall
  /\ ui = "stored" => revokedBy # calls /\ calls \notin quiet
  /\ ui = "stored" /\ idleCall => stops[calls] = 0
  /\ \A k \in 1 .. BoundInterrupts : k > calls => stops[k] = 0

\* The done channel of the turn in flight is open, wherever the turn stands.
DoneInv == run \in {"published", "think", "return", "closing", "bail"} => closed < cur

\* A call under way has been counted.
CallInv == ui # "idle" => calls # 0

IInv == TypeOK /\ EndInv /\ IdleMeansAnswered /\ LatchInv /\ QuietInv /\ DoneInv /\ CallInv

USE AgentLoopAssumption
\* The tuples an action leaves alone, and the program counter.
USE DEF Goto, loop, latch, turnVars, uiVars, hist

(* The type invariant in parts, each within reach of one prover. *)
InboxType ==
  inbox \in Seq([kind : Messages, calls : 0 .. BoundInterrupts]) /\ Len(inbox) <= InboxCap /\ sent \in 0 .. BoundSends
FlagType ==
  /\ ctxAlive \in BOOLEAN /\ pending \in BOOLEAN /\ idleCall \in BOOLEAN
  /\ unread \in BOOLEAN /\ erased \in BOOLEAN /\ revoked \in BOOLEAN /\ moved \in BOOLEAN
PlaceType ==
  /\ run \in Places /\ ui \in {"idle", "stored", "waiting"}
  /\ outcome \in Turn!Outcomes \cup {"running"} /\ lastEnd \in Turn!Outcomes \cup {"bail"}
CountType ==
  /\ cur \in Nat /\ turn \in {0, cur} /\ closed \in 0 .. cur
  /\ held \in 0 .. cur /\ calls \in 0 .. BoundInterrupts /\ inFlight \in 0 .. cur
HistType ==
  /\ revokedBy \in 0 .. calls /\ quiet \subseteq 1 .. calls /\ newest \in 0 .. BoundInterrupts
  /\ stops \in [1 .. BoundInterrupts -> Nat]

\* The parts are the invariant.
LEMMA TypeParts == TypeOK <=> InboxType /\ FlagType /\ PlaceType /\ CountType /\ HistType
BY DEF TypeOK, InboxType, FlagType, PlaceType, CountType, HistType

\* Hence the same of the next state.
LEMMA TypePartsNext == InboxType' /\ FlagType' /\ PlaceType' /\ CountType' /\ HistType' => TypeOK'
BY DEF TypeOK, InboxType, FlagType, PlaceType, CountType, HistType

-----------------------------------------------------------------------------
\* The initial states satisfy the invariant.
LEMMA InitInv == Init => IInv
<1> SUFFICES ASSUME Init PROVE IInv
  OBVIOUS
<1>1. TypeOK
  <2>1. InboxType /\ FlagType
    <3>1. InboxType
      BY DEF Init, InboxType
    <3>2. FlagType
      BY DEF Init, FlagType
    <3>3. QED
      BY <3>1, <3>2
  <2>2. PlaceType
    BY DEF Init, PlaceType, Places, Turn!Outcomes
  <2>3. CountType /\ HistType
    BY DEF Init, CountType, HistType
  <2>4. QED
    BY <2>1, <2>2, <2>3, TypeParts
<1>2. EndInv /\ IdleMeansAnswered /\ LatchInv /\ QuietInv /\ DoneInv /\ CallInv
  BY DEF Init, EndInv, IdleMeansAnswered, LatchInv, QuietInv, IdleInterruptIsHarmless, DoneInv, CallInv
<1>3. QED
  BY <1>1, <1>2 DEF IInv

\* A message on its way into the inbox keeps the inbox one.
LEMMA EnqueueType ==
  ASSUME IInv, NEW kind \in Messages, Enqueue(kind)
  PROVE  inbox' \in Seq([kind : Messages, calls : 0 .. BoundInterrupts]) /\ Len(inbox') = Len(inbox) + 1
<1>1. Returned \in 0 .. BoundInterrupts
  BY DEF IInv, TypeOK, CallInv, Returned
<1>2. QED
  BY <1>1 DEF IInv, TypeOK, Enqueue

\* A sequence that is not empty splits into its head and its tail.
LEMMA HeadAndTail ==
  ASSUME NEW S, NEW q \in Seq(S), q # <<>>
  PROVE  Head(q) \in S /\ Tail(q) \in Seq(S) /\ Len(Tail(q)) = Len(q) - 1 /\ Len(q) \in Nat
OBVIOUS

\* Taking a message off the inbox touches only the conversation.
LEMMA IngestType ==
  ASSUME IInv, inbox # <<>>, Ingest(Head(inbox))
  PROVE  /\ inbox' \in Seq([kind : Messages, calls : 0 .. BoundInterrupts]) /\ Len(inbox') <= InboxCap
         /\ Head(inbox) \in [kind : Messages, calls : 0 .. BoundInterrupts]
         /\ unread' \in BOOLEAN /\ erased' \in BOOLEAN /\ newest' \in 0 .. BoundInterrupts
         /\ Head(inbox).kind # "user" /\ unread' => unread
<1>0. inbox \in Seq([kind : Messages, calls : 0 .. BoundInterrupts]) /\ Len(inbox) <= InboxCap
  BY DEF IInv, TypeOK
<1>1. /\ Head(inbox) \in [kind : Messages, calls : 0 .. BoundInterrupts]
      /\ Tail(inbox) \in Seq([kind : Messages, calls : 0 .. BoundInterrupts])
      /\ Len(Tail(inbox)) <= InboxCap
  <2>1. /\ Head(inbox) \in [kind : Messages, calls : 0 .. BoundInterrupts]
        /\ Tail(inbox) \in Seq([kind : Messages, calls : 0 .. BoundInterrupts])
        /\ Len(Tail(inbox)) = Len(inbox) - 1 /\ Len(inbox) \in Nat
    BY <1>0, HeadAndTail, Zenon
  <2>2. Len(inbox) <= InboxCap
    BY <1>0
  <2>3. QED
    BY <2>1, <2>2
<1>2. inbox' \in Seq([kind : Messages, calls : 0 .. BoundInterrupts]) /\ Len(inbox') <= InboxCap
  BY <1>1 DEF Ingest
<1>3. newest' \in 0 .. BoundInterrupts
  BY <1>1 DEF Ingest, IInv, TypeOK
<1>4. unread' \in BOOLEAN /\ erased' \in BOOLEAN /\ (Head(inbox).kind # "user" /\ unread' => unread)
  BY <1>1 DEF Ingest, IInv, TypeOK
<1>5. QED
  BY <1>1, <1>2, <1>3, <1>4

\* QuietInv speaks of the UI's calls and of what they stopped only.
LEMMA QuietStable ==
  ASSUME QuietInv, UNCHANGED <<ui, calls, idleCall, quiet, revokedBy, stops>>
  PROVE  QuietInv'
BY DEF QuietInv, IdleInterruptIsHarmless

-----------------------------------------------------------------------------
(* One lemma per action. *)

LEMMA SendInv == ASSUME IInv, NEW kind \in Messages, Send(kind) PROVE IInv'
<1>1. TypeOK'
  <2>1. InboxType'
    <3>1. inbox' \in Seq([kind : Messages, calls : 0 .. BoundInterrupts]) /\ Len(inbox') = Len(inbox) + 1
      BY EnqueueType DEF Send
    <3>2. Len(inbox) \in Nat /\ Len(inbox) < InboxCap
      BY DEF IInv, TypeOK, Send
    <3>3. sent' \in 0 .. BoundSends
      BY DEF IInv, TypeOK, Send
    <3>4. QED
      BY <3>1, <3>2, <3>3 DEF InboxType
  <2>2. FlagType'
    BY EnqueueType DEF IInv, TypeOK, FlagType, Send
  <2>3. PlaceType'
    BY EnqueueType DEF IInv, TypeOK, PlaceType, Places, Turn!Outcomes, Send
  <2>4. CountType'
    BY EnqueueType DEF IInv, TypeOK, CountType, CallInv, Send
  <2>5. HistType'
    BY EnqueueType DEF IInv, TypeOK, HistType, CallInv, Send
  <2>6. QED
    BY <2>1, <2>2, <2>3, <2>4, <2>5, TypePartsNext
<1>2. EndInv' /\ IdleMeansAnswered'
  BY EnqueueType DEF IInv, TypeOK, EndInv, IdleMeansAnswered, Send
<1>3. LatchInv' /\ DoneInv' /\ CallInv'
  BY EnqueueType DEF IInv, TypeOK, LatchInv, DoneInv, CallInv, Send
<1>4. QuietInv'
  BY QuietStable DEF IInv, uiVars, Send
<1>5. QED
  BY <1>1, <1>2, <1>3, <1>4 DEF IInv

LEMMA SessionStopInv == ASSUME IInv, SessionStop PROVE IInv'
<1>1. TypeOK'
  <2>1. InboxType'
    BY EnqueueType DEF IInv, TypeOK, InboxType, SessionStop, Messages
  <2>2. FlagType'
    BY EnqueueType DEF IInv, TypeOK, FlagType, SessionStop, Messages
  <2>3. PlaceType'
    BY EnqueueType DEF IInv, TypeOK, PlaceType, Places, Turn!Outcomes, SessionStop, Messages
  <2>4. CountType'
    BY EnqueueType DEF IInv, TypeOK, CountType, CallInv, SessionStop, Messages
  <2>5. HistType'
    BY EnqueueType DEF IInv, TypeOK, HistType, CallInv, SessionStop, Messages
  <2>6. QED
    BY <2>1, <2>2, <2>3, <2>4, <2>5, TypePartsNext
<1>2. EndInv' /\ IdleMeansAnswered'
  BY EnqueueType DEF IInv, TypeOK, EndInv, IdleMeansAnswered, SessionStop, Messages
<1>3. LatchInv' /\ DoneInv' /\ CallInv'
  BY EnqueueType DEF IInv, TypeOK, LatchInv, DoneInv, CallInv, SessionStop, Messages
<1>4. QuietInv'
  BY QuietStable DEF IInv, uiVars, SessionStop
<1>5. QED
  BY <1>1, <1>2, <1>3, <1>4 DEF IInv

LEMMA ReceiveInv == ASSUME IInv, Receive PROVE IInv'
<1>1. TypeOK'
  <2>1. InboxType' /\ FlagType'
    BY IngestType DEF IInv, TypeOK, InboxType, FlagType, Receive, Ingest
  <2>2. PlaceType'
    BY DEF IInv, TypeOK, PlaceType, Places, Receive, Ingest
  <2>3. CountType' /\ HistType'
    BY IngestType DEF IInv, TypeOK, CountType, HistType, Receive, Ingest
  <2>4. QED
    BY <2>1, <2>2, <2>3, TypePartsNext
<1>2. EndInv' /\ IdleMeansAnswered'
  BY IngestType DEF IInv, TypeOK, EndInv, IdleMeansAnswered, Receive, Ingest, Messages
<1>3. LatchInv' /\ DoneInv' /\ CallInv'
  BY IngestType DEF IInv, TypeOK, LatchInv, DoneInv, CallInv, Receive, Ingest, Messages
<1>4. QuietInv'
  BY QuietStable DEF IInv, uiVars, Receive, Ingest
<1>5. QED
  BY <1>1, <1>2, <1>3, <1>4 DEF IInv

LEMMA TakeInTurnInv == ASSUME IInv, TakeInTurn PROVE IInv'
<1>1. TypeOK'
  BY IngestType DEF IInv, TypeOK, CallInv, Places, Turn!Outcomes, TakeInTurn, Ingest
<1>2. EndInv' /\ IdleMeansAnswered'
  BY IngestType DEF IInv, TypeOK, EndInv, IdleMeansAnswered, TakeInTurn, Ingest
<1>3. LatchInv' /\ DoneInv' /\ CallInv'
  BY IngestType DEF IInv, TypeOK, LatchInv, DoneInv, CallInv, TakeInTurn, Ingest
<1>4. QuietInv'
  BY QuietStable DEF IInv, uiVars, TakeInTurn, Ingest
<1>5. QED
  BY <1>1, <1>2, <1>3, <1>4 DEF IInv

LEMMA DrainInv == ASSUME IInv, Drain PROVE IInv'
<1>1. TypeOK'
  <2>1. InboxType'
    BY IngestType DEF IInv, TypeOK, InboxType, Drain, Ingest, Messages
  <2>2. FlagType'
    BY IngestType DEF IInv, TypeOK, FlagType, Drain, Ingest, Messages
  <2>3. PlaceType'
    BY IngestType DEF IInv, TypeOK, PlaceType, Places, Turn!Outcomes, Drain, Ingest, Messages
  <2>4. CountType'
    BY IngestType DEF IInv, TypeOK, CountType, CallInv, Drain, Ingest, Messages
  <2>5. HistType'
    BY IngestType DEF IInv, TypeOK, HistType, CallInv, Drain, Ingest, Messages
  <2>6. QED
    BY <2>1, <2>2, <2>3, <2>4, <2>5, TypePartsNext
<1>2. EndInv' /\ IdleMeansAnswered'
  BY IngestType DEF IInv, TypeOK, EndInv, IdleMeansAnswered, Drain, Ingest, Messages
<1>3. LatchInv' /\ DoneInv' /\ CallInv'
  <2>1. LatchInv'
    BY DEF IInv, LatchInv, Drain, Ingest
  <2>2. DoneInv'
    BY DEF IInv, DoneInv, Drain, Ingest
  <2>3. CallInv'
    BY DEF IInv, CallInv, Drain
  <2>4. QED
    BY <2>1, <2>2, <2>3
<1>4. QuietInv'
  BY QuietStable DEF IInv, uiVars, Drain, Ingest
<1>5. QED
  BY <1>1, <1>2, <1>3, <1>4 DEF IInv

LEMMA WaitCancelledInv == ASSUME IInv, WaitCancelled PROVE IInv'
<1>1. TypeOK'
  BY DEF IInv, TypeOK, CallInv, Places, Turn!Outcomes, WaitCancelled
<1>2. EndInv' /\ IdleMeansAnswered'
  BY DEF IInv, TypeOK, EndInv, IdleMeansAnswered, WaitCancelled
<1>3. LatchInv' /\ DoneInv' /\ CallInv'
  BY DEF IInv, TypeOK, LatchInv, DoneInv, CallInv, WaitCancelled
<1>4. QuietInv'
  BY QuietStable DEF IInv, uiVars, WaitCancelled
<1>5. QED
  BY <1>1, <1>2, <1>3, <1>4 DEF IInv

LEMMA BatchTakenInv == ASSUME IInv, BatchTaken PROVE IInv'
<1>1. TypeOK'
  BY DEF IInv, TypeOK, CallInv, Places, Turn!Outcomes, BatchTaken
<1>2. EndInv' /\ IdleMeansAnswered'
  BY DEF IInv, TypeOK, EndInv, IdleMeansAnswered, BatchTaken
<1>3. LatchInv' /\ DoneInv' /\ CallInv'
  BY DEF IInv, TypeOK, LatchInv, DoneInv, CallInv, BatchTaken
<1>4. QuietInv'
  BY QuietStable DEF IInv, uiVars, BatchTaken
<1>5. QED
  BY <1>1, <1>2, <1>3, <1>4 DEF IInv

LEMMA SupersedeInv == ASSUME IInv, Supersede PROVE IInv'
<1>1. TypeOK'
  <2>1. InboxType' /\ FlagType'
    BY DEF IInv, TypeOK, InboxType, FlagType, Supersede
  <2>2. PlaceType'
    BY DEF IInv, TypeOK, PlaceType, Places, Supersede
  <2>3. CountType' /\ HistType'
    BY DEF IInv, TypeOK, CountType, HistType, Supersede
  <2>4. QED
    BY <2>1, <2>2, <2>3, TypePartsNext
<1>2. EndInv' /\ IdleMeansAnswered'
  BY DEF IInv, TypeOK, EndInv, IdleMeansAnswered, Supersede
<1>3. LatchInv' /\ DoneInv' /\ CallInv'
  BY DEF IInv, TypeOK, LatchInv, DoneInv, CallInv, Supersede
<1>4. QuietInv'
  BY QuietStable DEF IInv, uiVars, Supersede
<1>5. QED
  BY <1>1, <1>2, <1>3, <1>4 DEF IInv

LEMMA PublishInv == ASSUME IInv, Publish PROVE IInv'
<1>1. TypeOK'
  <2>1. InboxType'
    BY DEF IInv, TypeOK, InboxType, Publish
  <2>2. FlagType'
    BY DEF IInv, TypeOK, FlagType, Publish
  <2>3. PlaceType'
    BY DEF IInv, TypeOK, PlaceType, Places, Turn!Outcomes, Publish
  <2>4. CountType'
    BY DEF IInv, TypeOK, CountType, CallInv, Publish
  <2>5. HistType'
    BY DEF IInv, TypeOK, HistType, CallInv, Publish
  <2>6. QED
    BY <2>1, <2>2, <2>3, <2>4, <2>5, TypePartsNext
<1>2. EndInv' /\ IdleMeansAnswered'
  BY DEF IInv, TypeOK, EndInv, IdleMeansAnswered, Publish
<1>3. LatchInv' /\ DoneInv' /\ CallInv'
  BY DEF IInv, TypeOK, LatchInv, DoneInv, CallInv, Publish
<1>4. QuietInv'
  BY DEF IInv, TypeOK, QuietInv, IdleInterruptIsHarmless, uiVars, CallInv, Publish
<1>5. QED
  BY <1>1, <1>2, <1>3, <1>4 DEF IInv

LEMMA CheckLatchInv == ASSUME IInv, CheckLatch PROVE IInv'
<1>1. TypeOK'
  <2>1. InboxType'
    BY DEF IInv, TypeOK, InboxType, CheckLatch
  <2>2. FlagType'
    BY DEF IInv, TypeOK, FlagType, CheckLatch
  <2>3. PlaceType'
    BY DEF IInv, TypeOK, PlaceType, Places, Turn!Outcomes, CheckLatch
  <2>4. CountType'
    BY DEF IInv, TypeOK, CountType, CallInv, CheckLatch
  <2>5. HistType'
    <3>1. stops' \in [1 .. BoundInterrupts -> Nat]
      <4>1. stops \in [1 .. BoundInterrupts -> Nat]
        BY DEF IInv, TypeOK
      <4>2. [stops EXCEPT ![calls] = @ + 1] \in [1 .. BoundInterrupts -> Nat]
        <5>1. CASE calls \in 1 .. BoundInterrupts
          BY <4>1, <5>1
        <5>2. CASE calls \notin 1 .. BoundInterrupts
          BY <4>1, <5>2
        <5>3. QED
          BY <5>1, <5>2
      <4>3. QED
        BY <4>1, <4>2 DEF CheckLatch
    <3>2. revokedBy' \in 0 .. calls' /\ quiet' \subseteq 1 .. calls' /\ newest' \in 0 .. BoundInterrupts
      BY DEF IInv, TypeOK, CheckLatch
    <3>3. QED
      BY <3>1, <3>2 DEF HistType
  <2>6. QED
    BY <2>1, <2>2, <2>3, <2>4, <2>5, TypePartsNext
<1>2. EndInv' /\ IdleMeansAnswered'
  BY DEF IInv, TypeOK, EndInv, IdleMeansAnswered, CheckLatch
<1>3. LatchInv' /\ DoneInv' /\ CallInv'
  BY DEF IInv, TypeOK, LatchInv, DoneInv, CallInv, CheckLatch
<1>4. QuietInv'
  <2>1. CASE pending
    <3>1. ~idleCall /\ calls \notin quiet
      BY <2>1 DEF IInv, LatchInv, QuietInv, CheckLatch
    <3>2. QED
      BY <2>1, <3>1 DEF IInv, TypeOK, QuietInv, IdleInterruptIsHarmless, uiVars, CheckLatch
  <2>2. CASE ~pending
    BY <2>2, QuietStable DEF IInv, uiVars, CheckLatch
  <2>3. QED
    BY <2>1, <2>2
<1>5. QED
  BY <1>1, <1>2, <1>3, <1>4 DEF IInv

LEMMA BailInv == ASSUME IInv, Bail PROVE IInv'
<1>1. TypeOK'
  <2>1. InboxType'
    BY DEF IInv, TypeOK, InboxType, Bail
  <2>2. FlagType'
    BY DEF IInv, TypeOK, FlagType, Bail
  <2>3. PlaceType'
    BY DEF IInv, TypeOK, PlaceType, Places, Turn!Outcomes, Bail
  <2>4. CountType'
    BY DEF IInv, TypeOK, CountType, CallInv, Bail
  <2>5. HistType'
    BY DEF IInv, TypeOK, HistType, CallInv, Bail
  <2>6. QED
    BY <2>1, <2>2, <2>3, <2>4, <2>5, TypePartsNext
<1>2. EndInv' /\ IdleMeansAnswered'
  BY DEF IInv, TypeOK, EndInv, IdleMeansAnswered, Bail
<1>3. LatchInv' /\ DoneInv' /\ CallInv'
  BY DEF IInv, TypeOK, LatchInv, DoneInv, CallInv, Bail
<1>4. QuietInv'
  BY QuietStable DEF IInv, uiVars, Bail
<1>5. QED
  BY <1>1, <1>2, <1>3, <1>4 DEF IInv

LEMMA StopInTurnInv == ASSUME IInv, StopInTurn PROVE IInv'
<1>1. TypeOK'
  BY DEF IInv, TypeOK, CallInv, Places, Turn!Outcomes, StopInTurn, Turn!End, Turn!Outcomes
<1>2. EndInv' /\ IdleMeansAnswered'
  BY DEF IInv, TypeOK, EndInv, IdleMeansAnswered, StopInTurn, Turn!End, Turn!Outcomes
<1>3. LatchInv' /\ DoneInv' /\ CallInv'
  BY DEF IInv, TypeOK, LatchInv, DoneInv, CallInv, StopInTurn, Turn!End, Turn!Outcomes
<1>4. QuietInv'
  BY QuietStable DEF IInv, uiVars, StopInTurn
<1>5. QED
  BY <1>1, <1>2, <1>3, <1>4 DEF IInv

LEMMA SetMaxStepsInv == ASSUME IInv, SetMaxSteps PROVE IInv'
<1>1. TypeOK'
  BY DEF IInv, TypeOK, CallInv, Places, Turn!Outcomes, SetMaxSteps, Turn!MoveCap
<1>2. EndInv' /\ IdleMeansAnswered'
  BY DEF IInv, TypeOK, EndInv, IdleMeansAnswered, SetMaxSteps, Turn!MoveCap
<1>3. LatchInv' /\ DoneInv' /\ CallInv'
  BY DEF IInv, TypeOK, LatchInv, DoneInv, CallInv, SetMaxSteps, Turn!MoveCap
<1>4. QuietInv'
  BY QuietStable DEF IInv, uiVars, SetMaxSteps
<1>5. QED
  BY <1>1, <1>2, <1>3, <1>4 DEF IInv

LEMMA AnswerInv == ASSUME IInv, Answer PROVE IInv'
<1>1. TypeOK'
  <2>1. InboxType' /\ FlagType'
    BY DEF IInv, TypeOK, InboxType, FlagType, Answer, Turn!Answer
  <2>2. PlaceType'
    BY DEF IInv, TypeOK, PlaceType, Places, Turn!Outcomes, Answer, Turn!Answer
  <2>3. CountType' /\ HistType'
    BY DEF IInv, TypeOK, CountType, HistType, Answer, Turn!Answer
  <2>4. QED
    BY <2>1, <2>2, <2>3, TypePartsNext
<1>2. EndInv' /\ IdleMeansAnswered'
  BY DEF IInv, TypeOK, EndInv, IdleMeansAnswered, Answer, Turn!Answer
<1>3. LatchInv' /\ DoneInv' /\ CallInv'
  BY DEF IInv, TypeOK, LatchInv, DoneInv, CallInv, Answer, Turn!Answer
<1>4. QuietInv'
  BY QuietStable DEF IInv, uiVars, Answer
<1>5. QED
  BY <1>1, <1>2, <1>3, <1>4 DEF IInv

LEMMA EndTurnInv == ASSUME IInv, EndTurn PROVE IInv'
<1>1. TypeOK'
  <2>1. InboxType'
    BY DEF IInv, TypeOK, InboxType, EndTurn, Turn!End, Turn!LastAnswer, Turn!Outcomes
  <2>2. FlagType'
    BY DEF IInv, TypeOK, FlagType, EndTurn, Turn!End, Turn!LastAnswer, Turn!Outcomes
  <2>3. PlaceType'
    BY DEF IInv, TypeOK, PlaceType, Places, Turn!Outcomes, EndTurn, Turn!End, Turn!LastAnswer, Turn!Outcomes
  <2>4. CountType'
    BY DEF IInv, TypeOK, CountType, CallInv, EndTurn, Turn!End, Turn!LastAnswer, Turn!Outcomes
  <2>5. HistType'
    BY DEF IInv, TypeOK, HistType, CallInv, EndTurn, Turn!End, Turn!LastAnswer, Turn!Outcomes
  <2>6. QED
    BY <2>1, <2>2, <2>3, <2>4, <2>5, TypePartsNext
<1>2. EndInv' /\ IdleMeansAnswered'
  BY DEF IInv, TypeOK, EndInv, IdleMeansAnswered, EndTurn, Turn!End, Turn!LastAnswer, Turn!Outcomes
<1>3. LatchInv' /\ DoneInv' /\ CallInv'
  BY DEF IInv, TypeOK, LatchInv, DoneInv, CallInv, EndTurn, Turn!End, Turn!LastAnswer, Turn!Outcomes
<1>4. QuietInv'
  BY QuietStable DEF IInv, uiVars, EndTurn
<1>5. QED
  BY <1>1, <1>2, <1>3, <1>4 DEF IInv

LEMMA DetachInv == ASSUME IInv, Detach PROVE IInv'
<1>1. TypeOK'
  BY DEF IInv, TypeOK, CallInv, Places, Turn!Outcomes, Detach
<1>2. EndInv' /\ IdleMeansAnswered'
  BY DEF IInv, TypeOK, EndInv, IdleMeansAnswered, Detach
<1>3. LatchInv' /\ DoneInv' /\ CallInv'
  BY DEF IInv, TypeOK, LatchInv, DoneInv, CallInv, Detach
<1>4. QuietInv'
  BY QuietStable DEF IInv, uiVars, Detach
<1>5. QED
  BY <1>1, <1>2, <1>3, <1>4 DEF IInv

LEMMA CloseDoneInv == ASSUME IInv, CloseDone PROVE IInv'
<1>1. TypeOK'
  <2>1. InboxType'
    BY DEF IInv, TypeOK, InboxType, CloseDone
  <2>2. FlagType'
    BY DEF IInv, TypeOK, FlagType, CloseDone
  <2>3. PlaceType'
    BY DEF IInv, TypeOK, PlaceType, EndInv, Places, Turn!Outcomes, CloseDone
  <2>4. CountType'
    BY DEF IInv, TypeOK, CountType, CallInv, CloseDone
  <2>5. HistType'
    BY DEF IInv, TypeOK, HistType, CallInv, CloseDone
  <2>6. QED
    BY <2>1, <2>2, <2>3, <2>4, <2>5, TypePartsNext
<1>2. EndInv' /\ IdleMeansAnswered'
  BY DEF IInv, TypeOK, EndInv, IdleMeansAnswered, CloseDone
<1>3. LatchInv' /\ DoneInv' /\ CallInv'
  BY DEF IInv, TypeOK, LatchInv, DoneInv, CallInv, CloseDone
<1>4. QuietInv'
  BY QuietStable DEF IInv, uiVars, CloseDone
<1>5. QED
  BY <1>1, <1>2, <1>3, <1>4 DEF IInv

LEMMA AfterTurnInv == ASSUME IInv, AfterTurn PROVE IInv'
<1>1. TypeOK'
  BY DEF IInv, TypeOK, CallInv, Places, Turn!Outcomes, AfterTurn
<1>2. EndInv' /\ IdleMeansAnswered'
  BY DEF IInv, TypeOK, EndInv, IdleMeansAnswered, AfterTurn
<1>3. LatchInv' /\ DoneInv' /\ CallInv'
  BY DEF IInv, TypeOK, LatchInv, DoneInv, CallInv, AfterTurn
<1>4. QuietInv'
  BY QuietStable DEF IInv, uiVars, AfterTurn
<1>5. QED
  BY <1>1, <1>2, <1>3, <1>4 DEF IInv

LEMMA TurnCancelledInv == ASSUME IInv, TurnCancelled PROVE IInv'
<1>1. TypeOK'
  <2>1. InboxType'
    BY DEF IInv, TypeOK, InboxType, TurnCancelled
  <2>2. FlagType'
    BY DEF IInv, TypeOK, FlagType, TurnCancelled
  <2>3. PlaceType'
    BY DEF IInv, TypeOK, PlaceType, Places, Turn!Outcomes, TurnCancelled
  <2>4. CountType'
    BY DEF IInv, TypeOK, CountType, CallInv, TurnCancelled
  <2>5. HistType'
    BY DEF IInv, TypeOK, HistType, CallInv, TurnCancelled
  <2>6. QED
    BY <2>1, <2>2, <2>3, <2>4, <2>5, TypePartsNext
<1>2. EndInv' /\ IdleMeansAnswered'
  BY DEF IInv, TypeOK, EndInv, IdleMeansAnswered, TurnCancelled
<1>3. LatchInv' /\ DoneInv' /\ CallInv'
  BY DEF IInv, TypeOK, LatchInv, DoneInv, CallInv, TurnCancelled
<1>4. QuietInv'
  <2>1. CASE revokedBy # 0
    BY <2>1 DEF IInv, TypeOK, QuietInv, IdleInterruptIsHarmless, uiVars, TurnCancelled
  <2>2. CASE revokedBy = 0
    BY <2>2, QuietStable DEF IInv, uiVars, TurnCancelled
  <2>3. QED
    BY <2>1, <2>2
<1>5. QED
  BY <1>1, <1>2, <1>3, <1>4 DEF IInv

LEMMA InterruptInv == ASSUME IInv, Interrupt PROVE IInv'
<1>1. TypeOK'
  BY DEF IInv, TypeOK, CallInv, Places, Turn!Outcomes, Interrupt
<1>2. EndInv' /\ IdleMeansAnswered'
  BY DEF IInv, TypeOK, EndInv, IdleMeansAnswered, Interrupt
<1>3. LatchInv' /\ DoneInv' /\ CallInv'
  BY DEF IInv, TypeOK, LatchInv, DoneInv, CallInv, Interrupt
<1>4. QuietInv'
  BY DEF IInv, TypeOK, QuietInv, IdleInterruptIsHarmless, Interrupt
<1>5. QED
  BY <1>1, <1>2, <1>3, <1>4 DEF IInv

LEMMA SwapInv == ASSUME IInv, Swap PROVE IInv'
<1>1. TypeOK'
  <2>1. InboxType'
    BY DEF IInv, TypeOK, InboxType, Swap
  <2>2. FlagType'
    BY DEF IInv, TypeOK, FlagType, Swap
  <2>3. PlaceType'
    BY DEF IInv, TypeOK, PlaceType, Places, Turn!Outcomes, Swap
  <2>4. CountType'
    BY DEF IInv, TypeOK, CountType, CallInv, Swap
  <2>5. HistType'
    <3>1. calls # 0 /\ calls' = calls /\ UNCHANGED <<newest, stops>>
      BY DEF IInv, CallInv, Swap
    <3>2. calls \in 1 .. calls /\ calls \in Nat
      BY <3>1 DEF IInv, TypeOK
    <3>3. revokedBy \in 0 .. calls /\ quiet \subseteq 1 .. calls
      BY DEF IInv, TypeOK
    <3>4. /\ revokedBy' = revokedBy \/ revokedBy' = calls
          /\ quiet' = quiet \/ quiet' = quiet \cup {calls}
      BY DEF Swap
    <3>5. revokedBy' \in 0 .. calls' /\ quiet' \subseteq 1 .. calls'
      <4>1. revokedBy' \in 0 .. calls
        BY <3>2, <3>3, <3>4
      <4>2. quiet' \subseteq 1 .. calls
        <5>1. CASE quiet' = quiet
          BY <3>3, <5>1
        <5>2. CASE quiet' = quiet \cup {calls}
          <6>1. ASSUME NEW k \in quiet' PROVE k \in quiet \/ k = calls
            BY <5>2, <6>1
          <6>2. QED
            BY <3>2, <3>3, <6>1
        <5>3. QED
          BY <3>4, <5>1, <5>2
      <4>3. QED
        BY <3>1, <4>1, <4>2
    <3>6. QED
      BY <3>1, <3>5 DEF IInv, TypeOK, HistType
  <2>6. QED
    BY <2>1, <2>2, <2>3, <2>4, <2>5, TypePartsNext
<1>2. EndInv' /\ IdleMeansAnswered'
  BY DEF IInv, TypeOK, EndInv, IdleMeansAnswered, Swap
<1>3. LatchInv' /\ DoneInv' /\ CallInv'
  BY DEF IInv, TypeOK, LatchInv, DoneInv, CallInv, Swap
<1>4. QuietInv'
  BY DEF IInv, TypeOK, CallInv, QuietInv, IdleInterruptIsHarmless, Swap
<1>5. QED
  BY <1>1, <1>2, <1>3, <1>4 DEF IInv

LEMMA WaitOverInv == ASSUME IInv, WaitOver PROVE IInv'
<1>1. TypeOK'
  BY DEF IInv, TypeOK, CallInv, Places, Turn!Outcomes, WaitOver
<1>2. EndInv' /\ IdleMeansAnswered'
  BY DEF IInv, TypeOK, EndInv, IdleMeansAnswered, WaitOver
<1>3. LatchInv' /\ DoneInv' /\ CallInv'
  BY DEF IInv, TypeOK, LatchInv, DoneInv, CallInv, WaitOver
<1>4. QuietInv'
  BY DEF IInv, QuietInv, IdleInterruptIsHarmless, WaitOver
<1>5. QED
  BY <1>1, <1>2, <1>3, <1>4 DEF IInv

\* Every step preserves the invariant.
LEMMA StepInv == IInv /\ [Next]_vars => IInv'
<1> SUFFICES ASSUME IInv, [Next]_vars PROVE IInv'
  OBVIOUS
<1>1. CASE RunStep
  BY <1>1, ReceiveInv, WaitCancelledInv, BatchTakenInv, SupersedeInv, PublishInv, CheckLatchInv, BailInv,
     EndTurnInv, DetachInv, CloseDoneInv, AfterTurnInv, TurnCancelledInv, DrainInv DEF RunStep
<1>2. CASE TakeInTurn \/ StopInTurn \/ Answer \/ SetMaxSteps
  BY <1>2, TakeInTurnInv, StopInTurnInv, AnswerInv, SetMaxStepsInv
<1>3. CASE Interrupt \/ UiStep \/ SessionStop
  BY <1>3, InterruptInv, SwapInv, WaitOverInv, SessionStopInv DEF UiStep
<1>4. CASE \E kind \in Messages : Send(kind)
  BY <1>4, SendInv
<1>5. CASE UNCHANGED vars
  <2>1. QuietInv'
    BY <1>5, QuietStable DEF vars, uiVars, IInv
  <2>2. QED
    BY <1>5, <2>1 DEF vars, uiVars, IInv, TypeOK, EndInv, IdleMeansAnswered, LatchInv, DoneInv, CallInv
<1>6. QED
  BY <1>1, <1>2, <1>3, <1>4, <1>5 DEF Next

\* The invariant holds for ever.
LEMMA Inductive == Spec => []IInv
BY InitInv, StepInv, PTL DEF Spec

-----------------------------------------------------------------------------
(* The properties. *)

\* The loop's variables keep their types; the pointer is nil or the newest turn.
THEOREM TypeCorrect == Spec => []TypeOK
<1>1. IInv => TypeOK
  BY DEF IInv
<1>2. QED
  BY <1>1, Inductive, PTL

\* Run never goes idle with an unanswered message in the conversation unless an
\* interrupt stopped the turn that was to answer it, or the step cap was
\* lowered under it.
THEOREM IdleIsAnswered == Spec => []IdleMeansAnswered
<1>1. IInv => IdleMeansAnswered
  BY DEF IInv
<1>2. QED
  BY <1>1, Inductive, PTL

\* For any number of calls, messages and turns: a call that began on an idle
\* agent and found no turn to cancel stops none, by the latch or otherwise.
THEOREM IdleEscIsHarmless == Spec => []IdleInterruptIsHarmless
<1>1. IInv => IdleInterruptIsHarmless
  BY DEF IInv, QuietInv
<1>2. QED
  BY <1>1, Inductive, PTL

\* A done channel an interrupt got from a turn is open while its ThinkAct runs.
THEOREM DoneIsUnwound == Spec => []DoneMeansUnwound
<1>1. IInv => DoneMeansUnwound
  BY DEF IInv, TypeOK, DoneInv, DoneMeansUnwound, DoneClosed
<1>2. QED
  BY <1>1, Inductive, PTL
=============================================================================
