-------------------------- MODULE ThinkActProofs --------------------------
(***************************************************************************)
(* Machine-checked proofs, for any caps, budgets and tool calls, of the    *)
(* safety properties of a turn and of its refinement of TurnContract.      *)
(***************************************************************************)
EXTENDS ThinkActProps, TLAPS

-----------------------------------------------------------------------------
(* The inductive invariant. *)

\* A turn is done when it has a reason to be.
PlaceInv == pc = "done" <=> stop # "running"

\* Past the head of the loop every tool call has its result; a cut batch gets
\* as far as the head, with the cancel that cut it.
BatchInv ==
  /\ pc \in {"check", "infer", "backoff"} => answered = asked
  /\ pc = "top" => answered = asked \/ ctxDone
  /\ pc \in {"tools", "cutTools"} => asked = Calls

\* After a late request no way leads back to another one.
LateInv ==
  /\ ~ctxDone => late = 0
  /\ late # 0 => pc # "check"
  /\ late <= 1

\* A message taken in is below the cap it was taken under, until it is answered.
ReadInv ==
  /\ pc \in {"tools", "cutTools"} => ~unread
  /\ unread /\ ~capMoved /\ pc # "done" => ~Capped
  /\ NothingSwallowed

IInv == TypeOK /\ PlaceInv /\ BatchInv /\ LateInv /\ ReadInv

USE ThinkActAssumption

-----------------------------------------------------------------------------
LEMMA InitInv == Init => IInv
<1> SUFFICES ASSUME Init PROVE IInv
  OBVIOUS
<1>1. TypeOK
  <2>1. /\ inbox \in Seq(Signals) /\ pc \in Places /\ stop \in Stops /\ measured \in Measures
        /\ asked \in {{}, Calls} /\ answered \subseteq asked
    BY DEF Init, Places, Stops
  <2>2. /\ sent \in 0 .. BoundSends /\ size \in 1 .. 3 /\ steps \in Nat /\ late \in Nat
        /\ retries \in 0 .. MaxTurnRetries /\ recovery \in 0 .. MaxRecovery
    BY DEF Init
  <2>3. /\ cap \in Caps /\ capMoved \in BOOLEAN /\ ctxDone \in BOOLEAN /\ canCompact \in BOOLEAN
        /\ bulk \in BOOLEAN /\ unread \in BOOLEAN /\ erased \in BOOLEAN /\ collapsed \in BOOLEAN
    BY DEF Init
  <2>4. QED
    BY <2>1, <2>2, <2>3 DEF TypeOK
<1>2. PlaceInv /\ BatchInv /\ LateInv /\ ReadInv
  BY DEF Init, PlaceInv, BatchInv, LateInv, ReadInv, NothingSwallowed, Capped
<1>3. QED
  BY <1>1, <1>2 DEF IInv

\* The conversation never measures over three.
LEMMA GrowType ==
  ASSUME TypeOK, NEW n \in 0 .. 2, GrowBy(n)
  PROVE  size' \in 1 .. 3 /\ bulk' \in BOOLEAN
<1>1. size' \in 1 .. 3
  BY DEF TypeOK, GrowBy
<1>2. bulk' \in BOOLEAN
  BY DEF TypeOK, GrowBy
<1>3. QED
  BY <1>1, <1>2

\* What the prompt to go on changes.
LEMMA ResumeType ==
  ASSUME TypeOK, NEW n \in 0 .. 1, ResumePrompt(n)
  PROVE  /\ recovery' \in 0 .. MaxRecovery /\ size' \in 1 .. 3 /\ bulk' \in BOOLEAN
         /\ pc' = "top" /\ stop' = stop
<1>1. n + 1 \in 0 .. 2 /\ GrowBy(n + 1)
  BY DEF ResumePrompt
<1>2. size' \in 1 .. 3 /\ bulk' \in BOOLEAN
  BY <1>1, GrowType
<1>3. recovery' \in 0 .. MaxRecovery
  BY DEF TypeOK, ResumePrompt
<1>4. QED
  BY <1>2, <1>3 DEF ResumePrompt, Goto

\* What every answer changes.
LEMMA AnsweredType ==
  ASSUME TypeOK, Answered
  PROVE  /\ steps' \in Nat /\ retries' \in 0 .. MaxTurnRetries /\ measured' \in Measures
         /\ unread' = FALSE /\ collapsed' = FALSE
BY DEF TypeOK, Answered, Measures

LEMMA CancelInv == ASSUME IInv, Cancel PROVE IInv'
<1>1. TypeOK'
  BY DEF IInv, TypeOK, Places, Stops, Measures, Cancel, env, chat, turn, hist
<1>2. PlaceInv' /\ BatchInv'
  BY DEF IInv, TypeOK, PlaceInv, BatchInv, Cancel, env, chat, turn, hist
<1>3. LateInv'
  BY DEF IInv, TypeOK, LateInv, Cancel, env, chat, turn, hist
<1>4. ReadInv'
  BY DEF IInv, TypeOK, PlaceInv, ReadInv, NothingSwallowed, Cancel, env, chat, turn, hist, Capped
<1>5. QED
  BY <1>1, <1>2, <1>3, <1>4 DEF IInv

LEMMA SetMaxStepsInv == ASSUME IInv, SetMaxSteps PROVE IInv'
<1>1. TypeOK'
  BY DEF IInv, TypeOK, Places, Stops, Measures, SetMaxSteps, env, chat, turn, hist
<1>2. PlaceInv' /\ BatchInv'
  BY DEF IInv, TypeOK, PlaceInv, BatchInv, SetMaxSteps, env, chat, turn, hist
<1>3. LateInv'
  BY DEF IInv, TypeOK, LateInv, SetMaxSteps, env, chat, turn, hist
<1>4. ReadInv'
  BY DEF IInv, TypeOK, PlaceInv, ReadInv, NothingSwallowed, SetMaxSteps, env, chat, turn, hist, Capped
<1>5. QED
  BY <1>1, <1>2, <1>3, <1>4 DEF IInv

LEMMA SendInv == ASSUME IInv, NEW s \in Signals, Send(s) PROVE IInv'
<1>1. TypeOK'
  BY DEF IInv, TypeOK, Places, Stops, Measures, Send, env, chat, turn, hist
<1>2. PlaceInv' /\ BatchInv'
  BY DEF IInv, TypeOK, PlaceInv, BatchInv, Send, env, chat, turn, hist
<1>3. LateInv'
  BY DEF IInv, TypeOK, LateInv, Send, env, chat, turn, hist
<1>4. ReadInv'
  BY DEF IInv, TypeOK, PlaceInv, ReadInv, NothingSwallowed, Send, env, chat, turn, hist, Capped
<1>5. QED
  BY <1>1, <1>2, <1>3, <1>4 DEF IInv

LEMMA StopIfCancelledInv == ASSUME IInv, StopIfCancelled PROVE IInv'
<1>1. TypeOK'
  BY DEF IInv, TypeOK, Places, Stops, Measures, StopIfCancelled, Stop, env, chat, turn, hist
<1>2. PlaceInv' /\ BatchInv'
  BY DEF IInv, TypeOK, PlaceInv, BatchInv, StopIfCancelled, Stop, env, chat, turn, hist
<1>3. LateInv'
  BY DEF IInv, TypeOK, LateInv, StopIfCancelled, Stop, env, chat, turn, hist
<1>4. ReadInv'
  BY DEF IInv, TypeOK, PlaceInv, ReadInv, NothingSwallowed, StopIfCancelled, Stop, env, chat, turn, hist, Capped
<1>5. QED
  BY <1>1, <1>2, <1>3, <1>4 DEF IInv

LEMMA StopIfCappedInv == ASSUME IInv, StopIfCapped PROVE IInv'
<1>1. TypeOK'
  BY DEF IInv, TypeOK, Places, Stops, Measures, StopIfCapped, Stop, Capped, env, chat, turn, hist
<1>2. PlaceInv' /\ BatchInv'
  BY DEF IInv, TypeOK, PlaceInv, BatchInv, StopIfCapped, Stop, Capped, env, chat, turn, hist
<1>3. LateInv'
  BY DEF IInv, TypeOK, LateInv, StopIfCapped, Stop, Capped, env, chat, turn, hist
<1>4. ReadInv'
  BY DEF IInv, TypeOK, PlaceInv, ReadInv, NothingSwallowed, StopIfCapped, Stop, Capped, env, chat, turn, hist
<1>5. QED
  BY <1>1, <1>2, <1>3, <1>4 DEF IInv

LEMMA SkipDrainInv == ASSUME IInv, SkipDrain PROVE IInv'
<1>1. TypeOK'
  BY DEF IInv, TypeOK, Places, Stops, Measures, SkipDrain, CarryOn, Goto, Capped, env, chat, turn, hist
<1>2. PlaceInv' /\ BatchInv'
  BY DEF IInv, TypeOK, PlaceInv, BatchInv, SkipDrain, CarryOn, Goto, Capped, env, chat, turn, hist
<1>3. LateInv'
  BY DEF IInv, TypeOK, LateInv, SkipDrain, CarryOn, Goto, Capped, env, chat, turn, hist
<1>4. ReadInv'
  BY DEF IInv, TypeOK, PlaceInv, ReadInv, NothingSwallowed, SkipDrain, CarryOn, Goto, Capped, env, chat, turn, hist
<1>5. QED
  BY <1>1, <1>2, <1>3, <1>4 DEF IInv

LEMMA DrainInv == ASSUME IInv, Drain PROVE IInv'
<1>1. TypeOK'
  <2>1. inbox' \in Seq(Signals) /\ Head(inbox) \in Signals
    BY DEF IInv, TypeOK, Drain
  <2>2. size' \in 1 .. 3 /\ bulk' \in BOOLEAN
    BY GrowType DEF IInv, TypeOK, Drain, ApplyCompaction, chat
  <2>3. /\ pc' \in Places /\ stop' \in Stops /\ measured' \in Measures
        /\ unread' \in BOOLEAN /\ erased' \in BOOLEAN /\ collapsed' \in BOOLEAN
    BY DEF IInv, TypeOK, Drain, CarryOn, Goto, Stop, ApplyCompaction, chat, Places, Stops, Measures
  <2>4. QED
    BY <2>1, <2>2, <2>3 DEF IInv, TypeOK, Drain, turn
<1>2. PlaceInv' /\ BatchInv'
  BY DEF IInv, TypeOK, PlaceInv, BatchInv, Drain, CarryOn, Capped, GrowBy, Goto, Stop, ApplyCompaction, Signals, env, chat, turn, hist
<1>3. LateInv'
  BY DEF IInv, TypeOK, LateInv, Drain, CarryOn, Capped, GrowBy, Goto, Stop, ApplyCompaction, Signals, env, chat, turn, hist
<1>4. ReadInv'
  BY DEF IInv, TypeOK, PlaceInv, ReadInv, NothingSwallowed, Drain, CarryOn, Capped, GrowBy, Goto, Stop, ApplyCompaction, Signals, env, chat, turn, hist
<1>5. QED
  BY <1>1, <1>2, <1>3, <1>4 DEF IInv

LEMMA ProactiveCompactInv == ASSUME IInv, ProactiveCompact PROVE IInv'
<1>1. TypeOK'
  BY DEF IInv, TypeOK, Places, Stops, Measures, ProactiveCompact, AutoCompact, ApplyCompaction, Goto, Full, env, chat, turn, hist
<1>2. PlaceInv' /\ BatchInv'
  BY DEF IInv, TypeOK, PlaceInv, BatchInv, ProactiveCompact, AutoCompact, ApplyCompaction, Goto, Full, env, chat, turn, hist
<1>3. LateInv'
  BY DEF IInv, TypeOK, LateInv, ProactiveCompact, AutoCompact, ApplyCompaction, Goto, Full, env, chat, turn, hist
<1>4. ReadInv'
  BY DEF IInv, TypeOK, PlaceInv, ReadInv, NothingSwallowed, ProactiveCompact, AutoCompact, ApplyCompaction, Goto, Full, env, chat, turn, hist, Capped
<1>5. QED
  BY <1>1, <1>2, <1>3, <1>4 DEF IInv

LEMMA RequestInv == ASSUME IInv, Request PROVE IInv'
<1>1. TypeOK'
  BY DEF IInv, TypeOK, Places, Stops, Measures, Request, Goto, env, chat, turn, hist
<1>2. PlaceInv' /\ BatchInv'
  BY DEF IInv, TypeOK, PlaceInv, BatchInv, Request, Goto, env, chat, turn, hist
<1>3. LateInv'
  BY DEF IInv, TypeOK, LateInv, Request, Goto, env, chat, turn, hist
<1>4. ReadInv'
  BY DEF IInv, TypeOK, PlaceInv, ReadInv, NothingSwallowed, Request, Goto, env, chat, turn, hist, Capped
<1>5. QED
  BY <1>1, <1>2, <1>3, <1>4 DEF IInv

LEMMA TooLongCompactedInv == ASSUME IInv, TooLongCompacted PROVE IInv'
<1>1. TypeOK'
  BY DEF IInv, TypeOK, Places, Stops, Measures, TooLongCompacted, AutoCompact, ApplyCompaction, Goto, env, chat, turn, hist
<1>2. PlaceInv' /\ BatchInv'
  BY DEF IInv, TypeOK, PlaceInv, BatchInv, TooLongCompacted, AutoCompact, ApplyCompaction, Goto, env, chat, turn, hist
<1>3. LateInv'
  BY DEF IInv, TypeOK, LateInv, TooLongCompacted, AutoCompact, ApplyCompaction, Goto, env, chat, turn, hist
<1>4. ReadInv'
  BY DEF IInv, TypeOK, PlaceInv, ReadInv, NothingSwallowed, TooLongCompacted, AutoCompact, ApplyCompaction, Goto, env, chat, turn, hist, Capped
<1>5. QED
  BY <1>1, <1>2, <1>3, <1>4 DEF IInv

LEMMA InferCancelledInv == ASSUME IInv, InferCancelled PROVE IInv'
<1>1. TypeOK'
  BY DEF IInv, TypeOK, Places, Stops, Measures, InferCancelled, Stop, env, chat, turn, hist
<1>2. PlaceInv' /\ BatchInv'
  BY DEF IInv, TypeOK, PlaceInv, BatchInv, InferCancelled, Stop, env, chat, turn, hist
<1>3. LateInv'
  BY DEF IInv, TypeOK, LateInv, InferCancelled, Stop, env, chat, turn, hist
<1>4. ReadInv'
  BY DEF IInv, TypeOK, PlaceInv, ReadInv, NothingSwallowed, InferCancelled, Stop, env, chat, turn, hist, Capped
<1>5. QED
  BY <1>1, <1>2, <1>3, <1>4 DEF IInv

LEMMA TransientInv == ASSUME IInv, Transient PROVE IInv'
<1>1. TypeOK'
  BY DEF IInv, TypeOK, Places, Stops, Measures, Transient, Goto, env, chat, turn, hist
<1>2. PlaceInv' /\ BatchInv'
  BY DEF IInv, TypeOK, PlaceInv, BatchInv, Transient, Goto, env, chat, turn, hist
<1>3. LateInv'
  BY DEF IInv, TypeOK, LateInv, Transient, Goto, env, chat, turn, hist
<1>4. ReadInv'
  BY DEF IInv, TypeOK, PlaceInv, ReadInv, NothingSwallowed, Transient, Goto, env, chat, turn, hist, Capped
<1>5. QED
  BY <1>1, <1>2, <1>3, <1>4 DEF IInv

LEMMA InferFailsInv == ASSUME IInv, InferFails PROVE IInv'
<1>1. TypeOK'
  BY DEF IInv, TypeOK, Places, Stops, Measures, InferFails, Stop, env, chat, turn, hist
<1>2. PlaceInv' /\ BatchInv'
  BY DEF IInv, TypeOK, PlaceInv, BatchInv, InferFails, Stop, env, chat, turn, hist
<1>3. LateInv'
  BY DEF IInv, TypeOK, LateInv, InferFails, Stop, env, chat, turn, hist
<1>4. ReadInv'
  BY DEF IInv, TypeOK, PlaceInv, ReadInv, NothingSwallowed, InferFails, Stop, env, chat, turn, hist, Capped
<1>5. QED
  BY <1>1, <1>2, <1>3, <1>4 DEF IInv

LEMMA BackoffEndsInv == ASSUME IInv, BackoffEnds PROVE IInv'
<1>1. TypeOK'
  BY DEF IInv, TypeOK, Places, Stops, Measures, BackoffEnds, Goto, Stop, env, chat, turn, hist
<1>2. PlaceInv' /\ BatchInv'
  BY DEF IInv, TypeOK, PlaceInv, BatchInv, BackoffEnds, Goto, Stop, env, chat, turn, hist
<1>3. LateInv'
  BY DEF IInv, TypeOK, LateInv, BackoffEnds, Goto, Stop, env, chat, turn, hist
<1>4. ReadInv'
  BY DEF IInv, TypeOK, PlaceInv, ReadInv, NothingSwallowed, BackoffEnds, Goto, Stop, env, chat, turn, hist, Capped
<1>5. QED
  BY <1>1, <1>2, <1>3, <1>4 DEF IInv

LEMMA AnswerTextInv == ASSUME IInv, AnswerText PROVE IInv'
<1>1. TypeOK'
  <2>1. size' \in 1 .. 3 /\ bulk' \in BOOLEAN
    BY GrowType DEF IInv, AnswerText
  <2>2. Answered /\ pc' \in Places /\ stop' \in Stops
    BY DEF AnswerText, Stop, Places, Stops
  <2>3. QED
    BY <2>1, <2>2, AnsweredType DEF IInv, TypeOK, AnswerText, Answered, env
<1>2. PlaceInv' /\ BatchInv'
  BY DEF IInv, TypeOK, PlaceInv, BatchInv, AnswerText, Answered, GrowBy, Stop, env, chat, turn, hist
<1>3. LateInv'
  BY DEF IInv, TypeOK, LateInv, AnswerText, Answered, GrowBy, Stop, env, chat, turn, hist
<1>4. ReadInv'
  BY DEF IInv, TypeOK, PlaceInv, ReadInv, NothingSwallowed, AnswerText, Answered, GrowBy, Stop, env, chat, turn, hist, Capped
<1>5. QED
  BY <1>1, <1>2, <1>3, <1>4 DEF IInv

LEMMA AnswerCutTextInv == ASSUME IInv, AnswerCutText PROVE IInv'
<1>1. TypeOK'
  <2>1. /\ recovery' \in 0 .. MaxRecovery /\ size' \in 1 .. 3 /\ bulk' \in BOOLEAN
        /\ pc' \in Places /\ stop' \in Stops
    <3>1. CASE ResumePrompt(1)
      BY <3>1, ResumeType DEF IInv, TypeOK, Places
    <3>2. CASE Exhausted /\ GrowBy(1) /\ UNCHANGED recovery
      BY <3>2, GrowType DEF IInv, TypeOK, Exhausted, Stop, Places, Stops
    <3>3. QED
      BY <3>1, <3>2 DEF AnswerCutText
  <2>2. QED
    BY <2>1, AnsweredType DEF IInv, TypeOK, AnswerCutText, Answered, env
<1>2. PlaceInv' /\ BatchInv'
  BY DEF IInv, TypeOK, PlaceInv, BatchInv, AnswerCutText, Answered, ResumePrompt, Exhausted, GrowBy, Goto, Stop, env, chat, turn, hist
<1>3. LateInv'
  BY DEF IInv, TypeOK, LateInv, AnswerCutText, Answered, ResumePrompt, Exhausted, GrowBy, Goto, Stop, env, chat, turn, hist
<1>4. ReadInv'
  BY DEF IInv, TypeOK, PlaceInv, ReadInv, NothingSwallowed, AnswerCutText, Answered, ResumePrompt, Exhausted, GrowBy, Goto, Stop, env, chat, turn, hist, Capped
<1>5. QED
  BY <1>1, <1>2, <1>3, <1>4 DEF IInv

LEMMA AnswerToolsInv == ASSUME IInv, AnswerTools PROVE IInv'
<1>1. TypeOK'
  <2>1. size' \in 1 .. 3 /\ bulk' \in BOOLEAN
    BY GrowType DEF IInv, AnswerTools
  <2>2. Answered /\ pc' \in Places /\ stop' = stop
    BY DEF AnswerTools, Goto, Places
  <2>3. QED
    BY <2>1, <2>2, AnsweredType DEF IInv, TypeOK, AnswerTools, Answered, env
<1>2. PlaceInv' /\ BatchInv'
  BY DEF IInv, TypeOK, PlaceInv, BatchInv, AnswerTools, Answered, GrowBy, Goto, env, chat, turn, hist
<1>3. LateInv'
  BY DEF IInv, TypeOK, LateInv, AnswerTools, Answered, GrowBy, Goto, env, chat, turn, hist
<1>4. ReadInv'
  BY DEF IInv, TypeOK, PlaceInv, ReadInv, NothingSwallowed, AnswerTools, Answered, GrowBy, Goto, env, chat, turn, hist, Capped
<1>5. QED
  BY <1>1, <1>2, <1>3, <1>4 DEF IInv

LEMMA ToolResultInv == ASSUME IInv, NEW c \in Calls, ToolResult(c) PROVE IInv'
<1>1. TypeOK'
  <2>1. size' \in 1 .. 3 /\ bulk' \in BOOLEAN
    BY GrowType DEF IInv, ToolResult
  <2>2. asked = Calls /\ answered' \subseteq asked /\ asked' = asked
    BY DEF IInv, TypeOK, BatchInv, ToolResult, Batch!Answer
  <2>3. QED
    BY <2>1, <2>2 DEF IInv, TypeOK, ToolResult, env, hist
<1>2. PlaceInv' /\ BatchInv'
  BY DEF IInv, TypeOK, PlaceInv, BatchInv, ToolResult, Batch!Answer, GrowBy, env, chat, turn, hist
<1>3. LateInv'
  BY DEF IInv, TypeOK, LateInv, ToolResult, Batch!Answer, GrowBy, env, chat, turn, hist
<1>4. ReadInv'
  BY DEF IInv, TypeOK, PlaceInv, ReadInv, NothingSwallowed, ToolResult, Batch!Answer, GrowBy, env, chat, turn, hist, Capped
<1>5. QED
  BY <1>1, <1>2, <1>3, <1>4 DEF IInv

LEMMA ToolsDoneInv == ASSUME IInv, ToolsDone PROVE IInv'
<1>1. TypeOK'
  BY DEF IInv, TypeOK, Places, Stops, Measures, ToolsDone, Batch!Return, Goto, env, chat, turn, hist
<1>2. PlaceInv' /\ BatchInv'
  BY DEF IInv, TypeOK, PlaceInv, BatchInv, ToolsDone, Batch!Return, Goto, env, chat, turn, hist
<1>3. LateInv'
  BY DEF IInv, TypeOK, LateInv, ToolsDone, Batch!Return, Goto, env, chat, turn, hist
<1>4. ReadInv'
  BY DEF IInv, TypeOK, PlaceInv, ReadInv, NothingSwallowed, ToolsDone, Batch!Return, Goto, env, chat, turn, hist, Capped
<1>5. QED
  BY <1>1, <1>2, <1>3, <1>4 DEF IInv

LEMMA CutToolsDoneInv == ASSUME IInv, CutToolsDone PROVE IInv'
<1>1. TypeOK'
  <2>1. /\ recovery' \in 0 .. MaxRecovery /\ size' \in 1 .. 3 /\ bulk' \in BOOLEAN
        /\ pc' \in Places /\ stop' \in Stops
    <3>1. CASE ResumePrompt(0)
      BY <3>1, ResumeType DEF IInv, TypeOK, Places
    <3>2. CASE Exhausted /\ UNCHANGED <<size, bulk, recovery>>
      BY <3>2 DEF IInv, TypeOK, Exhausted, Stop, Places, Stops
    <3>3. QED
      BY <3>1, <3>2 DEF CutToolsDone
  <2>2. answered' = answered
    BY DEF CutToolsDone, Batch!Return
  <2>3. QED
    BY <2>1, <2>2 DEF IInv, TypeOK, CutToolsDone, env, hist
<1>2. /\ asked = Calls /\ asked' = asked /\ answered' = answered /\ (answered = Calls \/ ctxDone)
      /\ ctxDone' = ctxDone /\ late' = late /\ stop = "running"
  BY DEF CutToolsDone, Batch!Return, IInv, BatchInv, PlaceInv, env, hist
<1>3. \/ pc' = "top" /\ stop' = stop
      \/ pc' = "done" /\ stop' = "exhausted"
  BY DEF CutToolsDone, ResumePrompt, Exhausted, Goto, Stop
<1>4. PlaceInv' /\ BatchInv'
  BY <1>2, <1>3 DEF PlaceInv, BatchInv
<1>5. LateInv'
  BY <1>2, <1>3 DEF IInv, LateInv
<1>6. ReadInv'
  BY DEF IInv, TypeOK, PlaceInv, ReadInv, NothingSwallowed, CutToolsDone, Batch!Return, ResumePrompt, Exhausted, GrowBy, Goto, Stop, env, chat, turn, hist, Capped
<1>7. QED
  BY <1>1, <1>4, <1>5, <1>6 DEF IInv

-----------------------------------------------------------------------------
LEMMA NextInv == IInv /\ [Next]_vars => IInv'
<1> SUFFICES ASSUME IInv, [Next]_vars PROVE IInv'
  OBVIOUS
<1>1. CASE UNCHANGED vars
  <2>1. TypeOK'
    BY <1>1 DEF IInv, TypeOK, vars, env, chat, turn, hist
  <2>2. PlaceInv' /\ BatchInv' /\ LateInv'
    BY <1>1 DEF IInv, PlaceInv, BatchInv, LateInv, vars, env, chat, turn, hist
  <2>3. ReadInv'
    BY <1>1 DEF IInv, ReadInv, NothingSwallowed, Capped, vars, env, chat, turn, hist
  <2>4. QED
    BY <2>1, <2>2, <2>3 DEF IInv
<1>2. CASE Environment
  BY <1>2, CancelInv, SetMaxStepsInv, SendInv DEF Environment
<1>3. CASE Agent
  BY <1>3, StopIfCancelledInv, StopIfCappedInv, SkipDrainInv, DrainInv, ProactiveCompactInv,
     RequestInv, TooLongCompactedInv, InferCancelledInv, TransientInv, InferFailsInv,
     BackoffEndsInv, AnswerTextInv, AnswerCutTextInv, AnswerToolsInv, ToolResultInv,
     ToolsDoneInv, CutToolsDoneInv DEF Agent
<1>4. QED
  BY <1>1, <1>2, <1>3 DEF Next

LEMMA Inductive == Spec => []IInv
BY InitInv, NextInv, PTL DEF Spec

-----------------------------------------------------------------------------
(* The theorems. *)

\* Every variable has its type, whatever the caps and budgets are.
THEOREM TypeCorrect == Spec => []TypeOK
<1>1. IInv => TypeOK
  BY DEF IInv
<1>2. QED
  BY <1>1, Inductive, PTL

\* For any batch and any interleaving with a cancel: no request is sent while
\* a tool call lacks its result.
THEOREM RequestsComplete == Spec => []RequestsAreComplete
<1>1. IInv => RequestsAreComplete
  BY DEF IInv, BatchInv, RequestsAreComplete
<1>2. QED
  BY <1>1, Inductive, PTL

\* For any retry, recovery and compaction budget: at most one request begins
\* after a cancel.
THEOREM AtMostOneLateRequest == Spec => []OneLateRequest
<1>1. IInv => OneLateRequest
  BY DEF IInv, LateInv, OneLateRequest
<1>2. QED
  BY <1>1, Inductive, PTL

\* For any number of messages and steps: a turn that ends well has shown the
\* model all it took in and a manual compaction left in the conversation,
\* unless the cap was moved under it.
THEOREM NothingIsSwallowed == Spec => []NothingSwallowed
<1>1. IInv => NothingSwallowed
  BY DEF IInv, ReadInv
<1>2. QED
  BY <1>1, Inductive, PTL

-----------------------------------------------------------------------------
(* The refinement. *)

\* A step within the turn that reads and answers nothing is a stutter.
LEMMA Stutter ==
  ASSUME IInv, UNCHANGED <<unread, erased, ctxDone, capMoved>>,
         pc # "done", pc' # "done"
  PROVE  UNCHANGED Contract!vars
BY DEF Contract!vars, Outcome

\* Every step of a turn is one of TurnContract's, or none.
LEMMA ContractStep == IInv /\ [Next]_vars => [Contract!Next]_(Contract!vars)
<1> SUFFICES ASSUME IInv, [Next]_vars PROVE [Contract!Next]_(Contract!vars)
  OBVIOUS
<1>1. CASE UNCHANGED vars
  BY <1>1 DEF Contract!vars, Outcome, vars, env, hist
<1>2. CASE Cancel
  BY <1>2 DEF Cancel, Contract!Next, Contract!Revoke, Outcome, hist
<1>3. CASE SetMaxSteps
  <2>1. ~capMoved /\ capMoved' = TRUE /\ UNCHANGED <<unread, erased, ctxDone, pc, stop>>
    BY <1>3 DEF SetMaxSteps, hist
  <2>2. QED
    BY <2>1 DEF Contract!Next, Contract!MoveCap, Outcome
<1>4. ASSUME NEW s \in Signals, Send(s) PROVE UNCHANGED Contract!vars
  BY <1>4 DEF Send, Contract!vars, Outcome, hist
<1>5. CASE StopIfCancelled \/ InferCancelled
  <2>1. /\ ctxDone /\ pc # "done" /\ pc' = "done" /\ stop' = "cancelled"
        /\ UNCHANGED <<unread, erased, ctxDone, capMoved>>
    BY <1>5 DEF StopIfCancelled, InferCancelled, Stop, env, hist
  <2>2. Contract!End("cancelled")
    BY <2>1 DEF Contract!End, Outcome
  <2>3. QED
    BY <2>2 DEF Contract!Next, Contract!Outcomes
<1>6. CASE StopIfCapped
  <2>1. /\ Capped /\ pc = "top" /\ pc' = "done" /\ stop' = "max_steps"
        /\ UNCHANGED <<unread, erased, ctxDone, capMoved>>
    BY <1>6 DEF StopIfCapped, Stop, env, hist
  <2>2. ~unread \/ capMoved
    BY <2>1 DEF IInv, ReadInv
  <2>3. Contract!End("complete")
    BY <2>1, <2>2 DEF Contract!End, Outcome
  <2>4. QED
    BY <2>3 DEF Contract!Next, Contract!Outcomes
<1>7. CASE InferFails
  <2>1. /\ pc = "infer" /\ pc' = "done" /\ stop' = "error"
        /\ UNCHANGED <<unread, erased, ctxDone, capMoved>>
    BY <1>7 DEF InferFails, Stop, env, hist
  <2>2. Contract!End("error")
    BY <2>1 DEF Contract!End, Outcome
  <2>3. QED
    BY <2>2 DEF Contract!Next, Contract!Outcomes
<1>8. CASE Drain
  <2>1. pc = "top" /\ UNCHANGED <<ctxDone, capMoved>>
    BY <1>8 DEF Drain, CarryOn
  <2>2. CASE Head(inbox) = "user"
    <3>1. unread' = TRUE /\ UNCHANGED erased /\ pc' = "check"
      BY <1>8, <2>2 DEF Drain, Goto
    <3>2. Contract!Take
      BY <2>1, <3>1 DEF Contract!Take, Outcome
    <3>3. QED
      BY <3>2 DEF Contract!Next
  <2>3. CASE Head(inbox) = "compact"
    <3>1. unread' = FALSE /\ erased' = (erased \/ unread) /\ pc' = "check"
      BY <1>8, <2>3 DEF Drain, Goto
    <3>2. Contract!Compact
      BY <2>1, <3>1 DEF Contract!Compact, Outcome
    <3>3. QED
      BY <3>2 DEF Contract!Next
  <2>4. CASE Head(inbox) = "stop"
    <3>1. UNCHANGED <<unread, erased>> /\ pc' = "done" /\ stop' = "stopped"
      BY <1>8, <2>4 DEF Drain, Stop
    <3>2. Contract!End("stopped")
      BY <2>1, <3>1 DEF Contract!End, Outcome
    <3>3. QED
      BY <3>2 DEF Contract!Next, Contract!Outcomes
  <2>5. QED
    BY <1>8, <2>2, <2>3, <2>4 DEF Drain
<1>9. CASE SkipDrain \/ ProactiveCompact \/ Request \/ TooLongCompacted \/ Transient
  <2>1. pc # "done" /\ pc' # "done" /\ UNCHANGED <<unread, erased, ctxDone, capMoved>>
    BY <1>9 DEF SkipDrain, CarryOn, ProactiveCompact, Request, TooLongCompacted, Transient, Goto, env, hist
  <2>2. QED
    BY <2>1, Stutter
<1>10. CASE BackoffEnds
  <2>1. pc = "backoff" /\ UNCHANGED <<unread, erased, ctxDone, capMoved>>
    BY <1>10 DEF BackoffEnds, env, hist
  <2>2. CASE pc' = "top"
    BY <2>1, <2>2, Stutter
  <2>3. CASE ctxDone /\ pc' = "done" /\ stop' = "cancelled"
    <3>1. Contract!End("cancelled")
      BY <2>1, <2>3 DEF Contract!End, Outcome
    <3>2. QED
      BY <3>1 DEF Contract!Next, Contract!Outcomes
  <2>4. QED
    BY <1>10, <2>2, <2>3 DEF BackoffEnds, Goto, Stop
<1>11. CASE AnswerText \/ AnswerCutText \/ AnswerTools
  <2>1. pc = "infer" /\ unread' = FALSE /\ UNCHANGED <<erased, ctxDone, capMoved>>
    BY <1>11 DEF AnswerText, AnswerCutText, AnswerTools, Answered, env
  <2>2. \/ pc' \in {"top", "tools", "cutTools"}
        \/ (pc' = "done" /\ stop' \in {"end_turn", "exhausted"})
    BY <1>11 DEF AnswerText, AnswerCutText, AnswerTools, ResumePrompt, Exhausted, Goto, Stop
  <2>3. CASE pc' \in {"top", "tools", "cutTools"}
    <3>1. Contract!Answer
      BY <2>1, <2>3 DEF Contract!Answer, Outcome
    <3>2. QED
      BY <3>1 DEF Contract!Next
  <2>4. CASE pc' = "done" /\ stop' \in {"end_turn", "exhausted"}
    <3>1. Contract!LastAnswer
      BY <2>1, <2>4 DEF Contract!LastAnswer, Outcome
    <3>2. QED
      BY <3>1 DEF Contract!Next
  <2>5. QED
    BY <2>2, <2>3, <2>4
<1>12. ASSUME NEW c \in Calls, ToolResult(c) PROVE UNCHANGED Contract!vars
  <2>1. UNCHANGED <<pc, stop, unread, erased, ctxDone, capMoved>>
    BY <1>12 DEF ToolResult, env, hist
  <2>2. QED
    BY <2>1 DEF Contract!vars, Outcome
<1>13. CASE ToolsDone
  <2>1. pc = "tools" /\ pc' = "top" /\ UNCHANGED <<unread, erased, ctxDone, capMoved>>
    BY <1>13 DEF ToolsDone, Goto, env, hist
  <2>2. QED
    BY <2>1, Stutter
<1>14. CASE CutToolsDone
  <2>1. pc = "cutTools" /\ ~unread /\ UNCHANGED <<unread, erased, ctxDone, capMoved>>
    BY <1>14 DEF CutToolsDone, IInv, ReadInv, env, hist
  <2>2. pc' = "top" \/ (pc' = "done" /\ stop' = "exhausted")
    BY <1>14 DEF CutToolsDone, ResumePrompt, Exhausted, Goto, Stop
  <2>3. CASE pc' = "top"
    BY <2>1, <2>3, Stutter
  <2>4. CASE pc' = "done" /\ stop' = "exhausted"
    <3>1. Contract!End("complete")
      BY <2>1, <2>4 DEF Contract!End, Outcome
    <3>2. QED
      BY <3>1 DEF Contract!Next, Contract!Outcomes
  <2>5. QED
    BY <2>2, <2>3, <2>4
<1>15. QED
  BY <1>1, <1>2, <1>3, <1>4, <1>5, <1>6, <1>7, <1>8, <1>9, <1>10, <1>11, <1>12, <1>13, <1>14
     DEF Next, Environment, Agent

\* ThinkAct implements TurnContract, whatever the caps, budgets and calls are.
THEOREM Implementation == Spec => ImplementsContract
<1>1. Init => Contract!Init
  BY DEF Init, Contract!Init, Outcome
<1>2. QED
  BY <1>1, Inductive, ContractStep, PTL DEF Spec, ImplementsContract, Contract!Spec
=============================================================================
