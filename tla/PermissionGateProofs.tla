------------------------ MODULE PermissionGateProofs ------------------------
(***************************************************************************)
(* Machine-checked proofs, for any number of calls and of rebuilt agents,  *)
(* of the safety properties MCPermissionGate checks.                       *)
(***************************************************************************)
EXTENDS PermissionGateProps, TLAPS

-----------------------------------------------------------------------------
(* The inductive invariant.  While no agent was stopped in the middle of a *)
(* prompt, one token goes round: the poll, the request on its way, the     *)
(* modal, the answer on its way, and the poll again.                       *)

Asking(c) == stage[c] \in {"sending", "waiting"}

\* Only the session's agent, while there is one, has calls that ask, a request
\* in its gate and something on the screen; later gates have no poll yet.
BuildInv ==
  /\ active => build > 0
  /\ \A b \in Builds : b > build => polls[b] = 0
  /\ \A c \in Calls : stage[c] = "new" \/ of[c] > 0
  /\ ~crossed => /\ \A b \in Builds : b # build \/ ~active => queue[b] = None
                 /\ \A c \in Calls : Asking(c) => of[c] = build /\ active
                 /\ ~active => inbox = {} /\ modal = None

\* There is one token.
TokenInv ==
  ~crossed => /\ \A m, n \in inbox : m = n
              /\ modal # None => inbox = {} /\ pending = modal
              /\ modal # None \/ inbox # {} => \A b \in Builds : b = build => polls[b] = 0
              /\ \A b \in Builds : b = build => polls[b] <= 1

\* An answer on its way finds its own request pending, or none, and is what the
\* user said.
AnswerInv ==
  ~crossed =>
    /\ \A m \in inbox : m.kind = "answer" => pending \in {None, m.of} /\ (m.yes => m.of \in agreed)
    /\ \A c \in Calls : reply[c] = "yes" => c \in agreed

IInv == TypeOK /\ BuildInv /\ TokenInv /\ AnswerInv /\ ConsentIsForThisCall

USE GateAssumption DEF Builds, agents, calls, channels, screen, hist

\* A call that begins changes neither the token nor an answer.
LEMMA CallInv ==
  ASSUME IInv, NEW c \in Calls, Call(c)
  PROVE  IInv'
<1>1. TypeOK'
  BY DEF IInv, TypeOK, Call, Stages, Settled
<1>2. BuildInv'
  BY DEF IInv, TypeOK, Call, BuildInv, TokenInv, Asking, Stages
<1>3. TokenInv'
  BY DEF IInv, TypeOK, Call, BuildInv, TokenInv, Asking
<1>4. AnswerInv'
  BY DEF IInv, TypeOK, Call, BuildInv, TokenInv, AnswerInv
<1>5. ConsentIsForThisCall'
  BY DEF IInv, TypeOK, Call, AnswerInv, ConsentIsForThisCall
<1>6. QED
  BY <1>1, <1>2, <1>3, <1>4, <1>5 DEF IInv

\* A request enters the gate of the session's agent.
LEMMA SendInv ==
  ASSUME IInv, NEW c \in Calls, Send(c)
  PROVE  IInv'
<1>1. TypeOK'
  BY DEF IInv, TypeOK, Send, Stages, Settled
<1>2. BuildInv'
  BY DEF IInv, TypeOK, Send, BuildInv, TokenInv, Asking, Stages
<1>3. TokenInv'
  BY DEF IInv, TypeOK, Send, BuildInv, TokenInv, Asking
<1>4. AnswerInv'
  BY DEF IInv, TypeOK, Send, BuildInv, TokenInv, AnswerInv
<1>5. ConsentIsForThisCall'
  BY DEF IInv, TypeOK, Send, AnswerInv, ConsentIsForThisCall
<1>6. QED
  BY <1>1, <1>2, <1>3, <1>4, <1>5 DEF IInv

\* A call goes by its reply, which is what the user said of it.
LEMMA ReceiveInv ==
  ASSUME IInv, NEW c \in Calls, Receive(c)
  PROVE  IInv'
<1>1. TypeOK'
  BY DEF IInv, TypeOK, Receive, Settled, Stages
<1>2. BuildInv'
  BY DEF IInv, TypeOK, Receive, Settled, BuildInv, TokenInv, Asking, Stages
<1>3. TokenInv'
  BY DEF IInv, TypeOK, Receive, Settled, BuildInv, TokenInv, Asking
<1>4. AnswerInv'
  BY DEF IInv, TypeOK, Receive, Settled, BuildInv, TokenInv, AnswerInv
<1>5. ConsentIsForThisCall'
  BY DEF IInv, TypeOK, Receive, Settled, AnswerInv, ConsentIsForThisCall
<1>6. QED
  BY <1>1, <1>2, <1>3, <1>4, <1>5 DEF IInv

\* A cancelled call leaves.
LEMMA CancelledInv ==
  ASSUME IInv, NEW c \in Calls, Cancelled(c)
  PROVE  IInv'
<1>1. TypeOK'
  BY DEF IInv, TypeOK, Cancelled, Settled, Stages
<1>2. BuildInv'
  BY DEF IInv, TypeOK, Cancelled, Settled, BuildInv, TokenInv, Asking, Stages
<1>3. TokenInv'
  BY DEF IInv, TypeOK, Cancelled, Settled, BuildInv, TokenInv, Asking
<1>4. AnswerInv'
  BY DEF IInv, TypeOK, Cancelled, Settled, BuildInv, TokenInv, AnswerInv
<1>5. ConsentIsForThisCall'
  BY DEF IInv, TypeOK, Cancelled, Settled, AnswerInv, ConsentIsForThisCall
<1>6. QED
  BY <1>1, <1>2, <1>3, <1>4, <1>5 DEF IInv

\* The poll becomes a request on its way; only the current gate has one to take.
LEMMA RecvInv ==
  ASSUME IInv, NEW b \in Builds, Recv(b)
  PROVE  IInv'
<1>1. TypeOK'
  BY DEF IInv, TypeOK, Recv, Messages, Request, Stages, Settled
<1>2. BuildInv'
  BY DEF IInv, TypeOK, Recv, Messages, Request, BuildInv, TokenInv, Asking, Stages
<1>3. TokenInv'
  BY DEF IInv, TypeOK, Recv, Messages, Request, BuildInv, TokenInv, Asking
<1>4. AnswerInv'
  BY DEF IInv, TypeOK, Recv, Messages, Request, BuildInv, TokenInv, AnswerInv
<1>5. ConsentIsForThisCall'
  BY DEF IInv, TypeOK, Recv, Messages, Request, AnswerInv, ConsentIsForThisCall
<1>6. QED
  BY <1>1, <1>2, <1>3, <1>4, <1>5 DEF IInv

\* The request becomes the modal.
LEMMA ShowInv ==
  ASSUME IInv, NEW c \in Calls, Show(c)
  PROVE  IInv'
<1>1. TypeOK'
  BY DEF IInv, TypeOK, Show, Request, PollsAtRequest, Stages, Settled
<1>2. BuildInv'
  BY DEF IInv, TypeOK, Show, Request, PollsAtRequest, BuildInv, TokenInv, Asking, Stages
<1>3. TokenInv'
  BY DEF IInv, TypeOK, Show, Request, PollsAtRequest, BuildInv, TokenInv, Asking
<1>4. AnswerInv'
  BY DEF IInv, TypeOK, Show, Request, PollsAtRequest, BuildInv, TokenInv, AnswerInv
<1>5. ConsentIsForThisCall'
  BY DEF IInv, TypeOK, Show, Request, PollsAtRequest, AnswerInv, ConsentIsForThisCall
<1>6. QED
  BY <1>1, <1>2, <1>3, <1>4, <1>5 DEF IInv

\* The modal becomes an answer.
LEMMA DecideInv ==
  ASSUME IInv, NEW yes \in BOOLEAN, Decide(yes)
  PROVE  IInv'
<1>1. TypeOK'
  BY DEF IInv, TypeOK, Decide, Messages, Answer, Stages, Settled
<1>2. BuildInv'
  BY DEF IInv, TypeOK, Decide, Messages, Answer, BuildInv, TokenInv, Asking, Stages
<1>3. TokenInv'
  BY DEF IInv, TypeOK, Decide, Messages, Answer, BuildInv, TokenInv, Asking
<1>4. AnswerInv'
  BY DEF IInv, TypeOK, Decide, Messages, Answer, BuildInv, TokenInv, AnswerInv
<1>5. ConsentIsForThisCall'
  BY DEF IInv, TypeOK, Decide, Messages, Answer, AnswerInv, ConsentIsForThisCall
<1>6. QED
  BY <1>1, <1>2, <1>3, <1>4, <1>5 DEF IInv

\* The answer becomes a poll, and the reply of the call it is about.
LEMMA ResolveInv ==
  ASSUME IInv, NEW m \in Messages, Resolve(m)
  PROVE  IInv'
<1>1. TypeOK'
  <2>1. reply' \in [Calls -> {"none", "yes", "no"}]
    BY DEF IInv, TypeOK, Resolve
  <2>2. polls' \in [Builds -> Nat]
    <3>1. CASE active /\ pending # None
      <4>1. build \in Builds
        BY <3>1 DEF IInv, TypeOK, BuildInv
      <4>2. polls' = [polls EXCEPT ![build] = @ + 1]
        BY <3>1 DEF Resolve, PollsAgain
      <4>3. QED
        BY <4>1, <4>2 DEF IInv, TypeOK
    <3>2. CASE ~(active /\ pending # None)
      BY <3>2 DEF IInv, TypeOK, Resolve
    <3>3. QED
      BY <3>1, <3>2
  <2>3. QED
    BY <2>1, <2>2 DEF IInv, TypeOK, Resolve
<1>2. BuildInv'
  BY DEF IInv, TypeOK, Resolve, PollsAgain, BuildInv, TokenInv, Asking, Stages
<1>3. TokenInv'
  BY DEF IInv, TypeOK, Resolve, PollsAgain, BuildInv, TokenInv, Asking
<1>4. AnswerInv'
  <2> SUFFICES ASSUME ~crossed'
               PROVE  /\ \A n \in inbox' : n.kind = "answer" => pending' \in {None, n.of} /\ (n.yes => n.of \in agreed')
                      /\ \A c \in Calls : reply'[c] = "yes" => c \in agreed'
    BY DEF AnswerInv
  <2>1. ~crossed /\ agreed' = agreed /\ m \in inbox /\ inbox' = inbox \ {m}
    BY DEF Resolve
  <2>2. inbox' = {}
    BY <2>1 DEF IInv, TokenInv
  <2>3. ASSUME NEW c \in Calls, reply'[c] = "yes"
        PROVE  c \in agreed'
    <3>1. reply[c] = "yes" \/ (c = pending /\ m.yes)
      BY <2>3 DEF IInv, TypeOK, Resolve
    <3>2. m.kind = "answer" /\ (c = pending => c = m.of)
      BY <2>1 DEF IInv, AnswerInv, Resolve
    <3>3. QED
      BY <2>1, <3>1, <3>2 DEF IInv, AnswerInv
  <2>4. QED
    BY <2>2, <2>3
<1>5. ConsentIsForThisCall'
  BY DEF IInv, TypeOK, Resolve, PollsAgain, AnswerInv, ConsentIsForThisCall
<1>6. QED
  BY <1>1, <1>2, <1>3, <1>4, <1>5 DEF IInv

\* An interrupt finds no modal; it forgets what is pending.
LEMMA InterruptInv ==
  ASSUME IInv, Interrupt
  PROVE  IInv'
<1>1. TypeOK'
  BY DEF IInv, TypeOK, Interrupt, Running, Settled, Stages
<1>2. BuildInv'
  BY DEF IInv, TypeOK, Interrupt, Running, Settled, BuildInv, TokenInv, Asking, Stages
<1>3. TokenInv'
  BY DEF IInv, TypeOK, Interrupt, Running, Settled, BuildInv, TokenInv, Asking
<1>4. AnswerInv'
  BY DEF IInv, TypeOK, Interrupt, Running, Settled, BuildInv, TokenInv, AnswerInv
<1>5. ConsentIsForThisCall'
  BY DEF IInv, TypeOK, Interrupt, Running, Settled, AnswerInv, ConsentIsForThisCall
<1>6. QED
  BY <1>1, <1>2, <1>3, <1>4, <1>5 DEF IInv

\* A stop that is not in the middle of a prompt finds the token in the poll.
LEMMA StopInv ==
  ASSUME IInv, Stop
  PROVE  IInv'
<1>1. TypeOK'
  BY DEF IInv, TypeOK, Stop, Running, Settled, Stages
<1>2. BuildInv'
  BY DEF IInv, TypeOK, Stop, Running, Settled, BuildInv, TokenInv, Asking, Stages
<1>3. TokenInv'
  BY DEF IInv, TypeOK, Stop, Running, Settled, BuildInv, TokenInv, Asking
<1>4. AnswerInv'
  BY DEF IInv, TypeOK, Stop, Running, Settled, BuildInv, TokenInv, AnswerInv
<1>5. ConsentIsForThisCall'
  BY DEF IInv, TypeOK, Stop, Running, Settled, AnswerInv, ConsentIsForThisCall
<1>6. QED
  BY <1>1, <1>2, <1>3, <1>4, <1>5 DEF IInv

\* The new agent's poll is the new token.
LEMMA StartInv ==
  ASSUME IInv, Start
  PROVE  IInv'
<1>1. TypeOK'
  BY DEF IInv, TypeOK, Start, Stages, Settled
<1>2. BuildInv'
  BY DEF IInv, TypeOK, Start, BuildInv, TokenInv, Asking, Stages
<1>3. TokenInv'
  BY DEF IInv, TypeOK, Start, BuildInv, TokenInv, Asking
<1>4. AnswerInv'
  BY DEF IInv, TypeOK, Start, BuildInv, TokenInv, AnswerInv
<1>5. ConsentIsForThisCall'
  BY DEF IInv, TypeOK, Start, AnswerInv, ConsentIsForThisCall
<1>6. QED
  BY <1>1, <1>2, <1>3, <1>4, <1>5 DEF IInv

\* The initial states satisfy the invariant.
LEMMA InitInv == Init => IInv
<1> SUFFICES ASSUME Init PROVE IInv
  OBVIOUS
<1>1. TypeOK
  <2>1. build \in 0 .. BoundBuilds /\ of \in [Calls -> 0 .. BoundBuilds] /\ polls \in [Builds -> Nat]
    BY DEF Init
  <2>2. active \in BOOLEAN /\ crossed \in BOOLEAN /\ overtaken \in BOOLEAN
    BY DEF Init
  <2>3. /\ stage \in [Calls -> Stages] /\ reply \in [Calls -> {"none", "yes", "no"}]
        /\ queue \in [Builds -> Calls \cup {None}]
    BY DEF Init, Stages
  <2>4. QED
    BY <2>1, <2>2, <2>3 DEF Init, TypeOK
<1>2. BuildInv /\ TokenInv /\ AnswerInv /\ ConsentIsForThisCall
  BY DEF Init, BuildInv, TokenInv, AnswerInv, ConsentIsForThisCall, Asking
<1>3. QED
  BY <1>1, <1>2 DEF IInv

\* Every step keeps it.
LEMMA StepInv == IInv /\ [Next]_vars => IInv'
<1> SUFFICES ASSUME IInv, [Next]_vars PROVE IInv'
  OBVIOUS
<1>1. CASE UNCHANGED vars
  BY <1>1 DEF vars, IInv, TypeOK, BuildInv, TokenInv, AnswerInv, ConsentIsForThisCall, Asking
<1>2. ASSUME NEW c \in Calls, Call(c) \/ Send(c) \/ Receive(c) \/ Cancelled(c) \/ Show(c)
      PROVE  IInv'
  BY <1>2, CallInv, SendInv, ReceiveInv, CancelledInv, ShowInv
<1>3. ASSUME NEW b \in Builds, Recv(b) PROVE IInv'
  BY <1>3, RecvInv
<1>4. ASSUME NEW yes \in BOOLEAN, Decide(yes) PROVE IInv'
  BY <1>4, DecideInv
<1>5. ASSUME NEW m \in Messages, Resolve(m) PROVE IInv'
  BY <1>5, ResolveInv
<1>6. CASE Interrupt \/ Stop \/ Start
  BY <1>6, InterruptInv, StopInv, StartInv
<1>7. QED
  BY <1>1, <1>2, <1>3, <1>4, <1>5, <1>6 DEF Next

\* The invariant holds for ever.
LEMMA Inductive == Spec => []IInv
BY InitInv, StepInv, PTL DEF Spec

-----------------------------------------------------------------------------
(* The properties. *)

\* The variables keep their types; every channel has one place.
THEOREM TypeCorrect == Spec => []TypeOK
<1>1. IInv => TypeOK
  BY DEF IInv
<1>2. QED
  BY <1>1, Inductive, PTL

\* A call that runs with the user's permission is one the user said yes to.
THEOREM ConsentHolds == Spec => []ConsentIsForThisCall
<1>1. IInv => ConsentIsForThisCall
  BY DEF IInv
<1>2. QED
  BY <1>1, Inductive, PTL

\* A request is shown only when no modal is up, so no live call's prompt is
\* replaced.
LEMMA ModalStays ==
  ASSUME IInv, [Next]_vars, modal # None, modal' \notin {None, modal}
  PROVE  crossed
<1>1. ASSUME NEW c \in Calls, Show(c) PROVE crossed
  BY <1>1 DEF IInv, TokenInv, Show
<1>2. QED
  BY <1>1 DEF Next, vars, Call, Send, Receive, Cancelled, Recv, Decide, Resolve, Interrupt, Stop, Start

\* The prompt on the screen is replaced only after a rebuild in the middle of one.
THEOREM PromptStays == Spec => LivePromptStays
<1>1. IInv /\ [Next]_vars => [modal # None /\ modal' \notin {None, modal} /\ Live(modal) => crossed]_vars
  BY ModalStays
<1>2. QED
  BY <1>1, Inductive, PTL DEF Spec, LivePromptStays
=============================================================================
