--------------------------- MODULE PermissionGate ---------------------------
(***************************************************************************)
(* How a tool call waits for the user's permission (agent/permission.go,   *)
(* agent/session.go, app/update_approval.go, app/agent.go): the calls of   *)
(* the agent's turn, concurrent ones included, ask through the gate's one- *)
(* place channel; a command of the UI polls it, once per poll, and the UI's*)
(* loop shows the request, takes the answer, gives it to the request it    *)
(* holds as pending, and polls again.  Every build of the agent has a gate *)
(* of its own.                                                             *)
(*                                                                         *)
(* A call is one that the policy, a grant for the session or the judge of  *)
(* the gray zone do not settle; they and the record in the transcript are  *)
(* left out.  What commands return reaches the loop in any order.          *)
(* A definition named ...Fault is the one after it with a defect; no       *)
(* action uses it.                                                         *)
(***************************************************************************)
EXTENDS Naturals, FiniteSets

CONSTANTS
  Calls,         \* tool calls that need a permission
  None,
  BoundBuilds    \* bound: agents built

ASSUME GateAssumption == None \notin Calls /\ BoundBuilds \in Nat

Builds == 1 .. BoundBuilds

VARIABLES
  build,      \* agents built so far; the last is the session's
  active,     \* Session.agent is not nil
  stage,      \* where a call is in Check
  of,         \* the agent whose call it is, 0 before it is made
  over,       \* the calls whose context is cancelled
  queue,      \* each gate's requests channel, which has one place
  polls,      \* how many Recv wait at each gate
  inbox,      \* messages on their way to Update: requests and answers
  pending,    \* Session.pendingPermRequest
  modal,      \* the request that the approval modal shows
  reply,      \* each request's Response channel, which has one place
  agreed,     \* history: the calls whose modal the user said yes to
  crossed,    \* history: an agent was stopped with a prompt under way
  overtaken   \* history: an interrupt came between an answer and its message

agents == <<build, active>>
calls == <<stage, of, over>>
channels == <<queue, polls, inbox, reply>>
screen == <<pending, modal>>
hist == <<agreed, crossed, overtaken>>
vars == <<agents, calls, channels, screen, hist>>

Request(c) == [kind |-> "request", of |-> c]
Answer(c, yes) == [kind |-> "answer", of |-> c, yes |-> yes]
Messages == {Request(c) : c \in Calls} \cup {Answer(c, yes) : c \in Calls, yes \in BOOLEAN}

Init ==
  /\ build = 0 /\ active = FALSE
  /\ stage = [c \in Calls |-> "new"] /\ of = [c \in Calls |-> 0] /\ over = {}
  /\ queue = [b \in Builds |-> None] /\ polls = [b \in Builds |-> 0] /\ inbox = {}
  /\ pending = None /\ modal = None /\ reply = [c \in Calls |-> "none"]
  /\ agreed = {} /\ crossed = FALSE /\ overtaken = FALSE

Settled == {"approved", "refused", "cancelled"}
Live(c) == stage[c] \notin Settled \cup {"new"} /\ c \notin over

-----------------------------------------------------------------------------
\* The tool's goroutine.

\* A call of a running turn that only the user can allow.
Call(c) ==
  /\ active /\ stage[c] = "new"
  /\ of' = [of EXCEPT ![c] = build] /\ stage' = [stage EXCEPT ![c] = "sending"]
  /\ UNCHANGED <<agents, over, channels, screen, hist>>

\* prompt: with its context cancelled it may still send.
Send(c) ==
  /\ stage[c] = "sending" /\ queue[of[c]] = None
  /\ queue' = [queue EXCEPT ![of[c]] = c] /\ stage' = [stage EXCEPT ![c] = "waiting"]
  /\ UNCHANGED <<agents, of, over, polls, inbox, reply, screen, hist>>

Receive(c) ==
  /\ stage[c] = "waiting" /\ reply[c] # "none"
  /\ stage' = [stage EXCEPT ![c] = IF reply[c] = "yes" THEN "approved" ELSE "refused"]
  /\ UNCHANGED <<agents, of, over, channels, screen, hist>>

Cancelled(c) ==
  /\ stage[c] \in {"sending", "waiting"} /\ c \in over
  /\ stage' = [stage EXCEPT ![c] = "cancelled"]
  /\ UNCHANGED <<agents, of, over, channels, screen, hist>>

-----------------------------------------------------------------------------
\* The UI.

\* The command PollPermGate returns: one request, one message.
Recv(b) ==
  /\ polls[b] > 0 /\ queue[b] # None
  /\ polls' = [polls EXCEPT ![b] = @ - 1] /\ queue' = [queue EXCEPT ![b] = None]
  /\ inbox' = inbox \cup {Request(queue[b])}
  /\ UNCHANGED <<agents, calls, reply, screen, hist>>

\* OnPermGateRequest returns no command: nothing polls while a modal is up.
PollsAtRequestFault == active

PollsAtRequest == FALSE

\* OnPermGateRequest.
Show(c) ==
  /\ Request(c) \in inbox /\ inbox' = inbox \ {Request(c)}
  /\ pending' = c /\ modal' = c
  /\ polls' = IF PollsAtRequest THEN [polls EXCEPT ![build] = @ + 1] ELSE polls
  /\ UNCHANGED <<agents, calls, queue, reply, hist>>

\* The user's key: the modal is hidden, the answer comes as a message.
Decide(yes) ==
  /\ modal # None /\ modal' = None
  /\ inbox' = inbox \cup {Answer(modal, yes)}
  /\ agreed' = IF yes THEN agreed \cup {modal} ELSE agreed
  /\ UNCHANGED <<agents, calls, queue, polls, reply, pending, crossed, overtaken>>

PollsAgainFault(yes) == yes

\* handlePermGateDecision polls again whatever the answer was.
PollsAgain(yes) == TRUE

\* handlePermGateDecision: the answer goes to the pending request.
Resolve(m) ==
  /\ m \in inbox /\ m.kind = "answer" /\ inbox' = inbox \ {m}
  /\ pending' = IF active THEN None ELSE pending
  /\ IF active /\ pending # None
     THEN /\ reply' = [reply EXCEPT ![pending] = IF @ # "none" THEN @ ELSE IF m.yes THEN "yes" ELSE "no"]
          /\ polls' = IF PollsAgain(m.yes) THEN [polls EXCEPT ![build] = @ + 1] ELSE polls
     ELSE UNCHANGED <<reply, polls>>
  /\ UNCHANGED <<agents, calls, queue, modal, hist>>

Running == {c \in Calls : of[c] = build /\ stage[c] \notin Settled \cup {"new"}}
Answering == \E m \in inbox : m.kind = "answer"

\* Esc while the turn runs and no modal is up (InterruptTurn).
Interrupt ==
  /\ active /\ modal = None
  /\ over' = over \cup Running /\ pending' = None
  /\ overtaken' = (overtaken \/ (Answering /\ pending # None))
  /\ UNCHANGED <<agents, stage, of, channels, modal, agreed, crossed>>

\* StopAgentSession; the old gate is not closed, its poll stays.
Stop ==
  /\ active /\ active' = FALSE
  /\ over' = over \cup Running /\ pending' = None
  /\ crossed' = (crossed \/ Running # {} \/ queue[build] # None \/ inbox # {} \/ modal # None)
  /\ UNCHANGED <<build, stage, of, channels, modal, agreed, overtaken>>

\* ensureAgentSession: the new agent's gate gets its first poll.
Start ==
  /\ ~active /\ build < BoundBuilds
  /\ active' = TRUE /\ build' = build + 1
  /\ polls' = [polls EXCEPT ![build + 1] = 1]
  /\ UNCHANGED <<calls, queue, inbox, reply, screen, hist>>

Next ==
  \/ \E c \in Calls : Call(c) \/ Send(c) \/ Receive(c) \/ Cancelled(c) \/ Show(c)
  \/ \E b \in Builds : Recv(b)
  \/ \E yes \in BOOLEAN : Decide(yes)
  \/ \E m \in Messages : Resolve(m)
  \/ Interrupt \/ Stop \/ Start

\* The goroutines and the UI's loop go on, and the user answers what is asked.
Fairness ==
  /\ \A c \in Calls :
       WF_vars(Send(c)) /\ WF_vars(Receive(c)) /\ WF_vars(Cancelled(c)) /\ WF_vars(Show(c))
  /\ \A b \in Builds : WF_vars(Recv(b))
  /\ WF_vars(\E yes \in BOOLEAN : Decide(yes))
  /\ \A m \in Messages : WF_vars(Resolve(m))

Spec == Init /\ [][Next]_vars /\ Fairness
=============================================================================
