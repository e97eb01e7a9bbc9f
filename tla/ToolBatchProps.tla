--------------------------- MODULE ToolBatchProps ---------------------------
(***************************************************************************)
(* The properties of ToolBatch.                                            *)
(***************************************************************************)
EXTENDS ToolBatch

\* Type invariant of the batch's state.
TypeOK ==
  /\ kind \in [Calls -> Kinds]
  /\ ctxDone \in BOOLEAN
  /\ phase \in Phases
  /\ cursor \in 1 .. NumCalls + 1
  /\ tasks \subseteq Calls
  /\ exec \in [Calls -> ExecStates]
  /\ outcome \in [Calls -> Outcomes]
  /\ replies \in Seq([call : Calls, result : {"ok", "error"}])
  /\ late \subseteq Calls

AnsweredCalls == {replies[i].call : i \in DOMAIN replies}

\* Side effects happen in program order and never overlap: a side-effecting
\* call leaves "idle" only once every earlier one of the batch is over,
\* whatever the parallel-safe siblings are doing (execTools, phase 2).
SideEffectsInOrder ==
  \A c, d \in SerialTasks :
    c < d /\ exec[d] # "idle" => exec[c] \in Settled

\* A cancel lets at most one further side-effecting call begin: the one
\* that was already past its check of ctx.  "an Esc during the first of
\* three Edits" must not apply the other two.
OneLateStart == \A c, d \in late : c = d

\* A result the model reads as a success is the result of a tool that ran
\* and returned one, never the zero value of a slot of the results slice.
NoPhantomSuccess ==
  \A i \in DOMAIN replies :
    replies[i].result = "ok" =>
      /\ exec[replies[i].call] = "finished"
      /\ outcome[replies[i].call] = "ok"

\* The results of resolved calls are in the order of the calls, with one
\* result per call: providers pair results with calls by position and id.
RepliesInOrder ==
  \A i, j \in DOMAIN replies :
    i < j => /\ replies[i].call # replies[j].call
             /\ {replies[i].call, replies[j].call} \subseteq tasks
                  => replies[i].call < replies[j].call

\* execTools implements the contract its caller relies on: no call answered
\* twice, and none left unanswered unless the turn was cancelled.
Contract == INSTANCE BatchContract
              WITH answered <- AnsweredCalls,
                   revoked <- ctxDone,
                   over <- phase = "done"
ImplementsContract == Contract!Spec

\* Every batch returns: no interleaving of the goroutines with a cancel
\* leaves the join waiting.
BatchReturns == <>(phase = "done")
=============================================================================
