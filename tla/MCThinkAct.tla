----------------------------- MODULE MCThinkAct -----------------------------
(* Model-checking instance of ThinkAct. *)
EXTENDS ThinkActProps
=============================================================================
