-------------------------- MODULE MCBackgroundTask --------------------------
(* BackgroundTask with one command, one subagent and two killers. *)
EXTENDS BackgroundTaskProps
=============================================================================
