-------------------------- MODULE MCWorkerTracker --------------------------
(* WorkerTracker with few workers, sessions and items. *)
EXTENDS WorkerTrackerProps
=============================================================================
