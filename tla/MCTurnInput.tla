---------------------------- MODULE MCTurnInput ----------------------------
(* TurnInput for TLC. *)
EXTENDS TurnInputProps
=============================================================================
