---------------------------- MODULE MCCronShared ----------------------------
(* CronShared with two windows, which are interchangeable. *)
EXTENDS CronSharedProps, TLC


WindowSymmetry == Permutations(Windows)
=============================================================================
