------------------------------ MODULE MCRollup ------------------------------
(***************************************************************************)
(* Two replicas and a short chain for Rollup: a quiet first block, and more *)
(* rows behind it than one fold gets through.                              *)
(***************************************************************************)
EXTENDS Rollup, TLC

CONSTANTS r1, r2

MCReplicas == {r1, r2}

MCBusy == {2, 3, 4}

=============================================================================
