------------------------------- MODULE MCTape -------------------------------
(***************************************************************************)
(* A short chain for Tape: a hello has room for two movements, so it cuts   *)
(* the second block when the third is in the buffer.                       *)
(***************************************************************************)
EXTENDS Tape, TLC

MCMoves == <<1, 2, 1>>

=============================================================================
