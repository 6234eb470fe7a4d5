------------------------------- MODULE Archive -------------------------------
(***************************************************************************)
(* What the explorer's parts have in common: how far the worker has        *)
(* indexed, how far the rollup has folded that, and the faults met so far. *)
(* ArchiveSpec is what a page relies on while no schema is dropped; Rollup *)
(* implements it.                                                          *)
(***************************************************************************)
EXTENDS Integers, FiniteSets

CONSTANTS
  MaxBlock, \* bound: the chain's last block
  MaxFaults \* bound: what may fail, restarts included

ASSUME ArchiveAssumption == MaxBlock \in Nat /\ MaxFaults \in Nat

VARIABLES
  head,   \* the worker's _cursor, None before it is written
  rolled, \* rollup_cursor, None when the table is empty
  faults  \* faults so far

None == -1

Fault == faults < MaxFaults /\ faults' = faults + 1

HeadMoves == head < MaxBlock /\ head' = head + 1 /\ UNCHANGED rolled

RolledMoves == rolled < head /\ rolled' \in rolled + 1 .. head /\ UNCHANGED head

ArchiveSpec ==
  head = None /\ rolled = None /\ [][HeadMoves \/ RolledMoves]_<<head, rolled>>

=============================================================================
