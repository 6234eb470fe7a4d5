----------------------------- MODULE MCStorage -----------------------------
(***************************************************************************)
(* Two workers of one schema for Storage, one with a Compactor, and a      *)
(* reader that joins the event table to _blocks (rollup.ts:34).            *)
(***************************************************************************)
EXTENDS Storage, TLC

CONSTANTS x, y

MCReadOrder == <<2, 1>>

\* Two blocks of the first partition, one of the next.
MCLogs ==
  <<<<[table |-> 2, addresses |-> {x}]>>,
    <<[table |-> 2, addresses |-> {y}]>>,
    <<[table |-> 2, addresses |-> {x, y}], [table |-> 2, addresses |-> {}]>>>>

=============================================================================
