--------------------------- MODULE MCReconcileGate ---------------------------
(***************************************************************************)
(* A small cluster for ReconcileGate: one Indexer, room for two runs of it *)
(* (so that a second one would be seen), one listing in progress.          *)
(***************************************************************************)
EXTENDS ReconcileGate, TLC

CONSTANTS first, name, r1, r2, l1

MCOneKey == {first}
MCOneNameOf == first :> name
MCTwoRuns == {r1, r2}

\* How often each thing goes wrong.
MCEach == [kind \in DisruptionKinds |-> 1]
MCRestart == [kind \in DisruptionKinds |-> IF kind = "restart" THEN 1 ELSE 0]
MCFail == [kind \in DisruptionKinds |-> IF kind = "fail" THEN 1 ELSE 0]
MCNone == [kind \in DisruptionKinds |-> 0]

=============================================================================
