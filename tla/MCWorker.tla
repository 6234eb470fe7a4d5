------------------------------ MODULE MCWorker ------------------------------
(***************************************************************************)
(* Specs and schemas for Worker: an Indexer that only polls, the same with *)
(* address indexes, and one for another contract that listens on the first *)
(* endpoint's announceRpc url, healthy at boot or not, and on the second,  *)
(* a websocket it also queries, if that was healthy; a fresh schema, one   *)
(* of before address indexes were recorded, and one of storage layout 1.   *)
(***************************************************************************)
EXTENDS Worker, TLC

CONSTANTS left, right, usdc, eurc

Config(contract, indexes) ==
  [contract |-> contract, span |-> 1, indexes |-> indexes,
   rpc |-> IF contract = usdc THEN {left} ELSE {left, right},
   announce |-> IF contract = usdc THEN {} ELSE {left}]

MCConfigs == {Config(usdc, FALSE), Config(usdc, TRUE), Config(eurc, FALSE)}

MCAtFirst == {left :> a @@ right :> "ours" : a \in {"ours", "down"}}

MCSchemas ==
  {[layout |-> "none", meta |-> Absent, index |-> "none", cursor |-> FALSE, origins |-> {}],
   [layout |-> "2", meta |-> "contract" :> usdc @@ "partition_blocks" :> 1, index |-> "plain",
    cursor |-> TRUE, origins |-> {Config(usdc, FALSE)}],
   [layout |-> "1", meta |-> Absent, index |-> "plain", cursor |-> TRUE,
    origins |-> {[Config(usdc, FALSE) EXCEPT !.span = 0]}]}

=============================================================================
