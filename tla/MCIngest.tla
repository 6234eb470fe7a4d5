------------------------------ MODULE MCIngest ------------------------------
(***************************************************************************)
(* Small chains for Ingest: an event in every block, one log that does not *)
(* decode, one of an event nobody indexes, one from before its contract's  *)
(* start.                                                                  *)
(***************************************************************************)
EXTENDS Ingest, TLC

CONSTANTS usdc, vault, n1, n2, tail

L(b, c, k) == [block |-> b, contract |-> c, kind |-> k]

MCContracts == {usdc, vault}

\* Both starts are block numbers; vault starts a block later.
MCAbsolute == (usdc :> 1) @@ (vault :> 2)

\* usdc tails from the head, vault goes one block back from it.
MCRelative == (usdc :> tail) @@ (vault :> -1)

MCLogs ==
  {L(1, usdc, "event"), L(1, vault, "event"), L(2, usdc, "undecodable"),
   L(2, vault, "event"), L(3, usdc, "untracked"), L(3, vault, "event")}

MCOneNode == {n1}

=============================================================================
