------------------------------- MODULE MCPages -------------------------------
(***************************************************************************)
(* A short chain for Pages: a block that fills more than a history page, a *)
(* self-transfer, and a transaction with pool events.                      *)
(***************************************************************************)
EXTENDS Pages, TLC

MCMoves == <<<<<<"a", "b">>, <<"a", "a">>>>, <<<<"b", "a">>>>>>

=============================================================================
