----------------------------- MODULE MCInsights -----------------------------
(***************************************************************************)
(* Small tables for Insights: a block with more rows than a round may      *)
(* have, a sentence that one row rules and another asks about.             *)
(***************************************************************************)
EXTENDS Insights

CONSTANTS s1, s2, s3, m1, m2

R(b, i, s, ruled) == [block |-> b, index |-> i, sentence |-> s, ruled |-> ruled]

MCRows ==
  {R(0, 0, s1, TRUE), R(1, 0, s1, FALSE), R(1, 1, s2, FALSE), R(1, 2, s3, FALSE),
   R(2, 0, s2, FALSE)}

\* One transaction moved value and the next did not: the same sentence is
\* asked about first and ruled after.
MCRowsRuledLast == {R(0, 0, s1, FALSE), R(0, 1, s1, TRUE)}

MCTwoBehind == -2

=============================================================================
