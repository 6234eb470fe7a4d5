------------------------------- MODULE Rollup -------------------------------
(***************************************************************************)
(* The explorer's rollup (explorer/lib/rollup.ts): replicas fold the       *)
(* worker's transfers, range after range, into daily totals per address,   *)
(* each step one transaction under one advisory lock.                      *)
(*                                                                         *)
(* The worker's schema is external: its cursor moves forward, and it may   *)
(* be dropped and indexed again.  So is the operator who resets the        *)
(* explorer's tables when the log asks for it.                             *)
(***************************************************************************)
EXTENDS Archive

CONSTANTS
  Replicas,    \* the explorer's processes
  Busy,        \* the blocks with rows
  Floor,       \* the narrowest span: MIN_SPAN, 1 where the widest is below it
  MaxSpan,     \* MAX_SPAN
  Affordable,  \* the rows a fold gets through before its statement timeout
  Watched,     \* whether a reset comes before the new schema catches up
  MaxRecreated \* bound: schemas dropped and indexed again

ASSUME BusyAssumption == Busy \subseteq 1 .. MaxBlock
ASSUME SpanAssumption ==
  Floor \in Nat \ {0} /\ MaxSpan \in Nat /\ Floor <= MaxSpan /\ Affordable \in Nat
ASSUME WatchedAssumption == Watched \in BOOLEAN
ASSUME BoundsAssumption == MaxRecreated \in Nat

VARIABLES
  schema,  \* which incarnation of the worker's schema there is
  totals,  \* how often each incarnation's block is in the totals
  tx,      \* each replica's transaction: the query it is at, the worker's
           \* cursor and the rollup's as it read them, the end of its range
  span,    \* Rollup.#span
  of       \* observation: the incarnation rollup_cursor was last written for

workerVars == <<head, schema>>
tableVars == <<rolled, totals, of>>
vars == <<workerVars, tableVars, tx, span, faults>>

Schemas == 0 .. MaxRecreated
NoTx == [at |-> "none", cur |-> 0, from |-> 0, to |-> 0]

Lower(a, b) == IF a < b THEN a ELSE b
Higher(a, b) == IF a > b THEN a ELSE b

Init ==
  /\ head = None /\ schema = 0
  /\ rolled = None /\ of = 0
  /\ totals = [s \in Schemas |-> [n \in Busy |-> 0]]
  /\ tx = [r \in Replicas |-> NoTx]
  /\ span = [r \in Replicas |-> MaxSpan]
  /\ faults = 0

-----------------------------------------------------------------------------
(* The worker and the operator (external).                                 *)

Stale == of # schema /\ rolled > 0

(* Watched: the schema indexed again does not reach the rollup's cursor    *)
(* before the reset.                                                       *)
Ingest ==
  /\ Watched /\ Stale => head + 1 < rolled
  /\ HeadMoves
  /\ UNCHANGED <<schema, totals, of, tx, span, faults>>

(* DROP waits for every transaction that has read one of the tables.       *)
Recreate ==
  /\ schema < MaxRecreated
  /\ \A r \in Replicas : tx[r].at \in {"none", "head"}
  /\ schema' = schema + 1
  /\ head' = None
  /\ UNCHANGED <<tableVars, tx, span, faults>>

(* TRUNCATE explorer.address_daily, explorer.rollup_cursor                  *)
Reset ==
  /\ head # None /\ rolled > head
  /\ \A r \in Replicas : tx[r].at \notin {"fold", "commit"}
  /\ rolled' = None /\ of' = schema
  /\ totals' = [s \in Schemas |-> [n \in Busy |-> 0]]
  /\ UNCHANGED <<workerVars, tx, span, faults>>

-----------------------------------------------------------------------------
(* One step of a replica.                                                  *)

End(r) == tx' = [tx EXCEPT ![r] = NoTx]

(* Mutant: nobody takes the lock.                                          *)
LockFree(r) == TRUE

(* pg_try_advisory_xact_lock; a replica that cannot get it skips the round. *)
LockGranted(r) == \A q \in Replicas : tx[q] = NoTx

Begin(r) ==
  /\ tx[r] = NoTx
  /\ LockGranted(r)
  /\ tx' = [tx EXCEPT ![r].at = "head"]
  /\ UNCHANGED <<workerVars, tableVars, span, faults>>

ReadHead(r) ==
  /\ tx[r].at = "head"
  /\ IF head = None THEN End(r)
                     ELSE tx' = [tx EXCEPT ![r].at = "rolled", ![r].cur = head]
  /\ UNCHANGED <<workerVars, tableVars, span, faults>>

(* Ahead of the worker, or level with it, nothing is folded.               *)
ReadRolled(r) ==
  /\ tx[r].at = "rolled"
  /\ IF rolled >= tx[r].cur THEN End(r)
       ELSE tx' = [tx EXCEPT ![r].at = "fold", ![r].from = rolled]
  /\ UNCHANGED <<workerVars, tableVars, span, faults>>

Rows(a, b) == {n \in Busy : a < n /\ n <= b}

(* Up to the worker's cursor, a span from the first block with rows.       *)
RangeEnd(r) ==
  LET next == Rows(tx[r].from, tx[r].cur)
      first == CHOOSE n \in next : \A m \in next : n <= m
  IN IF next = {} THEN tx[r].cur ELSE Lower(tx[r].cur, first - 1 + span[r])

InTime(r) == Cardinality(Rows(tx[r].from, RangeEnd(r))) <= Affordable

Fold(r) ==
  /\ tx[r].at = "fold" /\ InTime(r)
  /\ tx' = [tx EXCEPT ![r].at = "commit", ![r].to = RangeEnd(r)]
  /\ UNCHANGED <<workerVars, tableVars, span, faults>>

(* Mutant: a cancelled range is retried as wide as it was.                 *)
HalvedNever(s) == s

Halved(s) == Higher(Floor, s \div 2)

(* query_canceled: the fold outlived the statement timeout.                *)
Cancel(r) ==
  /\ tx[r].at = "fold" /\ ~InTime(r)
  /\ span' = [span EXCEPT ![r] = Halved(@)]
  /\ End(r)
  /\ UNCHANGED <<workerVars, tableVars, faults>>

(* Totals and rollup_cursor of one transaction.                            *)
WriteRange(r) ==
  /\ totals' = [totals EXCEPT ![schema] =
                  [n \in Busy |-> IF n \in Rows(tx[r].from, tx[r].to) THEN @[n] + 1 ELSE @[n]]]
  /\ rolled' = tx[r].to
  /\ of' = schema

Doubled(s) == Lower(MaxSpan, s * 2)

Commit(r) ==
  /\ tx[r].at = "commit"
  /\ WriteRange(r)
  /\ span' = [span EXCEPT ![r] = Doubled(@)]
  /\ End(r)
  /\ UNCHANGED <<workerVars, faults>>

(* The COMMIT took effect and its acknowledgement was lost.                *)
CommitUnacknowledged(r) ==
  /\ tx[r].at = "commit"
  /\ Fault
  /\ WriteRange(r)
  /\ End(r)
  /\ UNCHANGED <<workerVars, span>>

(* The database or the connection fails; the transaction is rolled back.   *)
Fail(r) ==
  /\ tx[r] # NoTx
  /\ Fault
  /\ End(r)
  /\ UNCHANGED <<workerVars, tableVars, span>>

(* The process ends, and with it its transaction; a new one starts wide.   *)
Restart(r) ==
  /\ Fault
  /\ End(r)
  /\ span' = [span EXCEPT ![r] = MaxSpan]
  /\ UNCHANGED <<workerVars, tableVars>>

-----------------------------------------------------------------------------
Step(r) ==
  Begin(r) \/ ReadHead(r) \/ ReadRolled(r) \/ Fold(r) \/ Cancel(r) \/ Commit(r)

Next ==
  \/ Ingest \/ Recreate \/ Reset
  \/ \E r \in Replicas :
       Step(r) \/ CommitUnacknowledged(r) \/ Fail(r) \/ Restart(r)

Spec == Init /\ [][Next]_vars

(* Each replica's timer fires and its queries return, and the operator does *)
(* what the log asks for.                                                  *)
FairSpec ==
  /\ Spec
  /\ \A r \in Replicas : WF_vars(Step(r))
  /\ WF_vars(Reset)

-----------------------------------------------------------------------------
(* Every variable has the values the code gives it; the span stays between *)
(* its floor and its maximum.                                              *)
TypeOK ==
  /\ head \in {None} \cup 0 .. MaxBlock /\ schema \in Schemas
  /\ rolled \in None .. MaxBlock /\ of \in Schemas
  /\ totals \in [Schemas -> [Busy -> Nat]]
  /\ tx \in [Replicas -> [at : {"none", "head", "rolled", "fold", "commit"},
                          cur : 0 .. MaxBlock, from : None .. MaxBlock,
                          to : 0 .. MaxBlock]]
  /\ span \in [Replicas -> Floor .. MaxSpan]
  /\ faults \in 0 .. MaxFaults

(* The totals are those of one schema's blocks up to rollup_cursor, each   *)
(* counted once: no replica, retry, cancelled range or lost acknowledgement *)
(* folds a block twice or leaves one out, and nothing is folded onto the   *)
(* totals of a schema that is gone (rollup.ts:51-53 and 101-103).          *)
FoldedOnce ==
  \A s \in Schemas, n \in Busy :
    totals[s][n] = IF s = of /\ n <= rolled THEN 1 ELSE 0

(* When the worker rests the rollup reaches its cursor, through cancelled  *)
(* ranges, other replicas' locks and a reset.                              *)
RollsUp == <>[](head = None \/ rolled = head)

=============================================================================
