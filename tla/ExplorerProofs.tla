--------------------------- MODULE ExplorerProofs ---------------------------
(***************************************************************************)
(* The rollup for any number of replicas, any chain, span and number of    *)
(* faults: variables keep their types, and as long as a reset comes before *)
(* a new schema catches up, every block is folded exactly once; while no   *)
(* schema is dropped it is the rollup that Archive promises the pages.     *)
(*                                                                         *)
(* The pages over any such archive, for any address, page size and number  *)
(* of faults: the pages of a history are whole, and a lane that is shown   *)
(* or ruled out for good is the lane there is.                             *)
(***************************************************************************)
EXTENDS Rollup, Pages, FiniteSetTheorems, SequenceTheorems, WellFoundedInduction, TLAPS

(* The lock: at most one replica is in a transaction.                      *)
OneTx == \A r, q \in Replicas : tx[r] # NoTx /\ tx[q] # NoTx => r = q

(* What a transaction read is still so, or only the worker moved on.       *)
TxFacts ==
  \A r \in Replicas :
    /\ tx[r].at = "none" => tx[r] = NoTx
    /\ tx[r].at \in {"rolled", "fold", "commit"}
         => head # None /\ tx[r].cur <= head
    /\ tx[r].at \in {"fold", "commit"}
         => tx[r].from = rolled /\ rolled < tx[r].cur
    /\ tx[r].at = "commit" => rolled < tx[r].to /\ tx[r].to <= tx[r].cur

(* A schema indexed again stays behind a rollup of the one before.          *)
ResetFirst == Stale => head = None \/ head < rolled

TypeInv == TypeOK /\ OneTx /\ TxFacts

Tx == [at : {"none", "head", "rolled", "fold", "commit"},
       cur : 0 .. MaxBlock, from : None .. MaxBlock, to : 0 .. MaxBlock]

LEMMA BusyFacts == \A n \in Busy : n \in Nat /\ n > 0
<1> SUFFICES ASSUME NEW n \in Busy PROVE n \in Nat /\ n > 0
  OBVIOUS
<1>1. n \in 1 .. MaxBlock /\ MaxBlock \in Nat
  BY ArchiveAssumption, BusyAssumption
<1>2. QED BY <1>1

(* A nonempty set of naturals has a least element.                         *)
LEMMA Least ==
  ASSUME NEW S \in SUBSET Nat, S # {}
  PROVE  \E b \in S : \A c \in S : b <= c
<1>1. PICK b \in S : \A c \in S : ~ (<<c, b>> \in OpToRel(<, Nat))
  BY NatLessThanWellFounded, WFMin
<1>2. \A c \in S : ~ (c < b)
  BY <1>1 DEF OpToRel
<1>3. QED BY <1>2

(* A range ends behind its start, and at the worker's cursor at the latest. *)
LEMMA RangeEndWithin ==
  ASSUME NEW r \in Replicas, tx[r].from \in Int, tx[r].cur \in Nat,
         tx[r].from < tx[r].cur, span[r] \in Nat \ {0}
  PROVE  /\ RangeEnd(r) \in Nat
         /\ tx[r].from < RangeEnd(r) /\ RangeEnd(r) <= tx[r].cur
<1> DEFINE next == Rows(tx[r].from, tx[r].cur)
           first == CHOOSE n \in next : \A m \in next : n <= m
<1>1. RangeEnd(r) = IF next = {} THEN tx[r].cur
                    ELSE Lower(tx[r].cur, first - 1 + span[r])
  BY DEF RangeEnd
<1>2. CASE next = {}
  BY <1>1, <1>2
<1>3. CASE next # {}
  <2>1. next \in SUBSET Nat
    BY BusyFacts DEF Rows
  <2>2. first \in next
    BY <1>3, <2>1, Least
  <2>3. first \in Nat /\ tx[r].from < first /\ first <= tx[r].cur
    BY <2>1, <2>2 DEF Rows
  <2> HIDE DEF next, first
  <2>4. QED BY <1>1, <1>3, <2>3 DEF Lower
<1>4. QED BY <1>2, <1>3

LEMMA InitTyped == Init => TypeInv
<1> SUFFICES ASSUME Init PROVE TypeInv
  OBVIOUS
<1>1. NoTx \in Tx
  BY ArchiveAssumption, BusyAssumption DEF NoTx, Tx, None
<1>2. TypeOK
  BY <1>1, ArchiveAssumption, BusyAssumption, SpanAssumption, ArchiveAssumption, BoundsAssumption
     DEF Init, TypeOK, Tx, Schemas, None
<1>3. OneTx /\ TxFacts
  BY DEF Init, OneTx, TxFacts, NoTx
<1>4. QED BY <1>2, <1>3 DEF TypeInv

(* Ending a transaction leaves the other replicas as they are.             *)
LEMMA EndTyped ==
  ASSUME TypeInv, NEW r \in Replicas, End(r)
  PROVE  /\ tx' \in [Replicas -> Tx]
         /\ tx'[r] = NoTx /\ \A q \in Replicas : q # r => tx'[q] = tx[q]
         /\ OneTx'
<1>1. NoTx \in Tx
  BY ArchiveAssumption, BusyAssumption DEF NoTx, Tx, None
<1>2. QED BY <1>1 DEF End, TypeInv, TypeOK, OneTx, Tx

LEMMA StepTyped == TypeInv /\ [Next]_vars => TypeInv'
<1> SUFFICES ASSUME TypeInv, [Next]_vars PROVE TypeInv'
  OBVIOUS
<1> USE DEF TypeInv, workerVars, tableVars, Fault
<1>0. tx \in [Replicas -> Tx]
  BY DEF TypeOK, Tx
<1>a. /\ MaxBlock \in Nat /\ Busy \subseteq 1 .. MaxBlock
      /\ schema \in Schemas /\ Schemas \subseteq Nat
  BY ArchiveAssumption, BusyAssumption, BoundsAssumption DEF TypeOK, Schemas
<1>1. CASE Ingest
  <2>1. head' \in 0 .. MaxBlock /\ (head # None => head' = head + 1)
        /\ UNCHANGED <<schema, rolled, totals, of, tx, span, faults>>
    BY <1>1, <1>a DEF Ingest, HeadMoves, TypeOK, None
  <2>2. TypeOK'
    BY <2>1 DEF TypeOK
  <2>3. OneTx'
    BY <2>1 DEF OneTx
  <2>4. TxFacts'
    BY <1>0, <2>1 DEF TxFacts, Tx, TypeOK, None
  <2>5. QED BY <2>2, <2>3, <2>4
<1>2. CASE Recreate
  <2>1. /\ schema' \in Schemas /\ head' = None
        /\ UNCHANGED <<rolled, totals, of, tx, span, faults>>
        /\ \A r \in Replicas : tx[r].at \in {"none", "head"}
    BY <1>2, <1>a, ArchiveAssumption, BoundsAssumption DEF Recreate, Schemas
  <2>2. TypeOK'
    BY <2>1 DEF TypeOK
  <2>3. OneTx' /\ TxFacts'
    BY <2>1 DEF OneTx, TxFacts
  <2>4. QED BY <2>2, <2>3
<1>3. CASE Reset
  <2>1. /\ rolled' = None /\ of' = schema
        /\ totals' = [s \in Schemas |-> [n \in Busy |-> 0]]
        /\ UNCHANGED <<head, schema, tx, span, faults>>
        /\ \A r \in Replicas : tx[r].at \notin {"fold", "commit"}
    BY <1>3 DEF Reset
  <2>2. TypeOK'
    BY <1>a, <2>1 DEF TypeOK, None
  <2>3. OneTx' /\ TxFacts'
    BY <2>1 DEF OneTx, TxFacts
  <2>4. QED BY <2>2, <2>3
<1>4. ASSUME NEW r \in Replicas, Begin(r) PROVE TypeInv'
  <2>1. /\ tx' = [tx EXCEPT ![r] = [NoTx EXCEPT !.at = "head"]]
        /\ \A q \in Replicas : tx[q] = NoTx
        /\ UNCHANGED <<head, schema, rolled, totals, of, span, faults>>
    BY <1>4 DEF Begin, LockGranted
  <2>2. tx' \in [Replicas -> Tx]
    <3>1. [NoTx EXCEPT !.at = "head"] \in Tx
      BY <1>a DEF NoTx, Tx, None
    <3>2. QED BY <1>0, <2>1, <3>1
  <2>3. TypeOK'
    BY <2>1, <2>2 DEF TypeOK, Tx
  <2>4. OneTx' /\ TxFacts'
    BY <1>0, <2>1 DEF OneTx, TxFacts, NoTx
  <2>5. QED BY <2>3, <2>4
<1>5. ASSUME NEW r \in Replicas, ReadHead(r) PROVE TypeInv'
  <2>1. /\ UNCHANGED <<head, schema, rolled, totals, of, span, faults>>
        /\ tx[r].at = "head"
    BY <1>5 DEF ReadHead
  <2>2. CASE head = None
    <3>1. End(r)
      BY <1>5, <2>2 DEF ReadHead
    <3>2. QED BY <2>1, <3>1, EndTyped DEF TypeOK, Tx, TxFacts, NoTx
  <2>3. CASE head # None
    <3>1. tx' = [tx EXCEPT ![r] = [tx[r] EXCEPT !.at = "rolled", !.cur = head]]
      BY <1>5, <2>3 DEF ReadHead
    <3>2. head \in 0 .. MaxBlock
      BY <2>3 DEF TypeOK
    <3>3. [tx[r] EXCEPT !.at = "rolled", !.cur = head] \in Tx
      BY <1>0, <3>2 DEF Tx
    <3>4. tx' \in [Replicas -> Tx]
      BY <1>0, <3>1, <3>3
    <3>5. TypeOK'
      BY <2>1, <3>4 DEF TypeOK, Tx
    <3>6. OneTx'
      BY <1>0, <2>1, <3>1 DEF OneTx, NoTx
    <3>7. TxFacts'
      BY <1>0, <2>1, <2>3, <3>1, <3>2 DEF TxFacts, Tx
    <3>8. QED BY <3>5, <3>6, <3>7
  <2>4. QED BY <2>2, <2>3
<1>6. ASSUME NEW r \in Replicas, ReadRolled(r) PROVE TypeInv'
  <2>1. /\ UNCHANGED <<head, schema, rolled, totals, of, span, faults>>
        /\ tx[r].at = "rolled"
    BY <1>6 DEF ReadRolled
  <2>2. CASE rolled >= tx[r].cur
    <3>1. End(r)
      BY <1>6, <2>2 DEF ReadRolled
    <3>2. QED BY <2>1, <3>1, EndTyped DEF TypeOK, Tx, TxFacts, NoTx
  <2>3. CASE ~ (rolled >= tx[r].cur)
    <3>1. tx' = [tx EXCEPT ![r] = [tx[r] EXCEPT !.at = "fold", !.from = rolled]]
      BY <1>6, <2>3 DEF ReadRolled
    <3>2. rolled \in None .. MaxBlock /\ tx[r].cur \in 0 .. MaxBlock
      BY <1>0 DEF TypeOK, Tx
    <3>3. [tx[r] EXCEPT !.at = "fold", !.from = rolled] \in Tx
      BY <1>0, <3>2 DEF Tx
    <3>4. tx' \in [Replicas -> Tx]
      BY <1>0, <3>1, <3>3
    <3>5. TypeOK'
      BY <2>1, <3>4 DEF TypeOK, Tx
    <3>6. OneTx'
      BY <1>0, <2>1, <3>1 DEF OneTx, NoTx
    <3>7. TxFacts'
      BY <1>0, <2>1, <2>3, <3>1, <3>2 DEF TxFacts, Tx, None
    <3>8. QED BY <3>5, <3>6, <3>7
  <2>4. QED BY <2>2, <2>3
<1>7. ASSUME NEW r \in Replicas, Fold(r) PROVE TypeInv'
  <2>1. /\ UNCHANGED <<head, schema, rolled, totals, of, span, faults>>
        /\ tx[r].at = "fold"
        /\ tx' = [tx EXCEPT ![r] = [tx[r] EXCEPT !.at = "commit", !.to = RangeEnd(r)]]
    BY <1>7 DEF Fold
  <2>2. /\ tx[r].from = rolled /\ rolled < tx[r].cur
        /\ tx[r].cur \in 0 .. MaxBlock /\ rolled \in Int
        /\ span[r] \in Nat \ {0}
    BY <1>0, <2>1, SpanAssumption DEF TxFacts, Tx, TypeOK, None
  <2>3. /\ RangeEnd(r) \in Nat
        /\ rolled < RangeEnd(r) /\ RangeEnd(r) <= tx[r].cur
    BY <2>2, RangeEndWithin
  <2>4. [tx[r] EXCEPT !.at = "commit", !.to = RangeEnd(r)] \in Tx
    <3>1. RangeEnd(r) \in 0 .. MaxBlock
      BY <1>a, <2>2, <2>3
    <3>2. tx[r] \in Tx
      BY <1>0
    <3>3. QED BY <3>1, <3>2 DEF Tx
  <2>5. tx' \in [Replicas -> Tx]
    BY <1>0, <2>1, <2>4
  <2>6. TypeOK'
    BY <2>1, <2>5 DEF TypeOK, Tx
  <2>7. OneTx'
    BY <1>0, <2>1 DEF OneTx, NoTx
  <2>8. TxFacts'
    BY <1>0, <2>1, <2>2, <2>3 DEF TxFacts, Tx
  <2>9. QED BY <2>6, <2>7, <2>8
<1>8. ASSUME NEW r \in Replicas, Cancel(r) PROVE TypeInv'
  <2>1. /\ UNCHANGED <<head, schema, rolled, totals, of, faults>> /\ End(r)
        /\ span' = [span EXCEPT ![r] = Halved(span[r])]
    BY <1>8 DEF Cancel
  <2>2. span[r] \in Floor .. MaxSpan
    BY DEF TypeOK
  <2>3. Halved(span[r]) \in Floor .. MaxSpan
    BY <2>2, SpanAssumption DEF Halved, Higher
  <2>4. span' \in [Replicas -> Floor .. MaxSpan]
    BY <2>1, <2>3 DEF TypeOK
  <2>5. QED BY <2>1, <2>4, EndTyped DEF TypeOK, Tx, TxFacts, NoTx
<1>9. ASSUME NEW r \in Replicas, Commit(r) \/ CommitUnacknowledged(r) PROVE TypeInv'
  <2>1. /\ UNCHANGED <<head, schema>> /\ End(r) /\ WriteRange(r)
        /\ tx[r].at = "commit"
    BY <1>9 DEF Commit, CommitUnacknowledged
  <2>2. span' \in [Replicas -> Floor .. MaxSpan] /\ faults' \in 0 .. MaxFaults
    <3>1. CASE Commit(r)
      <4>1. span' = [span EXCEPT ![r] = Doubled(span[r])] /\ faults' = faults
        BY <3>1 DEF Commit
      <4>2. span[r] \in Floor .. MaxSpan
        BY DEF TypeOK
      <4>3. Doubled(span[r]) \in Floor .. MaxSpan
        BY <4>2, SpanAssumption DEF Doubled, Lower
      <4>4. QED BY <4>1, <4>3 DEF TypeOK
    <3>2. CASE CommitUnacknowledged(r)
      BY <3>2, ArchiveAssumption, BoundsAssumption DEF CommitUnacknowledged, TypeOK
    <3>3. QED BY <1>9, <3>1, <3>2
  <2>3. rolled' \in None .. MaxBlock /\ of' \in Schemas
    BY <1>0, <1>a, <2>1 DEF WriteRange, Tx, None
  <2>4. totals' \in [Schemas -> [Busy -> Nat]]
    <3>1. totals[schema] \in [Busy -> Nat]
      BY <1>a DEF TypeOK
    <3> DEFINE row == [n \in Busy |-> IF n \in Rows(tx[r].from, tx[r].to)
                                       THEN totals[schema][n] + 1 ELSE totals[schema][n]]
    <3>2. row \in [Busy -> Nat]
      BY <3>1
    <3>3. totals' = [totals EXCEPT ![schema] = row]
      BY <2>1 DEF WriteRange
    <3> HIDE DEF row
    <3>4. QED BY <3>2, <3>3 DEF TypeOK
  <2>5. \A q \in Replicas : tx'[q] = NoTx
    BY <2>1, EndTyped DEF OneTx, NoTx
  <2>6. TypeOK'
    BY <2>1, <2>2, <2>3, <2>4, EndTyped DEF TypeOK, Tx
  <2>7. OneTx' /\ TxFacts'
    BY <2>5 DEF OneTx, TxFacts, NoTx
  <2>8. QED BY <2>6, <2>7
<1>10. ASSUME NEW r \in Replicas, Fail(r) \/ Restart(r) PROVE TypeInv'
  <2>1. UNCHANGED <<head, schema, rolled, totals, of>> /\ End(r)
    BY <1>10 DEF Fail, Restart
  <2>2. faults' \in 0 .. MaxFaults
    BY <1>10, ArchiveAssumption, BoundsAssumption DEF Fail, Restart, TypeOK
  <2>3. span' \in [Replicas -> Floor .. MaxSpan]
    BY <1>10, SpanAssumption DEF Fail, Restart, TypeOK
  <2>4. QED BY <2>1, <2>2, <2>3, EndTyped DEF TypeOK, Tx, TxFacts, NoTx
<1>11. CASE UNCHANGED vars
  BY <1>11 DEF vars, TypeOK, OneTx, TxFacts
<1>12. QED
  BY <1>1, <1>2, <1>3, <1>4, <1>5, <1>6, <1>7, <1>8, <1>9, <1>10, <1>11
     DEF Next, Step

LEMMA TypeInvariant == Spec => []TypeInv
BY InitTyped, StepTyped, PTL DEF Spec

(* Every variable keeps its type, and the span of every replica stays       *)
(* between its floor and its maximum.                                       *)
THEOREM RollupTyped == Spec => []TypeOK
<1>1. TypeInv => TypeOK
  BY DEF TypeInv
<1>2. QED BY <1>1, TypeInvariant, PTL

-----------------------------------------------------------------------------
FoldInv == ResetFirst /\ FoldedOnce

(* A range folded in one transaction continues the totals where they end.  *)
LEMMA WriteFolds ==
  ASSUME TypeInv, FoldInv, NEW r \in Replicas, tx[r].at = "commit", WriteRange(r)
  PROVE  FoldedOnce'
<1>1. /\ tx[r].from = rolled /\ rolled < tx[r].to
      /\ tx[r].to <= tx[r].cur /\ tx[r].cur <= head /\ head # None
      /\ rolled < head
      /\ rolled \in Int /\ head \in Int
      /\ tx[r].to \in Int /\ tx[r].cur \in Int
  <2>1. tx[r] \in Tx
    BY DEF TypeInv, TypeOK, Tx
  <2>2. QED BY <2>1, ArchiveAssumption, BusyAssumption DEF TypeInv, TypeOK, TxFacts, Tx, None
<1>2. of = schema \/ rolled <= 0
  BY <1>1 DEF FoldInv, ResetFirst, Stale
<1>3. \A n \in Busy : n \in Int /\ n > 0
  BY BusyFacts
<1>4. \A s \in Schemas, n \in Busy :
        totals[s][n] = IF s = schema /\ n <= rolled THEN 1 ELSE 0
  BY <1>1, <1>2, <1>3 DEF FoldInv, FoldedOnce
<1>5. /\ schema \in Schemas /\ rolled' = tx[r].to /\ of' = schema
      /\ totals \in [Schemas -> [Busy -> Nat]]
  BY DEF TypeInv, TypeOK, WriteRange
<1>6. ASSUME NEW s \in Schemas, NEW n \in Busy
      PROVE  totals'[s][n] = IF s = of' /\ n <= rolled' THEN 1 ELSE 0
  <2>1. CASE s = schema
    <3>1. totals'[s][n] = IF n \in Rows(tx[r].from, tx[r].to)
                            THEN totals[s][n] + 1 ELSE totals[s][n]
      BY <1>5, <2>1 DEF WriteRange
    <3>2. n \in Rows(tx[r].from, tx[r].to) <=> rolled < n /\ n <= tx[r].to
      BY <1>1 DEF Rows
    <3>3. QED BY <1>1, <1>3, <1>4, <1>5, <2>1, <3>1, <3>2
  <2>2. CASE s # schema
    <3>1. totals'[s] = totals[s]
      BY <1>5, <2>2 DEF WriteRange
    <3>2. QED BY <1>4, <1>5, <2>2, <3>1
  <2>3. QED BY <2>1, <2>2
<1>7. QED BY <1>6 DEF FoldedOnce

LEMMA FoldStep ==
  ASSUME Watched = TRUE, TypeInv, FoldInv, [Next]_vars
  PROVE  FoldInv'
<1> USE DEF FoldInv, workerVars, tableVars
<1>1. CASE Ingest
  <2>1. UNCHANGED <<schema, rolled, totals, of>>
    BY <1>1 DEF Ingest, HeadMoves
  <2>2. Stale => head' < rolled
    BY <1>1 DEF Ingest, HeadMoves, Stale, None
  <2>3. QED BY <2>1, <2>2 DEF ResetFirst, Stale, FoldedOnce
<1>2. CASE Recreate
  <2>1. head' = None /\ UNCHANGED <<rolled, totals, of>>
    BY <1>2 DEF Recreate
  <2>2. QED BY <2>1 DEF ResetFirst, FoldedOnce
<1>3. CASE Reset
  <2>1. /\ rolled' = -1 /\ of' = schema'
        /\ totals' = [s \in Schemas |-> [n \in Busy |-> 0]]
    BY <1>3 DEF Reset, None
  <2>2. \A n \in Busy : ~ (n <= -1)
    BY ArchiveAssumption, BusyAssumption
  <2>3. ResetFirst'
    BY <2>1 DEF ResetFirst, Stale
  <2>4. FoldedOnce'
    BY <2>1, <2>2 DEF FoldedOnce
  <2>5. QED BY <2>3, <2>4
<1>4. ASSUME NEW r \in Replicas, Commit(r) \/ CommitUnacknowledged(r) PROVE FoldInv'
  <2>1. WriteRange(r) /\ tx[r].at = "commit" /\ UNCHANGED <<head, schema>>
    BY <1>4 DEF Commit, CommitUnacknowledged
  <2>2. FoldedOnce'
    BY <2>1, WriteFolds
  <2>3. ResetFirst'
    BY <2>1 DEF WriteRange, ResetFirst, Stale
  <2>4. QED BY <2>2, <2>3
<1>5. ASSUME NEW r \in Replicas,
             \/ Begin(r) \/ ReadHead(r) \/ ReadRolled(r) \/ Fold(r) \/ Cancel(r)
             \/ Fail(r) \/ Restart(r)
      PROVE  FoldInv'
  <2>1. UNCHANGED <<head, schema, rolled, totals, of>>
    BY <1>5 DEF Begin, ReadHead, ReadRolled, Fold, Cancel, Fail, Restart
  <2>2. QED BY <2>1 DEF ResetFirst, Stale, FoldedOnce
<1>6. CASE UNCHANGED vars
  BY <1>6 DEF vars, ResetFirst, Stale, FoldedOnce
<1>7. QED
  BY <1>1, <1>2, <1>3, <1>4, <1>5, <1>6 DEF Next, Step

(* The totals are those of one schema's blocks up to rollup_cursor, each    *)
(* counted once, for any number of replicas, timeouts, lost acknowledgements *)
(* and schemas, provided a reset comes before a new schema catches up.      *)
THEOREM FoldedOnceHolds ==
  ASSUME Watched = TRUE
  PROVE  Spec => []FoldedOnce
<1>1. Init => FoldInv
  <2>1. \A n \in Busy : ~ (n <= -1)
    BY ArchiveAssumption, BusyAssumption
  <2>2. QED
    BY <2>1 DEF Init, FoldInv, ResetFirst, Stale, FoldedOnce, None
<1>2. TypeInv /\ FoldInv /\ [Next]_vars => FoldInv'
  BY FoldStep
<1>3. FoldInv => FoldedOnce
  BY DEF FoldInv
<1>4. QED BY <1>1, <1>2, <1>3, TypeInvariant, PTL DEF Spec

-----------------------------------------------------------------------------
(* What a page relies on is what the rollup does, as long as no schema is  *)
(* dropped (rollup.ts:101-112): rollup_cursor only moves forward, and      *)
(* never past the worker's.                                                *)
THEOREM ArchiveHolds ==
  ASSUME MaxRecreated = 0
  PROVE  Spec => ArchiveSpec
<1> DEFINE Behind == rolled <= head
<1>1. Init => head = None /\ rolled = None /\ Behind
  BY DEF Init, None
<1>2. ASSUME TypeInv, Behind, [Next]_vars
      PROVE  Behind' /\ [HeadMoves \/ RolledMoves]_<<head, rolled>>
  <2> USE <1>2 DEF TypeInv, workerVars, tableVars
  <2>0. head \in None .. MaxBlock /\ rolled \in None .. MaxBlock /\ MaxBlock \in Nat
    BY ArchiveAssumption DEF TypeOK, None
  <2>1. CASE Ingest
    BY <2>0, <2>1 DEF Ingest, HeadMoves, None
  <2>2. CASE Recreate
    <3>1. schema \in 0 .. 0
      BY DEF TypeOK, Schemas
    <3>2. QED BY <2>2, <3>1 DEF Recreate
  <2>3. CASE Reset
    BY <2>0, <2>3 DEF Reset, None
  <2>4. ASSUME NEW r \in Replicas, Commit(r) \/ CommitUnacknowledged(r)
        PROVE  Behind' /\ RolledMoves
    <3>1. /\ tx[r].at = "commit" /\ UNCHANGED head /\ rolled' = tx[r].to
      BY <2>4 DEF Commit, CommitUnacknowledged, WriteRange
    <3>2. rolled < tx[r].to /\ tx[r].to <= tx[r].cur /\ tx[r].cur <= head
      BY <3>1 DEF TxFacts
    <3>3. tx[r].to \in Nat /\ tx[r].cur \in Nat
      BY ArchiveAssumption DEF TypeOK
    <3>4. QED BY <2>0, <3>1, <3>2, <3>3 DEF RolledMoves, None
  <2>5. ASSUME NEW r \in Replicas,
               \/ Begin(r) \/ ReadHead(r) \/ ReadRolled(r) \/ Fold(r) \/ Cancel(r)
               \/ Fail(r) \/ Restart(r)
        PROVE  UNCHANGED <<head, rolled>>
    BY <2>5 DEF Begin, ReadHead, ReadRolled, Fold, Cancel, Fail, Restart
  <2>6. CASE UNCHANGED vars
    BY <2>6 DEF vars
  <2>7. QED
    BY <2>1, <2>2, <2>3, <2>4, <2>5, <2>6 DEF Next, Step
<1>3. QED BY <1>1, <1>2, TypeInvariant, PTL DEF Spec, ArchiveSpec

-----------------------------------------------------------------------------
(* Places in the log are in one order.                                     *)
LEMMA InOneOrder ==
  /\ \A p, q \in Places : p = q \/ Below(p, q) \/ Below(q, p)
  /\ \A p, q \in Places : ~ (Below(p, q) /\ Below(q, p)) /\ ~ Below(p, p)
  /\ \A p, q, r \in Places : Below(p, q) /\ Below(q, r) => Below(p, r)
<1>1. \A p \in Places : p = <<p[1], p[2]>> /\ p[1] \in Nat /\ p[2] \in Nat
  BY DEF Places
<1>2. \A p, q \in Places : p[1] = q[1] /\ p[2] = q[2] => p = q
  BY <1>1
<1>3. \A p, q \in Places : p = q \/ Below(p, q) \/ Below(q, p)
  BY <1>1, <1>2 DEF Below
<1>4. \A p, q \in Places : ~ (Below(p, q) /\ Below(q, p)) /\ ~ Below(p, p)
  BY <1>1 DEF Below
<1>5. \A p, q, r \in Places : Below(p, q) /\ Below(q, r) => Below(p, r)
  BY <1>1 DEF Below
<1>6. QED BY <1>3, <1>4, <1>5

(* The places of S that come before p on a page.                           *)
Above(S, p) == {q \in S : Below(p, q)}
Under(S, p) == {q \in S : Below(q, p)}

Log == {S \in SUBSET Places : IsFiniteSet(S)}

LEMMA Parts ==
  ASSUME NEW S \in Log, NEW T \in SUBSET S
  PROVE  T \in Log /\ Cardinality(T) \in Nat /\ Cardinality(T) <= Cardinality(S)
         /\ (Cardinality(T) = Cardinality(S) => T = S)
BY FS_Subset, FS_CardinalityType DEF Log

(* A finite part of the log has a newest and an oldest place: one with the  *)
(* fewest above it, and one with the fewest below.                         *)
LEMMA NewestOne ==
  ASSUME NEW S \in Log, S # {}
  PROVE  \E p \in S : \A q \in S \ {p} : Below(q, p)
<1> DEFINE C == {Cardinality(Above(S, p)) : p \in S}
<1>1. \A p \in S : Above(S, p) \in SUBSET S
  BY DEF Above
<1>2. \A p \in S : Cardinality(Above(S, p)) \in Nat /\ Above(S, p) \in Log
  BY <1>1, Parts
<1>3. PICK b \in C : \A c \in C : b <= c
  BY <1>2, Least
<1>4. PICK p \in S : b = Cardinality(Above(S, p))
  OBVIOUS
<1>5. ASSUME NEW q \in S, Below(p, q) PROVE FALSE
  <2>1. Above(S, q) \in SUBSET Above(S, p) /\ q \in Above(S, p) /\ q \notin Above(S, q)
    BY <1>5, InOneOrder DEF Above, Log
  <2>2. Cardinality(Above(S, q)) < Cardinality(Above(S, p))
    BY <1>2, <2>1, Parts
  <2>3. QED BY <1>2, <1>3, <1>4, <2>2
<1>6. QED BY <1>5, InOneOrder DEF Log

LEMMA OldestOne ==
  ASSUME NEW S \in Log, S # {}
  PROVE  Oldest(S) \in S /\ \A q \in S \ {Oldest(S)} : Below(Oldest(S), q)
<1> DEFINE C == {Cardinality(Under(S, p)) : p \in S}
<1>1. \A p \in S : Under(S, p) \in SUBSET S
  BY DEF Under
<1>2. \A p \in S : Cardinality(Under(S, p)) \in Nat /\ Under(S, p) \in Log
  BY <1>1, Parts
<1>3. PICK b \in C : \A c \in C : b <= c
  BY <1>2, Least
<1>4. PICK p \in S : b = Cardinality(Under(S, p))
  OBVIOUS
<1>5. ASSUME NEW q \in S, Below(q, p) PROVE FALSE
  <2>1. Under(S, q) \in SUBSET Under(S, p) /\ q \in Under(S, p) /\ q \notin Under(S, q)
    BY <1>5, InOneOrder DEF Under, Log
  <2>2. Cardinality(Under(S, q)) < Cardinality(Under(S, p))
    BY <1>2, <2>1, Parts
  <2>3. QED BY <1>2, <1>3, <1>4, <2>2
<1>6. \A q \in S \ {p} : Below(p, q)
  BY <1>5, InOneOrder DEF Log
<1>7. QED BY <1>6 DEF Oldest

(* LIMIT k takes the newest: what is above a row it takes it takes too.     *)
LEMMA NewestWithin ==
  ASSUME NEW S \in Log, NEW k \in Nat
  PROVE  /\ Newest(S, k) \in SUBSET S /\ Newest(S, k) \in Log
         /\ \A p \in S : Above(S, p) \in SUBSET S /\ Cardinality(Above(S, p)) \in Nat
         /\ \A p \in S : p \in Newest(S, k) <=> Cardinality(Above(S, p)) < k
         /\ \A p \in Newest(S, k) : Above(S, p) \in SUBSET Newest(S, k)
<1>1. Newest(S, k) \in SUBSET S
  BY DEF Newest
<1>2. \A p \in S : Above(S, p) \in SUBSET S
  BY DEF Above
<1>3. \A p \in S : Cardinality(Above(S, p)) \in Nat
  BY <1>2, Parts
<1>4. \A p \in S : p \in Newest(S, k) <=> Cardinality(Above(S, p)) < k
  BY DEF Newest, Above
<1>5. ASSUME NEW p \in Newest(S, k), NEW q \in Above(S, p) PROVE q \in Newest(S, k)
  <2>1. q \in S /\ p \in S /\ Above(S, q) \in SUBSET Above(S, p)
    BY <1>1, InOneOrder DEF Above, Log
  <2>2. Above(S, p) \in Log
    BY <1>2, <2>1, Parts
  <2>3. Cardinality(Above(S, q)) <= Cardinality(Above(S, p))
    BY <2>1, <2>2, Parts
  <2>4. QED BY <1>3, <1>4, <2>1, <2>3
<1>6. QED BY <1>1, <1>2, <1>3, <1>4, <1>5, Parts

(* A row that LIMIT k leaves out has k rows above it that it takes.         *)
LEMMA Outranked ==
  ASSUME NEW S \in Log, NEW k \in Nat, NEW p \in S, p \notin Newest(S, k)
  PROVE  \E T \in SUBSET Newest(S, k) : Cardinality(T) >= k /\ \A t \in T : Below(p, t)
<1> DEFINE out == S \ Newest(S, k)
<1>1. out \in Log /\ out # {}
  BY Parts
<1>2. PICK q \in out : \A r \in out \ {q} : Below(r, q)
  BY <1>1, NewestOne
<1>3. Above(S, q) \in SUBSET Newest(S, k)
  BY <1>2, InOneOrder DEF Above, Log
<1>4. Cardinality(Above(S, q)) >= k
  BY <1>2, NewestWithin
<1>5. \A t \in Above(S, q) : Below(p, t)
  BY <1>2, InOneOrder DEF Above, Log
<1>6. QED BY <1>3, <1>4, <1>5

(* Two scans with a LIMIT, and their union with the same, find the newest  *)
(* of all.                                                                 *)
LEMMA NewestOfUnion ==
  ASSUME NEW A, NEW B, A \cup B \in Log, NEW k \in Nat
  PROVE  Newest(Newest(A, k) \cup Newest(B, k), k) = Newest(A \cup B, k)
<1> DEFINE S == A \cup B
           N == Newest(A, k) \cup Newest(B, k)
<1>0. /\ S \in Log /\ A \in Log /\ B \in Log /\ N \in SUBSET S /\ N \in Log
  <2>1. S \in Log /\ A \in SUBSET S /\ B \in SUBSET S
    OBVIOUS
  <2>2. A \in Log /\ B \in Log
    BY <2>1, Parts
  <2>3. Newest(A, k) \in SUBSET A /\ Newest(B, k) \in SUBSET B
    BY <2>2, NewestWithin
  <2>4. N \in SUBSET S
    BY <2>3
  <2>5. QED BY <2>1, <2>2, <2>4, Parts
<1>1. \A T \in {A, B, N}, p \in S :
        Above(T, p) \in SUBSET Above(S, p) /\ Above(S, p) \in Log
        /\ Cardinality(Above(T, p)) <= Cardinality(Above(S, p))
        /\ Cardinality(Above(T, p)) \in Nat /\ Cardinality(Above(S, p)) \in Nat
  <2> SUFFICES ASSUME NEW T \in {A, B, N}, NEW p \in S
               PROVE  /\ Above(T, p) \in SUBSET Above(S, p) /\ Above(S, p) \in Log
                      /\ Cardinality(Above(T, p)) <= Cardinality(Above(S, p))
                      /\ Cardinality(Above(T, p)) \in Nat
                      /\ Cardinality(Above(S, p)) \in Nat
    OBVIOUS
  <2>1. Above(T, p) \in SUBSET Above(S, p) /\ Above(S, p) \in SUBSET S
    BY <1>0 DEF Above
  <2>2. Above(S, p) \in Log
    BY <1>0, <2>1, Parts
  <2>3. /\ Cardinality(Above(T, p)) \in Nat
        /\ Cardinality(Above(T, p)) <= Cardinality(Above(S, p))
    BY <2>1, <2>2, Parts
  <2>4. Cardinality(Above(S, p)) \in Nat
    BY <2>2, FS_CardinalityType DEF Log
  <2>5. QED BY <2>1, <2>2, <2>3, <2>4
<1>2. ASSUME NEW p \in S, p \in Newest(S, k) PROVE p \in Newest(N, k)
  <2>1. Cardinality(Above(S, p)) < k
    BY <1>0, <1>2, NewestWithin
  <2>2. p \in N
    <3>1. CASE p \in A
      <4>1. Cardinality(Above(A, p)) < k
        <5>1. /\ Cardinality(Above(A, p)) <= Cardinality(Above(S, p))
              /\ Cardinality(Above(A, p)) \in Nat /\ Cardinality(Above(S, p)) \in Nat
          BY <1>1
        <5>2. QED BY <2>1, <5>1
      <4>2. p \in Newest(A, k)
        BY <1>0, <3>1, <4>1, NewestWithin
      <4>3. QED BY <4>2
    <3>2. CASE p \in B
      <4>1. Cardinality(Above(B, p)) < k
        <5>1. /\ Cardinality(Above(B, p)) <= Cardinality(Above(S, p))
              /\ Cardinality(Above(B, p)) \in Nat /\ Cardinality(Above(S, p)) \in Nat
          BY <1>1
        <5>2. QED BY <2>1, <5>1
      <4>2. p \in Newest(B, k)
        BY <1>0, <3>2, <4>1, NewestWithin
      <4>3. QED BY <4>2
    <3>3. QED BY <3>1, <3>2
  <2>3. /\ Cardinality(Above(N, p)) <= Cardinality(Above(S, p))
        /\ Cardinality(Above(N, p)) \in Nat /\ Cardinality(Above(S, p)) \in Nat
    BY <1>1
  <2>4. Cardinality(Above(N, p)) < k
    BY <2>1, <2>3
  <2>5. QED BY <1>0, <2>2, <2>4, NewestWithin
<1>3. ASSUME NEW p \in Newest(N, k) PROVE p \in Newest(S, k)
  <2>1. p \in N /\ p \in S /\ Cardinality(Above(N, p)) < k
    BY <1>0, NewestWithin
  <2>2. ASSUME NEW q \in S, q \notin N, Below(p, q) PROVE FALSE
    <3>1. PICK T \in SUBSET N : Cardinality(T) >= k /\ \A t \in T : Below(q, t)
      <4>1. CASE q \in A
        <5>1. q \notin Newest(A, k)
          BY <2>2
        <5>2. \E T \in SUBSET Newest(A, k) : Cardinality(T) >= k /\ \A t \in T : Below(q, t)
          BY <1>0, <4>1, <5>1, Outranked
        <5>3. QED BY <5>2
      <4>2. CASE q \in B
        <5>1. q \notin Newest(B, k)
          BY <2>2
        <5>2. \E T \in SUBSET Newest(B, k) : Cardinality(T) >= k /\ \A t \in T : Below(q, t)
          BY <1>0, <4>2, <5>1, Outranked
        <5>3. QED BY <5>2
      <4>3. QED BY <4>1, <4>2, <2>2
    <3>2. p \in Places /\ q \in Places /\ T \in SUBSET Places
      BY <1>0, <2>1, <2>2 DEF Log
    <3>3. T \in SUBSET Above(N, p)
      BY <2>2, <3>1, <3>2, InOneOrder DEF Above
    <3>4. Above(N, p) \in Log
      BY <1>0, <2>1, NewestWithin, Parts
    <3>5. Cardinality(T) <= Cardinality(Above(N, p)) /\ Cardinality(T) \in Nat
          /\ Cardinality(Above(N, p)) \in Nat
      BY <1>1, <2>1, <3>3, <3>4, Parts
    <3>6. QED BY <2>1, <3>1, <3>5
  <2>3. Above(S, p) = Above(N, p)
    BY <1>0, <2>2 DEF Above
  <2>4. QED BY <1>0, <2>1, <2>3, NewestWithin
<1>4. Newest(S, k) \in SUBSET S
  BY <1>0, NewestWithin
<1> HIDE DEF S, N
<1>5. Newest(S, k) = Newest(N, k)
  BY <1>2, <1>3, <1>4
<1>6. QED BY <1>5 DEF S, N

(* The first j of the first k rows are the first j.                        *)
LEMMA NewestOfNewest ==
  ASSUME NEW S \in Log, NEW k \in Nat, NEW j \in 0 .. k
  PROVE  Newest(Newest(S, k), j) = Newest(S, j)
<1> DEFINE N == Newest(S, k)
<1>1. N \in Log /\ N \in SUBSET S /\ Newest(S, j) \in SUBSET S /\ Newest(N, j) \in SUBSET N
  BY NewestWithin
<1>2. ASSUME NEW p \in N PROVE Above(S, p) = Above(N, p)
  BY <1>1, NewestWithin DEF Above
<1>3. \A p \in S : Cardinality(Above(S, p)) < j => p \in N
  BY NewestWithin
<1> HIDE DEF N
<1>4. \A p \in S : p \in Newest(S, j) <=> p \in Newest(N, j)
  BY <1>1, <1>2, <1>3, NewestWithin
<1>5. QED BY <1>1, <1>4 DEF N

(* LIMIT k gives at most k rows, and fewer only if there are no more.       *)
LEMMA NewestCount ==
  ASSUME NEW S \in Log, NEW k \in Nat
  PROVE  /\ Cardinality(Newest(S, k)) \in 0 .. k
         /\ Newest(S, k) # S => Cardinality(Newest(S, k)) = k
<1> DEFINE N == Newest(S, k)
<1>1. N \in Log /\ N \in SUBSET S /\ Cardinality(N) \in Nat
  BY NewestWithin, Parts
<1>2. Cardinality(N) <= k
  <2>1. CASE N = {}
    BY <2>1, FS_EmptySet
  <2>2. CASE N # {}
    <3>1. Oldest(N) \in N /\ \A q \in N \ {Oldest(N)} : Below(Oldest(N), q)
      BY <1>1, <2>2, OldestOne
    <3>2. PICK p \in N : \A q \in N \ {p} : Below(p, q)
      BY <3>1
    <3>3. N \ {p} \in SUBSET Above(S, p) /\ Above(S, p) \in SUBSET S
      BY <1>1, <3>2 DEF Above
    <3>4. Cardinality(N \ {p}) = Cardinality(N) - 1
      BY <1>1, FS_RemoveElement DEF Log
    <3>5. Above(S, p) \in Log
      BY <3>3, Parts
    <3>6. Cardinality(N \ {p}) <= Cardinality(Above(S, p))
      BY <3>3, <3>5, Parts
    <3>7. Cardinality(Above(S, p)) < k /\ Cardinality(Above(S, p)) \in Nat
      BY <1>1, NewestWithin
    <3>8. QED BY <1>1, <3>4, <3>6, <3>7
  <2>3. QED BY <2>1, <2>2
<1>3. ASSUME N # S PROVE Cardinality(N) >= k
  <2>1. PICK p \in S : p \notin N
    BY <1>1, <1>3
  <2>2. PICK T \in SUBSET N : Cardinality(T) >= k
    BY <2>1, Outranked
  <2>3. QED BY <1>1, <2>2, Parts
<1>4. QED BY <1>1, <1>2, <1>3

LEMMA FiniteImage ==
  ASSUME NEW S, IsFiniteSet(S), NEW f, f = [x \in S |-> f[x]]
  PROVE  IsFiniteSet({f[x] : x \in S})
<1>1. f \in Surjection(S, {f[x] : x \in S})
  BY DEF Surjection
<1>2. QED BY <1>1, FS_Surjection

(* The chain's transfers are a part of the log, and so are an address's.    *)
LEMMA PositionsInLog == Position \in Log /\ Mine \in SUBSET Position /\ Mine \in Log
<1> DEFINE row(n) == {<<n, i>> : i \in 1 .. Len(Moves[n])}
           rows == [n \in Blocks |-> row(n)]
<1>1. \A n \in Blocks : n \in Nat /\ Len(Moves[n]) \in Nat
  BY MovesAssumption, ArchiveAssumption DEF Blocks
<1>2. ASSUME NEW n \in Blocks PROVE IsFiniteSet(row(n))
  <2> DEFINE place == [i \in 1 .. Len(Moves[n]) |-> <<n, i>>]
  <2>1. IsFiniteSet(1 .. Len(Moves[n]))
    BY <1>1, FS_Interval
  <2>2. place = [i \in 1 .. Len(Moves[n]) |-> place[i]]
    OBVIOUS
  <2> HIDE DEF place
  <2>3. IsFiniteSet({place[i] : i \in 1 .. Len(Moves[n])})
    BY <2>1, <2>2, FiniteImage
  <2>4. {place[i] : i \in 1 .. Len(Moves[n])} = row(n)
    BY DEF place
  <2>5. QED BY <2>3, <2>4
<1>3. IsFiniteSet({row(n) : n \in Blocks})
  <2>1. IsFiniteSet(Blocks)
    BY ArchiveAssumption, FS_Interval DEF Blocks
  <2>2. rows = [n \in Blocks |-> rows[n]]
    OBVIOUS
  <2> HIDE DEF rows
  <2>3. IsFiniteSet({rows[n] : n \in Blocks})
    BY <2>1, <2>2, FiniteImage
  <2>4. {rows[n] : n \in Blocks} = {row(n) : n \in Blocks}
    BY DEF rows
  <2>5. QED BY <2>3, <2>4
<1>4. IsFiniteSet(Position)
  <2>1. \A S \in {row(n) : n \in Blocks} : IsFiniteSet(S)
    BY <1>2
  <2>2. IsFiniteSet(UNION {row(n) : n \in Blocks})
    BY <1>3, <2>1, FS_UNION
  <2>3. QED BY <2>2 DEF Position
<1>5. Position \in SUBSET Places
  BY <1>1 DEF Position, Places
<1>6. Mine \in SUBSET Position
  BY DEF Mine
<1>7. QED BY <1>4, <1>5, <1>6, Parts DEF Log

(* What is left of an address's movements before a place.                  *)
Left(b) == {p \in Mine : Below(p, b)}

(* A page takes the newest of what is left, tells whether that was all, and *)
(* is empty only if nothing was left.                                      *)
LEMMA PageTakesNewest ==
  ASSUME NEW b
  PROVE  /\ Left(b) \in Log /\ PageRows(b) \in SUBSET Left(b)
         /\ \A p \in PageRows(b), q \in Left(b) \ PageRows(b) : Below(q, p)
         /\ MoreRows(b) <=> PageRows(b) # Left(b)
         /\ Left(b) # {} => PageRows(b) # {}
<1> DEFINE L == Left(b)
           side(s) == {p \in Position : p[1] <= head /\ Party(p, s) = Subject /\ Below(p, b)}
<1>1. L \in Log
  BY PositionsInLog, Parts DEF Left
<1>2. side(1) \cup side(2) = L
  BY DEF Left, Mine, From, To
<1>3. \A k \in Nat : LatestRows(b, k) = Newest(L, k)
  <2> SUFFICES ASSUME NEW k \in Nat PROVE LatestRows(b, k) = Newest(L, k)
    OBVIOUS
  <2>1. LatestRows(b, k) = Newest(Newest(side(1), k) \cup Newest(side(2), k), k)
    BY DEF LatestRows, Scan
  <2> HIDE DEF side, L
  <2>2. QED BY <1>1, <1>2, <2>1, NewestOfUnion
<1>4. Size \in Nat /\ Size > 0 /\ Size + 1 \in Nat /\ Size \in 0 .. Size + 1
  BY SizesAssumption
<1> HIDE DEF L
<1>5. PageRows(b) = Newest(L, Size) /\ LatestRows(b, Size + 1) = Newest(L, Size + 1)
  BY <1>1, <1>3, <1>4, NewestOfNewest DEF PageRows
<1>6. /\ Newest(L, Size) \in SUBSET L
      /\ \A p \in Newest(L, Size), q \in L \ Newest(L, Size) : Below(q, p)
  BY <1>1, <1>4, NewestWithin, InOneOrder DEF Above, Log
<1> DEFINE N == Newest(L, Size)
           M == Newest(L, Size + 1)
<1>7. /\ Cardinality(N) \in 0 .. Size /\ (N # L => Cardinality(N) = Size)
      /\ Cardinality(M) \in 0 .. Size + 1 /\ (M # L => Cardinality(M) = Size + 1)
      /\ N \in SUBSET L /\ M \in SUBSET L
  BY <1>1, <1>4, NewestCount, NewestWithin
<1>8. /\ Cardinality(N) <= Cardinality(L) /\ (Cardinality(N) = Cardinality(L) => N = L)
      /\ Cardinality(M) <= Cardinality(L) /\ Cardinality(L) \in Nat
  <2> HIDE DEF N, M
  <2>1. QED BY <1>1, <1>7, Parts
<1> HIDE DEF N, M
<1>9. Cardinality(M) > Size <=> N # L
  <2>1. CASE M = L
    BY <1>4, <1>7, <1>8, <2>1
  <2>2. CASE M # L
    <3>1. Cardinality(M) = Size + 1
      BY <1>7, <2>2
    <3>2. N # L
      BY <1>4, <1>7, <1>8, <3>1
    <3>3. QED BY <1>4, <3>1, <3>2
  <2>3. QED BY <2>1, <2>2
<1>10. L # {} => N # {}
  BY <1>4, <1>7, FS_EmptySet
<1>11. QED BY <1>1, <1>5, <1>6, <1>9, <1>10 DEF MoreRows, N, M, L

LEMMA PageSizes ==
  /\ MaxBlock \in Nat /\ MaxFaults \in Nat /\ Slack \in Nat /\ Outage \in Nat
  /\ Polls \in Nat /\ Latest \in Nat /\ Txs \in SUBSET Nat
BY ArchiveAssumption, SizesAssumption, TxsAssumption DEF Blocks

LEMMA RowsWithin ==
  /\ \A b : PageRows(b) \in SUBSET Position /\ Older(b) \in Places
  /\ \A b : \A k \in Nat : LatestRows(b, k) \in SUBSET Position
<1>1. ASSUME NEW b PROVE PageRows(b) \in SUBSET Position /\ Older(b) \in Places
  <2>1. PageRows(b) \in SUBSET Position /\ PageRows(b) \in Log
    BY PageTakesNewest, PositionsInLog, Parts DEF Left
  <2>2. CASE MoreRows(b)
    <3>1. PageRows(b) # {}
      BY <2>2, PageTakesNewest
    <3>2. Oldest(PageRows(b)) \in PageRows(b)
      BY <2>1, <3>1, OldestOne
    <3>3. QED BY <2>1, <2>2, <3>2 DEF Older, Log
  <2>3. CASE ~ MoreRows(b)
    BY <2>1, <2>3 DEF Older, Bottom, Places
  <2>4. QED BY <2>2, <2>3, <2>1
<1>2. \A b : \A k \in Nat : LatestRows(b, k) \in SUBSET Position
  BY DEF LatestRows, Scan, Newest
<1>3. QED BY <1>1, <1>2

LEMMA FirstLaneKnown == FirstLane \in Known
<1> DEFINE laned == {n \in Blocks : Laned(n)}
<1>1. laned \in SUBSET Nat /\ laned \in SUBSET Blocks
  BY PageSizes DEF Blocks
<1>2. CASE laned = {}
  BY <1>2, PageSizes DEF FirstLane, Known, None
<1>3. CASE laned # {}
  <2>1. Min(laned) \in laned
    BY <1>1, <1>3, Least DEF Min
  <2>2. FirstLane \in Blocks
    BY <1>1, <1>3, <2>1 DEF FirstLane
  <2>3. QED BY <2>2, PageSizes DEF Blocks, Known, None
<1>4. QED BY <1>2, <1>3

LEMMA NewTyped ==
  NewRuntime \in RuntimeType /\ NoPage \in PageType
  /\ NoneWanted \in [Tokens -> {"no", "wanted", "asked"}] /\ None \in Known /\ Top \in Places
BY PageSizes DEF NewRuntime, RuntimeType, NoPage, PageType, NoneWanted, None, Known, Top,
                 Bottom, Places

(* The visitor's steps, by what they leave alone.                          *)
PageSteps ==
  \/ OpenAddress \/ FollowOlder \/ (\E n \in Txs : OpenTx(n))
  \/ Answer \/ Poll \/ Leave

LEMMA PageStepTyped ==
  ASSUME PageTypeOK, PageSteps
  PROVE  page' \in PageType
<1> USE DEF PageTypeOK
<1>1. CASE OpenAddress
  BY <1>1, NewTyped DEF OpenAddress, PageType
<1>2. CASE FollowOlder
  BY <1>2 DEF FollowOlder, PageType
<1>3. ASSUME NEW n \in Txs, OpenTx(n) PROVE page' \in PageType
  BY <1>3, NewTyped DEF OpenTx, PageType
<1>4. CASE ReadId
  BY <1>4 DEF ReadId, PageType
<1>5. CASE ReadTotals
  <2>1. {p \in Mine : p[1] <= rolled} \in SUBSET Mine
    OBVIOUS
  <2>2. Cardinality({p \in Mine : p[1] <= rolled}) \in Nat
    BY <2>1, PositionsInLog, Parts
  <2>3. QED BY <1>5, <2>2 DEF ReadTotals, PageType
<1>6. CASE ShowEmpty
  BY <1>6 DEF ShowEmpty, EmptyText, PageType
<1>7. CASE HasTotals
  BY <1>7 DEF HasTotals, PageType
<1>8. CASE ReadHistory
  <2>1. Append(page.walk, PageRows(page.before)) \in Seq(SUBSET Position)
    <3>1. page.walk \in Seq(SUBSET Position)
      BY DEF PageType
    <3>2. PageRows(page.before) \in SUBSET Position
      BY RowsWithin
    <3>3. QED BY <3>1, <3>2, AppendProperties
  <2>2. Older(page.before) \in Places /\ Top \in Places
    BY RowsWithin, NewTyped
  <2> DEFINE walk == Append(page.walk, PageRows(page.before))
             older == Older(page.before)
  <2>3. page' = [page EXCEPT !.at = "recent", !.older = older, !.before = Top, !.walk = walk]
    BY <1>8 DEF ReadHistory
  <2> HIDE DEF walk, older
  <2>4. walk \in Seq(SUBSET Position) /\ older \in Places
    BY <2>1, <2>2 DEF walk, older
  <2>5. [page EXCEPT !.at = "recent", !.older = older] \in PageType
    BY <2>4 DEF PageType
  <2>6. QED BY <2>2, <2>3, <2>4, <2>5 DEF PageType
<1>9. CASE ReadRecent
  <2>1. {Counterparty(p) : p \in {q \in LatestRows(Top, Latest) : From(q) # To(q)}}
          \in SUBSET {Counterparty(p) : p \in Position}
    <3>1. \A p \in {q \in LatestRows(Top, Latest) : From(q) # To(q)} : p \in Position
      BY RowsWithin, PageSizes
    <3>2. QED BY <3>1
  <2>2. QED BY <1>9, <2>1 DEF ReadRecent, PageType
<1>10. ASSUME NEW k \in {"transfer", "pool"}, LoadTable(k) PROVE page' \in PageType
  BY <1>10 DEF LoadTable, PageType
<1>11. CASE NotFound
  BY <1>11, NewTyped DEF NotFound, PageType
<1>12. CASE Loaded
  BY <1>12 DEF Loaded, PageType, RuntimeType
<1>13. CASE ReadLane
  <2>1. PICK lane \in {"pending", "off", "read", "before", "none"}, at \in {"cursor", "panel"} :
          page' = [page EXCEPT !.seen = {}, !.on = FALSE, !.first = None, !.lane = lane,
                               !.at = at]
    <3>1. page.lane \in {"pending", "off", "read", "before", "none"}
      BY DEF PageType
    <3>2. QED BY <1>13, <3>1 DEF ReadLane
  <2>2. None \in Known
    BY NewTyped
  <2> DEFINE left == [page EXCEPT !.seen = {}, !.on = FALSE, !.first = None]
  <2>3. left \in PageType
    BY <2>2 DEF PageType
  <2>4. page' = [left EXCEPT !.lane = lane, !.at = at]
    BY <2>1
  <2> HIDE DEF left
  <2>5. QED BY <2>2, <2>3, <2>4 DEF PageType
<1>14. CASE ReadLaneCursor
  BY <1>14 DEF ReadLaneCursor, PageType
<1>15. CASE Poll
  <2>1. page.polls \in 0 .. Polls
    BY DEF PageType
  <2>2. page.polls + 1 \in 0 .. Polls
    BY <1>15, <2>1, PageSizes DEF Poll
  <2>3. QED BY <1>15, <2>2 DEF Poll, PageType
<1>16. CASE Leave
  BY <1>16, NewTyped DEF Leave
<1>17. QED
  BY <1>1, <1>2, <1>3, <1>4, <1>5, <1>6, <1>7, <1>8, <1>9, <1>10, <1>11, <1>12, <1>13,
     <1>14, <1>15, <1>16 DEF PageSteps, Answer

(* Where the worker and the rollup are, only they move, and forward.        *)
LEMMA ArchiveStepTyped ==
  ASSUME PageTypeOK, Archived \/ InsightsOn \/ Read
  PROVE  /\ {head, rolled, lanesFrom, lanesTo}' \subseteq Known /\ laneTable' \in BOOLEAN
         /\ UNCHANGED <<rt, page, tok, stored, down, faults>>
<1>1. {head, rolled, lanesFrom, lanesTo} \subseteq None .. MaxBlock /\ MaxBlock \in Nat
  BY PageSizes DEF PageTypeOK, Known
<1> USE DEF PageTypeOK, Known, None, tokenVars
<1>2. CASE Archived
  BY <1>1, <1>2 DEF Archived, HeadMoves, RolledMoves
<1>3. CASE InsightsOn
  BY <1>1, <1>3 DEF InsightsOn
<1>4. CASE Read
  BY <1>1, <1>4 DEF Read
<1>5. QED BY <1>2, <1>3, <1>4

LEMMA RuntimeStepTyped ==
  ASSUME PageTypeOK, Boot \/ Refresh
  PROVE  rt' \in RuntimeType /\ UNCHANGED <<archiveVars, page, tok, stored, down, faults>>
<1> USE DEF PageTypeOK, tokenVars
<1>1. CASE Boot
  BY <1>1 DEF Boot, RuntimeType
<1>2. CASE RefreshLanes
  <2>1. LanesKnown(rt.first) \in Known
    BY FirstLaneKnown, NewTyped DEF LanesKnown, RuntimeType
  <2>2. QED BY <1>2, <2>1 DEF RefreshLanes, HasInsights, RuntimeType
<1>3. CASE RefreshHead
  <2>1. HeadKnown \in Known
    BY NewTyped DEF HeadKnown
  <2>2. QED BY <1>3, <2>1 DEF RefreshHead, RuntimeType
<1>4. CASE RefreshRolled
  BY <1>4 DEF RefreshRolled, RuntimeType
<1>5. QED BY <1>1, <1>2, <1>3, <1>4 DEF Refresh

LEMMA TokenStepTyped ==
  ASSUME PageTypeOK, Tick \/ \E t \in Tokens : Resolve(t) \/ TokenUnanswered(t)
  PROVE  /\ tok' \in [Tokens -> {"no", "wanted", "asked"}] /\ stored' \subseteq Tokens
         /\ down' \in 0 .. Outage /\ faults' \in 0 .. MaxFaults
         /\ UNCHANGED <<archiveVars, rt, page>>
<1> USE PageSizes DEF PageTypeOK
<1>1. CASE Tick
  BY <1>1 DEF Tick
<1>2. ASSUME NEW t \in Tokens, SkipToken(t) \/ AskToken(t) \/ TokenAnswered(t)
      PROVE  /\ tok' \in [Tokens -> {"no", "wanted", "asked"}] /\ stored' \subseteq Tokens
             /\ UNCHANGED <<archiveVars, rt, page, down, faults>>
  BY <1>2 DEF SkipToken, AskToken, TokenAnswered, OutageKept
<1>3. ASSUME NEW t \in Tokens, TokenUnanswered(t)
      PROVE  /\ tok' \in [Tokens -> {"no", "wanted", "asked"}]
             /\ down' \in 0 .. Outage /\ faults' \in 0 .. MaxFaults
             /\ UNCHANGED <<archiveVars, rt, page, stored>>
  BY <1>3 DEF TokenUnanswered, Fault
<1>4. QED BY <1>1, <1>2, <1>3 DEF Resolve

LEMMA FaultStepTyped ==
  ASSUME PageTypeOK, RefreshFails \/ RestartExplorer \/ QueryFails
  PROVE  /\ rt' \in RuntimeType /\ page' \in PageType
         /\ tok' \in [Tokens -> {"no", "wanted", "asked"}] /\ stored' \subseteq Tokens
         /\ down' \in 0 .. Outage /\ faults' \in 0 .. MaxFaults
         /\ UNCHANGED archiveVars
<1> USE PageSizes, NewTyped DEF PageTypeOK, Fault, tokenVars
<1>1. CASE RefreshFails
  BY <1>1 DEF RefreshFails, AfterFailure, RuntimeType
<1>2. CASE RestartExplorer
  BY <1>2 DEF RestartExplorer
<1>3. CASE QueryFails
  <2>1. page' \in PageType
    BY <1>3 DEF QueryFails, PageType
  <2>2. QED BY <1>3, <2>1 DEF QueryFails
<1>4. QED BY <1>1, <1>2, <1>3

(* Answering a page reads, and asks for tokens.                            *)
LEMMA PageStepReads ==
  ASSUME PageTypeOK, PageSteps
  PROVE  /\ tok' \in [Tokens -> {"no", "wanted", "asked"}]
         /\ UNCHANGED <<archiveVars, rt, stored, down, faults>>
<1> USE DEF PageTypeOK, tokenVars
<1>1. CASE OpenAddress \/ FollowOlder \/ Poll \/ Leave
  BY <1>1 DEF OpenAddress, FollowOlder, Poll, Leave
<1>2. ASSUME NEW n \in Txs, OpenTx(n)
      PROVE  UNCHANGED <<archiveVars, rt, tok, stored, down, faults>>
  BY <1>2 DEF OpenTx
<1>3. ASSUME NEW k \in {"transfer", "pool"}, LoadTable(k)
      PROVE  UNCHANGED <<archiveVars, rt, tok, stored, down, faults>>
  BY <1>3 DEF LoadTable
<1>4. CASE ReadId \/ ReadTotals \/ ShowEmpty \/ HasTotals
  BY <1>4 DEF ReadId, ReadTotals, ShowEmpty, HasTotals
<1>5. CASE ReadHistory \/ ReadRecent \/ NotFound \/ ReadLane \/ ReadLaneCursor
  BY <1>5 DEF ReadHistory, ReadRecent, NotFound, ReadLane, ReadLaneCursor
<1>6. CASE Loaded
  BY <1>6 DEF Loaded
<1>7. QED BY <1>1, <1>2, <1>3, <1>4, <1>5, <1>6 DEF PageSteps, Answer

LEMMA PageNextCases ==
  PageNext <=> \/ Archived \/ InsightsOn \/ Read
               \/ Boot \/ Refresh
               \/ RefreshFails \/ RestartExplorer \/ QueryFails
               \/ PageSteps
               \/ Tick \/ \E t \in Tokens : Resolve(t) \/ TokenUnanswered(t)
BY DEF PageNext, PageSteps

(* What the explorer's pages keep has the types of the code's variables:    *)
(* positions are places in the log, what it knows of the chain is a block  *)
(* of it, and a page lists movements of the archive.                       *)
THEOREM PagesTyped == PageSpec => []PageTypeOK
<1>1. PageInit => PageTypeOK
  <2> SUFFICES ASSUME PageInit PROVE PageTypeOK
    OBVIOUS
  <2>1. None \in Known /\ NewRuntime \in RuntimeType /\ NoPage \in PageType
        /\ NoneWanted \in [Tokens -> {"no", "wanted", "asked"}]
    BY NewTyped
  <2>2. 0 \in 0 .. Outage /\ 0 \in 0 .. MaxFaults
    BY PageSizes
  <2>3. QED BY <2>1, <2>2 DEF PageInit, PageTypeOK
<1>2. ASSUME PageTypeOK, [PageNext]_pageVars PROVE PageTypeOK'
  <2> USE <1>2
  <2>1. CASE Archived \/ InsightsOn \/ Read
    BY <2>1, ArchiveStepTyped DEF PageTypeOK
  <2>2. CASE Boot \/ Refresh
    BY <2>2, RuntimeStepTyped DEF PageTypeOK, archiveVars
  <2>3. CASE RefreshFails \/ RestartExplorer \/ QueryFails
    BY <2>3, FaultStepTyped DEF PageTypeOK, archiveVars
  <2>4. CASE PageSteps
    BY <2>4, PageStepTyped, PageStepReads DEF PageTypeOK, archiveVars
  <2>5. CASE Tick \/ \E t \in Tokens : Resolve(t) \/ TokenUnanswered(t)
    BY <2>5, TokenStepTyped DEF PageTypeOK, archiveVars
  <2>6. CASE UNCHANGED pageVars
    BY <2>6 DEF pageVars, archiveVars, tokenVars, PageTypeOK
  <2>7. QED BY <2>1, <2>2, <2>3, <2>4, <2>5, <2>6, PageNextCases
<1>3. QED BY <1>1, <1>2, PTL DEF PageSpec

-----------------------------------------------------------------------------
(* The next page starts where the last one ended, Resumes; a page with      *)
(* totals has movements, Moved; the place to go on from is the oldest row   *)
(* shown, and there is something before it, GoesOn.                        *)
Resumes ==
  page.at \in {"id", "totals", "decide", "history"} =>
    /\ page.before = IF page.walk = <<>> THEN Top ELSE page.older
    /\ page.walk # <<>> => page.older # Bottom

Moved == page.at = "history" \/ (page.at = "decide" /\ page.tot > 0) => Mine # {}

GoesOn ==
  /\ Shown \in SUBSET Mine
  /\ page.walk = <<>> => page.older = Bottom
  /\ page.walk # <<>> /\ page.older # Bottom =>
       /\ page.older \in Shown
       /\ \A q \in Shown \ {page.older} : Below(page.older, q)
       /\ \E p \in Mine : Below(p, page.older)

HistoryInv ==
  PageTypeOK /\ rolled <= head /\ Resumes /\ Moved /\ GoesOn /\ HistoryWhole

(* What is ingested is newer than all there is.                            *)
LEMMA MineGrows ==
  ASSUME PageTypeOK, HeadMoves
  PROVE  Mine \in SUBSET Mine' /\ \A p \in Mine' \ Mine, q \in Mine : Below(q, p)
<1>1. head \in Int /\ head' = head + 1
  BY PageSizes DEF PageTypeOK, Known, None, HeadMoves
<1>2. \A p \in Position : p[1] \in Nat
  BY PositionsInLog DEF Log, Places
<1>3. QED BY <1>1, <1>2 DEF Mine, Below

LEMMA WalkReset ==
  ASSUME page'.walk = <<>>, page'.older = Bottom
  PROVE  GoesOn' /\ HistoryWhole'
<1>1. Shown' = {}
  BY DEF Shown
<1>2. QED BY <1>1 DEF GoesOn, HistoryWhole

LEMMA WalkKept ==
  ASSUME GoesOn, HistoryWhole, UNCHANGED head,
         page'.walk = page.walk, page'.older = page.older
  PROVE  GoesOn' /\ HistoryWhole'
<1>1. Shown' = Shown /\ Mine' = Mine
  BY DEF Shown, Mine
<1>2. QED BY <1>1 DEF GoesOn, HistoryWhole

LEMMA WalkOutdated ==
  ASSUME PageTypeOK, GoesOn, HistoryWhole, HeadMoves, UNCHANGED page
  PROVE  GoesOn' /\ HistoryWhole'
<1>1. Shown' = Shown
  BY DEF Shown
<1>2. Mine \in SUBSET Mine' /\ \A p \in Mine' \ Mine, q \in Shown : Below(q, p)
  BY MineGrows DEF GoesOn
<1>3. GoesOn'
  BY <1>1, <1>2 DEF GoesOn
<1>4. HistoryWhole'
  <2> SUFFICES ASSUME page.walk # <<>>, NEW p \in Mine' \ Shown
               PROVE  \/ \A q \in Shown : Below(q, p)
                      \/ page.older # Bottom /\ \A q \in Shown : Below(p, q)
    BY <1>1 DEF HistoryWhole
  <2>1. CASE p \in Mine
    BY <2>1 DEF HistoryWhole
  <2>2. CASE p \notin Mine
    BY <1>2, <2>2
  <2>3. QED BY <2>1, <2>2
<1>5. QED BY <1>3, <1>4

(* The query for the next page: what it shows is below all that was shown,  *)
(* and what it leaves out is below what it shows.                          *)
LEMMA WalkExtended ==
  ASSUME HistoryInv, ReadHistory
  PROVE  GoesOn' /\ HistoryWhole'
<1> DEFINE b == page.before
           rows == PageRows(b)
           walk == page.walk
<1>1. /\ page'.walk = Append(walk, rows) /\ page'.older = Older(b) /\ UNCHANGED head
      /\ walk \in Seq(SUBSET Position) /\ rows \in SUBSET Position
      /\ Position \in SUBSET Places /\ Mine' = Mine /\ Mine \in SUBSET Position
  <2>1. page \in PageType /\ page.walk \in Seq(SUBSET Position)
    BY DEF HistoryInv, PageTypeOK, PageType
  <2>2. page'.walk = Append(walk, rows) /\ page'.older = Older(b) /\ UNCHANGED head
    BY <2>1 DEF ReadHistory, PageType, archiveVars
  <2>3. rows \in SUBSET Position /\ Position \in SUBSET Places /\ Mine \in SUBSET Position
    BY RowsWithin, PositionsInLog DEF Log
  <2>4. Mine' = Mine
    BY <2>2 DEF Mine
  <2>5. QED BY <2>1, <2>2, <2>3, <2>4
<1>2. /\ Left(b) \in SUBSET Mine /\ rows \in SUBSET Left(b)
      /\ \A p \in rows, q \in Left(b) \ rows : Below(q, p)
      /\ MoreRows(b) <=> rows # Left(b)
      /\ Left(b) # {} => rows # {}
  BY PageTakesNewest DEF Left
<1>3. b = (IF walk = <<>> THEN Top ELSE page.older) /\ (walk # <<>> => page.older # Bottom)
      /\ Mine # {}
  BY DEF HistoryInv, Resumes, Moved, ReadHistory
<1>4. walk = <<>> => Left(b) = Mine
  <2>1. \A p \in Mine : p[1] \in Nat /\ p[1] <= MaxBlock
    BY <1>1, PageSizes DEF Position, Blocks
  <2>2. Top[1] = MaxBlock + 1
    BY DEF Top
  <2>3. \A p \in Mine : Below(p, Top)
    BY <2>1, <2>2, PageSizes DEF Below
  <2>4. QED BY <1>3, <2>3 DEF Left
<1>5. rows # {}
  BY <1>2, <1>3, <1>4 DEF HistoryInv, GoesOn, Left
<1>6. DOMAIN walk = 1 .. Len(walk) /\ Len(walk) \in Nat
      /\ page'.walk # <<>> /\ DOMAIN page'.walk = 1 .. Len(walk) + 1
      /\ (\A i \in DOMAIN walk : page'.walk[i] = walk[i])
      /\ page'.walk[Len(walk) + 1] = rows
  BY <1>1
<1>7. Shown' = Shown \cup rows
  BY <1>6 DEF Shown
<1>8. Shown \in SUBSET Mine /\ (walk = <<>> => Shown = {})
  BY DEF HistoryInv, GoesOn, Shown
<1>9. \A p \in Left(b), q \in Shown : Below(p, q)
  <2> SUFFICES ASSUME NEW p \in Left(b), NEW q \in Shown PROVE Below(p, q)
    OBVIOUS
  <2>1. walk # <<>> /\ b = page.older /\ Below(p, b)
    BY <1>3, <1>8 DEF Left
  <2>2. b \in Shown /\ (q = b \/ Below(b, q))
    BY <1>3, <2>1 DEF HistoryInv, GoesOn
  <2>3. p \in Places /\ q \in Places /\ b \in Places
    BY <1>1, <1>2, <1>8, <2>2
  <2>4. QED BY <2>1, <2>2, <2>3, InOneOrder
<1>10. Bottom \notin Position
  BY PageSizes DEF Position, Bottom, Blocks
<1>11. MoreRows(b) => /\ Older(b) \in rows /\ Older(b) # Bottom
                      /\ \A q \in rows \ {Older(b)} : Below(Older(b), q)
  BY <1>1, <1>5, <1>10, OldestOne, PositionsInLog, Parts DEF Older
<1>12. ~ MoreRows(b) => Older(b) = Bottom
  BY DEF Older
<1>13. GoesOn'
  <2>1. Shown' \in SUBSET Mine'
    BY <1>1, <1>2, <1>7, <1>8
  <2>2. ASSUME Older(b) # Bottom
        PROVE  /\ Older(b) \in Shown'
               /\ \A q \in Shown' \ {Older(b)} : Below(Older(b), q)
               /\ \E p \in Mine : Below(p, Older(b))
    BY <1>2, <1>7, <1>9, <1>11, <1>12, <2>2
  <2>3. QED BY <1>1, <1>6, <2>1, <2>2 DEF GoesOn
<1>14. HistoryWhole'
  <2>1. \A i \in DOMAIN page'.walk : page'.walk[i] # {}
    BY <1>5, <1>6 DEF HistoryInv, HistoryWhole
  <2>2. ASSUME NEW i \in DOMAIN page'.walk, NEW j \in DOMAIN page'.walk, i < j,
               NEW p \in page'.walk[i], NEW q \in page'.walk[j]
        PROVE  Below(q, p)
    <3>1. i \in DOMAIN walk /\ page'.walk[i] = walk[i]
      BY <1>6, <2>2
    <3>2. CASE j = Len(walk) + 1
      <4>1. q \in Left(b) /\ p \in Shown
        BY <1>2, <1>6, <2>2, <3>1, <3>2 DEF Shown
      <4>2. QED BY <1>9, <4>1
    <3>3. CASE j # Len(walk) + 1
      <4>1. j \in DOMAIN walk /\ page'.walk[j] = walk[j] /\ walk # <<>>
        BY <1>6, <3>1, <3>3
      <4>2. QED BY <2>2, <3>1, <4>1 DEF HistoryInv, HistoryWhole
    <3>4. QED BY <3>2, <3>3
  <2>3. ASSUME NEW p \in Mine, p \notin Shown, p \notin rows
        PROVE  \/ \A q \in Shown \cup rows : Below(q, p)
               \/ Older(b) # Bottom /\ \A q \in Shown \cup rows : Below(p, q)
    <3>1. CASE p \in Left(b)
      <4>1. MoreRows(b) /\ \A q \in Shown \cup rows : Below(p, q)
        BY <1>2, <1>9, <2>3, <3>1
      <4>2. QED BY <1>11, <4>1
    <3>2. CASE p \notin Left(b)
      <4>1. walk # <<>> /\ b = page.older /\ ~ Below(p, b) /\ b \in Shown
        BY <1>3, <1>4, <3>2 DEF Left, HistoryInv, GoesOn
      <4>2. \A q \in Shown : Below(q, p)
        BY <2>3, <4>1 DEF HistoryInv, HistoryWhole
      <4>3. \A q \in rows : Below(q, p)
        <5>1. Below(b, p) /\ b \in Places /\ p \in Places /\ rows \in SUBSET Places
          BY <1>1, <1>8, <4>1, <4>2
        <5>2. \A q \in rows : Below(q, b)
          BY <1>2 DEF Left
        <5>3. QED BY <5>1, <5>2, InOneOrder
      <4>4. QED BY <4>2, <4>3
    <3>3. QED BY <3>1, <3>2
  <2>4. QED BY <1>1, <1>7, <2>1, <2>2, <2>3 DEF HistoryWhole
<1>15. QED BY <1>13, <1>14

(* The visitor's steps keep the walk, start it anew or go on with it, and   *)
(* pass on where it resumes.                                               *)
LEMMA PageStepWalks ==
  ASSUME HistoryInv, PageSteps
  PROVE  Resumes' /\ Moved' /\ GoesOn' /\ HistoryWhole'
<1>1. Mine' = Mine /\ UNCHANGED <<head, rolled>>
  BY PageStepReads DEF HistoryInv, archiveVars, Mine
<1>2. page \in PageType /\ (page.walk = <<>> => page.older = Bottom)
  BY DEF HistoryInv, PageTypeOK, GoesOn
<1> DEFINE Keeps == page'.walk = page.walk /\ page'.older = page.older
           Passes == page'.before = page.before /\ Keeps
           Early == {"id", "totals", "decide", "history"}
           Resets == page'.walk = <<>> /\ page'.older = Bottom
<1>3. ASSUME Keeps \/ Resets PROVE GoesOn' /\ HistoryWhole'
  BY <1>1, <1>3, WalkReset, WalkKept DEF HistoryInv
<1>4. ASSUME page'.at \notin Early PROVE Resumes' /\ Moved'
  BY <1>4 DEF Resumes, Moved
<1>5. ASSUME Passes, page.at \in Early PROVE Resumes'
  BY <1>5 DEF HistoryInv, Resumes
<1>6. CASE OpenAddress
  <2>1. Resets /\ page'.at = "id" /\ page'.before = Top
    BY <1>6 DEF OpenAddress, NoPage
  <2>2. QED BY <1>3, <2>1 DEF Resumes, Moved
<1>7. CASE FollowOlder
  <2>1. Keeps /\ page'.at = "id" /\ page'.before = page.older /\ page.older # Bottom
    BY <1>2, <1>7 DEF FollowOlder, PageType
  <2>2. QED BY <1>2, <1>3, <2>1 DEF Resumes, Moved
<1>8. CASE ReadId
  <2>1. /\ Passes /\ page.at = "id" /\ page'.tot = 0 /\ page'.at \in {"totals", "decide"}
    BY <1>2, <1>8 DEF ReadId, PageType
  <2>2. QED BY <1>3, <1>5, <2>1 DEF Moved
<1>9. CASE ReadTotals
  <2>1. /\ Passes /\ page.at = "totals" /\ page'.at = "decide"
        /\ page'.tot = Cardinality({p \in Mine : p[1] <= rolled})
    BY <1>2, <1>9 DEF ReadTotals, PageType
  <2>2. Mine = {} => page'.tot = 0
    BY <2>1, FS_EmptySet
  <2>3. QED BY <1>1, <1>3, <1>5, <2>1, <2>2 DEF Moved
<1>10. CASE HasTotals
  <2>1. Passes /\ page.at = "decide" /\ page.tot > 0 /\ page'.at = "history"
    BY <1>2, <1>10 DEF HasTotals, PageType
  <2>2. Mine # {}
    BY <2>1 DEF HistoryInv, Moved
  <2>3. QED BY <1>1, <1>3, <1>5, <2>1, <2>2 DEF Moved
<1>11. CASE ReadHistory
  <2>1. page'.at = "recent"
    BY <1>2, <1>11 DEF ReadHistory, PageType
  <2>2. QED BY <1>4, <1>11, <2>1, WalkExtended
<1>12. CASE ShowEmpty \/ ReadRecent \/ Loaded \/ ReadLaneCursor \/ Poll
  <2>1. Keeps /\ page'.at \notin Early
    BY <1>2, <1>12 DEF ShowEmpty, ReadRecent, Loaded, ReadLaneCursor, Poll, PageType
  <2>2. QED BY <1>3, <1>4, <2>1
<1>13. ASSUME NEW k \in {"transfer", "pool"}, LoadTable(k) PROVE Keeps /\ page'.at \notin Early
  BY <1>2, <1>13 DEF LoadTable, PageType
<1>14. CASE ReadLane
  BY <1>2, <1>3, <1>4, <1>14 DEF ReadLane, PageType
<1>15. ASSUME NEW n \in Txs, OpenTx(n) PROVE Resets /\ page'.at \notin Early
  BY <1>15 DEF OpenTx, NoPage
<1>16. CASE NotFound \/ Leave
  <2>1. page' = NoPage \/ page' = [page EXCEPT !.at = "panel"]
    BY <1>16 DEF NotFound, Leave
  <2>2. CASE page' = NoPage
    BY <1>3, <1>4, <2>2 DEF NoPage
  <2>3. CASE page' = [page EXCEPT !.at = "panel"]
    <3>1. Keeps /\ page'.at \notin Early
      BY <1>2, <2>3 DEF PageType
    <3>2. QED BY <1>3, <1>4, <3>1
  <2>4. QED BY <2>1, <2>2, <2>3
<1>17. QED
  BY <1>3, <1>4, <1>6, <1>7, <1>8, <1>9, <1>10, <1>11, <1>12, <1>13, <1>14, <1>15, <1>16
     DEF PageSteps, Answer

(* Following `older' shows an address's movements newest first, each once   *)
(* and none left out, and no page is empty, whatever is ingested or rolled  *)
(* up between two pages (address.ts:80-114).                               *)
THEOREM HistoryWholeHolds == PageSpec => []HistoryWhole
<1>1. PageInit => rolled <= head /\ Resumes /\ Moved /\ GoesOn /\ HistoryWhole
  BY DEF PageInit, NoPage, None, Resumes, Moved, GoesOn, Shown, HistoryWhole
<1>2. ASSUME HistoryInv, PageTypeOK', [PageNext]_pageVars PROVE HistoryInv'
  <2> USE <1>2
  <2>0. PageTypeOK /\ rolled <= head /\ Resumes /\ Moved /\ GoesOn /\ HistoryWhole
        /\ head \in Int /\ rolled \in Int
    BY PageSizes DEF HistoryInv, PageTypeOK, Known, None
  <2>1. ASSUME UNCHANGED <<archiveVars, page>> PROVE HistoryInv'
    <3>1. UNCHANGED <<head, rolled, page>> /\ Mine' = Mine
      BY <2>1 DEF archiveVars, Mine
    <3>2. Resumes' /\ Moved' /\ GoesOn' /\ HistoryWhole'
      BY <2>0, <3>1, WalkKept DEF Resumes, Moved
    <3>3. QED BY <2>0, <3>1, <3>2 DEF HistoryInv
  <2>2. CASE Archived
    <3>1. CASE HeadMoves
      <4>1. UNCHANGED <<page, rolled>> /\ head' = head + 1
        BY <2>2, <3>1 DEF Archived, HeadMoves
      <4>2. Resumes' /\ Moved' /\ GoesOn' /\ HistoryWhole'
        BY <2>0, <3>1, <4>1, MineGrows, WalkOutdated DEF Resumes, Moved
      <4>3. QED BY <2>0, <4>1, <4>2 DEF HistoryInv
    <3>2. CASE RolledMoves
      <4>1. UNCHANGED <<page, head>> /\ rolled' <= head' /\ Mine' = Mine
        BY <2>0, <2>2, <3>2 DEF Archived, RolledMoves, Mine
      <4>2. Resumes' /\ Moved' /\ GoesOn' /\ HistoryWhole'
        BY <2>0, <4>1, WalkKept DEF Resumes, Moved
      <4>3. QED BY <4>1, <4>2 DEF HistoryInv
    <3>3. QED BY <2>2, <3>1, <3>2 DEF Archived
  <2>3. CASE InsightsOn \/ Read
    <3>1. UNCHANGED <<head, rolled, page>> /\ Mine' = Mine
      BY <2>3 DEF InsightsOn, Read, Mine
    <3>2. Resumes' /\ Moved' /\ GoesOn' /\ HistoryWhole'
      BY <2>0, <3>1, WalkKept DEF Resumes, Moved
    <3>3. QED BY <2>0, <3>1, <3>2 DEF HistoryInv
  <2>4. CASE Boot \/ Refresh
    BY <2>0, <2>1, <2>4, RuntimeStepTyped
  <2>5. CASE Tick \/ \E t \in Tokens : Resolve(t) \/ TokenUnanswered(t)
    BY <2>0, <2>1, <2>5, TokenStepTyped
  <2>6. CASE PageSteps
    <3>1. UNCHANGED <<head, rolled>>
      BY <2>0, <2>6, PageStepReads DEF archiveVars
    <3>2. QED BY <2>0, <2>6, <3>1, PageStepWalks DEF HistoryInv
  <2>7. CASE RefreshFails \/ RestartExplorer \/ QueryFails
    <3>1. UNCHANGED <<head, rolled>> /\ Mine' = Mine
      BY <2>7 DEF RefreshFails, RestartExplorer, QueryFails, archiveVars, Mine
    <3>2. \/ UNCHANGED page
          \/ page' = NoPage
          \/ /\ page'.walk = page.walk /\ page'.older = page.older
             /\ page'.at = "panel"
      BY <2>0, <2>7 DEF RefreshFails, RestartExplorer, QueryFails, PageTypeOK, PageType
    <3>3. Resumes' /\ Moved'
      BY <2>0, <3>1, <3>2 DEF Resumes, Moved, NoPage
    <3>4. GoesOn' /\ HistoryWhole'
      BY <2>0, <3>1, <3>2, WalkReset, WalkKept DEF NoPage
    <3>5. QED BY <2>0, <3>1, <3>3, <3>4 DEF HistoryInv
  <2>8. CASE UNCHANGED pageVars
    BY <2>1, <2>8 DEF pageVars
  <2>9. QED
    BY <2>2, <2>3, <2>4, <2>5, <2>6, <2>7, <2>8, PageNextCases
<1>3. QED BY <1>1, <1>2, PagesTyped, PTL DEF PageSpec, HistoryInv

-----------------------------------------------------------------------------
(* What the runtime and a page know of the lanes is so while lanes come.    *)
LanesKnownRight ==
  /\ ~ laneTable => lanesFrom = None /\ lanesTo = None
  /\ rt.on => laneTable
  /\ rt.first # None => laneTable /\ rt.first = FirstLane
  /\ page.on => laneTable
  /\ page.first # None => laneTable /\ page.first = FirstLane

LaneInv == PageTypeOK /\ LanesKnownRight /\ FinalVerdicts

LEMMA LeastBlock ==
  ASSUME NEW S \in SUBSET Blocks, S # {}
  PROVE  /\ Min(S) \in S /\ \A m \in S : Min(S) <= m
         /\ \A f \in S : (\A m \in S : f <= m) => Min(S) = f
<1>1. S \in SUBSET Nat
  BY PageSizes DEF Blocks
<1>2. Min(S) \in S /\ \A m \in S : Min(S) <= m
  BY <1>1, Least DEF Min
<1>3. ASSUME NEW f \in S, \A m \in S : f <= m PROVE Min(S) = f
  <2>1. f <= Min(S) /\ Min(S) <= f /\ f \in Nat /\ Min(S) \in Nat
    BY <1>1, <1>2, <1>3
  <2>2. QED BY <2>1
<1>4. QED BY <1>2, <1>3

(* A round adds lanes behind those there are.                              *)
LEMMA LanesStand ==
  ASSUME PageTypeOK, Read
  PROVE  /\ \A n \in Blocks : Laned(n) => Laned(n)'
         /\ FirstLane # None =>
              FirstLane' = FirstLane /\ \A n \in Blocks : Laned(n)' => FirstLane <= n
<1> DEFINE old == {n \in Blocks : Laned(n)}
           new == {n \in Blocks : Laned(n)'}
<1>1. /\ lanesFrom \in Int /\ lanesTo \in Int /\ head \in Int /\ -1 <= lanesTo
      /\ \A n \in Blocks : n \in Nat /\ n > 0
  BY PageSizes DEF PageTypeOK, Known, None, Blocks
<1>2. \/ lanesTo = -1 /\ lanesFrom' = lanesTo' /\ lanesTo' \in Int
      \/ lanesTo' = lanesTo + 1 /\ lanesFrom' = lanesFrom
  BY <1>1 DEF Read, None
<1>3. \A n \in Blocks : Laned(n) => Laned(n)'
  BY <1>1, <1>2 DEF Laned
<1>4. \A n \in Blocks : Laned(n)' => Laned(n) \/ n > lanesTo
  BY <1>1, <1>2 DEF Laned
<1>5. ASSUME FirstLane # None
      PROVE  FirstLane' = FirstLane /\ \A n \in Blocks : Laned(n)' => FirstLane <= n
  <2>1. old # {} /\ FirstLane = Min(old)
    BY <1>5 DEF FirstLane
  <2>2. FirstLane \in old /\ \A m \in old : FirstLane <= m
    BY <2>1, LeastBlock
  <2>3. FirstLane \in new
    BY <1>3, <2>2
  <2>4. FirstLane <= lanesTo /\ FirstLane \in Nat
    BY <1>1, <2>2 DEF Laned
  <2>5. \A m \in new : FirstLane <= m
    BY <1>1, <1>4, <2>2, <2>4
  <2>6. Min(new) = FirstLane
    BY <2>3, <2>5, LeastBlock
  <2>7. FirstLane' = Min(new)
    BY <2>3 DEF FirstLane
  <2>8. QED BY <2>5, <2>6, <2>7
<1>6. QED BY <1>3, <1>5

(* Lanes that are as they were, and a page that tells what it told.         *)
LEMMA VerdictKept ==
  ASSUME LaneInv, UNCHANGED <<laneTable, lanesFrom, lanesTo>>,
         \/ page'.lane = page.lane /\ page'.block = page.block
         \/ page'.lane \notin {"read", "before"}
  PROVE  FinalVerdicts' /\ FirstLane' = FirstLane
<1>1. /\ \A n : Laned(n)' = Laned(n)
      /\ FirstLane' = FirstLane
  BY DEF Laned, FirstLane
<1>2. \A n : LaneHeld(n)' = LaneHeld(n)
  BY <1>1 DEF LaneHeld
<1>3. QED BY <1>1, <1>2 DEF LaneInv, FinalVerdicts

LEMMA PageStepVerdict ==
  ASSUME LaneInv, PageSteps
  PROVE  LanesKnownRight' /\ FinalVerdicts'
<1>1. UNCHANGED <<laneTable, lanesFrom, lanesTo, rt>>
  BY PageStepReads DEF LaneInv, archiveVars
<1>2. page \in PageType
  BY DEF LaneInv, PageTypeOK
<1> DEFINE Same == page'.lane = page.lane /\ page'.block = page.block
           Open == page'.lane \notin {"read", "before"}
           Carries == \/ page'.on = page.on /\ page'.first = page.first
                      \/ page'.on = FALSE /\ page'.first = None
                      \/ page'.on = rt.on /\ page'.first = rt.first
<1>3. FirstLane' = FirstLane
  BY <1>1 DEF FirstLane, Laned
<1>4. Carries => LanesKnownRight'
  BY <1>1, <1>3 DEF LaneInv, LanesKnownRight
<1>5. Same \/ Open => FinalVerdicts'
  BY <1>1, VerdictKept
<1> HIDE DEF Same, Open, Carries
<1>6. ASSUME page' = NoPage PROVE Open /\ Carries
  BY <1>6 DEF NoPage, Open, Carries
<1>7. ASSUME OpenAddress \/ FollowOlder \/ Poll \/ Leave PROVE (Same \/ Open) /\ Carries
  <2>1. CASE OpenAddress
    BY <2>1 DEF OpenAddress, NoPage, Open, Carries
  <2>2. CASE FollowOlder \/ Poll
    BY <1>2, <2>2 DEF FollowOlder, Poll, Same, Carries, PageType
  <2>3. CASE Leave
    BY <1>6, <2>3 DEF Leave
  <2>4. QED BY <1>7, <2>1, <2>2, <2>3
<1>8. ASSUME NEW n \in Txs, OpenTx(n) PROVE Open /\ Carries
  BY <1>8 DEF OpenTx, NoPage, Open, Carries
<1>9. ASSUME ReadId \/ ReadTotals \/ ShowEmpty \/ HasTotals PROVE Same /\ Carries
  BY <1>2, <1>9 DEF ReadId, ReadTotals, ShowEmpty, HasTotals, Same, Carries, PageType
<1>10. ASSUME ReadHistory \/ ReadRecent PROVE Same /\ Carries
  BY <1>2, <1>10 DEF ReadHistory, ReadRecent, Same, Carries, PageType
<1>11. ASSUME NEW k \in {"transfer", "pool"}, LoadTable(k) PROVE Same /\ Carries
  BY <1>2, <1>11 DEF LoadTable, Same, Carries, PageType
<1>12. ASSUME NotFound PROVE (Same \/ Open) /\ Carries
  <2>1. CASE page' = NoPage
    BY <1>6, <2>1
  <2>2. CASE page' = [page EXCEPT !.at = "panel"]
    BY <1>2, <2>2 DEF Same, Carries, PageType
  <2>3. QED BY <1>12, <2>1, <2>2 DEF NotFound
<1>13. ASSUME Loaded PROVE Same /\ Carries
  BY <1>2, <1>13 DEF Loaded, Same, Carries, PageType
<1>14. ASSUME ReadLaneCursor PROVE Open /\ Carries
  BY <1>2, <1>14 DEF ReadLaneCursor, Open, Carries, PageType
<1>15. ASSUME ReadLane PROVE FinalVerdicts' /\ Carries
  <2>1. Carries /\ page'.block = page.block
    BY <1>2, <1>15 DEF ReadLane, Carries, PageType
  <2>2. page'.lane = IF ~ page.on THEN "off"
                     ELSE IF Laned(page.block) THEN "read"
                     ELSE IF OlderThanLanes(page.block, page.first) THEN "before" ELSE page.lane
    BY <1>2, <1>15 DEF ReadLane, PageType
  <2>3. page.on => laneTable
    BY DEF LaneInv, LanesKnownRight
  <2>4. CASE page.on /\ Laned(page.block)
    <3>1. page'.lane = "read" /\ LaneHeld(page.block) = "read"
      BY <2>2, <2>3, <2>4 DEF LaneHeld
    <3>2. LaneHeld(page.block)' = LaneHeld(page.block)
      BY <1>1, <1>3, <2>1 DEF LaneHeld, Laned
    <3>3. QED BY <2>1, <3>1, <3>2 DEF FinalVerdicts
  <2>5. CASE page.on /\ ~ Laned(page.block) /\ OlderThanLanes(page.block, page.first)
    <3>1. page.first = FirstLane /\ FirstLane # None /\ page.block < FirstLane
      BY <2>5 DEF OlderThanLanes, LaneInv, LanesKnownRight
    <3>2. page'.lane = "before" /\ LaneHeld(page.block) = "before"
      BY <2>2, <2>3, <2>5, <3>1 DEF LaneHeld
    <3>3. LaneHeld(page.block)' = LaneHeld(page.block)
      BY <1>1, <1>3, <2>1 DEF LaneHeld, Laned
    <3>4. QED BY <2>1, <3>2, <3>3 DEF FinalVerdicts
  <2>6. CASE ~ page.on
    BY <1>5, <2>1, <2>2, <2>6 DEF Open
  <2>7. CASE ~ Laned(page.block) /\ ~ OlderThanLanes(page.block, page.first) /\ page.on
    BY <1>5, <2>1, <2>2, <2>7 DEF Same
  <2>8. QED BY <2>1, <2>4, <2>5, <2>6, <2>7
<1>16. QED
  BY <1>4, <1>5, <1>7, <1>8, <1>9, <1>10, <1>11, <1>12, <1>13, <1>14, <1>15
     DEF PageSteps, Answer

(* The panel stops asking at a lane and at a block older than all lanes,    *)
(* and neither verdict ever becomes wrong: rounds only add lanes behind the *)
(* ones there are (tx.ts:104-123, LanePanel.tsx:16-33).                    *)
THEOREM FinalVerdictsHold == PageSpec => []FinalVerdicts
<1>1. PageInit => LanesKnownRight /\ FinalVerdicts
  BY DEF PageInit, NoPage, NewRuntime, LanesKnownRight, FinalVerdicts
<1>2. ASSUME LaneInv, PageTypeOK', [PageNext]_pageVars PROVE LaneInv'
  <2> USE <1>2
  <2>0. PageTypeOK /\ LanesKnownRight /\ FinalVerdicts /\ rt \in RuntimeType /\ page \in PageType
    BY DEF LaneInv, PageTypeOK
  <2>1. ASSUME UNCHANGED <<laneTable, lanesFrom, lanesTo>>,
               \/ page'.lane = page.lane /\ page'.block = page.block
               \/ page'.lane \notin {"read", "before"},
               LanesKnownRight'
        PROVE  LaneInv'
    BY <2>1, VerdictKept DEF LaneInv
  <2>2. ASSUME UNCHANGED <<laneTable, lanesFrom, lanesTo, rt, page>> PROVE LaneInv'
    <3>1. FirstLane' = FirstLane
      BY <2>2 DEF FirstLane, Laned
    <3>2. LanesKnownRight'
      BY <2>0, <2>2, <3>1 DEF LanesKnownRight
    <3>3. QED BY <2>1, <2>2, <3>2
  <2>3. CASE Archived
    BY <2>2, <2>3 DEF Archived
  <2>4. CASE InsightsOn
    <3>1. /\ UNCHANGED <<lanesFrom, lanesTo, rt, page>> /\ laneTable' /\ ~ laneTable
      BY <2>4 DEF InsightsOn
    <3>2. FirstLane' = FirstLane /\ LaneHeld(page.block) = "off"
      BY <3>1 DEF FirstLane, Laned, LaneHeld
    <3>3. LanesKnownRight'
      BY <2>0, <3>1, <3>2 DEF LanesKnownRight
    <3>4. page.lane \notin {"read", "before"}
      BY <2>0, <3>2 DEF FinalVerdicts
    <3>5. QED BY <3>1, <3>3, <3>4 DEF LaneInv, FinalVerdicts
  <2>5. CASE Read
    <3>1. laneTable /\ UNCHANGED <<laneTable, rt, page>>
      BY <2>5 DEF Read
    <3>2. /\ \A n \in Blocks : Laned(n) => Laned(n)'
          /\ FirstLane # None =>
               FirstLane' = FirstLane /\ \A n \in Blocks : Laned(n)' => FirstLane <= n
      BY <2>0, <2>5, LanesStand
    <3>3. LanesKnownRight'
      BY <2>0, <3>1, <3>2 DEF LanesKnownRight
    <3>4. PICK n \in Blocks \cup {None} : n = page.block
      BY <2>0, TxsAssumption DEF PageType
    <3>5. ~ Laned(None) /\ ~ Laned(None)'
      BY <2>0, PageSizes DEF Laned, PageTypeOK, Known, None
    <3>6. page.lane = "read" => Laned(n)'
      <4>1. LaneHeld(n) = "read" => Laned(n)
        BY DEF LaneHeld
      <4>2. QED BY <2>0, <3>2, <3>4, <3>5, <4>1 DEF FinalVerdicts
    <3>7. page.lane = "before" => FirstLane' # None /\ n < FirstLane' /\ ~ Laned(n)'
      <4>1. LaneHeld(n) = "before" => FirstLane # None /\ n < FirstLane
        BY DEF LaneHeld
      <4>2. FirstLane \in Int /\ n \in Int
        BY FirstLaneKnown, PageSizes DEF Known, None, Blocks
      <4>3. QED BY <2>0, <3>2, <3>4, <3>5, <4>1, <4>2 DEF FinalVerdicts
    <3>8. FinalVerdicts'
      BY <3>1, <3>4, <3>6, <3>7 DEF FinalVerdicts, LaneHeld, Laned
    <3>9. QED BY <3>3, <3>8 DEF LaneInv
  <2>6. CASE Boot \/ Refresh
    <3>1. UNCHANGED <<laneTable, lanesFrom, lanesTo, page>> /\ FirstLane' = FirstLane
      BY <2>0, <2>6, RuntimeStepTyped DEF archiveVars, FirstLane, Laned
    <3>2. \/ rt'.on = rt.on /\ rt'.first = rt.first
          \/ rt'.on = laneTable /\ rt'.first = LanesKnown(rt.first)
      <4>1. CASE Boot
        BY <2>0, <4>1 DEF Boot, RuntimeType
      <4>2. CASE RefreshLanes
        BY <2>0, <4>2 DEF RefreshLanes, HasInsights, RuntimeType
      <4>3. CASE RefreshHead \/ RefreshRolled
        BY <2>0, <4>3 DEF RefreshHead, RefreshRolled, RuntimeType
      <4>4. QED BY <2>6, <4>1, <4>2, <4>3 DEF Refresh
    <3>3. LanesKnown(rt.first) # None => laneTable /\ LanesKnown(rt.first) = FirstLane
      BY <2>0 DEF LanesKnown, HasInsights, LanesKnownRight
    <3>4. LanesKnownRight'
      BY <2>0, <3>1, <3>2, <3>3 DEF LanesKnownRight
    <3>5. QED BY <2>1, <3>1, <3>4
  <2>7. CASE Tick \/ \E t \in Tokens : Resolve(t) \/ TokenUnanswered(t)
    BY <2>0, <2>2, <2>7, TokenStepTyped DEF archiveVars
  <2>8. CASE PageSteps
    BY <2>8, PageStepVerdict DEF LaneInv
  <2>9. CASE RefreshFails \/ RestartExplorer \/ QueryFails
    <3>1. UNCHANGED <<laneTable, lanesFrom, lanesTo>> /\ FirstLane' = FirstLane
      BY <2>9 DEF RefreshFails, RestartExplorer, QueryFails, archiveVars, FirstLane, Laned
    <3>2. \/ rt'.on = rt.on /\ rt'.first = rt.first
          \/ rt'.on = FALSE /\ rt'.first = None
      BY <2>0, <2>9 DEF RefreshFails, RestartExplorer, QueryFails, NewRuntime, RuntimeType
    <3>3. \/ UNCHANGED page
          \/ page' = NoPage
          \/ page' = [page EXCEPT !.at = "panel"]
      BY <2>9 DEF RefreshFails, RestartExplorer, QueryFails
    <3>4. /\ \/ page'.on = page.on /\ page'.first = page.first
             \/ page'.on = FALSE /\ page'.first = None
          /\ \/ page'.lane = page.lane /\ page'.block = page.block
             \/ page'.lane \notin {"read", "before"}
      <4>1. CASE page' = NoPage
        BY <4>1 DEF NoPage
      <4>2. CASE UNCHANGED page
        BY <4>2
      <4>3. CASE page' = [page EXCEPT !.at = "panel"]
        BY <2>0, <4>3 DEF PageType
      <4>4. QED BY <3>3, <4>1, <4>2, <4>3
    <3>5. LanesKnownRight'
      BY <2>0, <3>1, <3>2, <3>4 DEF LanesKnownRight
    <3>6. QED BY <2>1, <3>1, <3>4, <3>5
  <2>10. CASE UNCHANGED pageVars
    BY <2>2, <2>10 DEF pageVars, archiveVars
  <2>11. QED
    BY <2>3, <2>4, <2>5, <2>6, <2>7, <2>8, <2>9, <2>10, PageNextCases
<1>3. QED BY <1>1, <1>2, PagesTyped, PTL DEF PageSpec, LaneInv

-----------------------------------------------------------------------------
(* What an address page sums up is what the rollup folded: while the rollup *)
(* is not ahead of the worker, the movements ReadTotals counts are those    *)
(* whose block is in the totals, once each (rollup.ts:31-44,               *)
(* address.ts:60-66).                                                      *)
ReadsFolded ==
  rolled <= head =>
    {p \in Mine : p[1] <= rolled}
      = {p \in Position : Subject \in {From(p), To(p)} /\ totals[of][p[1]] = 1}

THEOREM ReadsFoldedHolds ==
  ASSUME Watched = TRUE, Busy = {n \in Blocks : Moves[n] # <<>>}
  PROVE  Spec => []ReadsFolded
<1>1. ASSUME TypeOK, FoldedOnce PROVE ReadsFolded
  <2> SUFFICES ASSUME rolled <= head
               PROVE  {p \in Mine : p[1] <= rolled}
                        = {p \in Position : /\ Subject \in {From(p), To(p)}
                                            /\ totals[of][p[1]] = 1}
    BY DEF ReadsFolded
  <2>1. ASSUME NEW p \in Position PROVE p[1] \in Busy /\ p[1] \in Int
    <3>1. PICK n \in Blocks : \E i \in 1 .. Len(Moves[n]) : p = <<n, i>>
      BY DEF Position
    <3>2. Moves[n] # <<>> /\ n \in Int
      BY <3>1, MovesAssumption, ArchiveAssumption DEF Blocks
    <3>3. QED BY <3>1, <3>2
  <2>2. of \in Schemas /\ rolled \in Int /\ head \in Int
    BY <1>1, ArchiveAssumption DEF TypeOK, None
  <2>3. \A p \in Position : totals[of][p[1]] = 1 <=> p[1] <= rolled
    BY <1>1, <2>1, <2>2 DEF FoldedOnce
  <2>4. \A p \in Position : p[1] <= rolled => p[1] <= head
    BY <2>1, <2>2
  <2>5. QED BY <2>3, <2>4 DEF Mine
<1>2. Spec => []FoldedOnce
  BY FoldedOnceHolds
<1>3. QED BY <1>1, <1>2, RollupTyped, PTL

=============================================================================
