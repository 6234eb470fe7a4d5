---------------------------- MODULE IngestProofs ----------------------------
(***************************************************************************)
(* Proofs about the ingest pipeline, for every chain length, number of     *)
(* contracts, batch size, provider cap and number of faults: its types and *)
(* phases, and that it implements the abstract follower.                   *)
(***************************************************************************)
EXTENDS Ingest, TLAPS

(* A worker past its bootstrap has a cursor, and a round in flight reads    *)
(* the blocks right after it: the cursor does not move under a round.       *)
Placed == pc \notin {"boot", "bootstrap"} => cursor # NoCursor

Planned ==
  pc \in {"fetch", "commit"} => /\ from = cursor + 1
                                /\ from <= to /\ to <= target

TypeInv == TypeOK /\ Placed /\ Planned

(* A resolved start is a block number, whatever was configured: the cursor  *)
(* placed from it is at least -1 and never mistaken for an absent one.      *)
LEMMA ResolvedStartIsBlock ==
  ASSUME NEW s \in Int \cup {Tail}, NEW head \in Nat
  PROVE  (s \in Nat \/ s = Tail \/ s < 0) /\ ResolveStart(s, head) \in Nat
BY ContractsAssumption DEF ResolveStart, Higher

(* The planned range starts after the cursor and stays inside the chain.    *)
LEMMA PlanTyped ==
  ASSUME TypeInv, NEW head \in 0 .. chain, NEW sig \in BOOLEAN,
         Plan(head, sig), pc = "round",
         UNCHANGED <<chain, cursor>>
  PROVE  /\ target' \in 0 .. chain /\ viaSignal' \in BOOLEAN
         /\ from' \in 0 .. chain /\ to' \in 0 .. chain
         /\ phase' \in Phases /\ flagged' \in BOOLEAN
         /\ pc' \in {"round", "idle", "fetch"}
         /\ Planned'
<1> USE SpanAssumption, BoundsAssumption
    DEF TypeInv, TypeOK, ChainTypeOK, SchemaTypeOK,
           WorkerTypeOK, RoundTypeOK, NoCursor, Placed, Planned
<1>1. CASE head <= cursor
  BY <1>1 DEF Plan, Wait, Phases
<1>2. CASE ~(head <= cursor)
  <2>1. cursor >= -1 /\ size >= 1
    OBVIOUS
  <2>2. /\ target' = head /\ from' = cursor + 1
        /\ to' = Lower(head, cursor + size)
        /\ pc' = "fetch" /\ flagged' = flagged /\ viaSignal' = sig
        /\ phase' \in {phase, "Backfilling"}
    BY <1>2 DEF Plan
  <2>3. to' \in 0 .. head /\ to' >= cursor + 1
    BY <1>2, <2>1, <2>2 DEF Lower
  <2>4. QED BY <2>1, <2>2, <2>3, <1>2 DEF Phases
<1>3. QED BY <1>1, <1>2

LEMMA InitTyped == Init => TypeInv
<1> SUFFICES ASSUME Init PROVE TypeInv
  OBVIOUS
<1> USE SpanAssumption, BoundsAssumption DEF Init, NoCursor
<1>1. ChainTypeOK
  BY DEF ChainTypeOK
<1>2. SchemaTypeOK
  BY DEF SchemaTypeOK
<1>3. WorkerTypeOK
  <2>1. flagged \in BOOLEAN
    OBVIOUS
  <2>2. QED BY <2>1 DEF WorkerTypeOK, PCs, Phases
<1>4. RoundTypeOK
  <2>1. viaSignal \in BOOLEAN
    OBVIOUS
  <2>2. QED BY <2>1 DEF RoundTypeOK
<1>5. Placed /\ Planned
  BY DEF Placed, Planned
<1>6. QED BY <1>1, <1>2, <1>3, <1>4, <1>5 DEF TypeInv, TypeOK

(* WriteBatch keeps the stored types and moves the cursor to the range end. *)
LEMMA WriteTyped ==
  ASSUME TypeInv, WriteBatch, pc = "commit"
  PROVE  /\ cursor' = to /\ cursor' \in Nat
         /\ stored' \subseteq Logs /\ dead' \in [Logs -> Nat]
         /\ promised' \in [Contracts -> Nat]
BY DEF TypeInv, TypeOK, ChainTypeOK, SchemaTypeOK,
           WorkerTypeOK, RoundTypeOK, Planned, WriteBatch

LEMMA StepTyped == TypeInv /\ [Next]_vars => TypeInv'
<1> SUFFICES ASSUME TypeInv, [Next]_vars PROVE TypeInv'
  OBVIOUS
<1> USE SpanAssumption, BoundsAssumption
    DEF chainVars, dbVars, roundVars, replyVars, sizerVars,
        TypeInv, TypeOK, ChainTypeOK, SchemaTypeOK, WorkerTypeOK, RoundTypeOK
<1>1. CASE ProduceBlock
  BY <1>1 DEF ProduceBlock, Placed, Planned
<1>2. ASSUME NEW n \in Nodes, ImportBlock(n) PROVE TypeInv'
  <2>1. nodeHead' \in [Nodes -> 0 .. chain]
    BY <1>2 DEF ImportBlock
  <2>2. QED BY <1>2, <2>1 DEF ImportBlock, Placed, Planned
<1>3. ASSUME NEW b \in 1 .. chain, NEW primary \in BOOLEAN,
             Announce(b, primary)
      PROVE  TypeInv'
  <2>1. flagged' \in BOOLEAN /\ announced' \in 0 .. chain
    <3>1. flagged' \in BOOLEAN
      BY <1>3 DEF Announce
    <3>2. announced' \in 0 .. chain
      BY <1>3 DEF Announce, Higher
    <3>3. QED BY <3>1, <3>2
  <2>2. pc' \in PCs /\ Placed' /\ Planned'
    BY <1>3 DEF Announce, Placed, Planned, PCs
  <2>3. QED BY <1>3, <2>1, <2>2 DEF Announce
<1>4. ASSUME NEW n \in Nodes, ResolveStarts(n) PROVE TypeInv'
  <2>1. start' \in [Contracts -> Nat]
    <3>1. nodeHead[n] \in Nat
      BY <1>4
    <3>2. \A c \in Contracts : ResolveStart(StartOf[c], nodeHead[n]) \in Nat
      BY <3>1, ContractsAssumption, ResolvedStartIsBlock
    <3>3. QED BY <1>4, <3>2 DEF ResolveStarts
  <2>2. QED
    BY <1>4, <2>1 DEF ResolveStarts, Placed, Planned, PCs
<1>5. CASE InitCursor
  <2>1. /\ cursor' \in Int /\ cursor' >= -1
        /\ promised' \in [Contracts -> Nat]
    BY <1>5 DEF InitCursor, SetInitialCursor, NoCursor
  <2>2. QED
    BY <1>5, <2>1
       DEF InitCursor, Placed, Planned, PCs, NoCursor
<1>6. CASE TargetFromSignal
  <2>1. announced \in 0 .. chain
    OBVIOUS
  <2>2. Plan(announced, TRUE) /\ pc = "round" /\ UNCHANGED <<chain, cursor>>
    BY <1>6 DEF TargetFromSignal
  <2>3. /\ target' \in 0 .. chain /\ viaSignal' \in BOOLEAN
        /\ from' \in 0 .. chain /\ to' \in 0 .. chain
        /\ phase' \in Phases /\ flagged' \in BOOLEAN
        /\ pc' \in {"round", "idle", "fetch"}
        /\ Planned'
    BY <2>1, <2>2, PlanTyped
  <2>4. QED
    BY <1>6, <2>3 DEF TargetFromSignal, Placed, PCs
<1>7. ASSUME NEW n \in Nodes, TargetFromRpc(n) PROVE TypeInv'
  <2>1. nodeHead[n] \in 0 .. chain
    BY <1>7
  <2>2. Plan(nodeHead[n], FALSE) /\ pc = "round" /\ UNCHANGED <<chain, cursor>>
    BY <1>7 DEF TargetFromRpc
  <2>3. /\ target' \in 0 .. chain /\ viaSignal' \in BOOLEAN
        /\ from' \in 0 .. chain /\ to' \in 0 .. chain
        /\ phase' \in Phases /\ flagged' \in BOOLEAN
        /\ pc' \in {"round", "idle", "fetch"}
        /\ Planned'
    BY <2>1, <2>2, PlanTyped
  <2>4. QED
    BY <1>7, <2>3 DEF TargetFromRpc, Placed, PCs
<1>8. ASSUME NEW n \in Nodes, AnswerLogs(n) PROVE TypeInv'
  BY <1>8 DEF AnswerLogs, LogsSeen, Placed, Planned
<1>9. ASSUME NEW n \in Nodes, AnswerHead(n) PROVE TypeInv'
  BY <1>9 DEF AnswerHead, Placed, Planned
<1>11. CASE Guard
  <2>1. CASE viaSignal /\ queryHead < from
    <3>1. flagged' \in BOOLEAN /\ viaSignal' \in BOOLEAN
      BY <1>11, <2>1 DEF Guard, Wait
    <3>2. QED
      BY <1>11, <2>1, <3>1
         DEF Guard, Wait, NoReplies, Placed, Planned, PCs
  <2>2. CASE ~(viaSignal /\ queryHead < from)
    <3>1. /\ from \in Nat /\ to \in Nat /\ queryHead \in Nat /\ chain \in Nat
          /\ got' \subseteq Logs
      BY <1>11, <2>2 DEF Guard
    <3>2. to' \in 0 .. chain /\ to' <= to /\ from <= to'
      BY <1>11, <2>2, <3>1 DEF Guard, Lower, Planned
    <3>3. RoundTypeOK'
      <4>1. viaSignal' \in BOOLEAN
        BY <1>11, <2>2 DEF Guard
      <4>2. QED BY <1>11, <2>2, <3>1, <3>2, <4>1 DEF Guard
    <3>4. ChainTypeOK' /\ SchemaTypeOK'
      BY <1>11, <2>2 DEF Guard
    <3>5. WorkerTypeOK'
      BY <1>11, <2>2 DEF Guard, PCs
    <3>6. Placed' /\ Planned'
      BY <1>11, <2>2, <3>1, <3>2 DEF Guard, Placed, Planned
    <3>7. QED BY <3>3, <3>4, <3>5, <3>6 DEF TypeInv, TypeOK
  <2>3. QED BY <2>1, <2>2
<1>12. CASE ShrinkSpan
  BY <1>12
     DEF ShrinkSpan, NoReplies, Higher, Placed, Planned, PCs
<1>13. CASE Commit
  <2>1. size' \in 1 .. Batch /\ clean' \in 0 .. GrowAfter
    BY <1>13 DEF Commit, GrowSpan, Lower
  <2>2. QED
    BY <1>13, <2>1, WriteTyped
       DEF Commit, NoReplies, Placed, Planned, PCs, Phases,
           NoCursor
<1>14. CASE Fail
  BY <1>14 DEF Fail, Degrade, NoReplies, Placed, Planned,
               PCs, Phases
<1>15. CASE CommitUnacknowledged
  BY <1>15, WriteTyped
     DEF CommitUnacknowledged, Degrade, NoReplies, Placed,
         Planned, PCs, Phases, NoCursor
<1>16. CASE Retry
  BY <1>16 DEF Retry, Placed, Planned, PCs
<1>17. CASE PollTimer
  BY <1>17 DEF PollTimer, Placed, Planned, PCs
<1>18. CASE Crash
  <2>1. start' \in [Contracts -> Nat] /\ faults' \in 0 .. MaxFaults
    BY <1>18 DEF Crash
  <2>2. size' \in 1 .. Batch /\ clean' \in 0 .. GrowAfter
    BY <1>18 DEF Crash
  <2>3. flagged' \in BOOLEAN /\ viaSignal' \in BOOLEAN
    BY <1>18 DEF Crash
  <2>4. QED
    BY <1>18, <2>1, <2>2, <2>3
       DEF Crash, NoReplies, Placed, Planned, PCs, Phases
<1>19. CASE UNCHANGED vars
  BY <1>19 DEF vars, Placed, Planned
<1>20. QED
  BY <1>1, <1>2, <1>3, <1>4, <1>5, <1>6, <1>7, <1>8, <1>9, <1>11,
     <1>12, <1>13, <1>14, <1>15, <1>16, <1>17, <1>18, <1>19
     DEF Next, WorkerStep

LEMMA TypeInvariant == Spec => []TypeInv
BY InitTyped, StepTyped, PTL DEF Spec

(* Every variable of the pipeline stays in its range.                      *)
THEOREM TypeCorrect == Spec => []TypeOK
<1>1. TypeInv => TypeOK
  BY DEF TypeInv
<1>2. QED BY <1>1, TypeInvariant, PTL

-----------------------------------------------------------------------------
(* The cursor and the rows move together, whatever the nodes answer.        *)

(* What a round holds lies in its planned range.                           *)
GotInRange ==
  /\ pc \notin {"fetch", "commit"} => got = {}
  /\ \A l \in got : from <= l.block /\ l.block <= to

Behind == \A l \in Logs : l \in stored \/ dead[l] > 0 => l.block <= cursor

CursorInv == GotInRange /\ Behind /\ DeadOnce

(* The three ways a step can touch the schema: not at all, by placing an    *)
(* absent cursor, or by a whole batch.                                     *)
Quiet == UNCHANGED <<cursor, stored, dead, promised>>

Place ==
  /\ pc = "bootstrap" /\ cursor = NoCursor
  /\ SetInitialCursor /\ promised' = start
  /\ UNCHANGED <<stored, dead>>

LEMMA SchemaSteps ==
  ASSUME [Next]_vars
  PROVE  Quiet \/ Place \/ (pc = "commit" /\ WriteBatch)
<1> USE DEF Quiet, dbVars
<1>1. CASE UNCHANGED vars
  BY <1>1 DEF vars
<1>2. CASE InitCursor
  BY <1>2 DEF InitCursor, Place
<1>3. CASE Commit \/ CommitUnacknowledged
  BY <1>3 DEF Commit, CommitUnacknowledged
<1>4. CASE ProduceBlock \/ (\E n \in Nodes : ImportBlock(n))
             \/ (\E b \in 1 .. chain, primary \in BOOLEAN : Announce(b, primary))
  BY <1>4 DEF ProduceBlock, ImportBlock, Announce
<1>5. CASE (\E n \in Nodes : ResolveStarts(n)) \/ TargetFromSignal
             \/ (\E n \in Nodes : TargetFromRpc(n))
  BY <1>5 DEF ResolveStarts, TargetFromSignal, TargetFromRpc
<1>6. CASE \E n \in Nodes : AnswerLogs(n) \/ AnswerHead(n)
  BY <1>6 DEF AnswerLogs, AnswerHead
<1>7. CASE Guard \/ ShrinkSpan \/ Retry \/ PollTimer \/ Fail \/ Crash
  BY <1>7 DEF Guard, ShrinkSpan, Retry, PollTimer, Fail, Crash
<1>8. QED
  BY <1>1, <1>2, <1>3, <1>4, <1>5, <1>6, <1>7 DEF Next, WorkerStep

(* The replies of a round are dropped with it and never leave its range.    *)
LEMMA GotStep == TypeInv /\ GotInRange /\ [Next]_vars => GotInRange'
<1> SUFFICES ASSUME TypeInv, GotInRange, [Next]_vars PROVE GotInRange'
  OBVIOUS
<1> USE DEF GotInRange, chainVars, dbVars, roundVars, replyVars, sizerVars
<1>1. CASE UNCHANGED vars
  BY <1>1 DEF vars
<1>2. CASE InitCursor \/ Retry \/ PollTimer
  BY <1>2 DEF InitCursor, Retry, PollTimer
<1>3. CASE Commit \/ CommitUnacknowledged \/ Fail \/ Crash \/ ShrinkSpan
  BY <1>3 DEF Commit, CommitUnacknowledged, Fail, Degrade, Crash, ShrinkSpan,
              NoReplies
<1>4. CASE ProduceBlock \/ (\E n \in Nodes : ImportBlock(n))
             \/ (\E b \in 1 .. chain, primary \in BOOLEAN : Announce(b, primary))
  BY <1>4 DEF ProduceBlock, ImportBlock, Announce
<1>5. CASE (\E n \in Nodes : ResolveStarts(n)) \/ TargetFromSignal
             \/ (\E n \in Nodes : TargetFromRpc(n))
  BY <1>5 DEF ResolveStarts, TargetFromSignal, TargetFromRpc, replyVars
<1>6. CASE \E n \in Nodes : AnswerLogs(n) \/ AnswerHead(n)
  BY <1>6 DEF AnswerLogs, AnswerHead, LogsSeen
<1>7. CASE Guard
  <2>1. CASE viaSignal /\ queryHead < from
    BY <1>7, <2>1 DEF Guard, NoReplies
  <2>2. CASE ~(viaSignal /\ queryHead < from)
    BY <1>7, <2>2 DEF Guard
  <2>3. QED BY <2>1, <2>2
<1>8. QED
  BY <1>1, <1>2, <1>3, <1>4, <1>5, <1>6, <1>7 DEF Next, WorkerStep

LEMMA CursorStep == TypeInv /\ CursorInv /\ [Next]_vars => CursorInv'
<1> SUFFICES ASSUME TypeInv, CursorInv, [Next]_vars PROVE CursorInv'
  OBVIOUS
<1>1. GotInRange'
  BY GotStep DEF CursorInv
<1>2. \A l \in Logs : l.block \in Nat /\ l.block >= 0 /\ dead[l] \in Nat
  BY LogsAssumption, BoundsAssumption
     DEF Log, TypeInv, TypeOK, SchemaTypeOK
<1>3. cursor \in Int /\ NoCursor = -2
  BY DEF TypeInv, TypeOK, SchemaTypeOK, NoCursor
<1>4. CASE Quiet
  BY <1>1, <1>4 DEF Quiet, CursorInv, Behind, DeadOnce
<1>5. CASE Place
  <2>1. \A l \in Logs : l \notin stored /\ dead[l] = 0
    BY <1>2, <1>3, <1>5 DEF Place, CursorInv, Behind
  <2>2. QED BY <1>1, <1>5, <2>1 DEF Place, CursorInv, Behind, DeadOnce
<1>6. CASE pc = "commit" /\ WriteBatch
  <2>1. cursor' = to /\ cursor < to /\ to \in Nat
    BY <1>6, <1>3 DEF WriteBatch, TypeInv, TypeOK, RoundTypeOK, Planned
  <2>2. \A l \in got : l.block <= to /\ l.block > cursor
    BY <1>2, <1>3, <1>6
       DEF CursorInv, GotInRange, TypeInv, TypeOK, RoundTypeOK, Planned
  <2>3. Behind'
    BY <1>2, <1>3, <1>6, <2>1, <2>2 DEF WriteBatch, CursorInv, Behind
  <2>4. DeadOnce'
    <3> SUFFICES ASSUME NEW l \in Logs PROVE dead'[l] <= 1
      BY DEF DeadOnce
    <3>1. CASE l \in got
      <4>1. l.block > cursor
        BY <2>2, <3>1
      <4>2. dead[l] = 0
        BY <1>2, <1>3, <4>1 DEF CursorInv, Behind
      <4>3. QED BY <1>6, <4>2 DEF WriteBatch
    <3>2. CASE l \notin got
      BY <1>6, <3>2 DEF WriteBatch, CursorInv, DeadOnce
    <3>3. QED BY <3>1, <3>2
  <2>5. QED BY <1>1, <2>3, <2>4 DEF CursorInv
<1>7. QED BY <1>4, <1>5, <1>6, SchemaSteps

LEMMA CursorInvariant == Spec => [](TypeInv /\ CursorInv)
<1>1. Init => CursorInv
  BY DEF Init, CursorInv, GotInRange, Behind, DeadOnce
<1>2. TypeInv /\ CursorInv /\ [Next]_vars => CursorInv'
  BY CursorStep
<1>3. QED BY <1>1, <1>2, TypeInvariant, PTL DEF Spec

(* No dead letter is written twice, through any number of retries, lost     *)
(* acknowledgements and restarts, whatever the nodes answer.               *)
THEOREM DeadOnceHolds == Spec => []DeadOnce
<1>1. CursorInv => DeadOnce
  BY DEF CursorInv
<1>2. QED BY <1>1, CursorInvariant, PTL

(* Rows only ever appear above the cursor, and none disappears.             *)
THEOREM SettledHistoryHolds == Spec => SettledHistory
<1>1. TypeInv /\ CursorInv /\ [Next]_vars
        => [/\ stored \subseteq stored'
            /\ \A l \in stored' \ stored : l.block > cursor]_vars
  <2> SUFFICES ASSUME TypeInv, CursorInv, [Next]_vars
               PROVE  /\ stored \subseteq stored'
                      /\ \A l \in stored' \ stored : l.block > cursor
    OBVIOUS
  <2>1. CASE Quiet \/ Place
    BY <2>1 DEF Quiet, Place
  <2>2. CASE pc = "commit" /\ WriteBatch
    <3>1. \A l \in got : l.block > cursor
      BY <2>2, LogsAssumption, BoundsAssumption
         DEF CursorInv, GotInRange, TypeInv, TypeOK, RoundTypeOK,
             SchemaTypeOK, Planned, Log
    <3>2. QED BY <2>2, <3>1 DEF WriteBatch
  <2>3. QED BY <2>1, <2>2, SchemaSteps
<1>2. QED BY <1>1, CursorInvariant, PTL DEF Spec, SettledHistory

(* The cursor never moves back.                                            *)
THEOREM CursorForwardHolds == Spec => CursorForward
<1>1. TypeInv /\ [Next]_vars => [cursor # NoCursor => cursor' >= cursor]_vars
  <2> SUFFICES ASSUME TypeInv, [Next]_vars, cursor # NoCursor
               PROVE  cursor' >= cursor
    OBVIOUS
  <2>1. cursor \in Int
    BY DEF TypeInv, TypeOK, SchemaTypeOK
  <2>2. CASE Quiet \/ Place
    BY <2>1, <2>2 DEF Quiet, Place
  <2>3. CASE pc = "commit" /\ WriteBatch
    BY <2>1, <2>3 DEF WriteBatch, TypeInv, TypeOK, RoundTypeOK, Planned
  <2>4. QED BY <2>2, <2>3, SchemaSteps
<1>2. QED BY <1>1, TypeInvariant, PTL DEF Spec, CursorForward

-----------------------------------------------------------------------------
(* The latch and the phase: a boot has not told a phase yet, nobody sleeps  *)
(* on a latched announcement, and Live is near the head.                    *)
Awake == pc = "idle" => ~flagged

PhaseInv ==
  /\ pc \in {"boot", "bootstrap"} => phase = "Provisioning"
  /\ Awake /\ LiveMeansNear

LEMMA PlanPhase ==
  ASSUME TypeInv, PhaseInv, NEW head \in 0 .. chain, NEW sig \in BOOLEAN,
         Plan(head, sig), pc = "round", UNCHANGED cursor
  PROVE  PhaseInv'
<1>1. cursor \in Int /\ head \in Int /\ size \in Int /\ size <= Batch /\ Batch \in Int
  BY SpanAssumption, BoundsAssumption DEF TypeInv, TypeOK, ChainTypeOK, SchemaTypeOK, WorkerTypeOK
<1>2. CASE head <= cursor
  <2>1. target' = head /\ phase' = "Live" /\ Wait
    BY <1>2 DEF Plan
  <2>2. target' - cursor' <= Batch
    BY <1>1, <1>2, <2>1, SpanAssumption
  <2>3. QED BY <2>1, <2>2 DEF Wait, PhaseInv, Awake, LiveMeansNear
<1>3. CASE ~(head <= cursor)
  <2>1. /\ target' = head /\ to' = Lower(head, cursor + size) /\ pc' = "fetch"
        /\ phase' = IF to' < head \/ phase # "Live" THEN "Backfilling" ELSE phase
    BY <1>3 DEF Plan
  <2>2. phase' = "Live" => target' - cursor' <= Batch
    BY <1>1, <2>1 DEF Lower
  <2>3. QED BY <2>1, <2>2 DEF PhaseInv, Awake, LiveMeansNear
<1>4. QED BY <1>2, <1>3

LEMMA PhaseStep == TypeInv /\ PhaseInv /\ [Next]_vars => PhaseInv'
<1> SUFFICES ASSUME TypeInv, PhaseInv, [Next]_vars PROVE PhaseInv'
  OBVIOUS
<1> USE DEF chainVars, dbVars, roundVars, replyVars, sizerVars
<1>1. CASE TargetFromSignal \/ \E n \in Nodes : TargetFromRpc(n)
  <2>1. \E head \in 0 .. chain, sig \in BOOLEAN : Plan(head, sig)
    BY <1>1 DEF TargetFromSignal, TargetFromRpc, TypeInv, TypeOK, ChainTypeOK, WorkerTypeOK
  <2>2. pc = "round" /\ UNCHANGED cursor
    BY <1>1 DEF TargetFromSignal, TargetFromRpc
  <2>3. QED BY <2>1, <2>2, PlanPhase
<1>2. CASE Commit
  <2>1. /\ pc = "commit" /\ cursor' = to /\ target' = target /\ pc' = "round"
        /\ phase' = IF to = target THEN "Live" ELSE phase
    BY <1>2 DEF Commit, WriteBatch
  <2>2. cursor \in Int /\ to \in Int /\ target \in Int /\ cursor < to /\ Batch \in Nat
    BY <2>1, SpanAssumption, BoundsAssumption
       DEF TypeInv, TypeOK, ChainTypeOK, SchemaTypeOK, RoundTypeOK, Planned
  <2>3. phase' = "Live" => target' - cursor' <= Batch
    BY <2>1, <2>2 DEF PhaseInv, LiveMeansNear
  <2>4. QED BY <2>1, <2>3 DEF PhaseInv, Awake, LiveMeansNear
<1>3. CASE Guard
  BY <1>3 DEF Guard, Wait, NoReplies, PhaseInv, Awake, LiveMeansNear
<1>4. CASE \E b \in 1 .. chain, primary \in BOOLEAN : Announce(b, primary)
  BY <1>4 DEF Announce, PhaseInv, Awake, LiveMeansNear
<1>5. CASE InitCursor \/ \E n \in Nodes : ResolveStarts(n)
  BY <1>5 DEF InitCursor, ResolveStarts, PhaseInv, Awake, LiveMeansNear
<1>6. CASE Fail \/ CommitUnacknowledged \/ Crash
  BY <1>6 DEF Fail, CommitUnacknowledged, Degrade, Crash, PhaseInv, Awake, LiveMeansNear
<1>7. CASE ShrinkSpan \/ Retry \/ PollTimer \/ ProduceBlock
  BY <1>7 DEF ShrinkSpan, NoReplies, Retry, PollTimer, ProduceBlock,
              PhaseInv, Awake, LiveMeansNear
<1>8. CASE \E n \in Nodes : AnswerLogs(n) \/ AnswerHead(n) \/ ImportBlock(n)
  BY <1>8 DEF AnswerLogs, AnswerHead, ImportBlock, PhaseInv, Awake, LiveMeansNear
<1>9. CASE UNCHANGED vars
  BY <1>9 DEF vars, PhaseInv, Awake, LiveMeansNear
<1>10. QED
  BY <1>1, <1>2, <1>3, <1>4, <1>5, <1>6, <1>7, <1>8, <1>9 DEF Next, WorkerStep

LEMMA PhaseInvariant == Spec => []PhaseInv
<1>1. Init => PhaseInv
  BY DEF Init, PhaseInv, Awake, LiveMeansNear
<1>2. QED BY <1>1, PhaseStep, TypeInvariant, PTL DEF Spec

(* No step sleeps through an announcement (signal.ts:35), however rounds    *)
(* end: a newer head starts a round or is latched, nobody sleeps over a     *)
(* latched one, and it is only given up for a round or with the process.    *)
THEOREM NoSleepThroughHolds == Spec => NoSleepThrough
<1>1. TypeInv /\ PhaseInv /\ [Next]_vars
        => [/\ announced' > announced => flagged' \/ pc' = "round"
            /\ pc' = "idle" => ~flagged /\ ~flagged'
            /\ flagged /\ ~flagged'
                 => pc' = "boot" \/ (pc' = "round" /\ cursor' = cursor)]_vars
  <2> SUFFICES ASSUME TypeInv, PhaseInv, [Next]_vars
               PROVE  /\ announced' > announced => flagged' \/ pc' = "round"
                      /\ pc' = "idle" => ~flagged /\ ~flagged'
                      /\ flagged /\ ~flagged'
                           => pc' = "boot" \/ (pc' = "round" /\ cursor' = cursor)
    OBVIOUS
  <2> USE DEF chainVars, dbVars, roundVars, replyVars, sizerVars
  <2>1. Awake /\ announced \in Int /\ ~(announced > announced)
    BY BoundsAssumption
       DEF PhaseInv, TypeInv, TypeOK, ChainTypeOK, WorkerTypeOK
  <2>2. CASE TargetFromSignal \/ \E n \in Nodes : TargetFromRpc(n)
    <3>1. /\ UNCHANGED <<announced, cursor>>
          /\ Wait \/ (pc' = "fetch" /\ UNCHANGED flagged)
      BY <2>2 DEF TargetFromSignal, TargetFromRpc, Plan
    <3>2. QED BY <2>1, <3>1 DEF Wait
  <2>3. CASE Guard
    <3>1. /\ UNCHANGED <<announced, cursor>>
          /\ Wait \/ (pc' = "commit" /\ UNCHANGED flagged)
      BY <2>3 DEF Guard
    <3>2. QED BY <2>1, <3>1 DEF Wait
  <2>4. CASE \E b \in 1 .. chain, primary \in BOOLEAN : Announce(b, primary)
    BY <2>4 DEF Announce
  <2>5. CASE Crash
    BY <2>1, <2>5 DEF Crash, TypeInv, TypeOK, WorkerTypeOK
  <2>6. CASE InitCursor \/ \E n \in Nodes : ResolveStarts(n)
    BY <2>1, <2>6 DEF InitCursor, ResolveStarts
  <2>7. CASE Commit \/ Fail \/ CommitUnacknowledged
    BY <2>1, <2>7 DEF Commit, Fail, CommitUnacknowledged, Degrade
  <2>8. CASE ShrinkSpan \/ Retry \/ PollTimer \/ ProduceBlock
    BY <2>1, <2>8 DEF ShrinkSpan, Retry, PollTimer, ProduceBlock, Awake
  <2>9. CASE \E n \in Nodes : AnswerLogs(n) \/ AnswerHead(n) \/ ImportBlock(n)
    BY <2>1, <2>9 DEF AnswerLogs, AnswerHead, ImportBlock, Awake
  <2>10. CASE UNCHANGED vars
    BY <2>1, <2>10 DEF vars, Awake
  <2>11. QED
    BY <2>2, <2>3, <2>4, <2>5, <2>6, <2>7, <2>8, <2>9, <2>10 DEF Next, WorkerStep
<1>2. QED
  BY <1>1, TypeInvariant, PhaseInvariant, PTL DEF Spec, NoSleepThrough

(* A worker that says Live is within a batch of the head it last aimed at   *)
(* (pipeline.ts:86), for any provider cap, batch size and faults.           *)
THEOREM LiveMeansNearHolds == Spec => []LiveMeansNear
<1>1. PhaseInv => LiveMeansNear
  BY DEF PhaseInv
<1>2. QED BY <1>1, PhaseInvariant, PTL


-----------------------------------------------------------------------------
(* Under two conditions the pipeline implements the abstract follower, and *)
(* with it the promise that rows up to _cursor are complete: the starts    *)
(* configured are block numbers, and one query node answers, the head of a *)
(* guarded round no later than its logs.                                   *)

Absolute == \A c \in Contracts : StartOf[c] \in Nat

SteadyView == HeadFirst /\ \A m, n \in Nodes : m = n

(* Every boot resolves an absolute start to itself.                        *)
StartsKept ==
  /\ pc # "boot" => start = StartOf
  /\ cursor # NoCursor => promised = StartOf

(* What the requests of a round know about the range they cover.           *)
InRange == {l \in Logs : from <= l.block /\ l.block <= to}

RepliesExact ==
  /\ pc \notin {"fetch", "commit"} => answered = {}
  /\ pc = "fetch" /\ ~viaSignal => \A n \in Nodes : to <= nodeHead[n]
  /\ pc = "fetch" /\ viaSignal /\ "head" \in answered
       => \A n \in Nodes : queryHead <= nodeHead[n]
  /\ pc = "fetch" /\ viaSignal /\ "logs" \in answered => "head" \in answered
  /\ pc = "fetch" /\ "logs" \in answered
       => /\ got \subseteq InRange
          /\ \A l \in InRange : (viaSignal => l.block <= queryHead) => l \in got
  /\ pc = "commit" => got = InRange

(* Events become rows and logs that do not decode become dead letters.      *)
KindsApart ==
  \A l \in Logs : /\ l \in stored => l.kind = "event"
                  /\ dead[l] > 0 => l.kind = "undecodable"

(* Before the cursor is placed nothing has been handled.                   *)
NothingYet == cursor = NoCursor => Handled = {}

FollowerInv == StartsKept /\ RepliesExact /\ KindsApart /\ NothingYet

LEMMA AbsoluteStart ==
  ASSUME Absolute, NEW c \in Contracts, NEW head \in Nat
  PROVE  ResolveStart(StartOf[c], head) = StartOf[c]
BY ContractsAssumption DEF Absolute, ResolveStart

LEMMA StartsStep ==
  ASSUME Absolute, TypeInv, StartsKept, [Next]_vars
  PROVE  StartsKept'
<1> USE DEF StartsKept, chainVars, dbVars, roundVars, replyVars, sizerVars
<1>1. CASE UNCHANGED vars
  BY <1>1 DEF vars
<1>2. ASSUME NEW n \in Nodes, ResolveStarts(n) PROVE StartsKept'
  <2>1. nodeHead[n] \in Nat
    BY <1>2 DEF TypeInv, TypeOK, ChainTypeOK
  <2>2. start' = [c \in Contracts |-> StartOf[c]]
    BY <1>2, <2>1, AbsoluteStart DEF ResolveStarts
  <2>3. start' = StartOf
    BY <2>2, ContractsAssumption
  <2>4. QED BY <1>2, <2>3 DEF ResolveStarts
<1>3. CASE InitCursor
  BY <1>3 DEF InitCursor
<1>4. CASE Commit \/ CommitUnacknowledged
  <2>1. cursor # NoCursor /\ pc = "commit" /\ start' = start
        /\ promised' = promised
    BY <1>4 DEF Commit, CommitUnacknowledged, WriteBatch, Degrade, TypeInv,
                Placed
  <2>2. QED BY <2>1
<1>5. CASE Crash
  BY <1>5 DEF Crash
<1>6. CASE ProduceBlock \/ (\E n \in Nodes : ImportBlock(n))
             \/ (\E b \in 1 .. chain, primary \in BOOLEAN : Announce(b, primary))
  BY <1>6 DEF ProduceBlock, ImportBlock, Announce
<1>7. CASE TargetFromSignal \/ (\E n \in Nodes : TargetFromRpc(n))
  BY <1>7 DEF TargetFromSignal, TargetFromRpc
<1>8. CASE \E n \in Nodes : AnswerLogs(n) \/ AnswerHead(n)
  BY <1>8 DEF AnswerLogs, AnswerHead
<1>9. CASE Guard \/ ShrinkSpan \/ Retry \/ PollTimer \/ Fail
  BY <1>9 DEF Guard, ShrinkSpan, Retry, PollTimer, Fail, Degrade
<1>10. QED
  BY <1>1, <1>2, <1>3, <1>4, <1>5, <1>6, <1>7, <1>8, <1>9 DEF Next, WorkerStep

LEMMA RepliesStep ==
  ASSUME SteadyView, TypeInv, RepliesExact, [Next]_vars
  PROVE  RepliesExact'
<1> USE DEF RepliesExact, InRange, chainVars, dbVars, roundVars, replyVars,
            sizerVars
<1>0. /\ from \in Nat /\ to \in Nat /\ queryHead \in Nat
      /\ \A n \in Nodes : nodeHead[n] \in Nat
      /\ \A l \in Logs : l.block \in Nat
  BY LogsAssumption, BoundsAssumption
     DEF TypeInv, TypeOK, RoundTypeOK, ChainTypeOK, Log
<1>1. CASE UNCHANGED vars
  BY <1>1 DEF vars
<1>2. ASSUME NEW n \in Nodes, ImportBlock(n) PROVE RepliesExact'
  <2>1. \A m \in Nodes : nodeHead'[m] >= nodeHead[m] /\ nodeHead'[m] \in Nat
    BY <1>0, <1>2 DEF ImportBlock, TypeInv, TypeOK, ChainTypeOK
  <2>2. QED BY <1>0, <1>2, <2>1 DEF ImportBlock
<1>3. CASE TargetFromSignal
  BY <1>3 DEF TargetFromSignal, Plan, Wait
<1>4. ASSUME NEW n \in Nodes, TargetFromRpc(n) PROVE RepliesExact'
  <2>1. CASE nodeHead[n] <= cursor
    BY <1>4, <2>1 DEF TargetFromRpc, Plan, Wait
  <2>2. CASE ~(nodeHead[n] <= cursor)
    <3>1. /\ to' = Lower(nodeHead[n], cursor + size)
          /\ pc' = "fetch" /\ viaSignal' = FALSE /\ answered' = {}
          /\ nodeHead' = nodeHead
      BY <1>4, <2>2 DEF TargetFromRpc, Plan
    <3>2. to' <= nodeHead[n]
      BY <1>0, <3>1 DEF Lower, TypeInv, TypeOK, SchemaTypeOK, WorkerTypeOK
    <3>3. \A m \in Nodes : to' <= nodeHead'[m]
      BY <3>1, <3>2 DEF SteadyView
    <3>4. QED BY <3>1, <3>3
  <2>3. QED BY <2>1, <2>2
<1>5. ASSUME NEW n \in Nodes, AnswerLogs(n) PROVE RepliesExact'
  <2>1. /\ pc = "fetch" /\ pc' = "fetch" /\ viaSignal' = viaSignal
        /\ viaSignal => "head" \in answered
        /\ answered' = answered \cup {"logs"}
        /\ got' = LogsSeen(n, from, to)
        /\ UNCHANGED <<from, to, nodeHead, queryHead>>
    BY <1>5 DEF AnswerLogs, SteadyView
  <2>2. IF viaSignal THEN queryHead <= nodeHead[n] ELSE to <= nodeHead[n]
    BY <2>1
  <2>3. got' \subseteq InRange
    BY <2>1 DEF LogsSeen
  <2>4. ASSUME NEW l \in InRange, viaSignal => l.block <= queryHead
        PROVE  l \in got'
    BY <1>0, <2>1, <2>2, <2>4 DEF LogsSeen
  <2>5. QED BY <2>1, <2>3, <2>4
<1>6. ASSUME NEW n \in Nodes, AnswerHead(n) PROVE RepliesExact'
  <2>1. /\ pc = "fetch" /\ viaSignal /\ "head" \notin answered
        /\ "logs" \notin answered
        /\ UNCHANGED <<pc, viaSignal, from, to, nodeHead>>
        /\ answered' = answered \cup {"head"}
        /\ queryHead' = nodeHead[n]
    BY <1>6 DEF AnswerHead
  <2>2. \A m \in Nodes : queryHead' <= nodeHead'[m]
    BY <1>0, <2>1 DEF SteadyView
  <2>3. QED BY <2>1, <2>2
<1>8. CASE Guard
  <2>1. CASE viaSignal /\ queryHead < from
    BY <1>8, <2>1 DEF Guard, Wait, NoReplies
  <2>2. CASE ~(viaSignal /\ queryHead < from)
    <3>1. /\ pc = "fetch" /\ pc' = "commit" /\ from' = from
          /\ "logs" \in answered
          /\ to' = IF viaSignal THEN Lower(queryHead, to) ELSE to
          /\ got' = {l \in got : l.block <= to'}
      BY <1>8, <2>2 DEF Guard
    <3>2. /\ got \subseteq InRange
          /\ \A l \in InRange : (viaSignal => l.block <= queryHead) => l \in got
      BY <3>1
    <3>3. /\ to' \in Nat /\ to' <= to
          /\ viaSignal => to' <= queryHead
      BY <1>0, <3>1 DEF Lower
    <3>4. ASSUME NEW l \in Logs PROVE l \in got' <=> from <= l.block /\ l.block <= to'
      BY <1>0, <3>1, <3>2, <3>3
    <3>5. got' = {l \in Logs : from <= l.block /\ l.block <= to'}
      BY <3>1, <3>2, <3>4
    <3>6. QED BY <3>1, <3>5
  <2>3. QED BY <2>1, <2>2
<1>9. CASE ShrinkSpan \/ Commit \/ CommitUnacknowledged \/ Fail \/ Crash
  BY <1>9 DEF ShrinkSpan, Commit, CommitUnacknowledged, Fail, Degrade, Crash,
              NoReplies
<1>10. CASE InitCursor \/ Retry \/ PollTimer \/ (\E n \in Nodes : ResolveStarts(n))
  BY <1>10 DEF InitCursor, Retry, PollTimer, ResolveStarts
<1>11. CASE ProduceBlock
  BY <1>11 DEF ProduceBlock
<1>12. CASE \E b \in 1 .. chain, primary \in BOOLEAN : Announce(b, primary)
  BY <1>12 DEF Announce
<1>13. QED
  BY <1>1, <1>2, <1>3, <1>4, <1>5, <1>6, <1>8, <1>9, <1>10, <1>11, <1>12
     DEF Next, WorkerStep

LEMMA KindsStep ==
  ASSUME TypeInv, KindsApart, [Next]_vars
  PROVE  KindsApart'
<1>1. \A l \in Logs : dead[l] \in Nat
  BY DEF TypeInv, TypeOK, SchemaTypeOK
<1>2. CASE Quiet \/ Place
  BY <1>2 DEF Quiet, Place, KindsApart
<1>3. CASE pc = "commit" /\ WriteBatch
  BY <1>1, <1>3 DEF WriteBatch, KindsApart
<1>4. QED BY <1>2, <1>3, SchemaSteps

LEMMA NothingYetStep ==
  ASSUME TypeInv, NothingYet, [Next]_vars
  PROVE  NothingYet'
<1>1. CASE Quiet
  BY <1>1 DEF Quiet, NothingYet, Handled
<1>2. CASE Place
  <2>1. \A c \in Contracts : start[c] \in Nat
    BY <1>2 DEF Place, TypeInv, TypeOK, WorkerTypeOK
  <2>2. cursor' # NoCursor
    BY <1>2, <2>1 DEF Place, SetInitialCursor, NoCursor
  <2>3. QED BY <2>2 DEF NothingYet
<1>3. CASE pc = "commit" /\ WriteBatch
  <2>1. cursor' = to /\ to \in Nat
    BY <1>3 DEF WriteBatch, TypeInv, TypeOK, RoundTypeOK
  <2>2. QED BY <2>1 DEF NothingYet, NoCursor
<1>4. QED BY <1>1, <1>2, <1>3, SchemaSteps

(* A batch is one Advance of the follower.                                 *)
LEMMA BatchAdvances ==
  ASSUME TypeInv, FollowerInv, pc = "commit", WriteBatch
  PROVE  Follower!Advance
<1>1. /\ from = cursor + 1 /\ from <= to /\ cursor' = to
      /\ cursor \in Int /\ to \in Nat /\ cursor # NoCursor
  BY DEF TypeInv, TypeOK, SchemaTypeOK, RoundTypeOK, Planned, Placed, WriteBatch
<1>2. start = StartOf /\ got = {l \in Logs : from <= l.block /\ l.block <= to}
  BY DEF FollowerInv, StartsKept, RepliesExact, InRange
<1>3. \A l \in Logs : /\ l.block \in Nat /\ dead[l] \in Nat
                      /\ l.kind \in Kinds
  BY LogsAssumption, BoundsAssumption
     DEF Log, TypeInv, TypeOK, SchemaTypeOK
<1>4. \A l \in Logs : Kept(l) <=> l \in Wanted
  BY <1>2 DEF Kept, Wanted
<1>5. Follower!Between(cursor, cursor') = {l \in got : Kept(l)}
  BY <1>1, <1>2, <1>3, <1>4 DEF Follower!Between, Wanted
<1>6. Handled' = Handled \cup {l \in got : Kept(l)}
  <2>1. \A l \in Logs : dead'[l] = IF l \in got /\ Kept(l) /\ l.kind = "undecodable"
                                     THEN dead[l] + 1 ELSE dead[l]
    BY DEF WriteBatch
  <2>2. stored' = stored \cup {l \in got : Kept(l) /\ l.kind = "event"}
    BY DEF WriteBatch
  <2>3. \A l \in Logs : Kept(l) => l.kind = "event" \/ l.kind = "undecodable"
    BY <1>3 DEF Kept, Kinds
  <2>4. got \subseteq Logs
    BY <1>2
  <2>5. QED BY <1>3, <2>1, <2>2, <2>3, <2>4 DEF Handled
<1>7. cursor' \in Int \ {NoCursor} /\ cursor' > cursor
  BY <1>1 DEF NoCursor
<1>8. QED BY <1>1, <1>5, <1>6, <1>7 DEF Follower!Advance

(* Placing the cursor is its Begin: nothing lies before the first start.    *)
LEMMA PlaceBegins ==
  ASSUME Absolute, TypeInv, FollowerInv, Place
  PROVE  Follower!Begin
<1>1. start = StartOf
  BY DEF FollowerInv, StartsKept, Place
<1>2. PICK c \in Contracts : /\ \A d \in Contracts : StartOf[c] <= StartOf[d]
                             /\ cursor' = StartOf[c] - 1
  BY <1>1 DEF Place, SetInitialCursor
<1>3. \A d \in Contracts : StartOf[d] \in Nat
  BY DEF Absolute
<1>4. \A l \in Logs : l.block \in Nat /\ l.contract \in Contracts
  BY LogsAssumption, BoundsAssumption DEF Log
<1>5. \A l \in Wanted : cursor' < l.block
  BY <1>2, <1>3, <1>4 DEF Wanted
<1>6. Handled' = {} /\ {l \in Wanted : l.block <= cursor'} = {}
  <2>1. Handled = {}
    BY DEF FollowerInv, Place, NothingYet
  <2>2. cursor' \in Int
    BY <1>2, <1>3
  <2>3. \A l \in Wanted : l.block \in Nat
    BY <1>4 DEF Wanted
  <2>4. QED BY <1>5, <2>1, <2>2, <2>3 DEF Place, Handled
<1>7. cursor = NoCursor /\ cursor' \in Int \ {NoCursor}
  BY <1>2, <1>3 DEF Place, NoCursor
<1>8. QED BY <1>5, <1>6, <1>7 DEF Follower!Begin

LEMMA FollowerInvariant ==
  ASSUME Absolute, SteadyView
  PROVE  Spec => [](TypeInv /\ FollowerInv)
<1>1. Init => FollowerInv
  BY DEF Init, FollowerInv, StartsKept, RepliesExact, KindsApart,
             NothingYet, Handled, NoCursor
<1>2. TypeInv /\ FollowerInv /\ [Next]_vars => FollowerInv'
  BY StartsStep, RepliesStep, KindsStep, NothingYetStep DEF FollowerInv
<1>3. QED BY <1>1, <1>2, TypeInvariant, PTL DEF Spec

(* The pipeline implements the abstract follower: every commit handles the  *)
(* logs of exactly the blocks the cursor moved over, and no other step      *)
(* touches what the schema shows.                                          *)
THEOREM FollowsChainHolds ==
  ASSUME Absolute, SteadyView
  PROVE  Spec => FollowsChain
<1>1. Init => Follower!Init
  BY DEF Init, Follower!Init, Handled
<1>2. TypeInv /\ FollowerInv /\ [Next]_vars => [Follower!Next]_(Follower!vars)
  <2> SUFFICES ASSUME TypeInv, FollowerInv, [Next]_vars
               PROVE  [Follower!Next]_(Follower!vars)
    OBVIOUS
  <2>1. CASE Quiet
    BY <2>1 DEF Quiet, Handled, Follower!vars
  <2>2. CASE Place
    BY <2>2, PlaceBegins DEF Follower!Next
  <2>3. CASE pc = "commit" /\ WriteBatch
    BY <2>3, BatchAdvances DEF Follower!Next
  <2>4. QED BY <2>1, <2>2, <2>3, SchemaSteps
<1>3. QED
  BY <1>1, <1>2, FollowerInvariant, PTL DEF Spec, FollowsChain, Follower!Spec

(* One step of the abstract follower keeps what it has handled a prefix.   *)
LEMMA PrefixDoneStep ==
  ASSUME Follower!PrefixDone, cursor \in Int, [Follower!Next]_(Follower!vars)
  PROVE  Follower!PrefixDone' /\ cursor' \in Int
<1>1. \A l \in Wanted : l.block \in Int
  BY LogsAssumption, BoundsAssumption DEF Wanted, Log
<1> USE <1>1 DEF Follower!PrefixDone
<1>2. CASE Follower!Begin
  BY <1>2 DEF Follower!Begin
<1>3. CASE Follower!Advance
  BY <1>3 DEF Follower!Advance, Follower!Between
<1>4. CASE UNCHANGED Follower!vars
  BY <1>4 DEF Follower!vars
<1>5. QED BY <1>2, <1>3, <1>4 DEF Follower!Next

(* Whatever implements the follower has handled what lies at or below its  *)
(* cursor, and nothing else.                                               *)
LEMMA FollowerPrefix == FollowsChain => []Follower!PrefixDone
<1>1. Follower!Init => Follower!PrefixDone /\ cursor \in Int
  BY DEF Follower!Init, Follower!PrefixDone, NoCursor
<1>2. (Follower!PrefixDone /\ cursor \in Int) /\ [Follower!Next]_(Follower!vars)
        => (Follower!PrefixDone /\ cursor \in Int)'
  BY PrefixDoneStep
<1>3. QED BY <1>1, <1>2, PTL DEF FollowsChain, Follower!Spec

(* Rows up to _cursor are complete, for every interleaving of announcer,   *)
(* node, round, fault and restart, once starts are block numbers and one   *)
(* node answers, head first.                                               *)
THEOREM CompleteHolds ==
  ASSUME Absolute, SteadyView
  PROVE  Spec => []Complete
<1>1. TypeInv /\ FollowerInv /\ Follower!PrefixDone => Complete
  <2> SUFFICES ASSUME TypeInv, FollowerInv, Follower!PrefixDone,
                      NEW l \in Logs,
                      cursor # NoCursor, Owed(l), l.block <= cursor
               PROVE  IF l.kind = "event" THEN l \in stored ELSE dead[l] > 0
    BY DEF Complete
  <2>1. l \in Wanted
    BY DEF Owed, Wanted, FollowerInv, StartsKept
  <2>2. l \in Handled
    BY <2>1 DEF Follower!PrefixDone
  <2>3. QED BY <2>2 DEF Handled, FollowerInv, KindsApart
<1>2. QED
  BY <1>1, FollowerPrefix, FollowsChainHolds, FollowerInvariant, PTL

=============================================================================
