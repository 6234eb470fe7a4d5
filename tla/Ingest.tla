------------------------------- MODULE Ingest -------------------------------
(***************************************************************************)
(* The ingest pipeline of the worker: one process that follows a chain     *)
(* through an RPC pool, decodes the logs of the indexed contracts and      *)
(* commits them, together with its cursor, into one Postgres schema.       *)
(*                                                                         *)
(* Three other parties act: the chain produces blocks, the query nodes     *)
(* import them in their own time, and the websocket announcers publish     *)
(* heads.  Requests fail, the process crashes and the acknowledgement of a *)
(* COMMIT is lost, at most MaxFaults times in all.                         *)
(***************************************************************************)
EXTENDS Integers, FiniteSets

CONSTANTS
  Contracts,    \* the indexed contracts
  StartOf,      \* each one's configured startBlock; Tail when it is omitted
  Tail,         \* an omitted startBlock
  Logs,         \* what the contracts emit: [block, contract, kind]
  Nodes,        \* the endpoints that may answer a query
  Latest,       \* whether network.finalityTag is 'latest'
  HeadFirst,    \* whether a parallel pair is answered head first, logs last
  Batch,        \* polling.batchBlocks
  GrowAfter,    \* clean ranges before the span doubles again
  ProviderCap,  \* the widest getLogs range the provider answers
  MaxBlock,     \* bound: the blocks the chain produces
  MaxFaults     \* bound: crashes, failed requests, lost acknowledgements

Kinds == {"event", "undecodable", "untracked"}

Log == [block : 0 .. MaxBlock, contract : Contracts, kind : Kinds]

ASSUME ContractsAssumption ==
  /\ Contracts # {}
  /\ Tail \notin Int
  /\ StartOf \in [Contracts -> Int \cup {Tail}]
ASSUME LogsAssumption == Logs \subseteq Log
ASSUME NodesAssumption == Nodes # {}
ASSUME FlagsAssumption == Latest \in BOOLEAN /\ HeadFirst \in BOOLEAN
ASSUME SpanAssumption ==
  /\ Batch \in Nat \ {0}
  /\ GrowAfter \in Nat \ {0}
  /\ ProviderCap \in Nat \ {0}
ASSUME BoundsAssumption == MaxBlock \in Nat /\ MaxFaults \in Nat

VARIABLES
  \* The chain and the nodes.
  chain,      \* the newest block produced
  nodeHead,   \* the newest block each query node has imported
  \* The schema: what survives a crash.
  cursor,     \* _cursor.last_block, NoCursor before it is initialised
  stored,     \* the logs with a row in their event table
  dead,       \* how many _dead_letter rows each log has
  \* The worker process.
  pc,         \* where runLoop is
  start,      \* each contract's startBlock as this boot resolved it
  announced,  \* HeadSignal.primaryHead, 0 when none was announced
  flagged,    \* HeadSignal.flagged: an announcement nobody waited for
  target,     \* the head this round aims at
  viaSignal,  \* whether that head came from the announcer
  from, to,   \* the planned range
  answered,   \* which requests of the round have been answered
  got,        \* the logs getLogs returned
  queryHead,  \* the head the completeness guard read
  size,       \* RangeSizer.current
  clean,      \* RangeSizer.clean
  phase,      \* PhaseTracker.phase
  \* Observation and bounds.
  promised,   \* the start each contract had when the cursor was initialised
  faults      \* faults so far

chainVars == <<chain, nodeHead>>
dbVars    == <<cursor, stored, dead, promised>>
roundVars == <<target, viaSignal, from, to>>
replyVars == <<answered, got, queryHead>>
sizerVars == <<size, clean>>
vars == <<chainVars, dbVars, pc, start, announced, flagged, roundVars,
          replyVars, sizerVars, phase, faults>>

-----------------------------------------------------------------------------
NoCursor == -2

Phases == {"Provisioning", "Backfilling", "Live", "Degraded"}

PCs == {"boot", "bootstrap", "round", "fetch", "commit", "idle", "backoff"}

Lower(a, b) == IF a < b THEN a ELSE b

Higher(a, b) == IF a < b THEN b ELSE a

(* blocks.ts: an omitted start is the head, a negative one counts back from *)
(* it (never below 0), anything else is a block number.                     *)
ResolveStart(s, head) ==
  IF s = Tail THEN head ELSE IF s < 0 THEN Higher(0, head + s) ELSE s

(* pipeline.ts: the cursor starts just before the earliest contract.       *)
SetInitialCursor ==
  \E c \in Contracts :
    /\ \A d \in Contracts : start[c] <= start[d]
    /\ cursor' = start[c] - 1

(* A log the batch turns into a row or a dead letter: it has an EventDef    *)
(* and its contract had started.                                           *)
Kept(l) == l.kind # "untracked" /\ start[l.contract] <= l.block

(* What a node answers to eth_getLogs: silently nothing past its own head.  *)
LogsSeen(n, a, b) ==
  {l \in Logs : a <= l.block /\ l.block <= b /\ l.block <= nodeHead[n]}

Init ==
  /\ chain = 0
  /\ nodeHead = [n \in Nodes |-> 0]
  /\ cursor = NoCursor
  /\ stored = {}
  /\ dead = [l \in Logs |-> 0]
  /\ promised = [c \in Contracts |-> 0]
  /\ pc = "boot"
  /\ start = [c \in Contracts |-> 0]
  /\ announced = 0
  /\ flagged = FALSE
  /\ target = 0 /\ viaSignal = FALSE /\ from = 0 /\ to = 0
  /\ answered = {} /\ got = {} /\ queryHead = 0
  /\ size = Batch /\ clean = 0
  /\ phase = "Provisioning"
  /\ faults = 0

-----------------------------------------------------------------------------
(* The chain, the nodes and the announcers.                                *)

ProduceBlock ==
  /\ chain < MaxBlock
  /\ chain' = chain + 1
  /\ UNCHANGED <<nodeHead, dbVars, pc, start, announced, flagged, roundVars,
                 replyVars, sizerVars, phase, faults>>

ImportBlock(n) ==
  /\ nodeHead[n] < chain
  /\ nodeHead' = [nodeHead EXCEPT ![n] = @ + 1]
  /\ UNCHANGED <<chain, dbVars, pc, start, announced, flagged, roundVars,
                 replyVars, sizerVars, phase, faults>>

(* A newHeads message: HeadSignal.notify.  Only the primary connection      *)
(* moves the target; any announcement ends a wait, or is latched when       *)
(* nobody waits.  An announcer may be ahead of every query node.            *)
Announce(b, primary) ==
  /\ pc \notin {"boot", "bootstrap"}
  /\ announced' = IF primary THEN Higher(announced, b) ELSE announced
  /\ IF pc = "idle"
       THEN pc' = "round" /\ UNCHANGED flagged
       ELSE flagged' = TRUE /\ UNCHANGED pc
  /\ UNCHANGED <<chainVars, dbVars, start, roundVars, replyVars, sizerVars,
                 phase, faults>>

-----------------------------------------------------------------------------
(* Boot.                                                                   *)

(* main.ts: relative starts are resolved against the head of this boot.    *)
ResolveStarts(n) ==
  /\ pc = "boot"
  /\ start' = [c \in Contracts |-> ResolveStart(StartOf[c], nodeHead[n])]
  /\ pc' = "bootstrap"
  /\ UNCHANGED <<chainVars, dbVars, announced, flagged, roundVars, replyVars,
                 sizerVars, phase, faults>>

(* bootstrapIndexer: the cursor is written only where there is none.        *)
InitCursor ==
  /\ pc = "bootstrap"
  /\ IF cursor = NoCursor
       THEN SetInitialCursor /\ promised' = start
       ELSE UNCHANGED <<cursor, promised>>
  /\ pc' = "round"
  /\ UNCHANGED <<chainVars, stored, dead, start, announced, flagged,
                 roundVars, replyVars, sizerVars, phase, faults>>

-----------------------------------------------------------------------------
(* One round: runOnce.                                                     *)

(* Mutant: a wait clears the latch and sleeps all the same.                *)
WaitClearingLatch == pc' = "idle" /\ flagged' = FALSE

(* HeadSignal.wait: a latched announcement ends it at once.                *)
Wait ==
  /\ pc' = IF flagged THEN "round" ELSE "idle"
  /\ flagged' = FALSE

NoReplies == answered' = {} /\ got' = {} /\ queryHead' = 0

(* Mutants of the plan: Backfilling is never entered from Live; a round    *)
(* with nothing to do leaves the phase alone; the last block is read again  *)
(* instead of being guarded.                                               *)
PlanWith(head, first, signalled, idlePhase, workPhase) ==
  /\ target' = head
  /\ IF head <= cursor
       THEN Wait /\ phase' = idlePhase /\ UNCHANGED <<viaSignal, from, to>>
       ELSE /\ viaSignal' = signalled
            /\ from' = first /\ to' = Lower(head, cursor + size)
            /\ phase' = workPhase
            /\ pc' = "fetch" /\ UNCHANGED flagged

PlanStayingLive(head, signalled) ==
  PlanWith(head, cursor + 1, signalled, "Live",
           IF phase = "Live" THEN "Live" ELSE "Backfilling")

PlanKeepingPhase(head, signalled) ==
  PlanWith(head, cursor + 1, signalled, phase, "Backfilling")

PlanRereading(head, signalled) ==
  PlanWith(head, cursor, FALSE, "Live", "Backfilling")

(* planRange, and the phase it implies: Live with nothing to do, and        *)
(* Backfilling when one round cannot reach the head or the worker was not   *)
(* Live yet.                                                               *)
Plan(head, signalled) ==
  /\ target' = head
  /\ IF head <= cursor
       THEN /\ phase' = "Live"
            /\ Wait
            /\ UNCHANGED <<viaSignal, from, to>>
       ELSE /\ viaSignal' = signalled
            /\ from' = cursor + 1
            /\ to' = Lower(head, cursor + size)
            /\ phase' = IF to' < head \/ phase # "Live" THEN "Backfilling"
                                                        ELSE phase
            /\ pc' = "fetch"
            /\ UNCHANGED flagged

HasSignal == Latest /\ announced > cursor

TargetFromSignal ==
  /\ pc = "round"
  /\ HasSignal
  /\ Plan(announced, TRUE)
  /\ UNCHANGED <<chainVars, dbVars, start, announced, replyVars, sizerVars,
                 faults>>

TargetFromRpc(n) ==
  /\ pc = "round"
  /\ ~HasSignal
  /\ Plan(nodeHead[n], FALSE)
  /\ UNCHANGED <<chainVars, dbVars, start, announced, replyVars, sizerVars,
                 faults>>

RangeFits == to - from + 1 <= ProviderCap

(* The round's getLogs and, under an announced target, a head read beside   *)
(* it: two requests of one Promise.all, answered in any order unless        *)
(* HeadFirst says that the logs are never read before the head.             *)
AnswerLogs(n) ==
  /\ pc = "fetch" /\ RangeFits
  /\ viaSignal /\ HeadFirst => "head" \in answered
  /\ "logs" \notin answered
  /\ answered' = answered \cup {"logs"}
  /\ got' = LogsSeen(n, from, to)
  /\ UNCHANGED <<chainVars, dbVars, pc, start, announced, flagged, roundVars,
                 queryHead, sizerVars, phase, faults>>

AnswerHead(n) ==
  /\ pc = "fetch" /\ viaSignal
  /\ "head" \notin answered
  /\ answered' = answered \cup {"head"}
  /\ queryHead' = nodeHead[n]
  /\ UNCHANGED <<chainVars, dbVars, pc, start, announced, flagged, roundVars,
                 got, sizerVars, phase, faults>>

(* Mutant: the guard skips a round but never shortens one.                 *)
GuardWithoutClamp ==
  /\ pc = "fetch"
  /\ answered = IF viaSignal THEN {"logs", "head"} ELSE {"logs"}
  /\ IF viaSignal /\ queryHead < from
       THEN Wait /\ NoReplies
       ELSE pc' = "commit" /\ UNCHANGED <<answered, queryHead, got, flagged>>
  /\ UNCHANGED <<chainVars, dbVars, start, announced, roundVars, sizerVars,
                 phase, faults>>

(* The completeness guard: when the target was announced, only what the    *)
(* query node has seen is kept, and the round is skipped when it has seen   *)
(* none of it.                                                             *)
Guard ==
  /\ pc = "fetch"
  /\ answered = IF viaSignal THEN {"logs", "head"} ELSE {"logs"}
  /\ IF viaSignal /\ queryHead < from
       THEN Wait /\ NoReplies /\ UNCHANGED to
       ELSE /\ pc' = "commit"
            /\ to' = IF viaSignal THEN Lower(queryHead, to) ELSE to
            /\ got' = {l \in got : l.block <= to'}
            /\ UNCHANGED <<answered, queryHead, flagged>>
  /\ UNCHANGED <<chainVars, dbVars, start, announced, target, viaSignal, from,
                 sizerVars, phase, faults>>

(* Mutant: a capped range is retried with the same span.                   *)
ShrinkNothing ==
  /\ pc = "fetch" /\ ~RangeFits
  /\ pc' = "round"
  /\ NoReplies
  /\ UNCHANGED <<chainVars, dbVars, start, announced, flagged, roundVars,
                 sizerVars, phase, faults>>

(* A provider cap is retried at once with half the span: RangeSizer.shrink. *)
ShrinkSpan ==
  /\ pc = "fetch" /\ ~RangeFits
  /\ "logs" \notin answered
  /\ size > 1
  /\ size' = Higher(1, size \div 2)
  /\ clean' = 0
  /\ pc' = "round"
  /\ NoReplies
  /\ UNCHANGED <<chainVars, dbVars, start, announced, flagged, roundVars,
                 phase, faults>>

(* Mutant: a log that does not decode is dropped.                          *)
WriteBatchDroppingDead ==
  /\ stored' = stored \cup {l \in got : Kept(l) /\ l.kind = "event"}
  /\ cursor' = to
  /\ UNCHANGED <<dead, promised>>

(* commitBatch's transaction: rows (ON CONFLICT DO NOTHING), dead letters   *)
(* (no conflict target) and the cursor.                                    *)
WriteBatch ==
  /\ stored' = stored \cup {l \in got : Kept(l) /\ l.kind = "event"}
  /\ dead' = [l \in Logs |->
                IF l \in got /\ Kept(l) /\ l.kind = "undecodable"
                  THEN dead[l] + 1 ELSE dead[l]]
  /\ cursor' = to
  /\ UNCHANGED promised

(* RangeSizer.succeeded *)
GrowSpan ==
  IF size >= Batch THEN UNCHANGED <<size, clean>>
  ELSE IF clean + 1 < GrowAfter THEN clean' = clean + 1 /\ UNCHANGED size
  ELSE size' = Lower(Batch, size * 2) /\ clean' = 0

Commit ==
  /\ pc = "commit"
  /\ WriteBatch
  /\ GrowSpan
  /\ phase' = IF to = target THEN "Live" ELSE phase
  /\ pc' = "round"
  /\ NoReplies
  /\ UNCHANGED <<chainVars, start, announced, flagged, roundVars, faults>>

-----------------------------------------------------------------------------
(* The outer loop, and what goes wrong.                                    *)

(* runLoop's catch: Degraded, then a backoff.                              *)
Degrade ==
  /\ faults < MaxFaults
  /\ faults' = faults + 1
  /\ phase' = "Degraded"
  /\ pc' = "backoff"
  /\ NoReplies
  /\ UNCHANGED <<chainVars, start, announced, flagged, roundVars, sizerVars>>

(* A request or the transaction fails; nothing was written.                *)
Fail ==
  /\ pc \in {"round", "fetch", "commit"}
  /\ Degrade
  /\ UNCHANGED dbVars

(* Mutant: the cursor is a statement of its own, after the transaction.    *)
RowsWithoutCursor ==
  /\ pc = "commit"
  /\ stored' = stored \cup {l \in got : Kept(l) /\ l.kind = "event"}
  /\ dead' = [l \in Logs |->
                IF l \in got /\ Kept(l) /\ l.kind = "undecodable"
                  THEN dead[l] + 1 ELSE dead[l]]
  /\ UNCHANGED <<cursor, promised>>
  /\ Degrade

(* COMMIT took effect and its acknowledgement was lost.                    *)
CommitUnacknowledged ==
  /\ pc = "commit"
  /\ WriteBatch
  /\ Degrade

Retry ==
  /\ pc = "backoff"
  /\ pc' = "round"
  /\ UNCHANGED <<chainVars, dbVars, start, announced, flagged, roundVars,
                 replyVars, sizerVars, phase, faults>>

(* polling.intervalMs, the safety net under the announcements.             *)
PollTimer ==
  /\ pc = "idle"
  /\ pc' = "round"
  /\ UNCHANGED <<chainVars, dbVars, start, announced, flagged, roundVars,
                 replyVars, sizerVars, phase, faults>>

(* The process dies and a new one boots; only the schema is left.          *)
Crash ==
  /\ faults < MaxFaults
  /\ faults' = faults + 1
  /\ pc # "boot"
  /\ pc' = "boot"
  /\ start' = [c \in Contracts |-> 0]
  /\ announced' = 0
  /\ flagged' = FALSE
  /\ target' = 0 /\ viaSignal' = FALSE /\ from' = 0 /\ to' = 0
  /\ NoReplies
  /\ size' = Batch /\ clean' = 0
  /\ phase' = "Provisioning"
  /\ UNCHANGED <<chainVars, dbVars>>

-----------------------------------------------------------------------------
WorkerStep ==
  \/ \E n \in Nodes : ResolveStarts(n)
  \/ InitCursor
  \/ TargetFromSignal
  \/ \E n \in Nodes : TargetFromRpc(n)
  \/ \E n \in Nodes : AnswerLogs(n)
  \/ \E n \in Nodes : AnswerHead(n)
  \/ Guard
  \/ ShrinkSpan
  \/ Commit
  \/ Retry
  \/ PollTimer

Next ==
  \/ WorkerStep
  \/ ProduceBlock
  \/ \E n \in Nodes : ImportBlock(n)
  \/ \E b \in 1 .. chain, primary \in BOOLEAN : Announce(b, primary)
  \/ Fail
  \/ CommitUnacknowledged
  \/ Crash

Spec == Init /\ [][Next]_vars

(* The process runs and its timers fire; a node imports what the chain has. *)
(* Neither the chain, nor the announcers, nor a fault is owed.              *)
FairSpec ==
  /\ Spec
  /\ WF_vars(WorkerStep)
  /\ \A n \in Nodes : WF_vars(ImportBlock(n))

-----------------------------------------------------------------------------
(* Properties.                                                             *)

(* Every variable stays in its range: the heads never pass the chain and    *)
(* the span stays between 1 and polling.batchBlocks.                        *)
ChainTypeOK ==
  /\ chain \in 0 .. MaxBlock
  /\ nodeHead \in [Nodes -> 0 .. chain]

SchemaTypeOK ==
  /\ cursor \in Int /\ cursor >= NoCursor
  /\ stored \subseteq Logs
  /\ dead \in [Logs -> Nat]
  /\ promised \in [Contracts -> Nat]

WorkerTypeOK ==
  /\ pc \in PCs
  /\ start \in [Contracts -> Nat]
  /\ announced \in 0 .. chain
  /\ flagged \in BOOLEAN
  /\ size \in 1 .. Batch
  /\ clean \in 0 .. GrowAfter
  /\ phase \in Phases
  /\ faults \in 0 .. MaxFaults

RoundTypeOK ==
  /\ target \in 0 .. chain
  /\ viaSignal \in BOOLEAN
  /\ from \in 0 .. chain /\ to \in 0 .. chain
  /\ answered \subseteq {"logs", "head"}
  /\ got \subseteq Logs
  /\ queryHead \in 0 .. chain

TypeOK == ChainTypeOK /\ SchemaTypeOK /\ WorkerTypeOK /\ RoundTypeOK

(* A log the schema owes its readers once the cursor is past its block.    *)
Owed(l) == l.kind # "untracked" /\ promised[l.contract] <= l.block

(* Rows up to _cursor are complete: whatever happened between the node, the *)
(* announcer, the guard, the transaction and the restarts, each log at or   *)
(* below the cursor is a row, or a dead letter when it does not decode.     *)
Complete ==
  \A l \in Logs :
    cursor # NoCursor /\ Owed(l) /\ l.block <= cursor
      => IF l.kind = "event" THEN l \in stored ELSE dead[l] > 0

(* Nothing is visible ahead of the cursor, so a reader that stops at the    *)
(* cursor never reads half a range, and nothing from before a start.        *)
NothingAhead ==
  \A l \in Logs : l \in stored \/ dead[l] > 0 => l.block <= cursor /\ Owed(l)

(* A retried or resumed range never writes a dead letter twice, although    *)
(* that INSERT has no conflict target: a lost acknowledgement moves the     *)
(* cursor too, and the next round starts from the stored cursor.            *)
DeadOnce == \A l \in Logs : dead[l] <= 1

(* History behind the cursor is settled: a step only adds rows above the    *)
(* cursor it started from, so a follower that read up to it has read all.   *)
SettledHistory ==
  [][/\ stored \subseteq stored'
     /\ \A l \in stored' \ stored : l.block > cursor]_vars

(* Once written, the cursor is never reset by a boot nor moved back by a    *)
(* round that a slower query node answered.                                *)
CursorForward == [][cursor # NoCursor => cursor' >= cursor]_vars

(* A worker that calls itself Live, which is what lets the insight loop     *)
(* run, trails the head it last aimed at by at most one full batch.         *)
LiveMeansNear == phase = "Live" => target - cursor <= Batch

(* No step sleeps through an announcement (signal.ts:19-57): a newer head   *)
(* starts a round or is latched; a worker goes to sleep, or stays asleep,   *)
(* with nothing latched before or after the step; and what is latched is    *)
(* only ever given up for a new round, at the end of one that moved         *)
(* nothing, or lost with the process.                                       *)
NoSleepThrough ==
  [][/\ announced' > announced => flagged' \/ pc' = "round"
     /\ pc' = "idle" => ~flagged /\ ~flagged'
     /\ flagged /\ ~flagged'
          => pc' = "boot" \/ (pc' = "round" /\ cursor' = cursor)]_vars

(* Every block the chain produces is eventually behind the cursor, through  *)
(* caps, skipped rounds, faults and restarts.                               *)
CatchesUp == \A b \in 1 .. MaxBlock : chain >= b ~> cursor >= b

(* Once the chain rests and the faults are over the worker becomes Live and *)
(* stays Live: Degraded and Backfilling are always left.                   *)
SettlesLive == <>[](phase = "Live")

(* The pipeline implements the abstract follower of PrefixFollower: each    *)
(* commit handles exactly the next blocks' logs, all of them.               *)
Wanted ==
  {l \in Logs : l.kind # "untracked" /\ StartOf[l.contract] <= l.block}

Handled == {l \in Logs : l \in stored \/ dead[l] > 0}

Follower == INSTANCE PrefixFollower WITH Items <- Wanted, done <- Handled

FollowsChain == Follower!Spec

=============================================================================
