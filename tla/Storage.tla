------------------------------- MODULE Storage -------------------------------
(***************************************************************************)
(* How a worker writes a schema of storage layout 2 (worker/src/db.ts,     *)
(* core/src/partitions.ts): a batch is one transaction that creates the    *)
(* partitions this process has not made yet, gives new addresses their     *)
(* ids, inserts table by table and moves the cursor; a partition the       *)
(* batches have moved past has its indexes rebuilt in the background.      *)
(*                                                                         *)
(* Several sessions meet on the tables' locks: the workers of the schema   *)
(* (one, or two while a lost pod still runs) and a reader that joins an    *)
(* event table to _blocks, as the explorer does. The server's locks are    *)
(* modelled as far as they make a session wait: CREATE ... PARTITION OF    *)
(* takes the parent exclusively, an INSERT or a SELECT shares it, a key    *)
(* another transaction has inserted is waited for, and a cycle of waiting  *)
(* sessions is broken by failing one of them. A CREATE looks for its       *)
(* partition before it waits: one that waited while another made it fails. *)
(***************************************************************************)
EXTENDS Integers, Sequences, FiniteSets

CONSTANTS
  Writers,    \* the workers of the schema
  Compacting, \* those with a Compactor
  Reader,     \* the session that reads
  Tables,     \* the row tables, numbered in the order of their names
  BlocksTable,\* _blocks
  ReadOrder,  \* the tables the reader takes, in its order
  Logs,       \* per block its logs, in order: the table and the addresses of each
  Size,       \* partition_blocks
  Batch,      \* most blocks to a batch
  Addresses,
  None,       \* no partition seen, no job
  MaxFaults   \* faults and restarts                              (bound)

LastBlock == Len(Logs)
Blocks == 1..LastBlock
Sessions == Writers \cup {Reader}
PartitionOf(b) == b \div Size
Parts == Tables \X {PartitionOf(b) : b \in Blocks}

ASSUME StorageAssumption ==
  /\ Tables \subseteq Nat /\ IsFiniteSet(Tables) /\ BlocksTable \in Tables /\ Compacting \subseteq Writers
  /\ IsFiniteSet(Writers) /\ IsFiniteSet(Addresses)
  /\ Reader \notin Writers /\ Size \in Nat \ {0} /\ Batch \in Nat \ {0} /\ MaxFaults \in Nat
  /\ Logs \in Seq(Seq([table : Tables \ {BlocksTable}, addresses : SUBSET Addresses]))
  /\ None \notin Nat \cup Parts /\ ReadOrder \in Seq(Tables)

VARIABLES
  parts, rows, idOf, cursor, \* what is committed
  index,    \* per partition: its indexes have grown, are rebuilt, or one is invalid
  faults,
  pc,       \* per worker: idle, ddl, create, resolve, insert
  range,    \* the blocks of its batch
  todo,     \* partitions still to create
  order,    \* tables still to insert into, in the order of the batch
  newParts, \* created in the transaction
  fresh,    \* addresses the INSERT found unknown
  newIds,   \* ids given in the transaction
  excl, shared, \* per session, the tables it has locked
  reading,  \* the tables the reader still wants
  made, lastSeen, \* Partitions: created and committed by this process; newest per table
  jobs,     \* Compactor.tail: partitions handed over
  stage,    \* the running job: idle, reindex, drop, release
  unlimited,\* its session has no statement timeout
  pooled,   \* its session is in the pool
  spared    \* history: partitions whose clean-up failed or was cut off

tables == <<parts, rows, idOf, cursor>>
txVars == <<range, todo, order, newParts, fresh, newIds>>
memo == <<made, lastSeen>>
compaction == <<index, jobs, stage, unlimited, pooled, spared>>
vars == <<tables, faults, pc, txVars, excl, shared, reading, memo, compaction>>

Set(f, k, v) == [f EXCEPT ![k] = v]
Max(S) == CHOOSE x \in S : \A y \in S : y <= x
Lower(a, b) == IF a < b THEN a ELSE b

-----------------------------------------------------------------------------
(* What a batch of blocks from..to carries.                                *)
In(r) == {b \in Blocks : r[1] <= b /\ b <= r[2] /\ Logs[b] # <<>>}
Ns(r) == {PartitionOf(b) : b \in In(r)}
LogsIn(r) == {k \in In(r) \X (1..Max({Len(Logs[c]) : c \in Blocks})) : k[2] <= Len(Logs[k[1]])}
LogAt(k) == Logs[k[1]][k[2]]
Earlier(k, l) == k[1] < l[1] \/ (k[1] = l[1] /\ k[2] < l[2])
EventTables(r) == {LogAt(k).table : k \in LogsIn(r)}
WrittenTables(r) == IF In(r) = {} THEN {} ELSE {BlocksTable} \cup EventTables(r)
Wanted(r) == UNION {LogAt(k).addresses : k \in LogsIn(r)}

(* commitBatch inserts into _blocks, then in the order of the first rows.  *)
FirstOf(r, t) == CHOOSE k \in LogsIn(r) : /\ LogAt(k).table = t
                                         /\ \A l \in LogsIn(r) : LogAt(l).table = t => ~Earlier(l, k)
InsertOrder(r) ==
  IF In(r) = {} THEN <<>>
  ELSE <<BlocksTable>> \o
       CHOOSE s \in [1..Cardinality(EventTables(r)) -> EventTables(r)] :
         \A i, j \in DOMAIN s : i < j => Earlier(FirstOf(r, s[i]), FirstOf(r, s[j]))

(* Partitions.plan: every table of the batch, for every partition number.  *)
Plan(w, r) == (WrittenTables(r) \X Ns(r)) \ made[w]

(* Mutant: in whatever order the tables and blocks came.                   *)
FirstInAny(p, S) == p \in S

(* ... sorted by table and number: one lock order for every writer.        *)
First(p, S) ==
  /\ p \in S
  /\ \A q \in S : p[1] < q[1] \/ (p[1] = q[1] /\ p[2] <= q[2])

Init ==
  /\ parts = {} /\ rows = {} /\ idOf = [a \in {} |-> 0] /\ cursor = 0
  /\ index = [p \in Parts |-> "grown"]
  /\ faults = 0
  /\ pc = [w \in Writers |-> "idle"]
  /\ range = [w \in Writers |-> <<1, 0>>]
  /\ todo = [w \in Writers |-> {}] /\ order = [w \in Writers |-> <<>>]
  /\ newParts = todo /\ fresh = todo
  /\ newIds = [w \in Writers |-> idOf]
  /\ excl = [s \in Sessions |-> {}] /\ shared = excl
  /\ reading = <<>>
  /\ made = todo
  /\ lastSeen = [w \in Writers |-> [t \in Tables |-> None]]
  /\ jobs = order /\ stage = [w \in Writers |-> "idle"]
  /\ unlimited = [w \in Writers |-> FALSE] /\ pooled = [w \in Writers |-> TRUE]
  /\ spared = {}

-----------------------------------------------------------------------------
(* Locks.                                                                  *)
Foreign(s, locks) == UNION {locks[o] : o \in Sessions \ {s}}

(* The rows of table t that w is about to insert and o has inserted.       *)
Contested(w, o, t) ==
  /\ o \in Writers /\ t \in shared[o]
  /\ \E b \in In(range[w]) \cap In(range[o]) : t = BlocksTable \/ t \in EventTables(<<b, b>>)

NextParts(w) == {p \in todo[w] : First(p, todo[w])}
Holds(p, o) == p[1] \in excl[o] \cup shared[o]

WaitsFor(s, o) ==
  /\ s # o
  /\ \/ s = Reader /\ reading # <<>> /\ Head(reading) \in excl[o]
     \/ /\ s \in Writers /\ pc[s] = "create" /\ \E p \in NextParts(s) : Holds(p, o)
        /\ \A p \in NextParts(s) : \E q \in Sessions \ {s} : Holds(p, q)
     \/ /\ s \in Writers /\ o \in Writers /\ pc[s] = "resolve"
        /\ fresh[s] \cap DOMAIN newIds[o] # {}
     \/ /\ s \in Writers /\ pc[s] = "insert" /\ order[s] # <<>>
        /\ Head(order[s]) \in excl[o] \/ Contested(s, o, Head(order[s]))

Free(s) == \A o \in Sessions : ~WaitsFor(s, o)

Deadlocked(s) ==
  \E o \in Sessions : /\ WaitsFor(s, o)
                      /\ WaitsFor(o, s) \/ (\E q \in Sessions : WaitsFor(o, q) /\ WaitsFor(q, s))

-----------------------------------------------------------------------------
(* runOnce: a batch behind the stored cursor; BEGIN.                       *)
Begin(w) ==
  /\ pc[w] = "idle" /\ cursor < LastBlock
  /\ \E to \in (cursor + 1)..Lower(LastBlock, cursor + Batch) :
       LET r == <<cursor + 1, to>>
       IN /\ range' = Set(range, w, r)
          /\ todo' = Set(todo, w, Plan(w, r))
          /\ order' = Set(order, w, InsertOrder(r))
  /\ pc' = Set(pc, w, "ddl")
  /\ UNCHANGED <<tables, faults, newParts, fresh, newIds, excl, shared, reading, memo, compaction>>

(* CREATE TABLE IF NOT EXISTS ... PARTITION OF: done if it exists when the *)
(* statement starts ...                                                    *)
AskPartition(w) ==
  /\ pc[w] = "ddl"
  /\ \E p \in NextParts(w) :
       IF p \in parts THEN todo' = Set(todo, w, todo[w] \ {p}) /\ UNCHANGED pc
       ELSE pc' = Set(pc, w, "create") /\ UNCHANGED todo
  /\ UNCHANGED <<tables, faults, range, order, newParts, fresh, newIds, excl, shared, reading, memo,
                 compaction>>

(* ... else made once the parent is locked, if nobody else did meanwhile.  *)
CreatePartition(w) ==
  /\ pc[w] = "create"
  /\ \E p \in NextParts(w) \ parts :
       /\ \A o \in Sessions \ {w} : ~Holds(p, o)
       /\ todo' = Set(todo, w, todo[w] \ {p})
       /\ newParts' = Set(newParts, w, newParts[w] \cup {p})
       /\ excl' = Set(excl, w, excl[w] \cup {p[1]})
  /\ pc' = Set(pc, w, "ddl")
  /\ UNCHANGED <<tables, faults, range, order, fresh, newIds, shared, reading, memo, compaction>>

(* resolveAddresses: what its INSERT finds unknown when it starts ...      *)
Unknown(w) == Wanted(range[w]) \ DOMAIN idOf

StartIds(w) ==
  /\ pc[w] = "ddl" /\ todo[w] = {}
  /\ fresh' = Set(fresh, w, Unknown(w))
  /\ pc' = Set(pc, w, "resolve")
  /\ UNCHANGED <<tables, faults, range, todo, order, newParts, newIds, excl, shared, reading, memo,
                 compaction>>

(* Mutant: the ids are not read back.                                      *)
GivenToAll(w, ids) == ids

(* An address that is there by now keeps its id.                           *)
Given(w, ids) == [a \in fresh[w] \ DOMAIN idOf |-> ids[a]]

(* An id nobody has: the sequence never gives one twice, the model may once *)
(* it was rolled back, which no row may notice.                             *)
Ids == 1..(Cardinality(Addresses) * (1 + Cardinality(Writers)))
Taken == UNION ({{idOf[a] : a \in DOMAIN idOf}}
                \cup {{newIds[w][a] : a \in DOMAIN newIds[w]} : w \in Writers})
NextIds(S) == CHOOSE f \in [S -> Ids \ Taken] : \A a, b \in S : a # b => f[a] # f[b]

(* ... gets an id each, for nothing where another was faster.              *)
Resolve(w) ==
  /\ pc[w] = "resolve" /\ Free(w)
  /\ newIds' = Set(newIds, w, Given(w, NextIds(fresh[w])))
  /\ pc' = Set(pc, w, "insert")
  /\ UNCHANGED <<tables, faults, range, todo, order, newParts, fresh, excl, shared, reading, memo, compaction>>

Placed(w) == \A b \in In(range[w]) : <<Head(order[w]), PartitionOf(b)>> \in parts \cup newParts[w]

InsertRows(w) ==
  /\ pc[w] = "insert" /\ order[w] # <<>> /\ Free(w) /\ Placed(w)
  /\ shared' = Set(shared, w, shared[w] \cup {Head(order[w])})
  /\ order' = Set(order, w, Tail(order[w]))
  /\ UNCHANGED <<tables, faults, pc, range, todo, newParts, fresh, newIds, excl, reading, memo,
                 compaction>>

(* The transaction's session is free again.                                *)
EndTx(w) ==
  /\ pc' = Set(pc, w, "idle")
  /\ range' = Set(range, w, <<1, 0>>) /\ todo' = Set(todo, w, {}) /\ order' = Set(order, w, <<>>)
  /\ newParts' = Set(newParts, w, {}) /\ fresh' = Set(fresh, w, {})
  /\ newIds' = Set(newIds, w, [a \in {} |-> 0])
  /\ excl' = Set(excl, w, {}) /\ shared' = Set(shared, w, {})

(* A row holds the ids of its addresses; one that is there already stays.  *)
Known(w) == [a \in DOMAIN idOf \cup DOMAIN newIds[w] |->
               IF a \in DOMAIN newIds[w] THEN newIds[w][a] ELSE idOf[a]]
RowOf(k, ids) == <<k, {ids[a] : a \in LogAt(k).addresses}>>
Stored == {row[1] : row \in rows}

(* Mutant: the cursor is where the next batch will end.                    *)
WrittenAhead(w) ==
  /\ parts' = parts \cup newParts[w]
  /\ idOf' = Known(w)
  /\ rows' = rows \cup {RowOf(k, Known(w)) : k \in LogsIn(range[w]) \ Stored}
  /\ cursor' = Lower(LastBlock, range[w][2] + 1)

Written(w) ==
  /\ parts' = parts \cup newParts[w]
  /\ idOf' = Known(w)
  /\ rows' = rows \cup {RowOf(k, Known(w)) : k \in LogsIn(range[w]) \ Stored}
  /\ cursor' = range[w][2]

(* Partitions.committed: what the batch created is remembered, and what    *)
(* it moved past is finished if this process made it.                      *)
Newest(r) == Max(Ns(r))

Advanced(w) == {t \in WrittenTables(range[w]) :
                  lastSeen[w][t] # None /\ lastSeen[w][t] < Newest(range[w])}

Finished(w) == {p \in made[w] \cup Plan(w, range[w]) :
                  p[1] \in Advanced(w) /\ lastSeen[w][p[1]] <= p[2] /\ p[2] < Newest(range[w])}

Seen(w) == [t \in Tables |->
  IF t \in WrittenTables(range[w]) /\ (lastSeen[w][t] = None \/ t \in Advanced(w))
  THEN Newest(range[w]) ELSE lastSeen[w][t]]

InTurn(S) == CHOOSE s \in [1..Cardinality(S) -> S] : \A i, j \in DOMAIN s : i < j => s[i] # s[j]

Committed(w) ==
  /\ made' = Set(made, w, made[w] \cup Plan(w, range[w]))
  /\ lastSeen' = Set(lastSeen, w, Seen(w))
  /\ IF w \in Compacting
     THEN jobs' = Set(jobs, w, jobs[w] \o InTurn(Finished(w)))
     ELSE UNCHANGED jobs

CanCommit(w) == pc[w] = "insert" /\ order[w] = <<>>

Commit(w) ==
  /\ CanCommit(w)
  /\ Written(w) /\ Committed(w) /\ EndTx(w)
  /\ UNCHANGED <<faults, reading, index, stage, unlimited, pooled, spared>>

(* The COMMIT is done and its answer lost: nothing is remembered.          *)
CommitUnacknowledged(w) ==
  /\ CanCommit(w) /\ faults < MaxFaults
  /\ Written(w) /\ EndTx(w)
  /\ faults' = faults + 1
  /\ UNCHANGED <<reading, memo, compaction>>

(* Mutant: a batch that failed keeps its partitions in mind.               *)
ForgetNothing(w) == made' = Set(made, w, made[w] \cup Plan(w, range[w])) /\ UNCHANGED lastSeen

Forget(w) == UNCHANGED memo

(* An INSERT without its partition, and a CREATE of one that exists by the *)
(* time it may go on, are sure to fail.                                    *)
Doomed(w) ==
  \/ pc[w] = "insert" /\ order[w] # <<>> /\ ~Placed(w)
  \/ pc[w] = "create" /\ NextParts(w) \subseteq parts /\ Free(w)

(* ROLLBACK after a statement failed.                                      *)
Rollback(w) ==
  /\ pc[w] \in {"ddl", "create", "resolve", "insert"}
  /\ \/ faults < MaxFaults /\ faults' = faults + 1
     \/ (Deadlocked(w) \/ Doomed(w)) /\ UNCHANGED faults
  /\ Forget(w) /\ EndTx(w)
  /\ UNCHANGED <<tables, reading, compaction>>

-----------------------------------------------------------------------------
(* The reader: one query over its tables, which it locks one by one.       *)
Query ==
  /\ reading = <<>> /\ shared[Reader] = {}
  /\ reading' = ReadOrder
  /\ UNCHANGED <<tables, faults, pc, txVars, excl, shared, memo, compaction>>

Lock ==
  /\ reading # <<>> /\ Free(Reader)
  /\ shared' = Set(shared, Reader, shared[Reader] \cup {Head(reading)})
  /\ reading' = Tail(reading)
  /\ UNCHANGED <<tables, faults, pc, txVars, excl, memo, compaction>>

(* It has read, or the server failed it.                                   *)
EndQuery ==
  /\ shared[Reader] # {}
  /\ reading = <<>> \/ Deadlocked(Reader)
  /\ reading' = <<>> /\ shared' = Set(shared, Reader, {})
  /\ UNCHANGED <<tables, faults, pc, txVars, excl, memo, compaction>>

-----------------------------------------------------------------------------
(* Compactor: one job at a time, on a session of its own.                  *)
Fault == faults < MaxFaults /\ faults' = faults + 1

(* connect() and SET statement_timeout = 0.                                *)
Connect(w) ==
  /\ stage[w] = "idle" /\ jobs[w] # <<>>
  /\ \/ /\ pooled' = Set(pooled, w, FALSE) /\ unlimited' = Set(unlimited, w, TRUE)
        /\ stage' = Set(stage, w, "reindex") /\ UNCHANGED faults
     \/ /\ Fault /\ stage' = Set(stage, w, "drop") /\ UNCHANGED <<pooled, unlimited>>
  /\ UNCHANGED <<tables, pc, txVars, excl, shared, reading, memo, index, jobs, spared>>

Job(w) == Head(jobs[w])

Reindex(w) ==
  /\ stage[w] = "reindex"
  /\ \/ /\ index' = Set(index, Job(w), "rebuilt")
        /\ unlimited' = Set(unlimited, w, FALSE)
        /\ stage' = Set(stage, w, "release") /\ UNCHANGED faults
     \/ /\ Fault
        /\ \E left \in {index[Job(w)], "invalid"} : index' = Set(index, Job(w), left)
        /\ stage' = Set(stage, w, "drop") /\ UNCHANGED unlimited
  /\ UNCHANGED <<tables, pc, txVars, excl, shared, reading, memo, jobs, pooled, spared>>

(* dropInvalid, which also restores the timeout.                           *)
DropInvalid(w) ==
  /\ index' = Set(index, Job(w), IF index[Job(w)] = "invalid" THEN "grown" ELSE index[Job(w)])
  /\ unlimited' = Set(unlimited, w, FALSE)

Drop(w) ==
  /\ stage[w] = "drop"
  /\ \/ DropInvalid(w) /\ UNCHANGED spared
     \/ spared' = spared \cup {Job(w)} /\ UNCHANGED <<index, unlimited>>
  /\ stage' = Set(stage, w, "release")
  /\ UNCHANGED <<tables, faults, pc, txVars, excl, shared, reading, memo, jobs, pooled>>

(* Mutant: the timeout is restored only on success.                        *)
ReleaseOnly(w) == UNCHANGED unlimited

ResetTimeout(w) == unlimited' = Set(unlimited, w, FALSE)

(* finally: RESET, whatever failed, and back to the pool. A RESET fails    *)
(* only with its session, which the pool then drops.                       *)
Release(w) ==
  /\ stage[w] = "release"
  /\ ResetTimeout(w)
  /\ pooled' = Set(pooled, w, TRUE)
  /\ jobs' = Set(jobs, w, Tail(jobs[w]))
  /\ stage' = Set(stage, w, "idle")
  /\ UNCHANGED <<tables, faults, pc, txVars, excl, shared, reading, memo, index, spared>>

-----------------------------------------------------------------------------
(* The process ends; its jobs are dropped and a running REINDEX is cut     *)
(* off. A new process remembers no partition.                              *)
Restart(w) ==
  /\ Fault
  /\ made' = Set(made, w, {}) /\ lastSeen' = Set(lastSeen, w, [t \in Tables |-> None])
  /\ IF stage[w] = "reindex"
     THEN index' = Set(index, Job(w), "invalid") ELSE UNCHANGED index
  /\ spared' = IF stage[w] \in {"reindex", "drop"} THEN spared \cup {Job(w)} ELSE spared
  /\ jobs' = Set(jobs, w, <<>>) /\ stage' = Set(stage, w, "idle")
  /\ unlimited' = Set(unlimited, w, FALSE) /\ pooled' = Set(pooled, w, TRUE)
  /\ EndTx(w)
  /\ UNCHANGED <<tables, reading>>

WriterStep(w) ==
  \/ Begin(w) \/ AskPartition(w) \/ CreatePartition(w) \/ StartIds(w) \/ Resolve(w)
  \/ InsertRows(w) \/ Commit(w) \/ CommitUnacknowledged(w) \/ Rollback(w)
CompactorStep(w) == Connect(w) \/ Reindex(w) \/ Drop(w) \/ Release(w)
ReaderStep == Lock \/ EndQuery

Next ==
  \/ \E w \in Writers : WriterStep(w) \/ CompactorStep(w) \/ Restart(w)
  \/ Query \/ ReaderStep

Spec == Init /\ [][Next]_vars

(* Statements end, the server finds deadlocks, and its lock queues serve a *)
(* waiting session before those that come later.                           *)
FairSpec ==
  /\ Spec /\ WF_vars(ReaderStep)
  /\ \A w \in Writers : SF_vars(WriterStep(w)) /\ WF_vars(CompactorStep(w))

-----------------------------------------------------------------------------
TypeOK ==
  /\ parts \subseteq Parts /\ cursor \in 0..LastBlock /\ faults \in 0..MaxFaults
  /\ pc \in [Writers -> {"idle", "ddl", "create", "resolve", "insert"}]
  /\ \A w \in Writers :
       /\ range[w] \in (1..LastBlock + 1) \X (0..LastBlock)
       /\ todo[w] \subseteq Parts /\ newParts[w] \subseteq Parts /\ made[w] \subseteq Parts
       /\ order[w] \in Seq(Tables) /\ jobs[w] \in Seq(Parts)
       /\ stage[w] \in {"idle", "reindex", "drop", "release"}
  /\ excl \in [Sessions -> SUBSET Tables] /\ shared \in [Sessions -> SUBSET Tables]

(* A partition believed to exist exists, whatever was rolled back, repeated *)
(* or lost (db.ts:109-112); else no batch of its range would ever succeed.  *)
MadeExist == \A w \in Writers : made[w] \subseteq parts

(* Transactions that create partitions do not cross (db.ts:134-135).        *)
LockOrder ==
  \A v, w \in Writers :
    pc[v] = "create" /\ pc[w] = "create" => ~(WaitsFor(v, w) /\ WaitsFor(w, v))

(* Each id in a row is the one id of its address (db.ts:300-305): a batch   *)
(* that failed or raced another leaves no id that means nobody, or another. *)
(* An id is used up only for an address no earlier block had: the key is an *)
(* integer, and known addresses come with every block.                      *)
Addressed ==
  /\ \A a, b \in DOMAIN idOf : a # b => idOf[a] # idOf[b]
  /\ \A row \in rows : /\ LogAt(row[1]).addresses \subseteq DOMAIN idOf
                       /\ row[2] = {idOf[a] : a \in LogAt(row[1]).addresses}
  /\ \A w \in Writers : fresh[w] \cap Wanted(<<1, range[w][1] - 1>>) = {}

(* Two workers may move the cursor back, but never past what is stored.     *)
CursorCovered == cursor > 0 => LogsIn(<<1, cursor>>) \subseteq Stored

(* Whatever fails (db.ts:185-244): no session without a statement timeout   *)
(* is in the pool, and an invalid index stays only where dropping it failed *)
(* or was cut off.                                                          *)
Tidy ==
  /\ \A w \in Writers : pooled[w] => ~unlimited[w]
  /\ \A p \in Parts : index[p] = "invalid" =>
       p \in spared \/ (\E w \in Writers : stage[w] = "drop" /\ Job(w) = p)

(* Failures, lost answers and restarts only delay the batches, and so do    *)
(* deadlocks unless there is no end of them.                                *)
Advances == <>[](\A s \in Sessions : ~Deadlocked(s)) => []<>(cursor = LastBlock)

=============================================================================
