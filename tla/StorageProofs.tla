---------------------------- MODULE StorageProofs ----------------------------
(***************************************************************************)
(* A schema's transactions for any number of writers, any chain, partition *)
(* size and number of faults: what a process believes to exist exists, the *)
(* locks of partition DDL do not cross, the cursor passes nothing that is  *)
(* not stored, an id in a row is the one id of its address, a failed       *)
(* rebuild leaves nothing behind, and every variable keeps its type.       *)
(***************************************************************************)
EXTENDS Storage, FiniteSetTheorems, SequenceTheorems, WellFoundedInduction, TLAPS

Transaction == {"ddl", "create", "resolve", "insert"}

(* The types of what the proofs below speak about.                         *)
TypeInv ==
  /\ parts \subseteq Parts
  /\ cursor \in 0 .. LastBlock
  /\ pc \in [Writers -> {"idle"} \cup Transaction]
  /\ range \in [Writers -> Int \X (0 .. LastBlock)]
  /\ \A w \in Writers : pc[w] # "idle" => range[w][1] >= 1
  /\ todo \in [Writers -> SUBSET Parts]
  /\ newParts \in [Writers -> SUBSET Parts]
  /\ made \in [Writers -> SUBSET Parts]
  /\ excl \in [Sessions -> SUBSET Tables]
  /\ shared = [s \in Sessions |-> shared[s]]

LEMMA Chain == LastBlock \in Nat
BY StorageAssumption DEF LastBlock

(* What a batch writes lies in the partitions of the chain's blocks.       *)
LEMMA PlanTyped ==
  ASSUME NEW w \in Writers, NEW r
  PROVE  Plan(w, r) \subseteq Parts
<1>1. In(r) \subseteq Blocks
  BY DEF In
<1>2. Ns(r) \subseteq {PartitionOf(b) : b \in Blocks}
  BY <1>1 DEF Ns
<1>3. ASSUME NEW k \in LogsIn(r) PROVE LogAt(k).table \in Tables
  <2>1. k[1] \in Blocks /\ k[2] \in Int /\ 1 <= k[2] /\ k[2] <= Len(Logs[k[1]])
    <3>1. k \in In(r) \X (1 .. Max({Len(Logs[c]) : c \in Blocks})) /\ k[2] <= Len(Logs[k[1]])
      BY DEF LogsIn
    <3> DEFINE M == Max({Len(Logs[c]) : c \in Blocks})
    <3> HIDE DEF M
    <3>2. k \in In(r) \X (1 .. M) /\ k[2] <= Len(Logs[k[1]])
      BY <3>1 DEF M
    <3>3. QED BY <1>1, <3>2
  <2>2. Logs[k[1]] \in Seq([table : Tables \ {BlocksTable}, addresses : SUBSET Addresses])
    BY <2>1, StorageAssumption DEF Blocks, LastBlock
  <2> DEFINE Log == [table : Tables \ {BlocksTable}, addresses : SUBSET Addresses]
  <2>3. Logs[k[1]][k[2]] \in Log
    <3> HIDE DEF Log
    <3>1. Logs[k[1]] \in Seq(Log)
      BY <2>2 DEF Log
    <3>2. QED BY <2>1, <3>1
  <2>4. QED BY <2>3 DEF LogAt
<1>4. WrittenTables(r) \subseteq Tables
  BY <1>3, StorageAssumption DEF WrittenTables, EventTables
<1>5. QED BY <1>2, <1>4 DEF Plan, Parts

LEMMA InitTyped == Init => TypeInv
<1> SUFFICES ASSUME Init PROVE TypeInv
  OBVIOUS
<1>1. QED BY Chain DEF Init, TypeInv, Transaction

LEMMA EndTxTyped ==
  ASSUME TypeInv, NEW w \in Writers, EndTx(w)
  PROVE  /\ pc' \in [Writers -> {"idle"} \cup Transaction]
         /\ range' \in [Writers -> Int \X (0 .. LastBlock)]
         /\ \A v \in Writers : pc'[v] # "idle" => range'[v][1] >= 1
         /\ todo' \in [Writers -> SUBSET Parts]
         /\ newParts' \in [Writers -> SUBSET Parts]
         /\ excl' \in [Sessions -> SUBSET Tables]
         /\ shared' = [s \in Sessions |-> shared'[s]]
<1>1. <<1, 0>> \in Int \X (0 .. LastBlock)
  BY Chain
<1>2. pc' = [pc EXCEPT ![w] = "idle"] /\ range' = [range EXCEPT ![w] = <<1, 0>>]
  BY DEF EndTx, Set
<1>3. /\ pc' \in [Writers -> {"idle"} \cup Transaction]
      /\ range' \in [Writers -> Int \X (0 .. LastBlock)]
  BY <1>1, <1>2 DEF TypeInv
<1>4. \A v \in Writers : pc'[v] # "idle" => range'[v][1] >= 1
  BY <1>2 DEF TypeInv
<1>5. QED BY <1>3, <1>4 DEF TypeInv, EndTx, Set, Sessions

LEMMA TypeStep == TypeInv /\ [Next]_vars => TypeInv'
<1> SUFFICES ASSUME TypeInv, [Next]_vars PROVE TypeInv'
  OBVIOUS
<1> USE DEF Set
<1>1. ASSUME NEW w \in Writers, Begin(w) PROVE TypeInv'
  <2>1. PICK to \in (cursor + 1)..Lower(LastBlock, cursor + Batch) :
          /\ range' = [range EXCEPT ![w] = <<cursor + 1, to>>]
          /\ todo' = [todo EXCEPT ![w] = Plan(w, <<cursor + 1, to>>)]
    BY <1>1 DEF Begin
  <2>2. cursor \in Nat /\ Batch \in Nat /\ LastBlock \in Nat
    BY Chain, StorageAssumption DEF TypeInv
  <2>3. to \in 0 .. LastBlock /\ cursor + 1 \in Int /\ cursor + 1 >= 1
    BY <2>2 DEF Lower
  <2>4. Plan(w, <<cursor + 1, to>>) \in SUBSET Parts
    BY PlanTyped
  <2>5. <<cursor + 1, to>> \in Int \X (0 .. LastBlock)
    BY <2>3
  <2>6. range' \in [Writers -> Int \X (0 .. LastBlock)]
    BY <2>1, <2>5 DEF TypeInv
  <2>7. pc' = [pc EXCEPT ![w] = "ddl"]
        /\ UNCHANGED <<parts, cursor, newParts, made, excl, shared>>
    BY <1>1 DEF Begin, tables, memo
  <2>8. \A v \in Writers : pc'[v] # "idle" => range'[v][1] >= 1
    BY <2>1, <2>3, <2>7 DEF TypeInv
  <2>9. QED BY <2>1, <2>4, <2>6, <2>7, <2>8 DEF TypeInv, Transaction
<1>2. ASSUME NEW w \in Writers, AskPartition(w) \/ CreatePartition(w) PROVE TypeInv'
  <2>1. PICK p \in NextParts(w) :
          /\ todo' = todo \/ todo' = [todo EXCEPT ![w] = todo[w] \ {p}]
          /\ \/ UNCHANGED <<newParts, excl>>
             \/ /\ newParts' = [newParts EXCEPT ![w] = newParts[w] \cup {p}]
                /\ excl' = [excl EXCEPT ![w] = excl[w] \cup {p[1]}]
    BY <1>2 DEF AskPartition, CreatePartition
  <2>2. p \in Parts /\ p[1] \in Tables /\ w \in Sessions
    BY <2>1 DEF NextParts, Parts, TypeInv, Sessions
  <2>3. UNCHANGED <<parts, cursor, range, made, shared>>
    BY <1>2 DEF AskPartition, CreatePartition, tables, memo
  <2>4. /\ pc' \in [Writers -> {"idle"} \cup Transaction]
        /\ \A v \in Writers : pc'[v] # "idle" => pc[v] # "idle"
    BY <1>2 DEF AskPartition, CreatePartition, TypeInv, Transaction
  <2>5. todo' \in [Writers -> SUBSET Parts]
    BY <2>1 DEF TypeInv
  <2>6. newParts' \in [Writers -> SUBSET Parts]
    BY <2>1, <2>2 DEF TypeInv
  <2>7. excl' \in [Sessions -> SUBSET Tables]
    BY <2>1, <2>2 DEF TypeInv
  <2>8. /\ parts' \subseteq Parts /\ cursor' \in 0 .. LastBlock
        /\ range' \in [Writers -> Int \X (0 .. LastBlock)]
        /\ made' \in [Writers -> SUBSET Parts]
        /\ shared' = [s \in Sessions |-> shared'[s]]
    BY <2>3 DEF TypeInv
  <2>9. \A v \in Writers : pc'[v] # "idle" => range'[v][1] >= 1
    BY <2>3, <2>4 DEF TypeInv
  <2>10. QED BY <2>4, <2>5, <2>6, <2>7, <2>8, <2>9 DEF TypeInv
<1>3. ASSUME NEW w \in Writers, StartIds(w) \/ Resolve(w) PROVE TypeInv'
  <2>1. UNCHANGED <<parts, cursor, range, todo, newParts, made, excl, shared>>
    BY <1>3 DEF StartIds, Resolve, tables, memo
  <2>2. /\ pc' \in [Writers -> {"idle"} \cup Transaction]
        /\ \A v \in Writers : pc'[v] # "idle" => pc[v] # "idle"
    BY <1>3 DEF StartIds, Resolve, TypeInv, Transaction
  <2>3. QED BY <2>1, <2>2 DEF TypeInv
<1>4. ASSUME NEW w \in Writers, InsertRows(w) PROVE TypeInv'
  <2>1. shared' = [shared EXCEPT ![w] = shared[w] \cup {Head(order[w])}]
    BY <1>4 DEF InsertRows
  <2>2. shared' = [s \in Sessions |-> shared'[s]]
    BY <2>1 DEF TypeInv
  <2>3. UNCHANGED <<parts, cursor, pc, range, todo, newParts, made, excl>>
    BY <1>4 DEF InsertRows, tables, memo
  <2>4. QED BY <2>2, <2>3 DEF TypeInv
<1>5. ASSUME NEW w \in Writers, Commit(w) \/ CommitUnacknowledged(w) PROVE TypeInv'
  <2>1. Written(w) /\ EndTx(w) /\ (Committed(w) \/ UNCHANGED memo)
    BY <1>5 DEF Commit, CommitUnacknowledged
  <2>2. parts' = parts \cup newParts[w] /\ cursor' = range[w][2]
    BY <2>1 DEF Written
  <2>3. parts' \subseteq Parts /\ cursor' \in 0 .. LastBlock
    BY <2>2 DEF TypeInv
  <2>4. made' \in [Writers -> SUBSET Parts]
    <3>1. Plan(w, range[w]) \in SUBSET Parts
      BY PlanTyped
    <3>2. CASE Committed(w)
      BY <3>1, <3>2 DEF Committed, TypeInv
    <3>3. CASE UNCHANGED memo
      BY <3>3 DEF memo, TypeInv
    <3>4. QED BY <2>1, <3>2, <3>3
  <2>5. QED BY <2>1, <2>3, <2>4, EndTxTyped DEF TypeInv
<1>6. ASSUME NEW w \in Writers, Rollback(w) PROVE TypeInv'
  <2>1. EndTx(w) /\ UNCHANGED <<parts, cursor, made>>
    BY <1>6 DEF Rollback, Forget, tables, memo
  <2>2. QED BY <2>1, EndTxTyped DEF TypeInv
<1>7. ASSUME NEW w \in Writers, Restart(w) PROVE TypeInv'
  <2>1. EndTx(w) /\ UNCHANGED <<parts, cursor>> /\ made' = [made EXCEPT ![w] = {}]
    BY <1>7 DEF Restart, tables
  <2>2. made' \in [Writers -> SUBSET Parts]
    BY <2>1 DEF TypeInv
  <2>3. QED BY <2>1, <2>2, EndTxTyped DEF TypeInv
<1>8. ASSUME NEW w \in Writers, CompactorStep(w) PROVE TypeInv'
  BY <1>8 DEF CompactorStep, Connect, Reindex, Drop, Release, TypeInv, tables, txVars, memo
<1>9. CASE Query \/ Lock \/ EndQuery
  <2>1. UNCHANGED <<parts, cursor, pc, range, todo, newParts, made, excl>>
    BY <1>9 DEF Query, Lock, EndQuery, tables, txVars, memo
  <2>2. \/ UNCHANGED shared
        \/ \E S : shared' = [shared EXCEPT ![Reader] = S]
    BY <1>9 DEF Query, Lock, EndQuery
  <2>3. shared' = [s \in Sessions |-> shared'[s]]
    BY <2>2 DEF TypeInv
  <2>4. QED BY <2>1, <2>3 DEF TypeInv
<1>10. CASE UNCHANGED vars
  BY <1>10 DEF vars, tables, txVars, memo, TypeInv
<1>11. QED
  BY <1>1, <1>2, <1>3, <1>4, <1>5, <1>6, <1>7, <1>8, <1>9, <1>10
     DEF Next, WriterStep, ReaderStep

LEMMA TypeInvariant == Spec => []TypeInv
BY InitTyped, TypeStep, PTL DEF Spec

-----------------------------------------------------------------------------
(* Partitions in mind: while a transaction runs, what its batch needs and   *)
(* this process did not make is either still to do, in the transaction, or  *)
(* there.                                                                   *)
MadeInv ==
  /\ MadeExist
  /\ \A w \in Writers :
       /\ pc[w] # "idle" => Plan(w, range[w]) \subseteq todo[w] \cup newParts[w] \cup parts
       /\ pc[w] \in {"resolve", "insert"} => todo[w] = {}

(* A step that neither touches what the writers have in mind nor removes a  *)
(* partition.                                                               *)
LEMMA MadeKept ==
  ASSUME MadeInv, parts \subseteq parts', UNCHANGED <<pc, range, todo, newParts, made>>
  PROVE  MadeInv'
BY DEF MadeInv, MadeExist, Plan

LEMMA MadeStep == TypeInv /\ MadeInv /\ [Next]_vars => MadeInv'
<1> SUFFICES ASSUME TypeInv, MadeInv, [Next]_vars PROVE MadeInv'
  OBVIOUS
<1> USE DEF Set
<1>1. ASSUME NEW w \in Writers, Begin(w) PROVE MadeInv'
  <2>1. PICK to \in (cursor + 1)..Lower(LastBlock, cursor + Batch) :
          /\ range' = [range EXCEPT ![w] = <<cursor + 1, to>>]
          /\ todo' = [todo EXCEPT ![w] = Plan(w, <<cursor + 1, to>>)]
    BY <1>1 DEF Begin
  <2>2. pc' = [pc EXCEPT ![w] = "ddl"] /\ UNCHANGED <<parts, newParts, made>>
    BY <1>1 DEF Begin, tables, memo
  <2>3. range'[w] = <<cursor + 1, to>> /\ todo'[w] = Plan(w, range'[w])
    BY <2>1 DEF TypeInv
  <2>4. pc'[w] = "ddl"
    BY <2>2 DEF TypeInv
  <2>5. ASSUME NEW v \in Writers, v # w
        PROVE  pc'[v] = pc[v] /\ range'[v] = range[v] /\ todo'[v] = todo[v]
    BY <2>1, <2>2, <2>5 DEF TypeInv
  <2>6. ASSUME NEW v \in Writers PROVE Plan(v, range[v])' = Plan(v, range'[v])
    BY <2>2 DEF Plan
  <2>7. /\ Plan(w, range[w])' \subseteq todo'[w]
        /\ \A v \in Writers : v # w => Plan(v, range[v])' = Plan(v, range[v])
    BY <2>3, <2>5, <2>6
  <2>8. QED BY <2>2, <2>4, <2>5, <2>7 DEF MadeInv, MadeExist
<1>2. ASSUME NEW w \in Writers, AskPartition(w) \/ CreatePartition(w) PROVE MadeInv'
  <2>1. PICK p \in NextParts(w) :
          \/ UNCHANGED <<todo, newParts>>
          \/ /\ todo' = [todo EXCEPT ![w] = todo[w] \ {p}]
             /\ \/ p \in parts /\ UNCHANGED newParts
                \/ newParts' = [newParts EXCEPT ![w] = newParts[w] \cup {p}]
    BY <1>2 DEF AskPartition, CreatePartition
  <2>2. /\ UNCHANGED <<parts, range, made>>
        /\ \A v \in Writers : pc'[v] = pc[v] \/ (pc[v] # "idle" /\ pc'[v] \in {"ddl", "create"})
    BY <1>2 DEF AskPartition, CreatePartition, tables, memo, TypeInv
  <2>3. ASSUME NEW v \in Writers PROVE Plan(v, range[v])' = Plan(v, range[v])
    BY <2>2 DEF Plan
  <2>4. \A v \in Writers : /\ todo'[v] \subseteq todo[v]
                           /\ todo[v] \cup newParts[v] \cup parts
                                \subseteq todo'[v] \cup newParts'[v] \cup parts
    <3>1. CASE UNCHANGED <<todo, newParts>>
      BY <3>1
    <3>2. CASE \/ todo' = [todo EXCEPT ![w] = todo[w] \ {p}] /\ p \in parts /\ UNCHANGED newParts
               \/ /\ todo' = [todo EXCEPT ![w] = todo[w] \ {p}]
                  /\ newParts' = [newParts EXCEPT ![w] = newParts[w] \cup {p}]
      BY <3>2 DEF TypeInv
    <3>3. QED BY <2>1, <3>1, <3>2
  <2>5. QED BY <2>2, <2>3, <2>4 DEF MadeInv, MadeExist
<1>3. ASSUME NEW w \in Writers, StartIds(w) \/ Resolve(w) PROVE MadeInv'
  <2>1. UNCHANGED <<parts, range, todo, newParts, made>>
    BY <1>3 DEF StartIds, Resolve, tables, memo
  <2>2. \A v \in Writers : /\ pc'[v] # "idle" => pc[v] # "idle"
                           /\ pc'[v] \in {"resolve", "insert"} =>
                                pc[v] \in {"resolve", "insert"} \/ todo[v] = {}
    BY <1>3 DEF StartIds, Resolve, TypeInv
  <2>3. ASSUME NEW v \in Writers PROVE Plan(v, range[v])' = Plan(v, range[v])
    BY <2>1 DEF Plan
  <2>4. QED BY <2>1, <2>2, <2>3 DEF MadeInv, MadeExist
<1>4. ASSUME NEW w \in Writers, InsertRows(w) PROVE MadeInv'
  BY <1>4, MadeKept DEF InsertRows, tables, memo
<1>5. ASSUME NEW w \in Writers, EndTx(w), parts \subseteq parts',
             \A v \in Writers : v = w \/ made'[v] = made[v], made'[w] \subseteq parts'
      PROVE  MadeInv'
  <2>1. pc'[w] = "idle"
    BY <1>5 DEF EndTx, TypeInv
  <2>2. ASSUME NEW v \in Writers, v # w
        PROVE  pc'[v] = pc[v] /\ range'[v] = range[v] /\ todo'[v] = todo[v]
               /\ newParts'[v] = newParts[v]
    BY <1>5, <2>2 DEF EndTx, TypeInv
  <2>3. ASSUME NEW v \in Writers, v # w PROVE Plan(v, range[v])' = Plan(v, range[v])
    BY <1>5, <2>2, <2>3 DEF Plan
  <2>4. QED BY <1>5, <2>1, <2>2, <2>3 DEF MadeInv, MadeExist
<1>6. ASSUME NEW w \in Writers, Commit(w) \/ CommitUnacknowledged(w) PROVE MadeInv'
  <2>1. /\ Written(w) /\ EndTx(w) /\ (Committed(w) \/ UNCHANGED memo)
        /\ pc[w] = "insert"
    BY <1>6 DEF Commit, CommitUnacknowledged, CanCommit
  <2>2. parts' = parts \cup newParts[w]
    BY <2>1 DEF Written
  <2>3. Plan(w, range[w]) \subseteq parts' /\ made[w] \subseteq parts'
    BY <2>1, <2>2 DEF MadeInv, MadeExist
  <2>4. /\ \A v \in Writers : v = w \/ made'[v] = made[v]
        /\ made'[w] \subseteq made[w] \cup Plan(w, range[w])
    BY <2>1 DEF Committed, memo, TypeInv
  <2>5. QED BY <1>5, <2>1, <2>2, <2>3, <2>4
<1>7. ASSUME NEW w \in Writers, Rollback(w) PROVE MadeInv'
  BY <1>5, <1>7 DEF Rollback, Forget, tables, memo, MadeInv, MadeExist
<1>8. ASSUME NEW w \in Writers, Restart(w) PROVE MadeInv'
  <2>1. EndTx(w) /\ UNCHANGED parts /\ made' = [made EXCEPT ![w] = {}]
    BY <1>8 DEF Restart, tables
  <2>2. made'[w] = {} /\ \A v \in Writers : v = w \/ made'[v] = made[v]
    BY <2>1 DEF TypeInv
  <2>3. QED BY <1>5, <2>1, <2>2
<1>9. ASSUME NEW w \in Writers, CompactorStep(w) PROVE MadeInv'
  BY <1>9, MadeKept DEF CompactorStep, Connect, Reindex, Drop, Release, tables, txVars, memo
<1>10. CASE Query \/ Lock \/ EndQuery
  BY <1>10, MadeKept DEF Query, Lock, EndQuery, tables, txVars, memo
<1>11. CASE UNCHANGED vars
  BY <1>11, MadeKept DEF vars, tables, txVars, memo
<1>12. QED
  BY <1>1, <1>2, <1>3, <1>4, <1>6, <1>7, <1>8, <1>9, <1>10, <1>11
     DEF Next, WriterStep, ReaderStep

(* Whatever is rolled back, repeated or not acknowledged, and however many  *)
(* workers write: a partition a process believes it made exists, so that no *)
(* batch leaves one out and fails for ever (db.ts:109-112).                 *)
THEOREM MadeExistHolds == Spec => []MadeExist
<1>1. Init => MadeInv
  BY DEF Init, MadeInv, MadeExist
<1>2. MadeInv => MadeExist
  BY DEF MadeInv
<1>3. QED BY <1>1, <1>2, TypeInvariant, MadeStep, PTL DEF Spec

-----------------------------------------------------------------------------
(* The locks: a parent is locked exclusively by one session, and while a    *)
(* transaction creates partitions it has locked nothing behind what is left *)
(* to create, and no table for rows.                                        *)
LockInv ==
  /\ \A v, w \in Writers : v # w => excl[v] \cap excl[w] = {}
  /\ \A w \in Writers :
       /\ pc[w] = "idle" => excl[w] = {} /\ shared[w] = {}
       /\ pc[w] \in {"ddl", "create"} =>
            /\ shared[w] = {}
            /\ \A t \in excl[w] : \A p \in todo[w] : t <= p[1]

LEMMA WritersAreSessions == \A w \in Writers : w \in Sessions /\ w # Reader
BY StorageAssumption DEF Sessions

LEMMA LockStep == TypeInv /\ LockInv /\ [Next]_vars => LockInv'
<1> SUFFICES ASSUME TypeInv, LockInv, [Next]_vars PROVE LockInv'
  OBVIOUS
<1> USE DEF Set
<1>1. ASSUME NEW w \in Writers, Begin(w) PROVE LockInv'
  <2>1. pc[w] = "idle" /\ UNCHANGED <<excl, shared>> /\ pc' = [pc EXCEPT ![w] = "ddl"]
        /\ \E S : todo' = [todo EXCEPT ![w] = S]
    BY <1>1 DEF Begin
  <2>2. pc'[w] = "ddl" /\ excl'[w] = {} /\ shared'[w] = {}
    BY <2>1 DEF TypeInv, LockInv
  <2>3. \A v \in Writers : v # w => pc'[v] = pc[v] /\ todo'[v] = todo[v]
    BY <2>1 DEF TypeInv
  <2>4. QED BY <2>1, <2>2, <2>3 DEF LockInv
<1>11. ASSUME NEW w \in Writers, AskPartition(w) PROVE LockInv'
  <2>1. /\ pc[w] = "ddl" /\ UNCHANGED <<excl, shared>>
        /\ todo' = todo \/ \E p : todo' = [todo EXCEPT ![w] = todo[w] \ {p}]
        /\ pc' = pc \/ pc' = [pc EXCEPT ![w] = "create"]
    BY <1>11 DEF AskPartition
  <2>2. \A v \in Writers : /\ todo'[v] \subseteq todo[v]
                           /\ pc'[v] = pc[v] \/ (v = w /\ pc'[v] = "create")
    BY <2>1 DEF TypeInv
  <2>3. QED BY <2>1, <2>2 DEF LockInv
<1>2. ASSUME NEW w \in Writers, CreatePartition(w) PROVE LockInv'
  <2>1. PICK p \in NextParts(w) :
          /\ \A o \in Sessions \ {w} : ~Holds(p, o)
          /\ todo' = [todo EXCEPT ![w] = todo[w] \ {p}]
          /\ excl' = [excl EXCEPT ![w] = excl[w] \cup {p[1]}]
    BY <1>2 DEF CreatePartition
  <2>2. /\ pc[w] = "create" /\ pc' = [pc EXCEPT ![w] = "ddl"] /\ UNCHANGED shared
    BY <1>2 DEF CreatePartition
  <2>3. /\ \A q \in todo[w] : p[1] <= q[1]
        /\ \A v \in Writers : v # w => p[1] \notin excl[v]
    <3>1. p \in Parts /\ \A q \in todo[w] : q \in Parts /\ (p[1] < q[1] \/ p[1] = q[1])
      BY <2>1 DEF NextParts, First, TypeInv
    <3>2. \A q \in Parts : q[1] \in Nat
      BY StorageAssumption DEF Parts
    <3>3. \A q \in todo[w] : p[1] <= q[1]
      BY <3>1, <3>2
    <3>4. \A v \in Writers : v # w => p[1] \notin excl[v]
      BY <2>1, WritersAreSessions DEF Holds
    <3>5. QED BY <3>3, <3>4
  <2>4. /\ \A v \in Writers :
             v # w => todo'[v] = todo[v] /\ excl'[v] = excl[v] /\ pc'[v] = pc[v]
        /\ todo'[w] \subseteq todo[w] /\ pc'[w] = "ddl"
        /\ excl'[w] = excl[w] \cup {p[1]}
    BY <2>1, <2>2, WritersAreSessions DEF TypeInv
  <2>5. \A t \in excl'[w] : \A q \in todo'[w] : t <= q[1]
    BY <2>2, <2>3, <2>4 DEF LockInv
  <2>6. \A v \in Writers : v # w => excl'[v] \cap excl'[w] = {}
    <3> SUFFICES ASSUME NEW v \in Writers, v # w PROVE excl'[v] \cap excl'[w] = {}
      OBVIOUS
    <3>1. excl[v] \cap excl[w] = {} /\ excl'[v] = excl[v]
      BY <2>4 DEF LockInv
    <3>2. QED BY <3>1, <2>3, <2>4
  <2>7. \A u, v \in Writers : u # v => excl'[u] \cap excl'[v] = {}
    BY <2>4, <2>6 DEF LockInv
  <2>8. \A v \in Writers : (pc'[v] = "idle" => v # w)
    BY <2>4
  <2>9. QED BY <2>2, <2>4, <2>5, <2>7, <2>8 DEF LockInv
<1>3. ASSUME NEW w \in Writers, StartIds(w) \/ Resolve(w) PROVE LockInv'
  <2>1. UNCHANGED <<excl, shared, todo>>
    BY <1>3 DEF StartIds, Resolve
  <2>2. \A v \in Writers : pc'[v] = pc[v] \/ pc'[v] \in {"resolve", "insert"}
    BY <1>3 DEF StartIds, Resolve, TypeInv
  <2>3. QED BY <2>1, <2>2 DEF LockInv
<1>4. ASSUME NEW w \in Writers, InsertRows(w) PROVE LockInv'
  <2>1. /\ pc[w] = "insert" /\ UNCHANGED <<excl, pc, todo>>
        /\ shared' = [shared EXCEPT ![w] = shared[w] \cup {Head(order[w])}]
    BY <1>4 DEF InsertRows
  <2>2. \A v \in Writers : v # w => shared'[v] = shared[v]
    BY <2>1, WritersAreSessions DEF TypeInv
  <2>3. QED BY <2>1, <2>2 DEF LockInv
<1>5. ASSUME NEW w \in Writers, EndTx(w) PROVE LockInv'
  <2>1. pc'[w] = "idle" /\ excl'[w] = {} /\ shared'[w] = {}
    BY <1>5, WritersAreSessions DEF EndTx, TypeInv
  <2>2. \A v \in Writers : v # w => /\ pc'[v] = pc[v] /\ todo'[v] = todo[v]
                                    /\ excl'[v] = excl[v] /\ shared'[v] = shared[v]
    BY <1>5, WritersAreSessions DEF EndTx, TypeInv
  <2>3. QED BY <2>1, <2>2 DEF LockInv
<1>6. ASSUME NEW w \in Writers,
             Commit(w) \/ CommitUnacknowledged(w) \/ Rollback(w) \/ Restart(w)
      PROVE  LockInv'
  BY <1>5, <1>6 DEF Commit, CommitUnacknowledged, Rollback, Restart
<1>7. ASSUME NEW w \in Writers, CompactorStep(w) PROVE LockInv'
  BY <1>7 DEF CompactorStep, Connect, Reindex, Drop, Release, LockInv, txVars
<1>8. CASE Query \/ Lock \/ EndQuery
  <2>1. UNCHANGED <<excl, pc, todo>>
        /\ (UNCHANGED shared \/ \E S : shared' = [shared EXCEPT ![Reader] = S])
    BY <1>8 DEF Query, Lock, EndQuery, txVars
  <2>2. \A v \in Writers : shared'[v] = shared[v]
    BY <2>1, WritersAreSessions DEF TypeInv
  <2>3. QED BY <2>1, <2>2 DEF LockInv
<1>9. CASE UNCHANGED vars
  BY <1>9 DEF vars, txVars, LockInv
<1>10. QED
  BY <1>1, <1>2, <1>3, <1>4, <1>6, <1>7, <1>8, <1>9, <1>11 DEF Next, WriterStep, ReaderStep

(* Partition DDL of transactions that run at once, whatever their ranges,   *)
(* never waits in a circle of two (db.ts:134-135): each has locked only      *)
(* what is not behind the other's wait.                                     *)
THEOREM LockOrderHolds == Spec => []LockOrder
<1>1. Init => LockInv
  BY WritersAreSessions DEF Init, LockInv
<1>2. TypeInv /\ LockInv => LockOrder
  <2> SUFFICES ASSUME TypeInv, LockInv, NEW v \in Writers, NEW w \in Writers,
                      pc[v] = "create", pc[w] = "create", WaitsFor(v, w), WaitsFor(w, v)
               PROVE  FALSE
    BY DEF LockOrder
  <2>1. v # w
    BY DEF WaitsFor
  <2>2. PICK p \in NextParts(v) : Holds(p, w)
    BY WritersAreSessions DEF WaitsFor
  <2>3. PICK q \in NextParts(w) : Holds(q, v)
    BY WritersAreSessions DEF WaitsFor
  <2>4. p \in todo[v] /\ p[1] \in excl[w] /\ q \in todo[w] /\ q[1] \in excl[v]
    BY <2>2, <2>3 DEF NextParts, Holds, LockInv
  <2>5. p[1] <= q[1] /\ q[1] <= p[1]
    BY <2>4 DEF LockInv
  <2>6. p[1] \in Nat /\ q[1] \in Nat
    BY <2>4, StorageAssumption DEF TypeInv, Parts
  <2>7. p[1] = q[1]
    BY <2>5, <2>6
  <2>8. QED BY <2>1, <2>4, <2>7 DEF LockInv
<1>3. QED BY <1>1, <1>2, TypeInvariant, LockStep, PTL DEF Spec

-----------------------------------------------------------------------------
(* What is stored: rows only join, and the blocks before a batch were there *)
(* when it began, although another worker may have moved the cursor since.  *)
CursorInv ==
  /\ CursorCovered
  /\ \A w \in Writers :
       pc[w] # "idle" => LogsIn(<<1, range[w][1] - 1>>) \subseteq Stored

LEMMA LogsSplit ==
  ASSUME NEW a \in Int, NEW b \in Int, a >= 1
  PROVE  LogsIn(<<1, b>>) \subseteq LogsIn(<<1, a - 1>>) \cup LogsIn(<<a, b>>)
<1> DEFINE M == Max({Len(Logs[c]) : c \in Blocks})
<1>1. \A r : LogsIn(r) = {k \in In(r) \X (1 .. M) : k[2] <= Len(Logs[k[1]])}
  BY DEF LogsIn
<1> HIDE DEF M
<1>2. Blocks \subseteq Int
  BY DEF Blocks
<1>3. In(<<1, b>>) \subseteq In(<<1, a - 1>>) \cup In(<<a, b>>)
  <2> SUFFICES ASSUME NEW c \in In(<<1, b>>)
               PROVE  c \in In(<<1, a - 1>>) \/ c \in In(<<a, b>>)
    OBVIOUS
  <2>1. c \in Blocks /\ c \in Int /\ 1 <= c /\ c <= b /\ Logs[c] # <<>>
    BY <1>2 DEF In
  <2>2. c <= a - 1 \/ a <= c
    BY <2>1
  <2>3. QED BY <2>1, <2>2 DEF In
<1>4. QED BY <1>1, <1>3

LEMMA NoLogs == \A b \in Int : b < 1 => LogsIn(<<1, b>>) = {}
<1> SUFFICES ASSUME NEW b \in Int, b < 1 PROVE LogsIn(<<1, b>>) = {}
  OBVIOUS
<1>1. In(<<1, b>>) = {}
  BY DEF In, Blocks
<1> DEFINE M == Max({Len(Logs[c]) : c \in Blocks})
<1>2. LogsIn(<<1, b>>) = {k \in In(<<1, b>>) \X (1 .. M) : k[2] <= Len(Logs[k[1]])}
  BY DEF LogsIn
<1> HIDE DEF M
<1>3. QED BY <1>1, <1>2

LEMMA CursorStep == TypeInv /\ CursorInv /\ [Next]_vars => CursorInv'
<1> SUFFICES ASSUME TypeInv, CursorInv, [Next]_vars PROVE CursorInv'
  OBVIOUS
<1> USE DEF Set
<1>1. ASSUME NEW w \in Writers, Begin(w) PROVE CursorInv'
  <2>1. PICK to \in (cursor + 1)..Lower(LastBlock, cursor + Batch) :
          range' = [range EXCEPT ![w] = <<cursor + 1, to>>]
    BY <1>1 DEF Begin
  <2>2. pc' = [pc EXCEPT ![w] = "ddl"] /\ UNCHANGED <<rows, cursor>>
    BY <1>1 DEF Begin, tables
  <2>3. cursor \in Nat /\ range'[w][1] - 1 = cursor
    BY <2>1, Chain DEF TypeInv
  <2>4. LogsIn(<<1, cursor>>) \subseteq Stored
    BY <2>3, NoLogs DEF CursorInv, CursorCovered
  <2>5. \A v \in Writers : v # w => pc'[v] = pc[v] /\ range'[v] = range[v]
    BY <2>1, <2>2 DEF TypeInv
  <2>6. Stored' = Stored
    BY <2>2 DEF Stored
  <2>7. QED BY <2>2, <2>3, <2>4, <2>5, <2>6 DEF CursorInv, CursorCovered
<1>2. ASSUME NEW w \in Writers, Written(w), EndTx(w), pc[w] # "idle" PROVE CursorInv'
  <2>1. Stored' = Stored \cup LogsIn(range[w])
    <3>1. rows' = rows \cup {RowOf(k, Known(w)) : k \in LogsIn(range[w]) \ Stored}
      BY <1>2 DEF Written
    <3>2. \A k, ids : RowOf(k, ids)[1] = k
      BY DEF RowOf
    <3> HIDE DEF RowOf
    <3>3. QED BY <3>1, <3>2 DEF Stored
  <2>2. /\ range[w][1] \in Int /\ range[w][2] \in Int /\ range[w][1] >= 1
        /\ range[w] = <<range[w][1], range[w][2]>>
    BY <1>2, Chain DEF TypeInv
  <2>3. LogsIn(<<1, range[w][2]>>) \subseteq Stored'
    BY <1>2, <2>1, <2>2, LogsSplit DEF CursorInv
  <2>4. cursor' = range[w][2]
    BY <1>2 DEF Written
  <2>5. pc'[w] = "idle"
        /\ \A v \in Writers : v # w => pc'[v] = pc[v] /\ range'[v] = range[v]
    BY <1>2 DEF EndTx, TypeInv
  <2>6. QED BY <2>1, <2>3, <2>4, <2>5 DEF CursorInv, CursorCovered
<1>3. ASSUME NEW w \in Writers, Commit(w) \/ CommitUnacknowledged(w) PROVE CursorInv'
  BY <1>2, <1>3 DEF Commit, CommitUnacknowledged, CanCommit
<1>4. ASSUME NEW w \in Writers, Rollback(w) \/ Restart(w) PROVE CursorInv'
  <2>1. EndTx(w) /\ UNCHANGED <<rows, cursor>>
    BY <1>4 DEF Rollback, Restart, tables
  <2>2. pc'[w] = "idle"
        /\ \A v \in Writers : v # w => pc'[v] = pc[v] /\ range'[v] = range[v]
    BY <2>1 DEF EndTx, TypeInv
  <2>3. QED BY <2>1, <2>2 DEF CursorInv, CursorCovered, Stored
<1>5. ASSUME NEW w \in Writers,
             \/ AskPartition(w) \/ CreatePartition(w) \/ StartIds(w) \/ Resolve(w) \/ InsertRows(w)
      PROVE  CursorInv'
  <2>1. UNCHANGED <<rows, cursor, range>>
    BY <1>5 DEF AskPartition, CreatePartition, StartIds, Resolve, InsertRows, tables
  <2>2. \A v \in Writers : pc'[v] # "idle" => pc[v] # "idle"
    BY <1>5 DEF AskPartition, CreatePartition, StartIds, Resolve, InsertRows, TypeInv
  <2>3. QED BY <2>1, <2>2 DEF CursorInv, CursorCovered, Stored
<1>6. ASSUME NEW w \in Writers, CompactorStep(w) PROVE CursorInv'
  <2>1. UNCHANGED <<rows, cursor, range, pc>>
    BY <1>6 DEF CompactorStep, Connect, Reindex, Drop, Release, tables, txVars
  <2>2. QED BY <2>1 DEF CursorInv, CursorCovered, Stored
<1>7. CASE Query \/ Lock \/ EndQuery \/ UNCHANGED vars
  <2>1. UNCHANGED <<rows, cursor, range, pc>>
    BY <1>7 DEF Query, Lock, EndQuery, tables, txVars, vars
  <2>2. QED BY <2>1 DEF CursorInv, CursorCovered, Stored
<1>8. QED
  BY <1>1, <1>3, <1>4, <1>5, <1>6, <1>7 DEF Next, WriterStep, ReaderStep

LEMMA CursorInvariant == Spec => []CursorInv
<1>1. Init => CursorInv
  BY DEF Init, CursorInv, CursorCovered
<1>2. QED BY <1>1, TypeInvariant, CursorStep, PTL DEF Spec

(* Two workers of one schema may move the cursor back and write a batch     *)
(* twice, but every log up to the cursor is stored (db.ts:405), for any     *)
(* number of workers, faults and restarts.                                  *)
THEOREM CursorCoveredHolds == Spec => []CursorCovered
<1>1. CursorInv => CursorCovered
  BY DEF CursorInv
<1>2. QED BY <1>1, CursorInvariant, PTL

-----------------------------------------------------------------------------
(* Who has an id for which address: the committed table, here under the     *)
(* reader's name, and each writer for what its transaction inserted.        *)
Held(s) == IF s = Reader THEN idOf ELSE newIds[s]

(* An address has one holder and an id one address; and once a batch has    *)
(* resolved its addresses, each is committed or its own.                    *)
OneIdEach ==
  \A r, s \in Sessions : \A a \in DOMAIN Held(r), b \in DOMAIN Held(s) :
    /\ a = b => r = s
    /\ Held(r)[a] = Held(s)[b] => a = b

IdInv ==
  /\ OneIdEach
  /\ \A s \in Sessions : DOMAIN Held(s) \subseteq Addresses
  /\ newIds = [w \in Writers |-> newIds[w]] /\ fresh \in [Writers -> SUBSET Addresses]
  /\ \A w \in Writers :
       /\ pc[w] # "insert" => DOMAIN newIds[w] = {}
       /\ pc[w] \in {"idle", "ddl", "create"} => fresh[w] = {}
       /\ pc[w] = "resolve" => Wanted(range[w]) \subseteq DOMAIN idOf \cup fresh[w]
       /\ pc[w] = "insert" => Wanted(range[w]) \subseteq DOMAIN idOf \cup DOMAIN newIds[w]

LEMMA SessionHolds == \A w \in Writers : Held(w) = newIds[w]
BY WritersAreSessions DEF Held

LEMMA LogTyped == \A r : \A k \in LogsIn(r) : LogAt(k).addresses \subseteq Addresses
<1> SUFFICES ASSUME NEW r, NEW k \in LogsIn(r) PROVE LogAt(k).addresses \subseteq Addresses
  OBVIOUS
<1> DEFINE M == Max({Len(Logs[c]) : c \in Blocks})
           Log == [table : Tables \ {BlocksTable}, addresses : SUBSET Addresses]
<1>1. k \in In(r) \X (1 .. M) /\ k[2] <= Len(Logs[k[1]])
  BY DEF LogsIn
<1>2. Logs \in Seq(Seq(Log))
  BY StorageAssumption
<1> HIDE DEF M, Log
<1>3. k[1] \in Blocks /\ k[2] \in Int /\ 1 <= k[2] /\ k[2] <= Len(Logs[k[1]])
  BY <1>1 DEF In
<1>4. Logs[k[1]] \in Seq(Log)
  BY <1>2, <1>3 DEF Blocks, LastBlock
<1>5. Logs[k[1]][k[2]] \in Log
  BY <1>3, <1>4
<1>6. QED BY <1>5 DEF LogAt, Log

LEMMA WantedTyped == \A r : Wanted(r) \subseteq Addresses
BY LogTyped DEF Wanted

LEMMA TakenAre == Taken = UNION {{Held(s)[a] : a \in DOMAIN Held(s)} : s \in Sessions}
<1> SUFFICES ASSUME NEW i
             PROVE  i \in Taken <=> \E s \in Sessions : \E a \in DOMAIN Held(s) : i = Held(s)[a]
  OBVIOUS
<1>1. i \in Taken <=> \/ \E a \in DOMAIN idOf : i = idOf[a]
                      \/ \E w \in Writers : \E a \in DOMAIN newIds[w] : i = newIds[w][a]
  <2> DEFINE committed == {idOf[a] : a \in DOMAIN idOf}
             given(w) == {newIds[w][a] : a \in DOMAIN newIds[w]}
  <2>1. Taken = UNION ({committed} \cup {given(w) : w \in Writers})
    BY DEF Taken
  <2>2. i \in committed <=> \E a \in DOMAIN idOf : i = idOf[a]
    OBVIOUS
  <2>3. \A w \in Writers : i \in given(w) <=> \E a \in DOMAIN newIds[w] : i = newIds[w][a]
    OBVIOUS
  <2> HIDE DEF committed, given
  <2>4. QED BY <2>1, <2>2, <2>3
<1>2. Held(Reader) = idOf /\ Sessions = Writers \cup {Reader}
  BY DEF Held, Sessions
<1>3. QED BY <1>1, <1>2, SessionHolds

(* No more ids are taken than there are addresses: each is that of one.     *)
LEMMA FewTaken ==
  ASSUME IdInv
  PROVE  IsFiniteSet(Taken) /\ Cardinality(Taken) <= Cardinality(Addresses)
<1> DEFINE known == {a \in Addresses : \E s \in Sessions : a \in DOMAIN Held(s)}
           owner(a) == CHOOSE s \in Sessions : a \in DOMAIN Held(s)
           id == [a \in known |-> Held(owner(a))[a]]
<1>1. ASSUME NEW a \in known, NEW s \in Sessions, a \in DOMAIN Held(s) PROVE owner(a) = s
  BY <1>1 DEF IdInv, OneIdEach
<1>2. Taken = UNION {{Held(s)[a] : a \in DOMAIN Held(s)} : s \in Sessions}
  BY TakenAre
<1>3. \A s \in Sessions : \A a \in DOMAIN Held(s) : a \in known /\ id[a] = Held(s)[a]
  BY <1>1 DEF IdInv
<1>4. id \in Surjection(known, Taken)
  <2>1. \A a \in known : \E s \in Sessions : a \in DOMAIN Held(s) /\ id[a] = Held(s)[a]
    BY <1>3
  <2> HIDE DEF id, known
  <2>2. \A a \in known : id[a] \in Taken
    BY <1>2, <2>1
  <2>3. \A i \in Taken : \E a \in known : id[a] = i
    BY <1>2, <1>3
  <2>4. DOMAIN id = known /\ id = [a \in known |-> id[a]]
    BY DEF id
  <2>5. QED BY <2>2, <2>3, <2>4 DEF Surjection, Range
<1>5. IsFiniteSet(known) /\ Cardinality(known) <= Cardinality(Addresses)
  BY StorageAssumption, FS_Subset
<1> HIDE DEF id, known
<1>6. IsFiniteSet(Taken) /\ Cardinality(Taken) <= Cardinality(known)
  BY <1>4, <1>5, FS_Surjection
<1>7. QED BY <1>5, <1>6, FS_CardinalityType, StorageAssumption

LEMMA InjectionExists ==
  ASSUME NEW S, NEW T, IsFiniteSet(S), IsFiniteSet(T), Cardinality(S) <= Cardinality(T)
  PROVE  \E f \in [S -> T] : \A a, b \in S : a # b => f[a] # f[b]
<1>1. /\ Cardinality(S) \in Nat /\ Cardinality(T) \in Nat
      /\ ExistsBijection(1 .. Cardinality(S), S) /\ ExistsBijection(1 .. Cardinality(T), T)
  BY FS_CardinalityType
<1>2. PICK g : g \in Bijection(1 .. Cardinality(S), S)
  BY <1>1 DEF ExistsBijection
<1>3. PICK h : h \in Bijection(1 .. Cardinality(T), T)
  BY <1>1 DEF ExistsBijection
<1> DEFINE place(a) == CHOOSE i \in 1 .. Cardinality(S) : g[i] = a
           f == [a \in S |-> h[place(a)]]
<1>4. \A a \in S : place(a) \in 1 .. Cardinality(S) /\ g[place(a)] = a
  BY <1>2 DEF Bijection, Surjection
<1>5. \A a \in S : place(a) \in 1 .. Cardinality(T)
  BY <1>1, <1>4
<1>6. \A i, j \in 1 .. Cardinality(T) : h[i] \in T /\ (h[i] = h[j] => i = j)
  BY <1>3 DEF Bijection, Injection, IsInjective
<1>7. \A a, b \in S : place(a) = place(b) => a = b
  BY <1>4
<1> HIDE DEF place
<1>8. f \in [S -> T] /\ \A a, b \in S : a # b => f[a] # f[b]
  BY <1>5, <1>6, <1>7
<1>9. QED BY <1>8

(* There are ids left for what a batch found unknown, and they are new.     *)
LEMMA NextIdsNew ==
  ASSUME IdInv, NEW w \in Writers
  PROVE  /\ NextIds(fresh[w]) \in [fresh[w] -> Ids \ Taken]
         /\ \A a, b \in fresh[w] : a # b => NextIds(fresh[w])[a] # NextIds(fresh[w])[b]
<1> DEFINE A == Cardinality(Addresses)
           W == Cardinality(Writers)
           F == fresh[w]
<1>1. A \in Nat /\ W \in Nat /\ W # 0
  BY StorageAssumption, FS_CardinalityType, FS_EmptySet
<1>2. A * (1 + W) \in Nat /\ A * (1 + W) >= A + A
  <2> HIDE DEF A, W
  <2>1. PICK n \in Nat : W = n + 1
    BY <1>1
  <2>2. A * n \in Nat /\ A * (1 + W) = A + A + A * n
    BY <1>1, <2>1
  <2>3. QED BY <1>1, <2>2
<1>3. IsFiniteSet(Ids) /\ Cardinality(Ids) = A * (1 + W)
  BY <1>1, <1>2, FS_Interval DEF Ids
<1>4. /\ IsFiniteSet(Ids \ Taken)
      /\ Cardinality(Ids \ Taken) = Cardinality(Ids) - Cardinality(Ids \cap Taken)
  BY <1>3, FS_Difference
<1>5. /\ IsFiniteSet(Taken) /\ Cardinality(Taken) <= A
      /\ IsFiniteSet(Ids \cap Taken) /\ Cardinality(Ids \cap Taken) <= Cardinality(Taken)
  BY FewTaken, FS_Intersection
<1>6. Cardinality(Ids \cap Taken) \in Nat /\ Cardinality(Taken) \in Nat
  BY <1>5, FS_CardinalityType
<1>7. IsFiniteSet(F) /\ Cardinality(F) <= A /\ Cardinality(F) \in Nat
  BY StorageAssumption, FS_Subset, FS_CardinalityType DEF IdInv
<1>8. Cardinality(F) <= Cardinality(Ids \ Taken)
  <2> DEFINE D == Cardinality(Ids \ Taken)
             I == Cardinality(Ids)
             C == Cardinality(Ids \cap Taken)
             T == Cardinality(Taken)
  <2>1. D = I - C /\ C <= T /\ T <= A /\ I >= A + A /\ Cardinality(F) <= A
    BY <1>2, <1>3, <1>4, <1>5, <1>7
  <2>2. I \in Nat /\ C \in Nat /\ T \in Nat /\ A \in Nat /\ Cardinality(F) \in Nat
    BY <1>1, <1>2, <1>3, <1>6, <1>7
  <2> HIDE DEF D, I, C, T, A
  <2>3. Cardinality(F) <= D
    BY <2>1, <2>2
  <2>4. QED BY <2>3 DEF D
<1>9. \E f \in [F -> Ids \ Taken] : \A a, b \in F : a # b => f[a] # f[b]
  BY <1>4, <1>7, <1>8, InjectionExists
<1>10. QED BY <1>9 DEF NextIds

(* What a transaction held is dropped, or committed with its batch.        *)
LEMMA RowsAddressed ==
  ASSUME TypeInv, CursorInv, IdInv, Addressed, NEW w \in Writers, Written(w), EndTx(w),
         pc[w] = "insert"
  PROVE  /\ IdInv'
         /\ Addressed'
<1> USE DEF Set
<1>1. /\ idOf' = Known(w) /\ newIds' = [newIds EXCEPT ![w] = [a \in {} |-> 0]]
      /\ fresh' = [fresh EXCEPT ![w] = {}]
      /\ pc' = [pc EXCEPT ![w] = "idle"] /\ range' = [range EXCEPT ![w] = <<1, 0>>]
  BY DEF Written, EndTx
<1>2. /\ DOMAIN idOf' = DOMAIN idOf \cup DOMAIN newIds[w]
      /\ \A a \in DOMAIN newIds[w] : idOf'[a] = newIds[w][a]
      /\ \A a \in DOMAIN idOf : a \notin DOMAIN newIds[w] /\ idOf'[a] = idOf[a]
  <2>1. \A a \in DOMAIN idOf : a \notin DOMAIN newIds[w]
    BY WritersAreSessions, SessionHolds DEF IdInv, OneIdEach, Held, Sessions
  <2>2. QED BY <1>1, <2>1 DEF Known
<1>3. /\ newIds'[w] = [a \in {} |-> 0] /\ fresh'[w] = {} /\ pc'[w] = "idle"
      /\ newIds' = [v \in Writers |-> newIds'[v]] /\ fresh' \in [Writers -> SUBSET Addresses]
      /\ \A v \in Writers : v # w => /\ newIds'[v] = newIds[v] /\ fresh'[v] = fresh[v]
                                     /\ pc'[v] = pc[v] /\ range'[v] = range[v]
  BY <1>1 DEF IdInv, TypeInv
<1>4. /\ Held(Reader)' = idOf' /\ Held(w)' = newIds'[w] /\ DOMAIN newIds'[w] = {}
      /\ \A s \in Sessions : s # Reader /\ s # w => Held(s)' = Held(s)
  BY <1>3, WritersAreSessions DEF Held, Sessions
<1>5. \A s \in Sessions : \A a \in DOMAIN Held(s)' :
        \E q \in Sessions : /\ a \in DOMAIN Held(q) /\ Held(s)'[a] = Held(q)[a]
                            /\ q = s \/ (s = Reader /\ q = w)
  <2> SUFFICES ASSUME NEW s \in Sessions, NEW a \in DOMAIN Held(s)'
               PROVE  \E q \in Sessions : /\ a \in DOMAIN Held(q) /\ Held(s)'[a] = Held(q)[a]
                                          /\ q = s \/ (s = Reader /\ q = w)
    OBVIOUS
  <2>1. CASE s = Reader
    BY <1>2, <1>4, <2>1, WritersAreSessions, SessionHolds DEF Held
  <2>2. CASE s # Reader
    BY <1>4, <2>2
  <2>3. QED BY <2>1, <2>2
<1>6. OneIdEach'
  <2> SUFFICES ASSUME NEW r \in Sessions, NEW s \in Sessions,
                      NEW a \in DOMAIN Held(r)', NEW b \in DOMAIN Held(s)'
               PROVE  /\ a = b => r = s
                      /\ Held(r)'[a] = Held(s)'[b] => a = b
    BY DEF OneIdEach
  <2>1. r # w /\ s # w
    BY <1>4
  <2>2. PICK p \in Sessions : /\ a \in DOMAIN Held(p) /\ Held(r)'[a] = Held(p)[a]
                              /\ p = r \/ (r = Reader /\ p = w)
    BY <1>5
  <2>3. PICK q \in Sessions : /\ b \in DOMAIN Held(q) /\ Held(s)'[b] = Held(q)[b]
                              /\ q = s \/ (s = Reader /\ q = w)
    BY <1>5
  <2>4. (a = b => p = q) /\ (Held(p)[a] = Held(q)[b] => a = b)
    BY <2>2, <2>3 DEF IdInv, OneIdEach
  <2>5. QED BY <2>1, <2>2, <2>3, <2>4
<1>7. \A s \in Sessions : DOMAIN Held(s)' \subseteq Addresses
  BY <1>5 DEF IdInv
<1>8. IdInv'
  <2> SUFFICES ASSUME NEW v \in Writers
               PROVE  /\ pc'[v] # "insert" => DOMAIN newIds'[v] = {}
                      /\ pc'[v] \in {"idle", "ddl", "create"} => fresh'[v] = {}
                      /\ pc'[v] = "resolve" =>
                           Wanted(range[v])' \subseteq DOMAIN idOf' \cup fresh'[v]
                      /\ pc'[v] = "insert" =>
                           Wanted(range[v])' \subseteq DOMAIN idOf' \cup DOMAIN newIds'[v]
    BY <1>3, <1>6, <1>7 DEF IdInv
  <2>1. CASE v = w
    BY <1>3, <1>4, <2>1
  <2>2. CASE v # w
    <3>1. Wanted(range[v])' = Wanted(range[v])
      BY <1>3, <2>2
    <3>2. QED BY <1>2, <1>3, <2>2, <3>1 DEF IdInv
  <2>3. QED BY <2>1, <2>2
<1>9. \A a, b \in DOMAIN idOf' : a # b => idOf'[a] # idOf'[b]
  BY <1>4, <1>6 DEF OneIdEach, Sessions
<1>10. ASSUME NEW row \in rows'
       PROVE  /\ LogAt(row[1]).addresses \subseteq DOMAIN idOf'
              /\ row[2] = {idOf'[a] : a \in LogAt(row[1]).addresses}
  <2>1. CASE row \in rows
    <3>1. /\ LogAt(row[1]).addresses \subseteq DOMAIN idOf
          /\ row[2] = {idOf[a] : a \in LogAt(row[1]).addresses}
      BY <2>1 DEF Addressed
    <3>2. \A a \in LogAt(row[1]).addresses : idOf'[a] = idOf[a]
      BY <1>2, <3>1
    <3>3. QED BY <1>2, <3>1, <3>2
  <2>2. CASE row \notin rows
    <3>1. PICK k \in LogsIn(range[w]) : row = RowOf(k, idOf')
      BY <1>1, <1>10, <2>2 DEF Written
    <3>2. row[1] = k /\ row[2] = {idOf'[a] : a \in LogAt(k).addresses}
      BY <3>1 DEF RowOf
    <3>3. LogAt(k).addresses \subseteq Wanted(range[w])
      BY DEF Wanted
    <3>4. Wanted(range[w]) \subseteq DOMAIN idOf'
      BY <1>2 DEF IdInv
    <3>5. QED BY <3>2, <3>3, <3>4
  <2>3. QED BY <2>1, <2>2
<1>11. \A v \in Writers : fresh'[v] \cap Wanted(<<1, range[v][1] - 1>>)' = {}
  <2> SUFFICES ASSUME NEW v \in Writers
               PROVE  fresh'[v] \cap Wanted(<<1, range'[v][1] - 1>>) = {}
    BY DEF Wanted, LogsIn, In, LogAt
  <2>1. QED BY <1>3 DEF Addressed
<1>12. Addressed'
  BY <1>9, <1>10, <1>11 DEF Addressed, LogAt
<1>13. QED BY <1>8, <1>12

(* A step that gives no id and moves no writer to another stage.           *)
LEMMA IdsKept ==
  ASSUME IdInv, Addressed, UNCHANGED <<idOf, rows, newIds, fresh, range>>,
         \A w \in Writers : pc'[w] = pc[w] \/ {pc[w], pc'[w]} \subseteq {"ddl", "create"}
  PROVE  IdInv' /\ Addressed'
<1>1. \A s \in Sessions : Held(s)' = Held(s)
  BY DEF Held
<1>2. \A w \in Writers : Wanted(range[w])' = Wanted(range[w])
  OBVIOUS
<1>3. IdInv'
  BY <1>1, <1>2 DEF IdInv, OneIdEach
<1>4. QED BY <1>3 DEF Addressed

LEMMA IdsDropped ==
  ASSUME TypeInv, IdInv, Addressed, NEW w \in Writers, EndTx(w), UNCHANGED tables
  PROVE  IdInv' /\ Addressed'
<1> USE DEF Set
<1>1. UNCHANGED <<idOf, rows>>
  BY DEF tables
<1>2. /\ newIds'[w] = [a \in {} |-> 0] /\ fresh'[w] = {} /\ pc'[w] = "idle"
      /\ newIds' = [v \in Writers |-> newIds'[v]] /\ fresh' \in [Writers -> SUBSET Addresses]
      /\ \A v \in Writers : v # w => /\ newIds'[v] = newIds[v] /\ fresh'[v] = fresh[v]
                                     /\ pc'[v] = pc[v] /\ range'[v] = range[v]
  BY DEF EndTx, IdInv, TypeInv
<1>3. \A s \in Sessions : (s = w /\ DOMAIN Held(s)' = {}) \/ Held(s)' = Held(s)
  BY <1>1, <1>2, WritersAreSessions DEF Held, Sessions
<1>4. OneIdEach' /\ \A s \in Sessions : DOMAIN Held(s)' \subseteq Addresses
  BY <1>3 DEF IdInv, OneIdEach
<1>5. ASSUME NEW v \in Writers, v # w
      PROVE  Wanted(range[v])' = Wanted(range[v])
  BY <1>2, <1>5
<1>6. IdInv'
  BY <1>1, <1>2, <1>4, <1>5 DEF IdInv
<1>7. \A v \in Writers : fresh'[v] \cap Wanted(<<1, range'[v][1] - 1>>) = {}
  BY <1>2 DEF Addressed
<1>8. QED BY <1>1, <1>6, <1>7 DEF Addressed

(* Begin: the batch has asked for nothing yet.                             *)
LEMMA IdsAtBegin ==
  ASSUME TypeInv, IdInv, Addressed, NEW w \in Writers, Begin(w)
  PROVE  IdInv' /\ Addressed'
<1> USE DEF Set
<1>1. PICK r : range' = [range EXCEPT ![w] = r]
  BY DEF Begin
<1>2. pc[w] = "idle" /\ pc' = [pc EXCEPT ![w] = "ddl"] /\ UNCHANGED <<idOf, rows, newIds, fresh>>
  BY DEF Begin, tables
<1>3. \A s \in Sessions : Held(s)' = Held(s)
  BY <1>2 DEF Held
<1>4. /\ pc'[w] = "ddl" /\ DOMAIN newIds[w] = {} /\ fresh[w] = {}
      /\ \A v \in Writers : v # w => pc'[v] = pc[v] /\ range'[v] = range[v]
  BY <1>1, <1>2 DEF TypeInv, IdInv
<1>5. ASSUME NEW v \in Writers, v # w PROVE Wanted(range[v])' = Wanted(range[v])
  BY <1>4, <1>5
<1>6. IdInv'
  BY <1>2, <1>3, <1>4, <1>5 DEF IdInv, OneIdEach
<1>7. \A v \in Writers : fresh[v] \cap Wanted(<<1, range'[v][1] - 1>>) = {}
  BY <1>4 DEF Addressed
<1>8. QED BY <1>2, <1>6, <1>7 DEF Addressed

(* StartIds: no earlier block's address is unknown, for its rows are stored *)
(* and a stored row's addresses are committed.                              *)
LEMMA IdsAsked ==
  ASSUME TypeInv, CursorInv, IdInv, Addressed, NEW w \in Writers, StartIds(w)
  PROVE  IdInv' /\ Addressed'
<1> USE DEF Set
<1>1. /\ pc[w] = "ddl" /\ pc' = [pc EXCEPT ![w] = "resolve"]
      /\ fresh' = [fresh EXCEPT ![w] = Unknown(w)]
      /\ UNCHANGED <<idOf, rows, newIds, range>>
  BY DEF StartIds, tables
<1>2. Unknown(w) = Wanted(range[w]) \ DOMAIN idOf /\ Unknown(w) \subseteq Addresses
  BY WantedTyped DEF Unknown
<1>3. Wanted(<<1, range[w][1] - 1>>) \subseteq DOMAIN idOf
  <2> SUFFICES ASSUME NEW k \in LogsIn(<<1, range[w][1] - 1>>)
               PROVE  LogAt(k).addresses \subseteq DOMAIN idOf
    BY DEF Wanted
  <2>1. k \in Stored
    BY <1>1 DEF CursorInv
  <2>2. QED BY <2>1 DEF Stored, Addressed
<1>4. \A s \in Sessions : Held(s)' = Held(s)
  BY <1>1 DEF Held
<1>5. /\ pc'[w] = "resolve" /\ fresh'[w] = Unknown(w) /\ fresh' \in [Writers -> SUBSET Addresses]
      /\ \A v \in Writers : v # w => pc'[v] = pc[v] /\ fresh'[v] = fresh[v]
  BY <1>1, <1>2 DEF TypeInv, IdInv
<1>6. \A v \in Writers : Wanted(range[v])' = Wanted(range[v])
  BY <1>1
<1>7. IdInv'
  BY <1>1, <1>2, <1>4, <1>5, <1>6 DEF IdInv, OneIdEach
<1>8. \A v \in Writers : fresh'[v] \cap Wanted(<<1, range[v][1] - 1>>) = {}
  BY <1>2, <1>3, <1>5 DEF Addressed
<1>9. QED BY <1>1, <1>7, <1>8 DEF Addressed

(* Resolve: the ids are new, and nobody else holds the addresses, for the   *)
(* statement has waited for the others' inserts.                            *)
LEMMA IdsGiven ==
  ASSUME TypeInv, IdInv, Addressed, NEW w \in Writers, Resolve(w)
  PROVE  IdInv' /\ Addressed'
<1> USE DEF Set
<1> DEFINE new == NextIds(fresh[w])
<1>1. /\ pc[w] = "resolve" /\ Free(w) /\ pc' = [pc EXCEPT ![w] = "insert"]
      /\ newIds' = [newIds EXCEPT ![w] = Given(w, new)]
      /\ UNCHANGED <<idOf, rows, fresh, range>>
  BY DEF Resolve, tables
<1>2. /\ newIds'[w] = Given(w, new) /\ pc'[w] = "insert"
      /\ newIds' = [v \in Writers |-> newIds'[v]]
      /\ \A v \in Writers : v # w => newIds'[v] = newIds[v] /\ pc'[v] = pc[v]
  BY <1>1 DEF IdInv, TypeInv
<1>3. /\ Held(w)' = Given(w, new)
      /\ \A s \in Sessions : s # w => Held(s)' = Held(s)
  BY <1>1, <1>2, WritersAreSessions DEF Held, Sessions
<1>4. /\ DOMAIN Given(w, new) = fresh[w] \ DOMAIN idOf
      /\ \A a \in DOMAIN Given(w, new) : Given(w, new)[a] = new[a]
  BY DEF Given
<1>5. \A s \in Sessions : s # w => DOMAIN Given(w, new) \cap DOMAIN Held(s) = {}
  <2> SUFFICES ASSUME NEW s \in Sessions, s # w
               PROVE  DOMAIN Given(w, new) \cap DOMAIN Held(s) = {}
    OBVIOUS
  <2>1. CASE s = Reader
    BY <1>4, <2>1 DEF Held
  <2>2. CASE s # Reader
    <3>1. s \in Writers /\ Held(s) = newIds[s]
      BY <2>2, SessionHolds DEF Sessions
    <3>2. fresh[w] \cap DOMAIN newIds[s] = {}
      BY <1>1, <3>1 DEF Free, WaitsFor
    <3>3. QED BY <1>4, <3>1, <3>2
  <2>3. QED BY <2>1, <2>2
<1>6. /\ \A a \in fresh[w] : new[a] \notin Taken
      /\ \A a, b \in fresh[w] : a # b => new[a] # new[b]
  BY NextIdsNew
<1> HIDE DEF new
<1>7. \A s \in Sessions : \A b \in DOMAIN Held(s) : Held(s)[b] \in Taken
  BY TakenAre
<1>8. OneIdEach'
  <2> SUFFICES ASSUME NEW r \in Sessions, NEW s \in Sessions,
                      NEW a \in DOMAIN Held(r)', NEW b \in DOMAIN Held(s)'
               PROVE  /\ a = b => r = s
                      /\ Held(r)'[a] = Held(s)'[b] => a = b
    BY DEF OneIdEach
  <2>1. CASE r = w /\ s = w
    BY <1>3, <1>4, <1>6, <2>1
  <2>2. CASE r = w /\ s # w
    <3>1. a \in fresh[w] /\ Held(r)'[a] = new[a] /\ b \in DOMAIN Held(s) /\ a # b
      BY <1>3, <1>4, <1>5, <2>2
    <3>2. QED BY <1>3, <1>6, <1>7, <2>2, <3>1
  <2>3. CASE r # w /\ s = w
    <3>1. b \in fresh[w] /\ Held(s)'[b] = new[b] /\ a \in DOMAIN Held(r) /\ a # b
      BY <1>3, <1>4, <1>5, <2>3
    <3>2. QED BY <1>3, <1>6, <1>7, <2>3, <3>1
  <2>4. CASE r # w /\ s # w
    BY <1>3, <2>4 DEF IdInv, OneIdEach
  <2>5. QED BY <2>1, <2>2, <2>3, <2>4
<1>9. \A s \in Sessions : DOMAIN Held(s)' \subseteq Addresses
  BY <1>3, <1>4 DEF IdInv
<1>10. \A v \in Writers : Wanted(range[v])' = Wanted(range[v])
  BY <1>1
<1>11. Wanted(range[w]) \subseteq DOMAIN idOf \cup DOMAIN newIds'[w]
  BY <1>1, <1>2, <1>4 DEF IdInv
<1>12. IdInv'
  BY <1>1, <1>2, <1>8, <1>9, <1>10, <1>11 DEF IdInv
<1>13. QED BY <1>1, <1>12 DEF Addressed

LEMMA IdStep == TypeInv /\ CursorInv /\ IdInv /\ Addressed /\ [Next]_vars => IdInv' /\ Addressed'
<1> SUFFICES ASSUME TypeInv, CursorInv, IdInv, Addressed, [Next]_vars PROVE IdInv' /\ Addressed'
  OBVIOUS
<1>1. ASSUME NEW w \in Writers, Commit(w) \/ CommitUnacknowledged(w) PROVE IdInv' /\ Addressed'
  BY <1>1, RowsAddressed DEF Commit, CommitUnacknowledged, CanCommit
<1>2. ASSUME NEW w \in Writers, Rollback(w) \/ Restart(w) PROVE IdInv' /\ Addressed'
  BY <1>2, IdsDropped DEF Rollback, Restart
<1>3. ASSUME NEW w \in Writers,
             AskPartition(w) \/ CreatePartition(w) \/ InsertRows(w) \/ CompactorStep(w)
      PROVE  IdInv' /\ Addressed'
  <2>1. UNCHANGED <<idOf, rows, newIds, fresh, range>>
    BY <1>3
       DEF AskPartition, CreatePartition, InsertRows, CompactorStep, Connect, Reindex, Drop,
           Release, tables, txVars
  <2>2. \A v \in Writers : pc'[v] = pc[v] \/ {pc[v], pc'[v]} \subseteq {"ddl", "create"}
    BY <1>3
       DEF AskPartition, CreatePartition, InsertRows, CompactorStep, Connect, Reindex, Drop,
           Release, Set, TypeInv
  <2>3. QED BY <2>1, <2>2, IdsKept
<1>4. CASE Query \/ Lock \/ EndQuery \/ UNCHANGED vars
  BY <1>4, IdsKept DEF Query, Lock, EndQuery, tables, txVars, vars
<1>5. QED
  BY <1>1, <1>2, <1>3, <1>4, IdsAtBegin, IdsAsked, IdsGiven DEF Next, WriterStep, ReaderStep

(* Each id in a row is the one id of its address, and an id is used up only *)
(* for an address no earlier block had (db.ts:300-305), for any number of   *)
(* workers that ask for the same addresses at once, and whatever is rolled  *)
(* back, repeated or not acknowledged.                                      *)
THEOREM AddressedHolds == Spec => []Addressed
<1>1. Init => IdInv /\ Addressed
  <2> SUFFICES ASSUME Init PROVE IdInv /\ Addressed
    OBVIOUS
  <2>1. \A s \in Sessions : DOMAIN Held(s) = {}
    BY DEF Init, Held, Sessions
  <2>2. OneIdEach
    BY <2>1 DEF OneIdEach
  <2>3. /\ newIds = [w \in Writers |-> newIds[w]] /\ fresh = [w \in Writers |-> {}]
        /\ rows = {} /\ DOMAIN idOf = {}
        /\ \A w \in Writers : pc[w] = "idle" /\ DOMAIN newIds[w] = {}
    BY DEF Init
  <2>4. IdInv
    BY <2>1, <2>2, <2>3 DEF IdInv
  <2>5. QED BY <2>3, <2>4 DEF Addressed
<1>2. QED BY <1>1, TypeInvariant, CursorInvariant, IdStep, PTL DEF Spec

-----------------------------------------------------------------------------
(* The Compactor: a running job has a partition, and an invalid index is    *)
(* the job's that is about to drop it, or was spared.                       *)
TidyInv ==
  /\ Tidy
  /\ index = [p \in Parts |-> index[p]]
  /\ stage \in [Writers -> {"idle", "reindex", "drop", "release"}]
  /\ jobs = [w \in Writers |-> jobs[w]]
  /\ unlimited = [w \in Writers |-> unlimited[w]] /\ pooled = [w \in Writers |-> pooled[w]]
  /\ \A w \in Writers : jobs[w] \in Seq(Parts) /\ (stage[w] # "idle" => jobs[w] # <<>>)

LEMMA PartsFinite == IsFiniteSet(Parts)
<1> DEFINE numbers == {PartitionOf(b) : b \in Blocks}
           number == [b \in Blocks |-> PartitionOf(b)]
<1>1. IsFiniteSet(Blocks)
  BY Chain, FS_Interval DEF Blocks
<1>2. number \in Surjection(Blocks, numbers)
  BY DEF Surjection
<1>3. IsFiniteSet(numbers)
  BY <1>1, <1>2, FS_Surjection
<1>4. QED BY <1>3, FS_Product, StorageAssumption DEF Parts

(* Partitions are handed over one after the other.                         *)
LEMMA InTurnTyped ==
  ASSUME NEW S \in SUBSET Parts
  PROVE  InTurn(S) \in Seq(Parts)
<1>1. IsFiniteSet(S)
  BY PartsFinite, FS_Subset
<1>2. PICK f : f \in Bijection(1 .. Cardinality(S), S)
  BY <1>1, FS_CardinalityType DEF ExistsBijection
<1>3. Cardinality(S) \in Nat
  BY <1>1, FS_CardinalityType
<1>4. /\ f \in [1 .. Cardinality(S) -> S]
      /\ \A i, j \in DOMAIN f : i < j => f[i] # f[j]
  BY <1>2, <1>3 DEF Bijection, Injection, IsInjective
<1>5. InTurn(S) \in [1 .. Cardinality(S) -> S]
  BY <1>4 DEF InTurn
<1>6. QED BY <1>3, <1>5

LEMMA FinishedTyped ==
  ASSUME TypeInv, NEW w \in Writers
  PROVE  Finished(w) \in SUBSET Parts
BY PlanTyped DEF Finished, TypeInv

LEMMA ConcatKeepsHead ==
  ASSUME NEW S, NEW s \in Seq(S), NEW t \in Seq(S)
  PROVE  s \o t \in Seq(S) /\ (s # <<>> => s \o t # <<>> /\ Head(s \o t) = Head(s))
<1>1. s \o t \in Seq(S) /\ Len(s \o t) = Len(s) + Len(t)
  OBVIOUS
<1>2. ASSUME s # <<>> PROVE s \o t # <<>> /\ Head(s \o t) = Head(s)
  <2>1. Len(s) \in Nat /\ Len(s) > 0 /\ Len(t) \in Nat
    BY <1>2
  <2>2. (s \o t)[1] = s[1]
    BY <2>1
  <2>3. QED BY <1>1, <2>1, <2>2
<1>3. QED BY <1>1, <1>2

(* No step but the Compactor's own and a restart says anything about them;  *)
(* a commit only adds to the queue.                                         *)
LEMMA TidyStep == TypeInv /\ TidyInv /\ [Next]_vars => TidyInv'
<1> SUFFICES ASSUME TypeInv, TidyInv, [Next]_vars PROVE TidyInv'
  OBVIOUS
<1> USE DEF Set
<1>1. ASSUME UNCHANGED compaction PROVE TidyInv'
  BY <1>1 DEF compaction, TidyInv, Tidy, Job
<1>2. ASSUME NEW w \in Writers, Commit(w) PROVE TidyInv'
  <2>1. UNCHANGED <<index, stage, unlimited, pooled, spared>>
        /\ (UNCHANGED jobs \/ jobs' = [jobs EXCEPT ![w] = jobs[w] \o InTurn(Finished(w))])
    BY <1>2 DEF Commit, Committed
  <2>2. InTurn(Finished(w)) \in Seq(Parts)
    BY InTurnTyped, FinishedTyped
  <2>3. ASSUME NEW v \in Writers
        PROVE  jobs'[v] \in Seq(Parts) /\ (jobs[v] # <<>> => jobs'[v] # <<>> /\ Head(jobs'[v]) = Head(jobs[v]))
    <3>1. jobs[v] \in Seq(Parts) /\ (jobs'[v] = jobs[v] \/ jobs'[v] = jobs[v] \o InTurn(Finished(w)))
      BY <2>1 DEF TidyInv
    <3>2. QED BY <2>2, <3>1, ConcatKeepsHead
  <2>4. jobs' = [v \in Writers |-> jobs'[v]]
    BY <2>1 DEF TidyInv
  <2>5. \A p \in Parts : index[p] = "invalid" =>
          p \in spared \/ (\E v \in Writers : stage[v] = "drop" /\ Head(jobs'[v]) = p)
    BY <2>3 DEF TidyInv, Tidy, Job
  <2>6. QED BY <2>1, <2>3, <2>4, <2>5 DEF TidyInv, Tidy, Job
<1>3. ASSUME NEW w \in Writers, Connect(w) PROVE TidyInv'
  <2>1. stage[w] = "idle" /\ jobs[w] # <<>> /\ UNCHANGED <<index, jobs, spared>>
    BY <1>3 DEF Connect
  <2>2. \/ /\ pooled' = [pooled EXCEPT ![w] = FALSE] /\ unlimited' = [unlimited EXCEPT ![w] = TRUE]
           /\ stage' = [stage EXCEPT ![w] = "reindex"]
        \/ stage' = [stage EXCEPT ![w] = "drop"] /\ UNCHANGED <<pooled, unlimited>>
    BY <1>3 DEF Connect
  <2>3. \A v \in Writers : pooled'[v] => ~unlimited'[v]
    BY <2>2 DEF TidyInv, Tidy
  <2>4. \A v \in Writers : v # w => stage'[v] = stage[v]
    BY <2>2 DEF TidyInv
  <2>5. \A p \in Parts : index[p] = "invalid" =>
          p \in spared \/ (\E v \in Writers : stage'[v] = "drop" /\ Job(v) = p)
    BY <2>1, <2>4 DEF TidyInv, Tidy
  <2>6. stage' \in [Writers -> {"idle", "reindex", "drop", "release"}]
        /\ unlimited' = [v \in Writers |-> unlimited'[v]]
        /\ pooled' = [v \in Writers |-> pooled'[v]]
    BY <2>2 DEF TidyInv
  <2>7. QED BY <2>1, <2>3, <2>4, <2>5, <2>6 DEF TidyInv, Tidy, Job
<1>4. ASSUME NEW w \in Writers, stage[w] # "idle" PROVE Job(w) \in Parts
  BY <1>4, HeadTailProperties DEF TidyInv, Job
<1>5. ASSUME NEW w \in Writers, Reindex(w) PROVE TidyInv'
  <2>1. stage[w] = "reindex" /\ Job(w) \in Parts /\ UNCHANGED <<jobs, pooled, spared>>
    BY <1>4, <1>5 DEF Reindex
  <2>2. \/ /\ index' = [index EXCEPT ![Job(w)] = "rebuilt"]
           /\ unlimited' = [unlimited EXCEPT ![w] = FALSE]
           /\ stage' = [stage EXCEPT ![w] = "release"]
        \/ /\ \E left : index' = [index EXCEPT ![Job(w)] = left]
           /\ stage' = [stage EXCEPT ![w] = "drop"] /\ UNCHANGED unlimited
    BY <1>5 DEF Reindex
  <2>3. \A v \in Writers : pooled[v] => ~unlimited'[v]
    BY <2>2 DEF TidyInv, Tidy
  <2>4. \A v \in Writers : v # w => stage'[v] = stage[v]
    BY <2>2 DEF TidyInv
  <2>5. ASSUME NEW p \in Parts, index'[p] = "invalid"
        PROVE  p \in spared \/ (\E v \in Writers : stage'[v] = "drop" /\ Job(v) = p)
    <3>1. CASE p # Job(w)
      <4>1. index[p] = "invalid"
        BY <2>1, <2>2, <2>5, <3>1 DEF TidyInv
      <4>2. QED BY <2>1, <2>4, <4>1, <3>1 DEF TidyInv, Tidy
    <3>2. CASE p = Job(w)
      <4>1. stage' = [stage EXCEPT ![w] = "drop"]
        BY <2>1, <2>2, <2>5, <3>2 DEF TidyInv
      <4>2. QED BY <3>2, <4>1 DEF TidyInv
    <3>3. QED BY <3>1, <3>2
  <2>6. /\ stage' \in [Writers -> {"idle", "reindex", "drop", "release"}]
        /\ index' = [p \in Parts |-> index'[p]]
        /\ unlimited' = [v \in Writers |-> unlimited'[v]]
    BY <2>2 DEF TidyInv
  <2>7. \A v \in Writers : stage'[v] # "idle" => stage[v] # "idle"
    BY <2>1, <2>4
  <2>8. QED BY <2>1, <2>3, <2>5, <2>6, <2>7 DEF TidyInv, Tidy, Job
<1>6. ASSUME NEW w \in Writers, Drop(w) PROVE TidyInv'
  <2>1. /\ stage[w] = "drop" /\ Job(w) \in Parts /\ UNCHANGED <<jobs, pooled>>
        /\ stage' = [stage EXCEPT ![w] = "release"]
    BY <1>4, <1>6 DEF Drop
  <2>2. \/ /\ UNCHANGED spared /\ unlimited' = [unlimited EXCEPT ![w] = FALSE]
           /\ index' = [index EXCEPT ![Job(w)] =
                          IF index[Job(w)] = "invalid" THEN "grown" ELSE index[Job(w)]]
        \/ spared' = spared \cup {Job(w)} /\ UNCHANGED <<index, unlimited>>
    BY <1>6 DEF Drop, DropInvalid
  <2>3. \A v \in Writers : pooled[v] => ~unlimited'[v]
    BY <2>2 DEF TidyInv, Tidy
  <2>4. \A v \in Writers : v # w => stage'[v] = stage[v]
    BY <2>1 DEF TidyInv
  <2>5. ASSUME NEW p \in Parts, index'[p] = "invalid"
        PROVE  p \in spared' \/ (\E v \in Writers : stage'[v] = "drop" /\ Job(v) = p)
    <3>1. index[p] = "invalid" /\ (p # Job(w) \/ p \in spared')
      BY <2>1, <2>2, <2>5 DEF TidyInv
    <3>2. spared \subseteq spared'
      BY <2>2
    <3>3. QED BY <2>4, <3>1, <3>2 DEF TidyInv, Tidy
  <2>6. /\ stage' \in [Writers -> {"idle", "reindex", "drop", "release"}]
        /\ index' = [p \in Parts |-> index'[p]]
        /\ unlimited' = [v \in Writers |-> unlimited'[v]]
    BY <2>1, <2>2 DEF TidyInv
  <2>7. \A v \in Writers : stage'[v] # "idle" => stage[v] # "idle"
    BY <2>1, <2>4
  <2>8. QED BY <2>1, <2>3, <2>5, <2>6, <2>7 DEF TidyInv, Tidy, Job
<1>7. ASSUME NEW w \in Writers,
             stage[w] \in {"idle", "reindex", "release"} \/ Job(w) \in spared',
             stage' = [stage EXCEPT ![w] = "idle"],
             \E S \in Seq(Parts) : jobs' = [jobs EXCEPT ![w] = S],
             pooled' = [pooled EXCEPT ![w] = TRUE],
             unlimited' = [unlimited EXCEPT ![w] = FALSE],
             spared \subseteq spared', index' = [p \in Parts |-> index'[p]],
             \A p \in Parts : index'[p] = "invalid" => index[p] = "invalid" \/ p \in spared'
      PROVE  TidyInv'
  <2>1. \A v \in Writers : v # w => stage'[v] = stage[v] /\ jobs'[v] = jobs[v]
    BY <1>7 DEF TidyInv
  <2>2. /\ stage'[w] = "idle" /\ jobs'[w] \in Seq(Parts)
        /\ stage' \in [Writers -> {"idle", "reindex", "drop", "release"}]
        /\ jobs' = [v \in Writers |-> jobs'[v]]
        /\ pooled' = [v \in Writers |-> pooled'[v]]
        /\ unlimited' = [v \in Writers |-> unlimited'[v]]
    BY <1>7 DEF TidyInv
  <2>3. \A v \in Writers : pooled'[v] => ~unlimited'[v]
    BY <1>7 DEF TidyInv, Tidy
  <2>4. ASSUME NEW p \in Parts, index'[p] = "invalid", p \notin spared'
        PROVE  \E v \in Writers : stage'[v] = "drop" /\ Head(jobs'[v]) = p
    <3>1. index[p] = "invalid" /\ p \notin spared
      BY <1>7, <2>4
    <3>2. PICK v \in Writers : stage[v] = "drop" /\ Job(v) = p
      BY <3>1 DEF TidyInv, Tidy
    <3>3. v # w
      BY <1>7, <2>4, <3>2
    <3>4. QED BY <2>1, <3>2, <3>3 DEF Job
  <2>5. QED BY <1>7, <2>1, <2>2, <2>3, <2>4 DEF TidyInv, Tidy, Job
<1>8. ASSUME NEW w \in Writers, Release(w) PROVE TidyInv'
  <2>1. stage[w] = "release" /\ jobs[w] \in Seq(Parts) /\ jobs[w] # <<>>
    BY <1>8 DEF Release, TidyInv
  <2>2. Tail(jobs[w]) \in Seq(Parts)
    BY <2>1, HeadTailProperties
  <2>3. /\ stage' = [stage EXCEPT ![w] = "idle"]
        /\ jobs' = [jobs EXCEPT ![w] = Tail(jobs[w])]
        /\ pooled' = [pooled EXCEPT ![w] = TRUE]
        /\ unlimited' = [unlimited EXCEPT ![w] = FALSE]
        /\ UNCHANGED <<index, spared>>
    BY <1>8 DEF Release, ResetTimeout
  <2>4. index' = [p \in Parts |-> index'[p]]
    BY <2>3 DEF TidyInv
  <2>5. QED BY <1>7, <2>1, <2>2, <2>3, <2>4
<1>9. ASSUME NEW w \in Writers, Restart(w) PROVE TidyInv'
  <2>1. /\ stage' = [stage EXCEPT ![w] = "idle"]
        /\ jobs' = [jobs EXCEPT ![w] = <<>>]
        /\ pooled' = [pooled EXCEPT ![w] = TRUE]
        /\ unlimited' = [unlimited EXCEPT ![w] = FALSE]
        /\ spared' = IF stage[w] \in {"reindex", "drop"} THEN spared \cup {Job(w)} ELSE spared
        /\ IF stage[w] = "reindex"
           THEN index' = [index EXCEPT ![Job(w)] = "invalid"] ELSE UNCHANGED index
    BY <1>9 DEF Restart
  <2>2. stage[w] \in {"idle", "reindex", "release"} \/ Job(w) \in spared'
    BY <2>1 DEF TidyInv
  <2>3. index' = [p \in Parts |-> index'[p]] /\ spared \subseteq spared'
    BY <2>1 DEF TidyInv
  <2>4. \A p \in Parts : index'[p] = "invalid" => index[p] = "invalid" \/ p \in spared'
    BY <2>1 DEF TidyInv
  <2>5. <<>> \in Seq(Parts)
    OBVIOUS
  <2>6. QED BY <1>7, <2>1, <2>2, <2>3, <2>4, <2>5
<1>10. ASSUME NEW w \in Writers,
              \/ Begin(w) \/ AskPartition(w) \/ CreatePartition(w) \/ StartIds(w) \/ Resolve(w) \/ InsertRows(w)
              \/ CommitUnacknowledged(w) \/ Rollback(w)
       PROVE  UNCHANGED compaction
  BY <1>10
     DEF Begin, AskPartition, CreatePartition, StartIds, Resolve, InsertRows, CommitUnacknowledged, Rollback
<1>11. CASE Query \/ Lock \/ EndQuery \/ UNCHANGED vars
  BY <1>1, <1>11 DEF Query, Lock, EndQuery, vars
<1>12. QED
  BY <1>1, <1>2, <1>3, <1>5, <1>6, <1>8, <1>9, <1>10, <1>11
     DEF Next, WriterStep, CompactorStep, ReaderStep

(* Whatever fails in a rebuild (db.ts:185-244), for any number of workers:  *)
(* no session without a statement timeout is in the pool, and an invalid    *)
(* index stays only where dropping it failed or was cut off.                *)
THEOREM TidyHolds == Spec => []Tidy
<1>1. Init => TidyInv
  BY DEF Init, TidyInv, Tidy
<1>2. TidyInv => Tidy
  BY DEF TidyInv
<1>3. QED BY <1>1, <1>2, TypeInvariant, TidyStep, PTL DEF Spec

-----------------------------------------------------------------------------
(* The rest of the types. A batch inserts into its tables one by one, in   *)
(* the order of their first rows: there is such an order.                   *)

LEMMA LogPlace ==
  ASSUME NEW r, NEW k \in LogsIn(r)
  PROVE  k \in Nat \X Nat /\ LogAt(k).table \in Tables
<1> DEFINE M == Max({Len(Logs[c]) : c \in Blocks})
           Log == [table : Tables \ {BlocksTable}, addresses : SUBSET Addresses]
<1>1. k \in In(r) \X (1 .. M) /\ k[2] <= Len(Logs[k[1]])
  BY DEF LogsIn
<1>2. Logs \in Seq(Seq(Log))
  BY StorageAssumption
<1> HIDE DEF M, Log
<1>3. k \in Blocks \X Nat /\ 1 <= k[2] /\ k[2] <= Len(Logs[k[1]])
  BY <1>1 DEF In
<1>4. Logs[k[1]] \in Seq(Log)
  BY <1>2, <1>3 DEF Blocks, LastBlock
<1>5. Logs[k[1]][k[2]] \in Log
  BY <1>3, <1>4
<1>6. QED BY <1>3, <1>5 DEF LogAt, Log, Blocks

LEMMA Least ==
  ASSUME NEW S \in SUBSET Nat, S # {}
  PROVE  \E b \in S : \A c \in S : b <= c
<1>1. PICK b \in S : \A c \in S : ~(<<c, b>> \in OpToRel(<, Nat))
  BY NatLessThanWellFounded, WFMin
<1>2. \A c \in S : ~(c < b)
  BY <1>1 DEF OpToRel
<1>3. QED BY <1>2

LEMMA FirstRow ==
  ASSUME NEW S \in SUBSET (Nat \X Nat), S # {}
  PROVE  \E k \in S : \A l \in S : ~Earlier(l, k)
<1>1. {k[1] : k \in S} \in SUBSET Nat /\ {k[1] : k \in S} # {}
  OBVIOUS
<1>2. PICK b \in {k[1] : k \in S} : \A c \in {k[1] : k \in S} : b <= c
  BY <1>1, Least
<1> DEFINE I == {k[2] : k \in {l \in S : l[1] = b}}
<1>3. I \in SUBSET Nat /\ I # {}
  BY <1>2
<1>4. PICK i \in I : \A j \in I : i <= j
  BY <1>3, Least
<1>5. PICK k \in S : k[1] = b /\ k[2] = i
  BY <1>4
<1>6. ASSUME NEW l \in S PROVE ~Earlier(l, k)
  <2>1. l \in Nat \X Nat /\ k \in Nat \X Nat /\ b <= l[1]
    BY <1>2
  <2>2. l[1] = b => i <= l[2]
    BY <1>4
  <2>3. QED BY <1>5, <2>1, <2>2 DEF Earlier
<1>7. QED BY <1>6

LEMMA FirstRows ==
  ASSUME NEW r, NEW t \in EventTables(r)
  PROVE  /\ FirstOf(r, t) \in LogsIn(r) /\ FirstOf(r, t) \in Nat \X Nat
         /\ LogAt(FirstOf(r, t)).table = t
<1> DEFINE mine == {k \in LogsIn(r) : LogAt(k).table = t}
<1>1. mine \in SUBSET (Nat \X Nat) /\ mine # {}
  BY LogPlace DEF EventTables
<1>2. PICK k \in mine : \A l \in mine : ~Earlier(l, k)
  BY <1>1, FirstRow
<1>3. QED BY <1>2, LogPlace DEF FirstOf

(* Each table at its rank: one more than the tables with an earlier row.    *)
LEMMA InsertOrderTyped ==
  ASSUME NEW r
  PROVE  InsertOrder(r) \in Seq(Tables)
<1> DEFINE T == EventTables(r)
           n == Cardinality(T)
           before(t) == {u \in T : Earlier(FirstOf(r, u), FirstOf(r, t))}
           rank == [t \in T |-> Cardinality(before(t)) + 1]
           InOrder(s) == \A i, j \in DOMAIN s : i < j => Earlier(FirstOf(r, s[i]), FirstOf(r, s[j]))
<1>1. T \in SUBSET Tables
  BY LogPlace DEF EventTables
<1>2. IsFiniteSet(T) /\ n \in Nat
  BY <1>1, StorageAssumption, FS_Subset, FS_CardinalityType
<1>3. \A t, u \in T : t # u => Earlier(FirstOf(r, t), FirstOf(r, u)) \/ Earlier(FirstOf(r, u), FirstOf(r, t))
  BY FirstRows DEF Earlier
<1>4. \A t \in T : ~Earlier(FirstOf(r, t), FirstOf(r, t))
  BY FirstRows DEF Earlier
<1>5. \A t, u, v \in T :
        Earlier(FirstOf(r, t), FirstOf(r, u)) /\ Earlier(FirstOf(r, u), FirstOf(r, v))
          => Earlier(FirstOf(r, t), FirstOf(r, v))
  BY FirstRows DEF Earlier
<1> HIDE DEF T
<1>6. ASSUME NEW t \in T PROVE rank[t] \in 1 .. n
  <2>1. before(t) \in SUBSET (T \ {t}) /\ T \ {t} \in SUBSET T
    BY <1>4
  <2>2. IsFiniteSet(T \ {t}) /\ Cardinality(T \ {t}) = n - 1
    BY <1>2, FS_RemoveElement
  <2>3. IsFiniteSet(before(t)) /\ Cardinality(before(t)) <= n - 1
    BY <2>1, <2>2, FS_Subset
  <2>4. QED BY <1>2, <2>3, FS_CardinalityType
<1>7. ASSUME NEW t \in T, NEW u \in T, Earlier(FirstOf(r, t), FirstOf(r, u)) PROVE rank[t] < rank[u]
  <2>1. before(t) \in SUBSET before(u) /\ t \in before(u) /\ t \notin before(t)
    BY <1>4, <1>5, <1>7
  <2>2. IsFiniteSet(before(u)) /\ IsFiniteSet(before(t))
    BY <1>2, FS_Subset
  <2>3. Cardinality(before(t)) <= Cardinality(before(u)) /\ Cardinality(before(t)) # Cardinality(before(u))
    BY <2>1, <2>2, FS_Subset
  <2>4. Cardinality(before(t)) \in Nat /\ Cardinality(before(u)) \in Nat
    BY <2>2, FS_CardinalityType
  <2>5. QED BY <2>3, <2>4
<1> HIDE DEF rank
<1>8. rank \in Injection(T, 1 .. n)
  <2>1. rank \in [T -> 1 .. n]
    BY <1>6 DEF rank
  <2>2. \A t, u \in T : t # u => rank[t] # rank[u]
    BY <1>3, <1>6, <1>7
  <2>3. QED BY <2>1, <2>2 DEF Injection, IsInjective
<1>9. rank \in Surjection(T, 1 .. n)
  <2>1. IsFiniteSet(1 .. n) /\ Cardinality(1 .. n) = n
    BY <1>2, FS_Interval
  <2>2. QED BY <1>2, <1>8, <2>1, FS_Injection
<1> DEFINE at(i) == CHOOSE t \in T : rank[t] = i
           inOrder == [i \in 1 .. n |-> at(i)]
<1>10. \A i \in 1 .. n : at(i) \in T /\ rank[at(i)] = i
  BY <1>9 DEF Surjection
<1>11. InOrder(inOrder) /\ inOrder \in [1 .. n -> T]
  <2> HIDE DEF at
  <2>1. inOrder \in [1 .. n -> T]
    BY <1>10
  <2>2. ASSUME NEW i \in 1 .. n, NEW j \in 1 .. n, i < j
        PROVE  Earlier(FirstOf(r, at(i)), FirstOf(r, at(j)))
    <3>1. at(i) \in T /\ at(j) \in T /\ rank[at(i)] = i /\ rank[at(j)] = j /\ at(i) # at(j)
      BY <1>10, <2>2
    <3>2. QED BY <1>2, <1>3, <1>7, <2>2, <3>1
  <2>3. QED BY <2>1, <2>2
<1> DEFINE chosen == CHOOSE s \in [1 .. n -> T] : InOrder(s)
<1>12. chosen \in [1 .. n -> T]
  <2> HIDE DEF inOrder, InOrder
  <2>1. QED BY <1>11
<1>13. chosen \in Seq(Tables)
  <2> HIDE DEF chosen, n
  <2>1. QED BY <1>1, <1>2, <1>12
<1>14. InsertOrder(r) = IF In(r) = {} THEN <<>> ELSE <<BlocksTable>> \o chosen
  BY DEF InsertOrder, T
<1>15. <<BlocksTable>> \in Seq(Tables)
  BY StorageAssumption
<1> HIDE DEF chosen
<1>16. <<BlocksTable>> \o chosen \in Seq(Tables)
  BY <1>13, <1>15
<1>17. QED BY <1>14, <1>16

RestInv ==
  /\ faults \in 0 .. MaxFaults
  /\ order \in [Writers -> Seq(Tables)]
  /\ shared \in [Sessions -> SUBSET Tables]
  /\ reading \in Seq(Tables)
  /\ \A w \in Writers : range[w][1] \in 1 .. LastBlock + 1

LEMMA EndTxRest ==
  ASSUME TypeInv, RestInv, NEW w \in Writers, EndTx(w)
  PROVE  /\ order' \in [Writers -> Seq(Tables)] /\ shared' \in [Sessions -> SUBSET Tables]
         /\ \A v \in Writers : range'[v][1] \in 1 .. LastBlock + 1
<1>1. /\ order' = [order EXCEPT ![w] = <<>>] /\ shared' = [shared EXCEPT ![w] = {}]
      /\ range' = [range EXCEPT ![w] = <<1, 0>>]
  BY DEF EndTx, Set
<1>2. <<>> \in Seq(Tables) /\ <<1, 0>>[1] \in 1 .. LastBlock + 1
  BY Chain
<1>3. QED BY <1>1, <1>2 DEF RestInv, TypeInv

LEMMA RestStep == TypeInv /\ RestInv /\ [Next]_vars => RestInv'
<1> SUFFICES ASSUME TypeInv, RestInv, [Next]_vars PROVE RestInv'
  OBVIOUS
<1>1. faults' \in 0 .. MaxFaults
  <2> DEFINE Steady == UNCHANGED faults \/ (faults < MaxFaults /\ faults' = faults + 1)
  <2>1. Steady
    <3>1. ASSUME NEW w \in Writers, Begin(w) \/ AskPartition(w) \/ CreatePartition(w) \/ StartIds(w) \/ Resolve(w)
          PROVE  Steady
      BY <3>1 DEF Begin, AskPartition, CreatePartition, StartIds, Resolve
    <3>2. ASSUME NEW w \in Writers, InsertRows(w) \/ Commit(w) \/ CommitUnacknowledged(w) \/ Rollback(w)
          PROVE  Steady
      BY <3>2 DEF InsertRows, Commit, CommitUnacknowledged, Rollback
    <3>3. ASSUME NEW w \in Writers, CompactorStep(w) \/ Restart(w) PROVE Steady
      BY <3>3 DEF CompactorStep, Connect, Reindex, Drop, Release, Restart, Fault
    <3>4. CASE Query \/ ReaderStep \/ UNCHANGED vars
      BY <3>4 DEF Query, ReaderStep, Lock, EndQuery, vars
    <3>5. QED BY <3>1, <3>2, <3>3, <3>4 DEF Next, WriterStep
  <2>2. QED BY <2>1, StorageAssumption DEF RestInv
<1>2. ASSUME UNCHANGED <<order, shared, reading, range>> PROVE RestInv'
  BY <1>1, <1>2 DEF RestInv
<1>3. ASSUME NEW w \in Writers, Begin(w) PROVE RestInv'
  <2>1. PICK to \in (cursor + 1)..Lower(LastBlock, cursor + Batch) :
          /\ range' = [range EXCEPT ![w] = <<cursor + 1, to>>]
          /\ order' = [order EXCEPT ![w] = InsertOrder(<<cursor + 1, to>>)]
    BY <1>3 DEF Begin, Set
  <2>2. InsertOrder(<<cursor + 1, to>>) \in Seq(Tables)
    BY InsertOrderTyped
  <2>3. cursor + 1 \in 1 .. LastBlock + 1
    BY Chain DEF TypeInv
  <2>4. order' \in [Writers -> Seq(Tables)]
    BY <2>1, <2>2 DEF RestInv
  <2>5. \A v \in Writers : range'[v][1] \in 1 .. LastBlock + 1
    BY <2>1, <2>3 DEF RestInv, TypeInv
  <2>6. UNCHANGED <<shared, reading>>
    BY <1>3 DEF Begin
  <2>7. QED BY <1>1, <2>4, <2>5, <2>6 DEF RestInv
<1>4. ASSUME NEW w \in Writers, InsertRows(w) PROVE RestInv'
  <2>1. /\ order[w] # <<>> /\ UNCHANGED <<range, reading>>
        /\ shared' = [shared EXCEPT ![w] = shared[w] \cup {Head(order[w])}]
        /\ order' = [order EXCEPT ![w] = Tail(order[w])]
    BY <1>4 DEF InsertRows, Set
  <2>2. Head(order[w]) \in Tables /\ Tail(order[w]) \in Seq(Tables)
    BY <2>1, HeadTailProperties DEF RestInv
  <2>3. order' \in [Writers -> Seq(Tables)]
    BY <2>1, <2>2 DEF RestInv
  <2>4. shared' \in [Sessions -> SUBSET Tables]
    BY <2>1, <2>2, WritersAreSessions DEF RestInv
  <2>5. QED BY <1>1, <2>1, <2>3, <2>4 DEF RestInv
<1>5. ASSUME NEW w \in Writers,
             Commit(w) \/ CommitUnacknowledged(w) \/ Rollback(w) \/ Restart(w)
      PROVE  RestInv'
  <2>1. EndTx(w) /\ UNCHANGED reading
    BY <1>5 DEF Commit, CommitUnacknowledged, Rollback, Restart
  <2>2. QED BY <1>1, <2>1, EndTxRest DEF RestInv
<1>6. CASE Query \/ Lock \/ EndQuery
  <2>1. UNCHANGED <<order, range>>
    BY <1>6 DEF Query, Lock, EndQuery, txVars
  <2>2. CASE Query
    BY <1>1, <2>1, <2>2, StorageAssumption DEF Query, RestInv
  <2>3. CASE Lock
    <3>1. Head(reading) \in Tables /\ Tail(reading) \in Seq(Tables)
      BY <2>3, HeadTailProperties DEF Lock, RestInv
    <3>2. shared' \in [Sessions -> SUBSET Tables]
      BY <2>3, <3>1 DEF Lock, Set, RestInv
    <3>3. QED BY <1>1, <2>1, <2>3, <3>1, <3>2 DEF Lock, RestInv
  <2>4. CASE EndQuery
    <3>1. shared' \in [Sessions -> SUBSET Tables]
      BY <2>4 DEF EndQuery, Set, RestInv
    <3>2. reading' \in Seq(Tables)
      BY <2>4 DEF EndQuery
    <3>3. QED BY <1>1, <2>1, <3>1, <3>2 DEF RestInv
  <2>5. QED BY <1>6, <2>2, <2>3, <2>4
<1>7. ASSUME NEW w \in Writers,
             AskPartition(w) \/ CreatePartition(w) \/ StartIds(w) \/ Resolve(w) \/ CompactorStep(w)
      PROVE  RestInv'
  BY <1>2, <1>7
     DEF AskPartition, CreatePartition, StartIds, Resolve, CompactorStep, Connect, Reindex, Drop,
         Release, txVars
<1>8. CASE UNCHANGED vars
  BY <1>2, <1>8 DEF vars, txVars
<1>9. QED
  BY <1>3, <1>4, <1>5, <1>6, <1>7, <1>8 DEF Next, WriterStep, ReaderStep

(* Every variable keeps its type: a batch's range is one of the chain's,    *)
(* what it creates, inserts and locks are the schema's tables and           *)
(* partitions, whatever fails.                                              *)
THEOREM StorageTyped == Spec => []TypeOK
<1>1. Init => RestInv
  <2> SUFFICES ASSUME Init PROVE RestInv
    OBVIOUS
  <2>1. <<>> \in Seq(Tables) /\ <<1, 0>>[1] \in 1 .. LastBlock + 1 /\ 0 \in 0 .. MaxFaults
    BY Chain, StorageAssumption
  <2>2. QED BY <2>1 DEF Init, RestInv
<1>2. Init => TidyInv
  BY DEF Init, TidyInv, Tidy
<1>3. TypeInv /\ TidyInv /\ RestInv => TypeOK
  <2> SUFFICES ASSUME TypeInv, TidyInv, RestInv PROVE TypeOK
    OBVIOUS
  <2>1. ASSUME NEW w \in Writers
        PROVE  /\ range[w] \in (1 .. LastBlock + 1) \X (0 .. LastBlock)
               /\ todo[w] \subseteq Parts /\ newParts[w] \subseteq Parts /\ made[w] \subseteq Parts
               /\ order[w] \in Seq(Tables) /\ jobs[w] \in Seq(Parts)
               /\ stage[w] \in {"idle", "reindex", "drop", "release"}
    BY DEF TypeInv, TidyInv, RestInv
  <2>2. QED BY <2>1 DEF TypeInv, RestInv, TypeOK, Transaction
<1>4. QED BY <1>1, <1>2, <1>3, TypeInvariant, TidyStep, RestStep, PTL DEF Spec

=============================================================================
