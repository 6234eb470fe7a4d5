---------------------------- MODULE InsightReads ----------------------------
(***************************************************************************)
(* What the insight loop reads of the chain for a round (worker/src/       *)
(* txcontext.ts, and prepareRound of insights.ts): every block with its    *)
(* receipts, the factory of each new pool, the code of each new party, all *)
(* through the endpoint pool, and from them the descriptions of the rows.  *)
(* Factories and codes are cached in bounded maps; a pool that gave no     *)
(* factory is left alone for a while.                                      *)
(*                                                                         *)
(* What the chain holds is a constant. A round that fails is read again,   *)
(* with other rows once ingest has moved on.                               *)
(***************************************************************************)
EXTENDS RpcPool, Describe, SequencesExt

CONSTANTS
  Rows,         \* the rows a round may have, each with its tx, a context with no factories yet
  FactoryOf,    \* the pools that have a factory(), and the factory
  IsContract,   \* per address, whether it has code of its own
  CacheMax,     \* CACHE_MAX
  FactoryRetry, \* FACTORY_RETRY_MS
  MaxRows,      \* how many rows a round may have
  NoRound       \* no round under way, no round described

Pools == UNION {PoolsOf(r.tx) : r \in Rows}
Addresses == DOMAIN IsContract

Block(b) == <<"block", b>>
Receipts(b) == <<"receipts", b>>
Factory(p) == <<"factory", p>>
Code(a) == <<"code", a>>

ASSUME ReadsAssumption ==
  /\ CacheMax \in Nat \ {0} /\ FactoryRetry \in Nat /\ MaxRows \in Nat \ {0}
  /\ \A r \in Rows : {Block(r.tx.block), Receipts(r.tx.block)} \subseteq Calls
  /\ {Factory(p) : p \in Pools} \cup {Code(a) : a \in Addresses} \subseteq Calls
  /\ \A r \in Rows : Parties(r) \subseteq Addresses \cup {ZeroAddress}

(* What a transaction is. A contract sends none (insights.ts:155-157).     *)
ASSUME ChainAssumption ==
  /\ \A r \in Rows :
       /\ DOMAIN r.tx = {"block", "held", "sender", "to", "selector", "logs",
                       "factories", "value"}
       /\ r.tx.sender # ZeroAddress /\ (r.tx.sender \in Addresses => ~IsContract[r.tx.sender])
  /\ IsContract \in [Addresses -> BOOLEAN]

(* The parties of a round fit: CACHE_MAX is 50000 (txcontext.ts:16) and a  *)
(* round has 2000 rows (insights.ts:27) or those of one block.             *)
ASSUME FitAssumption ==
  \A rows \in SUBSET Rows :
    Cardinality(rows) \in 1..MaxRows =>
      Cardinality((UNION {Parties(r) : r \in rows}) \ {ZeroAddress}) <= CacheMax

VARIABLES
  stage,      \* idle, or the batch of reads under way: blocks, factories, codes
  round,      \* the rows being read
  asking,     \* the pools or addresses that batch asks about
  contexts,   \* contexts(): per row of the round its context
  factories,  \* the Lru of factories: its pools, least recently used first
  unreadable, \* per pool, how long factory() is not asked again
  codes,      \* the Lru of codes: its addresses, least recently used first
  described   \* the rows of the last round described, and their descriptions

readVars == <<stage, round, asking, contexts, factories, unreadable, codes, described>>
allVars == <<vars, readVars>>

-----------------------------------------------------------------------------
(* Lru: a key read or written becomes the newest; over the limit the       *)
(* oldest goes.                                                            *)
Used(lru, key) ==
  LET at == CHOOSE i \in 1..Len(lru) : lru[i] = key
  IN Append(IF key \in ToSet(lru) THEN RemoveAt(lru, at) ELSE lru, key)

Evicted(lru) == IF Len(lru) > CacheMax THEN Tail(lru) ELSE lru

(* Mutant: reading a key does not make it newer.                           *)
GetOnly(lru, keys) == lru

Get(lru, keys) ==
  LET after[i \in 0..Len(keys)] ==
        IF i = 0 THEN lru
        ELSE IF keys[i] \in ToSet(lru) THEN Used(after[i - 1], keys[i]) ELSE after[i - 1]
  IN after[Len(keys)]

Put(lru, keys) ==
  LET after[i \in 0..Len(keys)] ==
        IF i = 0 THEN lru ELSE Evicted(Used(after[i - 1], keys[i]))
  IN after[Len(keys)]

(* The order of the keys of one batch is left open.                        *)
Orders(S) == SetToSeqs(S)

(* The rows whose transaction their block holds.                           *)
Held == {r \in round : r.tx.held}
RoundPools == UNION {PoolsOf(r.tx) : r \in Held}

(* A sender is a wallet, and the zero address is nobody.                   *)
Senders == {r.tx.sender : r \in Held}
Wanted == (UNION {Parties(r) : r \in Held}) \ ({ZeroAddress} \cup Senders)

(* What the factories known leave a context with.                          *)
Context(tx, known) == [tx EXCEPT !.factories = [p \in PoolsOf(tx) \cap known |-> FactoryOf[p]]]

ASSUME ContextAssumption ==
  \A r \in Rows, known \in SUBSET Pools : Context(r.tx, known) # NoContext

ReadInit ==
  /\ Init
  /\ stage = "idle" /\ round = {} /\ asking = {} /\ contexts = NoRound
  /\ factories = <<>> /\ codes = <<>>
  /\ unreadable = [p \in Pools |-> 0]
  /\ described = NoRound

-----------------------------------------------------------------------------
(* prepareRound: the rows of the next range; one batch for their blocks.   *)
ReadRound ==
  /\ stage = "idle"
  /\ \E rows \in SUBSET Rows :
       /\ Cardinality(rows) \in 1..MaxRows
       /\ round' = rows
       /\ All({Block(r.tx.block) : r \in rows} \cup {Receipts(r.tx.block) : r \in rows})
  /\ stage' = "blocks"
  /\ described' = NoRound
  /\ UNCHANGED <<asking, contexts, factories, unreadable, codes>>

(* A stage's batch is back when all() has returned.                        *)
Back(s) == stage = s /\ pc = "done"

BlocksNeeded == UNION {{Block(r.tx.block), Receipts(r.tx.block)} : r \in round}

(* An RPC failure rejects and the round fails; codes that came before the  *)
(* failed one are kept.                                                    *)
RoundFails ==
  /\ \/ /\ Back("blocks") /\ \E c \in BlocksNeeded : out[c] = Rejected
        /\ UNCHANGED codes
     \/ /\ Back("codes") /\ \E a \in asking : out[Code(a)] = Rejected
        /\ \E kept \in SUBSET {a \in asking : out[Code(a)] # Rejected} :
             \E order \in Orders(kept) : codes' = Put(codes, order)
  /\ stage' = "idle" /\ round' = {} /\ asking' = {} /\ contexts' = NoRound
  /\ Taken
  /\ UNCHANGED <<factories, unreadable, described>>

(* contexts(): the new pools of the round are asked for their factory.     *)
AskFactories ==
  /\ Back("blocks") /\ \A c \in BlocksNeeded : out[c] # Rejected
  /\ \E order \in Orders(RoundPools) : factories' = Get(factories, order)
  /\ asking' = {p \in RoundPools : p \notin ToSet(factories) /\ unreadable[p] = 0}
  /\ All({Factory(p) : p \in asking'})
  /\ unreadable' = [p \in Pools |-> IF p \in asking' THEN FactoryRetry ELSE unreadable[p]]
  /\ stage' = "factories"
  /\ UNCHANGED <<round, contexts, codes, described>>

(* What gave no factory is asked again after FACTORY_RETRY_MS. Then        *)
(* partyKinds(): the new parties are asked for their code.                 *)
AskCodes ==
  /\ Back("factories")
  /\ LET got == {p \in asking \cap DOMAIN FactoryOf : out[Factory(p)] # Rejected}
     IN /\ \E new \in Orders(got), all \in Orders(RoundPools) :
             factories' = Get(Put(factories, new), all)
        /\ unreadable' = [p \in Pools |-> IF p \in got THEN 0 ELSE unreadable[p]]
  /\ contexts' = [r \in round |->
       IF r \in Held THEN Context(r.tx, ToSet(factories')) ELSE NoContext]
  /\ \E order \in Orders(Wanted) : codes' = Get(codes, order)
  /\ asking' = Wanted \ ToSet(codes)
  /\ All({Code(a) : a \in asking'})
  /\ stage' = "codes"
  /\ UNCHANGED <<round, described>>

(* partyKinds(): what is known of the parties; a sender is a wallet.       *)
PartyKinds(known) ==
  [a \in (Wanted \cap known) \cup Senders |-> a \notin Senders /\ IsContract[a]]

(* The descriptions, from the contexts and what is known of the parties.   *)
DescribeRound ==
  /\ Back("codes") /\ \A a \in asking : out[Code(a)] # Rejected
  /\ \E new \in Orders(asking), all \in Orders(Wanted) :
       LET known == Put(codes, new)
       IN /\ codes' = Get(known, all)
          /\ described' = [r \in round |->
               DescribeEvent(r, contexts[r], PartyKinds(ToSet(known)))]
  /\ stage' = "idle" /\ round' = {} /\ asking' = {} /\ contexts' = NoRound
  /\ Taken
  /\ UNCHANGED <<factories, unreadable>>

(* Ingest is Degraded: the loop slows down and reads nothing meanwhile.    *)
SlowDown == stage = "idle" /\ BackOffShared /\ UNCHANGED readVars

Time ==
  /\ (\E e \in Endpoints : rest[e] + wait[e] > 0) \/ (\E p \in Pools : unreadable[p] > 0)
  /\ Elapse
  /\ unreadable' = [p \in Pools |-> Higher(0, unreadable[p] - 1)]
  /\ UNCHANGED <<stage, round, asking, contexts, factories, codes, described>>

ReadStep == ReadRound \/ RoundFails \/ AskFactories \/ AskCodes \/ DescribeRound

ReadNext ==
  \/ ReadStep \/ SlowDown \/ Time
  \/ PoolStep /\ UNCHANGED readVars
  \/ Health /\ UNCHANGED readVars

ReadSpec == ReadInit /\ [][ReadNext]_allVars

FairReadSpec ==
  ReadSpec /\ WF_allVars(ReadStep) /\ WF_allVars(PoolStep /\ UNCHANGED readVars) /\ WF_allVars(Time)

-----------------------------------------------------------------------------
ReadTypeOK ==
  /\ TypeOK
  /\ stage \in {"idle", "blocks", "factories", "codes"}
  /\ round \subseteq Rows /\ asking \subseteq Pools \cup Addresses
  /\ ToSet(factories) \subseteq Pools /\ ToSet(codes) \subseteq Addresses
  /\ Len(factories) <= CacheMax /\ Len(codes) <= CacheMax
  /\ unreadable \in [Pools -> 0..FactoryRetry]

(* What a row is once everything the chain holds of it was read, its       *)
(* parties as far as they are known.                                       *)
Settled(r, known) ==
  DescribeEvent(r, IF r.tx.held THEN Context(r.tx, DOMAIN FactoryOf) ELSE NoContext,
                [a \in known \ {ZeroAddress} |-> IsContract[a]])

(* A description is settled chain data (insights.ts:124-126): caches,      *)
(* evictions and refused or repeated reads change nothing in it but the    *)
(* venue of a row whose pool gave no factory lately. Nobody asks about the *)
(* parties of a transaction its block does not hold; only others of the    *)
(* round may have.                                                         *)
DescribedFromChain ==
  described # NoRound => \A r \in DOMAIN described :
    \E known \in IF r.tx.held THEN {Addresses} ELSE SUBSET Parties(r) :
      \/ described[r] = Settled(r, known)
      \/ /\ \E p \in PoolsOf(r.tx) : p \notin ToSet(factories)
         /\ [described[r] EXCEPT !.protocol = Nothing]
              = [Settled(r, known) EXCEPT !.protocol = Nothing]

(* With one endpoint well again, rounds are read (insights.ts:226-269).    *)
Recovers == \A e \in Endpoints : <>[](e \in up) => []<>(described # NoRound)

=============================================================================
