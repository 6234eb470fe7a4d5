------------------------------ MODULE Describe ------------------------------
(***************************************************************************)
(* What one event row says (core/src/insights/sentence.ts, signatures.ts): *)
(* the facts and the protocol of its transaction, the words for its        *)
(* parties, and the lane the transaction itself decides. Pure functions of *)
(* the row, its transaction's context and what is known of the parties.    *)
(*                                                                         *)
(* Selectors, topics and addresses are model values and the tables that    *)
(* say what they mean are constants. A sentence is the record of what its  *)
(* wording depends on.                                                     *)
(***************************************************************************)
EXTENDS Integers, Sequences, FiniteSets

CONSTANTS
  FactOfSelector, \* FACT_BY_SELECTOR, a function
  FactOfTopic,    \* FACT_BY_TOPIC, a function
  PlainSelectors, \* PLAIN_SELECTORS: empty input, transfer, transferFrom
  EmptyInput,     \* '0x'
  MovementTopics, \* MOVEMENT_TOPICS
  PoolTopics,     \* POOL_TOPICS
  Rules,          \* PROTOCOL_RULES: a sequence of name, selectors and topics
  EntryPoints,    \* UNISWAP_ENTRY_POINTS, called by the transaction
  PoolManager,    \* UNISWAP_V4_POOL_MANAGER, which logs
  VenueOfFactory, \* FACTORY_NAMES, a function
  ZeroAddress,
  NoContext,      \* ctx: null
  Nothing         \* '' or null: no transfer, name, venue, or ruled lane

Fact == {"bridge", "liquidity", "lending", "vault", "swap", "market", "batch", "payout",
         "wrap", "signed", "smart_account", "fee"}
Incidental == {"smart_account", "fee"}

(* The logs are a sequence, in log order.                                  *)
TopicsOf(ctx) == {ctx.logs[i].topic : i \in DOMAIN ctx.logs}
EmittersOf(ctx) == {ctx.logs[i].emitter : i \in DOMAIN ctx.logs}
PoolsOf(ctx) ==
  {ctx.logs[i].emitter : i \in {j \in DOMAIN ctx.logs : ctx.logs[j].topic \in PoolTopics}}

FactsOf(ctx) ==
  IF ctx = NoContext THEN {}
  ELSE {FactOfSelector[s] : s \in {ctx.selector} \cap DOMAIN FactOfSelector}
       \cup {FactOfTopic[t] : t \in TopicsOf(ctx) \cap DOMAIN FactOfTopic}

(* Every fork logs Uniswap's events, so a venue is known by its addresses: *)
(* the contract called, the v4 PoolManager among the emitters, or else the *)
(* first pool in log order whose factory has a name.                       *)
VenueOf(ctx) ==
  LET Named(log) == /\ log.topic \in PoolTopics /\ log.emitter \in DOMAIN ctx.factories
                    /\ ctx.factories[log.emitter] \in DOMAIN VenueOfFactory
      named == SelectSeq(ctx.logs, Named)
  IN IF ctx.to \in EntryPoints \/ PoolManager \in EmittersOf(ctx) THEN "Uniswap"
     ELSE IF named # <<>> THEN VenueOfFactory[ctx.factories[Head(named).emitter]]
     ELSE Nothing

(* The first rule that matches, else the venue.                            *)
ProtocolOf(ctx) ==
  LET Hits(rule) == ctx.selector \in rule.selectors \/ TopicsOf(ctx) \cap rule.topics # {}
      hits == {i \in DOMAIN Rules : Hits(Rules[i])}
  IN IF ctx = NoContext THEN Nothing
     ELSE IF hits = {} THEN VenueOf(ctx)
     ELSE Rules[CHOOSE i \in hits : \A j \in hits : i <= j].name

-----------------------------------------------------------------------------
(* party(): an address nobody asked about is only "an account".            *)
Party(address, parties) ==
  IF address \notin DOMAIN parties THEN "an account"
  ELSE IF parties[address] THEN "a contract" ELSE "a wallet"

(* A row: its contract, its transaction, the indexed contract that one     *)
(* called and its function's name, and the transfer when it is one.        *)
Parties(row) == IF row.transfer = Nothing THEN {} ELSE {row.transfer.from, row.transfer.to}

Opening(row, parties) ==
  IF row.transfer = Nothing THEN row.contract
  ELSE [from |-> Party(row.transfer.from, parties), to |-> Party(row.transfer.to, parties),
        amount |-> row.transfer.amount,
        verb |-> IF row.transfer.from = ZeroAddress THEN "minted"
                 ELSE IF row.transfer.to = ZeroAddress THEN "burned" ELSE "moved"]

IsPlain(row, ctx) ==
  /\ ctx # NoContext
  /\ FactsOf(ctx) = {}
  /\ ctx.selector \in PlainSelectors
  /\ ctx.to = row.contract \/ ctx.selector = EmptyInput

CallPhrase(row, ctx) ==
  IF ctx = NoContext \/ ctx.selector \in DOMAIN FactOfSelector \cup PlainSelectors
  THEN Nothing ELSE row.fn

(* The lane the transaction decides; Nothing leaves it to the model.       *)
RuledLane(row, ctx) ==
  LET moved == ctx.value \/ TopicsOf(ctx) \cap MovementTopics # {}
      facts == FactsOf(ctx)
  IN CASE ctx = NoContext -> "uncertain"
       [] ctx # NoContext /\ row.transfer = Nothing -> IF moved THEN Nothing ELSE "no_transfer"
       [] OTHER ->
            IF ZeroAddress \in Parties(row) /\ "bridge" \notin facts THEN "issuance"
            ELSE IF row.transfer.amount = "zero" /\ facts \subseteq Incidental THEN "spam"
            ELSE IF facts = {} /\ ~IsPlain(row, ctx) /\ CallPhrase(row, ctx) = Nothing
            THEN "uncertain"
            ELSE Nothing

DescribeEvent(row, ctx, parties) ==
  [head |-> Opening(row, parties), facts |-> FactsOf(ctx), plain |-> IsPlain(row, ctx),
   called |-> CallPhrase(row, ctx),
   protocol |-> IF ProtocolOf(ctx) = Nothing /\ ctx # NoContext THEN row.callee
                ELSE ProtocolOf(ctx),
   ruled |-> RuledLane(row, ctx), read |-> ctx # NoContext]

=============================================================================
