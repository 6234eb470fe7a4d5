--------------------------- MODULE MCInsightReads ---------------------------
(***************************************************************************)
(* Two blocks for InsightReads: a swap on two pools of two exchanges, a    *)
(* payment to a party the swap had too, and one its block does not hold,   *)
(* through an http endpoint that takes two calls to a request and a        *)
(* websocket that takes one.                                               *)
(***************************************************************************)
EXTENDS InsightReads

CONSTANTS alice, bob, carol, token, pool, pair, factory, aero, swapTopic, transferTopic,
          transferCall, empty

MCChunk == <<2, 1>>

Swap(p) == [topic |-> swapTopic, emitter |-> p]

Tx(block, held, sender, logs) ==
  [block |-> block, held |-> held, sender |-> sender, to |-> token, selector |-> transferCall,
   logs |-> Append(logs, [topic |-> transferTopic, emitter |-> token]), factories |-> <<>>,
   value |-> FALSE]

Row(tx, from, to) ==
  [contract |-> token, callee |-> "USDC", fn |-> "transfer", tx |-> tx,
   transfer |-> [from |-> from, to |-> to, amount |-> "some"]]

MCRows ==
  {Row(Tx(1, TRUE, alice, <<Swap(pair), Swap(pool)>>), pool, bob),
   Row(Tx(2, TRUE, alice, <<>>), bob, carol),
   Row(Tx(2, FALSE, alice, <<>>), carol, bob)}

MCFactoryOf == pool :> factory @@ pair :> aero
MCVenueOfFactory == factory :> "Uniswap" @@ aero :> "Aerodrome"
MCFactOfTopic == swapTopic :> "swap"
MCFactOfSelector == <<>>
MCRules == <<>>
MCIsContract == alice :> FALSE @@ bob :> FALSE @@ carol :> TRUE @@ pool :> TRUE

MCCalls ==
  UNION {{Block(b), Receipts(b)} : b \in {1, 2}} \cup {Factory(pool), Factory(pair)}
  \cup {Code(a) : a \in DOMAIN MCIsContract}

\* A block and its receipts fit only one by one.
MCOversized == {s \in SUBSET MCCalls : \E b \in {1, 2} : {Block(b), Receipts(b)} \subseteq s}

=============================================================================
