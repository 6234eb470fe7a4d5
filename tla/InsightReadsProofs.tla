------------------------- MODULE InsightReadsProofs -------------------------
(***************************************************************************)
(* The insight loop's reads for every number of endpoints, calls, chunk    *)
(* sizes and rests: the pool keeps its types, and gives a call up only     *)
(* when every endpoint was asked for it or its answer alone is too large,  *)
(* whichever endpoints rest, refuse, break off or answer in part. The      *)
(* caches keep what a round needs until the round is described, so that    *)
(* what is said of a row is what the chain says.                           *)
(***************************************************************************)
EXTENDS InsightReads, FiniteSetTheorems, SequenceTheorems, WellFoundedInduction, TLAPS

(* The pending calls the endpoint at hand has been asked.                   *)
AskedHere == {c \in pending : slot \in asked[c]}

(* The endpoints that are through with the chunk.                          *)
Through == IF pc \in {"send", "flight"} THEN tried \ {slot} ELSE tried

(* What is under way is pending; what is left, halved or in flight has been *)
(* sent to the endpoint at hand.                                           *)
UnderWay ==
  /\ pc \in {"send", "flight"} => slot \in tried
  /\ pc \notin {"send", "flight"} => unsent = {} /\ left = {} /\ halves = <<>>
  /\ pc # "flight" => flight = {}
  /\ unsent \subseteq pending
  /\ left \cup flight \subseteq AskedHere
  /\ halves \in Seq(SUBSET AskedHere)

(* Whatever is still pending was asked of every endpoint the chunk passed. *)
AskedOfAll ==
  /\ pc \notin {"pick", "send", "flight"} => pending = {} /\ tried = {}
  /\ \A c \in pending : Through \subseteq asked[c]

PoolInv == TypeOK /\ UnderWay /\ AskedOfAll /\ RejectedByAll

(* What the loop reads of the pool: its steps, with time by any clock.     *)
PoolMove ==
  \/ (\E calls \in SUBSET Calls : All(calls)) \/ Taken
  \/ PoolStep \/ BackOffShared \/ Elapse \/ Health

(* A round asks only for what may be asked.                                *)
RoundTyped == round \subseteq Rows /\ asking \subseteq Pools \cup Addresses

-----------------------------------------------------------------------------
(* A nonempty set of numbers has a least one, and Least is it.             *)
LEMMA LeastOf ==
  ASSUME NEW S \in SUBSET Nat, S # {}
  PROVE  Least(S) \in S
<1>1. PICK b \in S : \A c \in S : ~ (<<c, b>> \in OpToRel(<, Nat))
  BY NatLessThanWellFounded, WFMin
<1>2. \A c \in S : ~ (c < b)
  BY <1>1 DEF OpToRel
<1>3. \A c \in S : b <= c
  BY <1>2
<1>4. QED BY <1>3 DEF Least

(* #pick finds an endpoint whenever one is untried, resting or not.        *)
LEMMA PickFinds ==
  ASSUME tried \subseteq Endpoints, rest \in [Endpoints -> Nat]
  PROVE  /\ tried = Endpoints => Pick = None
         /\ tried # Endpoints => Pick \in Endpoints \ tried
<1> DEFINE open == Endpoints \ tried
           ready == {e \in open : rest[e] = 0}
           soonest == {e \in open : \A d \in open : rest[e] <= rest[d]}
<1>1. Pick = IF ready # {} THEN Least(ready)
             ELSE IF open # {} THEN Least(soonest) ELSE None
  BY DEF Pick
<1>2. open \in SUBSET Nat /\ ready \in SUBSET Nat /\ soonest \in SUBSET Nat
  BY PoolAssumption DEF Endpoints
<1>3. open # {} => soonest # {}
  <2>1. SUFFICES ASSUME open # {} PROVE soonest # {}
    OBVIOUS
  <2> DEFINE rests == {rest[e] : e \in open}
  <2>2. rests \in SUBSET Nat /\ rests # {}
    BY <2>1
  <2>3. PICK x \in rests : \A y \in rests : ~ (<<y, x>> \in OpToRel(<, Nat))
    BY <2>2, NatLessThanWellFounded, WFMin
  <2>4. PICK e \in open : rest[e] = x
    BY <2>3
  <2>5. \A y \in rests : ~ (y < x)
    BY <2>2, <2>3 DEF OpToRel
  <2>6. \A d \in open : rest[d] \in rests /\ rest[d] \in Nat /\ rest[e] = x /\ x \in Nat
    BY <2>2, <2>4
  <2>7. ASSUME NEW d \in open PROVE rest[e] <= rest[d]
    <3>1. ~ (rest[d] < x) /\ rest[d] \in Nat /\ rest[e] = x /\ x \in Nat
      BY <2>5, <2>6
    <3>2. QED BY <3>1
  <2>8. QED BY <2>4, <2>7
<1>4. ready # {} => Least(ready) \in open
  BY <1>2, LeastOf
<1>5. open # {} => Least(soonest) \in open
  <2>1. soonest # {} => Least(soonest) \in soonest
    BY <1>2, LeastOf
  <2>2. QED BY <1>3, <2>1
<1>6. tried = Endpoints => ready = {} /\ open = {}
  OBVIOUS
<1>7. tried # Endpoints => open # {}
  OBVIOUS
<1> HIDE DEF open, ready, soonest
<1>8. tried # Endpoints => Pick \in open
  BY <1>1, <1>4, <1>5, <1>7
<1>9. tried = Endpoints => Pick = None
  BY <1>1, <1>6
<1>10. QED BY <1>8, <1>9 DEF open

(* Rests, intervals and waits stay within their limits.                    *)
LEMMA SlotsTyped ==
  ASSUME TypeOK, NEW e \in Endpoints
  PROVE  /\ RestAfter(penalty[e]) \in 0..RestMax
         /\ \A i \in Relaxed(interval[e]) :
              i \in PaceMin..PaceMax /\ Lower(PaceMax, 2 * i) \in PaceMin..PaceMax
         /\ interval[e] \in 0..PaceMax
<1>1. penalty[e] \in 0..RestMax /\ interval[e] \in PaceMin..PaceMax
  BY DEF TypeOK
<1>2. RestAfter(penalty[e]) \in 0..RestMax
  BY <1>1, TimesAssumption DEF RestAfter, Lower
<1>3. \A i \in Relaxed(interval[e]) : i \in PaceMin..PaceMax
  BY <1>1, TimesAssumption DEF Relaxed, Higher
<1>4. \A i \in PaceMin..PaceMax : Lower(PaceMax, 2 * i) \in PaceMin..PaceMax
  BY TimesAssumption DEF Lower
<1>5. QED BY <1>1, <1>2, <1>3, <1>4, TimesAssumption

(* So what a reply does to an endpoint keeps them there.                   *)
SlotsOK ==
  /\ penalty \in [Endpoints -> 0..RestMax] /\ rest \in [Endpoints -> 0..RestMax]
  /\ interval \in [Endpoints -> PaceMin..PaceMax] /\ wait \in [Endpoints -> 0..PaceMax]

LEMMA SlotTyped ==
  ASSUME TypeOK, slot \in Endpoints, Relax(slot) \/ BackOff(slot), Rest(slot) \/ Wake(slot)
  PROVE  SlotsOK'
<1> USE DEF TypeOK, SlotsOK
<1>1. penalty' \in [Endpoints -> 0..RestMax] /\ rest' \in [Endpoints -> 0..RestMax]
  <2>1. RestAfter(penalty[slot]) \in 0..RestMax /\ 0 \in 0..RestMax
    BY SlotsTyped, TimesAssumption
  <2>2. QED BY <2>1 DEF Rest, Wake, Set
<1>2. CASE Relax(slot)
  <2>1. PICK i \in Relaxed(interval[slot]) : interval' = Set(interval, slot, i) /\ wait' = wait
    BY <1>2 DEF Relax
  <2>2. i \in PaceMin..PaceMax
    BY <2>1, SlotsTyped
  <2>3. QED BY <1>1, <2>1, <2>2 DEF Set
<1>3. CASE BackOff(slot)
  <2>1. PICK i \in Relaxed(interval[slot]) :
          /\ interval' = Set(interval, slot, Lower(PaceMax, 2 * i))
          /\ wait' = Set(wait, slot, Lower(PaceMax, 2 * i))
    BY <1>3 DEF BackOff
  <2>2. Lower(PaceMax, 2 * i) \in PaceMin..PaceMax
    BY <2>1, SlotsTyped
  <2>3. Lower(PaceMax, 2 * i) \in 0..PaceMax
    BY <2>2, TimesAssumption
  <2>4. QED BY <1>1, <2>1, <2>2, <2>3 DEF Set
<1>4. QED BY <1>2, <1>3

(* Time and a slower pace keep them there too.                             *)
LEMMA ClockTyped ==
  ASSUME TypeOK, Elapse \/ BackOffShared
  PROVE  SlotsOK'
<1> USE TimesAssumption DEF TypeOK, SlotsOK
<1>1. CASE Elapse
  <2>1. \A e \in Endpoints : /\ Higher(0, rest[e] - 1) \in 0..RestMax
                             /\ Higher(0, wait[e] - 1) \in 0..PaceMax
    BY DEF Higher
  <2>2. QED BY <1>1, <2>1 DEF Elapse
<1>2. CASE BackOffShared
  <2>1. \A e \in Endpoints : Lower(PaceMax, 2 * interval[e]) \in PaceMin..PaceMax
    BY DEF Lower
  <2>2. interval' \in [Endpoints -> PaceMin..PaceMax]
    BY <1>2, <2>1 DEF BackOffShared
  <2>3. \A e \in Endpoints : interval'[e] \in 0..PaceMax
    BY <2>2
  <2>4. wait' \in [Endpoints -> 0..PaceMax]
    BY <1>2, <2>3 DEF BackOffShared
  <2>5. QED BY <1>2, <2>2, <2>4 DEF BackOffShared, slotVars
<1>3. QED BY <1>1, <1>2

-----------------------------------------------------------------------------
(* A chunk is a nonempty part of what waits; a slice of what is unsent.    *)
LEMMA CutsWithin ==
  ASSUME NEW S, NEW size, NEW b \in Cuts(S, size)
  PROVE  b \subseteq S
BY DEF Cuts

(* A halved batch is two parts of it in front of the other halves.         *)
LEMMA HalvesWithin ==
  ASSUME NEW S, NEW batch \in SUBSET S, halves \in Seq(SUBSET S), Halved(batch)
  PROVE  halves' \in Seq(SUBSET S)
<1>1. CASE Cardinality(batch) = 1
  BY <1>1 DEF Halved
<1>2. CASE Cardinality(batch) # 1
  <2>1. PICK first \in SUBSET batch : halves' = <<first, batch \ first>> \o halves
    BY <1>2 DEF Halved
  <2>2. first \in SUBSET S /\ batch \ first \in SUBSET S
    OBVIOUS
  <2>3. <<first, batch \ first>> \in Seq(SUBSET S)
    BY <2>2
  <2>4. QED BY <2>1, <2>3, ConcatProperties
<1>3. QED BY <1>1, <1>2

(* Types of the calls under way.                                           *)
CallsOK ==
  /\ waiting \subseteq Calls /\ pending \subseteq Calls /\ unsent \subseteq Calls
  /\ left \subseteq Calls /\ flight \subseteq Calls /\ halves \in Seq(SUBSET Calls)

LEMMA TypeParts ==
  TypeOK <=>
    /\ pc \in {"idle", "chunk", "pick", "send", "flight", "done"}
    /\ CallsOK /\ SlotsOK
    /\ tried \subseteq Endpoints /\ slot \in Endpoints \cup {None}
    /\ out \in [Calls -> {None, "answered", Rejected}]
    /\ asked \in [Calls -> SUBSET Endpoints]
    /\ up \subseteq Endpoints
BY DEF TypeOK, CallsOK, SlotsOK

(* A reply is to the endpoint at hand, which is one.                        *)
LEMMA SlotAsked ==
  ASSUME TypeOK, UnderWay, pc \in {"send", "flight"}
  PROVE  slot \in Endpoints
BY DEF TypeOK, UnderWay

LEMMA TypeStep ==
  ASSUME TypeOK, UnderWay, PoolMove
  PROVE  TypeOK'
<1> USE DEF callVars, slotVars, paceVars
<1>0. /\ CallsOK /\ SlotsOK
      /\ pc \in {"idle", "chunk", "pick", "send", "flight", "done"}
      /\ tried \subseteq Endpoints /\ slot \in Endpoints \cup {None}
      /\ out \in [Calls -> {None, "answered", Rejected}]
      /\ asked \in [Calls -> SUBSET Endpoints]
      /\ up \subseteq Endpoints
  BY TypeParts
<1>1. SUFFICES /\ pc' \in {"idle", "chunk", "pick", "send", "flight", "done"}
               /\ CallsOK' /\ SlotsOK'
               /\ tried' \subseteq Endpoints /\ slot' \in Endpoints \cup {None}
               /\ out' \in [Calls -> {None, "answered", Rejected}]
               /\ asked' \in [Calls -> SUBSET Endpoints]
               /\ up' \subseteq Endpoints
  BY DEF TypeOK, CallsOK, SlotsOK
<1>2. ASSUME NEW calls \in SUBSET Calls, All(calls) PROVE TypeOK'
  BY <1>0, <1>2 DEF All, CallsOK, SlotsOK, TypeOK
<1>3. CASE Taken
  BY <1>0, <1>3 DEF Taken, CallsOK, SlotsOK
<1>4. CASE NextChunk
  <2>1. PICK chunk \in Cuts(waiting, Chunk[1]) :
          waiting' = waiting \ chunk /\ pending' = chunk
    BY <1>4 DEF NextChunk
  <2>2. chunk \subseteq waiting
    BY CutsWithin
  <2>3. QED BY <1>0, <1>4, <2>1, <2>2 DEF NextChunk, CallsOK, SlotsOK
<1>5. CASE Return
  BY <1>0, <1>5 DEF Return, CallsOK, SlotsOK
<1>6. CASE Bring
  <2>1. rest \in [Endpoints -> Nat]
    BY <1>0, TimesAssumption DEF SlotsOK
  <2>2. Pick \in Endpoints
    BY <1>0, <1>6, <2>1, PickFinds DEF Bring
  <2>3. QED BY <1>0, <1>6, <2>2 DEF Bring, CallsOK, SlotsOK
<1>7. CASE EndChunk
  BY <1>0, <1>7 DEF EndChunk, UntriedAgain, CallsOK, SlotsOK
<1>8. CASE Request
  <2>1. slot \in Endpoints
    BY <1>8, SlotAsked DEF Request
  <2>2. flight' \subseteq Calls /\ unsent' \subseteq Calls /\ halves' \in Seq(SUBSET Calls)
    <3>1. CASE halves # <<>> /\ flight' = Head(halves) /\ halves' = Tail(halves) /\ UNCHANGED unsent
      <4>1. Head(halves) \in SUBSET Calls /\ Tail(halves) \in Seq(SUBSET Calls)
        BY <1>0, <3>1, HeadTailProperties DEF CallsOK
      <4>2. QED BY <1>0, <3>1, <4>1 DEF CallsOK
    <3>2. CASE flight' \in Cuts(unsent, Chunk[slot]) /\ unsent' = unsent \ flight' /\ UNCHANGED halves
      <4>1. flight' \subseteq unsent
        BY <3>2, CutsWithin
      <4>2. QED BY <1>0, <3>2, <4>1 DEF CallsOK
    <3>3. QED BY <1>8, <3>1, <3>2 DEF Request
  <2>3. CallsOK'
    BY <1>0, <1>8, <2>2 DEF Request, CallsOK
  <2>4. interval[slot] \in 0..PaceMax
    BY <2>1, SlotsTyped
  <2>5. SlotsOK'
    BY <1>0, <1>8, <2>1, <2>4 DEF Request, Pace, Set, SlotsOK
  <2>6. asked' \in [Calls -> SUBSET Endpoints]
    BY <1>0, <1>8, <2>1 DEF Request
  <2>7. QED BY <1>0, <1>8, <2>3, <2>5, <2>6 DEF Request
<1>9. CASE Leave
  BY <1>0, <1>9 DEF Leave, CallsOK, SlotsOK
<1>10. CASE Reply
  <2>1. pc = "flight"
    BY <1>10 DEF Reply, Throttled, Broken, Answered, TooLarge
  <2>2. slot \in Endpoints
    BY <2>1, SlotAsked
  <2>3. (Relax(slot) \/ BackOff(slot)) /\ (Rest(slot) \/ Wake(slot))
    BY <1>10 DEF Reply, Throttled, Broken, Answered, TooLarge
  <2>4. SlotsOK'
    BY <2>2, <2>3, SlotTyped
  <2>5. CASE Throttled
    BY <1>0, <2>4, <2>5 DEF Throttled, CallsOK
  <2>6. CASE Broken
    BY <1>0, <2>4, <2>6 DEF Broken, CallsOK
  <2>7. CASE Answered
    <3>1. PICK got \in SUBSET flight :
            /\ out' = [c \in Calls |-> IF c \in got THEN "answered" ELSE out[c]]
            /\ left' = left \cup (flight \ got)
      BY <2>7 DEF Answered
    <3>2. out' \in [Calls -> {None, "answered", Rejected}]
      BY <1>0, <3>1
    <3>3. QED BY <1>0, <2>4, <2>7, <3>1, <3>2 DEF Answered, CallsOK
  <2>8. CASE TooLarge
    <3>1. halves' \in Seq(SUBSET Calls)
      BY <1>0, <2>8, HalvesWithin DEF TooLarge, CallsOK
    <3>2. out' \in [Calls -> {None, "answered", Rejected}]
      <4>1. \/ out' = [c \in Calls |-> IF c \in flight THEN Rejected ELSE out[c]]
            \/ out' = out
        BY <2>8 DEF TooLarge, Halved
      <4>2. QED BY <1>0, <4>1
    <3>3. QED BY <1>0, <2>4, <2>8, <3>1, <3>2 DEF TooLarge, CallsOK
  <2>9. QED BY <1>10, <2>5, <2>6, <2>7, <2>8 DEF Reply
<1>11. CASE BackOffShared \/ Elapse
  <2>1. SlotsOK'
    BY <1>11, ClockTyped
  <2>2. QED BY <1>0, <1>11, <2>1 DEF BackOffShared, Elapse, CallsOK
<1>12. CASE Health
  BY <1>0, <1>12 DEF Health, CallsOK, SlotsOK
<1>13. QED
  BY <1>2, <1>3, <1>4, <1>5, <1>6, <1>7, <1>8, <1>9, <1>10, <1>11, <1>12, TypeParts
     DEF PoolMove, PoolStep, TypeOK, CallsOK, SlotsOK

(* What is in hand stays pending, and sent stays asked.                    *)
LEMMA WayStep ==
  ASSUME TypeOK, UnderWay, AskedOfAll, PoolMove
  PROVE  UnderWay'
<1> USE DEF callVars, slotVars, paceVars
<1>0. /\ pc \in {"send", "flight"} => slot \in tried
      /\ pc \notin {"send", "flight"} => unsent = {} /\ left = {} /\ halves = <<>>
      /\ pc # "flight" => flight = {}
      /\ unsent \subseteq pending
      /\ left \cup flight \subseteq AskedHere
      /\ halves \in Seq(SUBSET AskedHere)
  BY DEF UnderWay
<1>n. <<>> \in Seq(SUBSET AskedHere')
  BY EmptySeq
<1>1. CASE /\ UNCHANGED <<unsent, left, halves, flight>>
           /\ pc \notin {"send", "flight"} /\ pc' \notin {"send", "flight"}
  BY <1>0, <1>1, <1>n DEF UnderWay
<1>2. CASE UNCHANGED <<pc, unsent, left, halves, flight, pending, slot, tried, asked>>
  <2>1. AskedHere' = AskedHere
    BY <1>2 DEF AskedHere
  <2>2. QED BY <1>0, <1>2, <2>1 DEF UnderWay
<1>3. CASE Bring
  <2>1. rest \in [Endpoints -> Nat]
    BY TimesAssumption DEF TypeOK
  <2>2. Pick \in tried'
    BY <1>3 DEF Bring
  <2>3. QED BY <1>0, <1>3, <1>n, <2>2 DEF Bring, UnderWay
<1>4. CASE Request
  <2>1. slot \in tried /\ slot' = slot /\ tried' = tried /\ pending' = pending /\ left' = left
        /\ pc = "send" /\ pc' = "flight" /\ flight = {}
    BY <1>0, <1>4 DEF Request
  <2>2. AskedHere \subseteq AskedHere'
    BY <1>4 DEF Request, AskedHere, TypeOK
  <2>3. /\ flight' \subseteq pending
        /\ unsent' \subseteq pending
        /\ halves' \in Seq(SUBSET AskedHere)
    <3>1. CASE halves # <<>> /\ flight' = Head(halves) /\ halves' = Tail(halves) /\ UNCHANGED unsent
      <4>1. Head(halves) \in SUBSET AskedHere /\ Tail(halves) \in Seq(SUBSET AskedHere)
        BY <1>0, <3>1, HeadTailProperties
      <4>2. QED BY <1>0, <3>1, <4>1 DEF AskedHere
    <3>2. CASE flight' \in Cuts(unsent, Chunk[slot]) /\ unsent' = unsent \ flight' /\ UNCHANGED halves
      <4>1. flight' \subseteq unsent
        BY <3>2, CutsWithin
      <4>2. QED BY <1>0, <3>2, <4>1
    <3>3. QED BY <1>4, <3>1, <3>2 DEF Request
  <2>4. flight' \subseteq AskedHere'
    <3>1. \A c \in flight' : c \in Calls /\ asked'[c] = asked[c] \cup {slot}
      BY <1>4, <2>3 DEF Request, TypeOK
    <3>2. QED BY <2>1, <2>3, <3>1 DEF AskedHere
  <2>5. halves' \in Seq(SUBSET AskedHere')
    <3>1. SUBSET AskedHere \subseteq SUBSET AskedHere'
      BY <2>2
    <3>2. QED BY <2>3, <3>1, SeqMonotonic
  <2>6. QED BY <1>0, <2>1, <2>2, <2>3, <2>4, <2>5 DEF UnderWay
<1>5. CASE Leave
  BY <1>0, <1>5, <1>n DEF Leave, UnderWay
<1>6. CASE Reply
  <2>1. /\ pc = "flight" /\ pc' = "send" /\ flight' = {}
        /\ UNCHANGED <<pending, tried, slot, unsent, asked>>
        /\ left' \subseteq left \cup flight
    BY <1>6 DEF Reply, Throttled, Broken, Answered, TooLarge
  <2>2. AskedHere' = AskedHere
    BY <2>1 DEF AskedHere
  <2>3. halves' \in Seq(SUBSET AskedHere)
    <3>1. CASE TooLarge
      <4>1. Halved(flight) /\ flight \in SUBSET AskedHere
        BY <1>0, <3>1 DEF TooLarge
      <4>2. QED BY <1>0, <4>1, HalvesWithin
    <3>2. CASE ~TooLarge
      BY <1>0, <1>6, <3>2 DEF Reply, Throttled, Broken, Answered
    <3>3. QED BY <3>1, <3>2
  <2>4. QED BY <1>0, <2>1, <2>2, <2>3 DEF UnderWay
<1>7. CASE (\E calls \in SUBSET Calls : All(calls)) \/ Taken \/ NextChunk \/ Return \/ EndChunk
  BY <1>1, <1>7 DEF All, Taken, NextChunk, Return, EndChunk
<1>8. CASE BackOffShared \/ Elapse \/ Health
  BY <1>2, <1>8 DEF BackOffShared, Elapse, Health
<1>9. QED
  BY <1>3, <1>4, <1>5, <1>6, <1>7, <1>8 DEF PoolMove, PoolStep

(* An endpoint is through with a call only when it was asked for it.       *)
LEMMA AskedStep ==
  ASSUME TypeOK, UnderWay, AskedOfAll, PoolMove
  PROVE  AskedOfAll'
<1> USE DEF callVars, slotVars, paceVars
<1>0. /\ pc \notin {"pick", "send", "flight"} => pending = {} /\ tried = {}
      /\ \A c \in pending : Through \subseteq asked[c]
      /\ pending \subseteq Calls
  BY DEF AskedOfAll, TypeOK
<1>1. CASE (\E calls \in SUBSET Calls : All(calls)) \/ Taken \/ Return
  BY <1>0, <1>1 DEF All, Taken, Return, AskedOfAll
<1>2. CASE NextChunk
  <2>1. tried' = {} /\ pc' = "pick"
    BY <1>0, <1>2 DEF NextChunk
  <2>2. QED BY <2>1 DEF AskedOfAll, Through
<1>3. CASE EndChunk
  BY <1>3 DEF EndChunk, UntriedAgain, AskedOfAll
<1>4. CASE Bring
  <2>1. Through' \subseteq tried /\ Through = tried
    BY <1>4 DEF Bring, Through
  <2>2. pc' = "send" /\ UNCHANGED <<pending, asked>>
    BY <1>4 DEF Bring
  <2>3. QED BY <1>0, <2>1, <2>2 DEF AskedOfAll
<1>5. CASE Request
  <2>1. Through' = Through /\ pending' = pending /\ pc' = "flight"
    BY <1>5 DEF Request, Through
  <2>2. \A c \in Calls : asked[c] \subseteq asked'[c]
    BY <1>5 DEF Request, TypeOK
  <2>3. QED BY <1>0, <2>1, <2>2 DEF AskedOfAll
<1>6. CASE Leave
  <2>1. pending' = left /\ left \subseteq AskedHere /\ pc = "send" /\ pc' = "pick"
        /\ UNCHANGED <<tried, asked>>
    BY <1>6 DEF Leave, UnderWay
  <2>2. \A c \in left : c \in pending /\ slot \in asked[c] /\ tried \ {slot} \subseteq asked[c]
    BY <1>0, <2>1 DEF AskedHere, Through
  <2>3. Through' = tried
    BY <2>1 DEF Through
  <2>4. QED BY <2>1, <2>2, <2>3 DEF AskedOfAll
<1>7. CASE Reply
  <2>1. /\ pc = "flight" /\ pc' = "send"
        /\ UNCHANGED <<pending, tried, slot, asked>>
    BY <1>7 DEF Reply, Throttled, Broken, Answered, TooLarge
  <2>2. Through' = Through
    BY <2>1 DEF Through
  <2>3. QED BY <1>0, <2>1, <2>2 DEF AskedOfAll
<1>8. CASE BackOffShared \/ Elapse \/ Health
  <2>1. UNCHANGED <<pc, pending, tried, slot, asked>>
    BY <1>8 DEF BackOffShared, Elapse, Health
  <2>2. Through' = Through
    BY <2>1 DEF Through
  <2>3. QED BY <1>0, <2>1, <2>2 DEF AskedOfAll
<1>9. QED
  BY <1>1, <1>2, <1>3, <1>4, <1>5, <1>6, <1>7, <1>8 DEF PoolMove, PoolStep

(* So the pool gives up what it may give up.                               *)
LEMMA RejectedStep ==
  ASSUME PoolInv, PoolMove
  PROVE  RejectedByAll'
<1> USE DEF callVars, slotVars, paceVars
<1>0. TypeOK /\ UnderWay /\ AskedOfAll /\ RejectedByAll
  BY DEF PoolInv
<1>n. None # Rejected /\ "answered" # Rejected
  BY PoolAssumption DEF Rejected
<1>1. CASE (\E calls \in SUBSET Calls : All(calls)) \/ Taken
  BY <1>1, <1>n DEF All, Taken, RejectedByAll
<1>2. CASE UNCHANGED <<out, asked>>
  BY <1>0, <1>2 DEF RejectedByAll
<1>3. CASE EndChunk
  <2>1. \A c \in pending : asked[c] = Endpoints
    <3>1. CASE pending = {}
      BY <3>1
    <3>2. CASE Pick = None
      <4>1. rest \in [Endpoints -> Nat] /\ tried \subseteq Endpoints
        BY <1>0, TimesAssumption DEF TypeOK
      <4>2. tried = Endpoints
        BY <3>2, <4>1, PickFinds, PoolAssumption
      <4>3. Through = Endpoints
        BY <1>3, <4>2 DEF EndChunk, Through
      <4>4. QED BY <1>0, <4>3 DEF AskedOfAll, TypeOK
    <3>3. QED BY <1>3, <3>1, <3>2 DEF EndChunk
  <2>2. \A c \in Calls : out'[c] = IF c \in pending THEN Rejected ELSE out[c]
    BY <1>3 DEF EndChunk
  <2>3. asked' = asked
    BY <1>3 DEF EndChunk
  <2>4. QED BY <1>0, <2>1, <2>2, <2>3 DEF RejectedByAll
<1>4. CASE Request
  <2>1. slot \in Endpoints
    BY <1>0, <1>4, SlotAsked DEF Request
  <2>2. \A c \in Calls : asked[c] \subseteq asked'[c] /\ asked'[c] \subseteq Endpoints
    BY <1>0, <1>4, <2>1 DEF Request, TypeOK
  <2>3. out' = out
    BY <1>4 DEF Request
  <2>4. QED BY <1>0, <2>2, <2>3 DEF RejectedByAll
<1>5. CASE Answered
  <2>1. PICK got \in SUBSET flight : out' = [c \in Calls |-> IF c \in got THEN "answered" ELSE out[c]]
    BY <1>5 DEF Answered
  <2>2. \A c \in Calls : out'[c] = Rejected => out[c] = Rejected
    BY <2>1, <1>n
  <2>3. asked' = asked
    BY <1>5 DEF Answered
  <2>4. QED BY <1>0, <2>2, <2>3 DEF RejectedByAll
<1>6. CASE TooLarge
  <2>1. asked' = asked /\ flight \in Oversized /\ Halved(flight)
    BY <1>6 DEF TooLarge
  <2>2. CASE Cardinality(flight) = 1
    <3>1. IsFiniteSet(flight)
      BY <1>0, PoolAssumption, FS_Subset DEF TypeOK
    <3>2. PICK x : flight = {x}
      BY <2>2, <3>1, FS_Singleton
    <3>3. \A c \in Calls : out'[c] = IF c \in flight THEN Rejected ELSE out[c]
      BY <2>1, <2>2 DEF Halved
    <3>4. \A c \in flight : {c} \in Oversized
      BY <2>1, <3>2
    <3>5. QED BY <1>0, <2>1, <3>3, <3>4 DEF RejectedByAll
  <2>3. CASE Cardinality(flight) # 1
    BY <1>2, <2>1, <2>3 DEF Halved
  <2>4. QED BY <2>2, <2>3
<1>7. CASE NextChunk \/ Return \/ Bring \/ Leave \/ Throttled \/ Broken
  BY <1>2, <1>7 DEF NextChunk, Return, Bring, Leave, Throttled, Broken
<1>8. CASE BackOffShared \/ Elapse \/ Health
  BY <1>2, <1>8 DEF BackOffShared, Elapse, Health
<1>9. QED
  BY <1>1, <1>3, <1>4, <1>5, <1>6, <1>7, <1>8 DEF PoolMove, PoolStep, Reply

LEMMA PoolInvStep ==
  ASSUME PoolInv, PoolMove \/ UNCHANGED vars
  PROVE  PoolInv'
<1>1. CASE PoolMove
  BY <1>1, TypeStep, WayStep, AskedStep, RejectedStep DEF PoolInv
<1>2. CASE UNCHANGED vars
  <2>1. TypeOK' /\ RejectedByAll'
    BY <1>2 DEF vars, callVars, slotVars, paceVars, PoolInv, TypeOK, RejectedByAll
  <2>2. AskedHere' = AskedHere /\ Through' = Through
    BY <1>2 DEF vars, callVars, AskedHere, Through
  <2>3. UnderWay' /\ AskedOfAll'
    BY <1>2, <2>2 DEF vars, callVars, PoolInv, UnderWay, AskedOfAll
  <2>4. QED BY <2>1, <2>3 DEF PoolInv
<1>3. QED BY <1>1, <1>2

LEMMA PoolInitially ==
  ASSUME Init
  PROVE  PoolInv
<1> USE DEF Init
<1>1. TypeOK
  <2>1. <<>> \in Seq(SUBSET Calls)
    BY EmptySeq
  <2>2. /\ 0 \in 0..RestMax /\ 0 \in 0..PaceMax /\ PaceStart \in PaceMin..PaceMax
    BY TimesAssumption
  <2>3. QED BY <2>1, <2>2 DEF TypeOK
<1>2. UnderWay
  <2>1. <<>> \in Seq(SUBSET AskedHere)
    BY EmptySeq
  <2>2. QED BY <2>1 DEF UnderWay
<1>3. AskedOfAll
  BY DEF AskedOfAll
<1>4. RejectedByAll
  BY PoolAssumption DEF RejectedByAll
<1>5. QED BY <1>1, <1>2, <1>3, <1>4 DEF PoolInv

-----------------------------------------------------------------------------
(* What a round asks for may be asked.                                     *)
LEMMA PoolsOfRound ==
  ASSUME RoundTyped
  PROVE  /\ Held \subseteq Rows /\ RoundPools \subseteq Pools /\ Wanted \subseteq Addresses
         /\ \A p \in Pools : Factory(p) \in Calls
         /\ \A a \in Addresses : Code(a) \in Calls
<1>1. Held \subseteq Rows
  BY DEF RoundTyped, Held
<1>2. RoundPools \subseteq Pools
  BY <1>1 DEF RoundPools, Pools
<1>3. Wanted \subseteq Addresses
  BY <1>1, ReadsAssumption DEF Wanted
<1>4. QED BY <1>1, <1>2, <1>3, ReadsAssumption

(* Seen from the pool, a step of a round is a step of its own or none.     *)
LEMMA ReadMovesPool ==
  ASSUME RoundTyped, ReadNext
  PROVE  (PoolMove \/ UNCHANGED vars) /\ RoundTyped'
<1>1. CASE ReadRound
  <2>1. PICK rows \in SUBSET Rows :
          /\ round' = rows
          /\ All({Block(r.tx.block) : r \in rows} \cup {Receipts(r.tx.block) : r \in rows})
    BY <1>1 DEF ReadRound
  <2>2. {Block(r.tx.block) : r \in rows} \cup {Receipts(r.tx.block) : r \in rows} \subseteq Calls
    BY ReadsAssumption
  <2>3. asking' = asking
    BY <1>1 DEF ReadRound
  <2>4. QED BY <2>1, <2>2, <2>3 DEF PoolMove, RoundTyped
<1>2. CASE RoundFails \/ DescribeRound
  <2>1. Taken /\ round' = {} /\ asking' = {}
    BY <1>2 DEF RoundFails, DescribeRound
  <2>2. QED BY <2>1 DEF PoolMove, RoundTyped
<1>3. CASE AskFactories
  <2>1. /\ asking' = {p \in RoundPools : p \notin ToSet(factories) /\ unreadable[p] = 0}
        /\ All({Factory(p) : p \in asking'})
        /\ round' = round
    BY <1>3 DEF AskFactories
  <2>2. asking' \subseteq Pools
    BY <2>1, PoolsOfRound
  <2>3. {Factory(p) : p \in asking'} \subseteq Calls
    BY <2>2, PoolsOfRound
  <2>4. QED BY <2>1, <2>2, <2>3 DEF PoolMove, RoundTyped
<1>4. CASE AskCodes
  <2>1. /\ asking' = Wanted \ ToSet(codes)
        /\ All({Code(a) : a \in asking'})
        /\ round' = round
    BY <1>4 DEF AskCodes
  <2>2. asking' \subseteq Addresses
    BY <2>1, PoolsOfRound
  <2>3. {Code(a) : a \in asking'} \subseteq Calls
    BY <2>2, PoolsOfRound
  <2>4. QED BY <2>1, <2>2, <2>3 DEF PoolMove, RoundTyped
<1>5. CASE SlowDown
  BY <1>5 DEF SlowDown, PoolMove, readVars, RoundTyped
<1>6. CASE Time
  BY <1>6 DEF Time, PoolMove, RoundTyped
<1>7. CASE (PoolStep \/ Health) /\ UNCHANGED readVars
  BY <1>7 DEF PoolMove, readVars, RoundTyped
<1>8. QED
  BY <1>1, <1>2, <1>3, <1>4, <1>5, <1>6, <1>7 DEF ReadNext, ReadStep

(* The pool keeps its types under the rounds that use it.                  *)
LEMMA ReadPoolInvariant == ReadSpec => [](PoolInv /\ RoundTyped)
<1>1. ReadInit => PoolInv /\ RoundTyped
  BY PoolInitially DEF ReadInit, RoundTyped
<1>2. PoolInv /\ RoundTyped /\ [ReadNext]_allVars => (PoolInv /\ RoundTyped)'
  <2>1. SUFFICES ASSUME PoolInv, RoundTyped, [ReadNext]_allVars
                 PROVE  PoolInv' /\ RoundTyped'
    OBVIOUS
  <2>2. CASE ReadNext
    BY <2>1, <2>2, ReadMovesPool, PoolInvStep
  <2>3. CASE UNCHANGED allVars
    BY <2>1, <2>3, PoolInvStep DEF allVars, readVars, RoundTyped
  <2>4. QED BY <2>1, <2>2, <2>3
<1>3. QED BY <1>1, <1>2, PTL DEF ReadSpec

(* The same for any caller of all().                                       *)
LEMMA PoolInvariant == Spec => []PoolInv
<1>1. Init => PoolInv
  BY PoolInitially
<1>2. PoolInv /\ [Next]_vars => PoolInv'
  <2>1. Next => PoolMove
    BY DEF Next, PoolMove, Tick
  <2>2. QED BY <2>1, PoolInvStep
<1>3. QED BY <1>1, <1>2, PTL DEF Spec

(* Seen from the pool, the rounds are a caller like any other: they make    *)
(* one all() after the other, take what it returned before the next, and   *)
(* let time pass (txcontext.ts, insights.ts:226-269). What holds of the    *)
(* pool under every caller holds under them.                               *)
THEOREM UsesPool == ReadSpec => Spec
<1>1. ReadInit => Init
  BY DEF ReadInit
<1>2. ASSUME TypeOK, Elapse PROVE Tick \/ UNCHANGED vars
  <2> SUFFICES ASSUME ~ Tick PROVE UNCHANGED vars
    OBVIOUS
  <2>1. \A e \in Endpoints : rest[e] \in Nat /\ wait[e] \in Nat
    BY TimesAssumption, <1>2 DEF TypeOK
  <2>2. \A e \in Endpoints : rest[e] = 0 /\ wait[e] = 0
    BY <1>2, <2>1 DEF Tick
  <2>3. rest' = rest /\ wait' = wait
    <3>1. rest' = [e \in Endpoints |-> 0] /\ wait' = [e \in Endpoints |-> 0]
      BY <1>2, <2>2 DEF Elapse, Higher
    <3>2. rest = [e \in Endpoints |-> rest[e]] /\ wait = [e \in Endpoints |-> wait[e]]
      BY <1>2 DEF TypeOK
    <3>3. QED BY <2>2, <3>1, <3>2
  <2>4. QED BY <1>2, <2>3 DEF Elapse, vars, callVars, slotVars, paceVars
<1>3. ASSUME PoolInv, RoundTyped, [ReadNext]_allVars PROVE [Next]_vars
  <2>1. CASE ReadNext
    <3>1. PoolMove \/ UNCHANGED vars
      BY <1>3, <2>1, ReadMovesPool
    <3>2. PoolMove => Next \/ Elapse
      BY DEF PoolMove, Next
    <3>3. TypeOK
      BY <1>3 DEF PoolInv
    <3>4. Elapse => Next \/ UNCHANGED vars
      <4>1. Elapse => Tick \/ UNCHANGED vars
        BY <1>2, <3>3
      <4>2. Tick => Next
        BY DEF Next
      <4>3. QED BY <4>1, <4>2
    <3>5. QED BY <3>1, <3>2, <3>4
  <2>2. CASE UNCHANGED allVars
    BY <2>2 DEF allVars
  <2>3. QED BY <1>3, <2>1, <2>2
<1>4. QED BY <1>1, <1>3, ReadPoolInvariant, PTL DEF ReadSpec, Spec

(* The pool under any caller, and under the rounds: its calls, endpoints,  *)
(* rests and intervals keep their types (rpcpool.ts:184-325,               *)
(* pacer.ts:40-72).                                                        *)
THEOREM PoolTyped == (Spec => []TypeOK) /\ (ReadSpec => []TypeOK)
<1>1. PoolInv => TypeOK
  BY DEF PoolInv
<1>2. QED BY <1>1, PoolInvariant, ReadPoolInvariant, PTL

(* A call is given up only when every endpoint was asked for it, or when   *)
(* its answer alone is too large (rpcpool.ts:9-16), for any number of      *)
(* endpoints, chunk sizes and rests, whatever they answer, refuse or break *)
(* off, and whichever calls are made.                                      *)
THEOREM RejectedByAllHolds == (Spec => []RejectedByAll) /\ (ReadSpec => []RejectedByAll)
<1>1. PoolInv => RejectedByAll
  BY DEF PoolInv
<1>2. QED BY <1>1, PoolInvariant, ReadPoolInvariant, PTL

-----------------------------------------------------------------------------
(* What holds at 0 and is handed on from each number to the next holds up  *)
(* to n.                                                                   *)
LEMMA HandedOn ==
  ASSUME NEW n \in Nat, NEW S, 0 \in S, \A i \in 1..n : i - 1 \in S => i \in S
  PROVE  \A i \in 0..n : i \in S
<1> DEFINE bad == {i \in 0..n : i \notin S}
<1>1. SUFFICES ASSUME bad # {} PROVE FALSE
  OBVIOUS
<1>2. bad \in SUBSET Nat
  OBVIOUS
<1> HIDE DEF bad
<1>3. PICK m \in bad : \A k \in bad : ~ (<<k, m>> \in OpToRel(<, Nat))
  BY <1>1, <1>2, NatLessThanWellFounded, WFMin
<1>4. m \in 0..n /\ m \notin S
  BY <1>3 DEF bad
<1>5. m \in 1..n /\ m - 1 \notin S
  BY <1>4
<1>6. m - 1 \in bad
  BY <1>5 DEF bad
<1>7. <<m - 1, m>> \in OpToRel(<, Nat)
  BY <1>5 DEF OpToRel
<1>8. QED BY <1>3, <1>6, <1>7

(* A function of 0..n may be defined by its first value and a step.        *)
Unfolded(g, n, a, step) == g[0] = a /\ \A i \in 1..n : g[i] = step[<<i, g[i - 1]>>]

LEMMA Unfolding ==
  ASSUME NEW n \in Nat, NEW V, NEW a \in V, NEW step \in [(1..n) \X V -> V]
  PROVE  \E g \in [0..n -> V] : Unfolded(g, n, a, step)
<1> DEFINE S == {m \in 0..n : \E g \in [0..m -> V] : Unfolded(g, m, a, step)}
<1>1. 0 \in S
  <2> DEFINE g == [i \in 0..0 |-> a]
  <2>1. g \in [0..0 -> V] /\ Unfolded(g, 0, a, step)
    BY DEF Unfolded
  <2>2. 0 \in 0..n
    OBVIOUS
  <2> HIDE DEF g
  <2>3. QED BY <2>1, <2>2
<1>2. ASSUME NEW m \in 1..n, m - 1 \in S PROVE m \in S
  <2>1. PICK g \in [0..(m - 1) -> V] : Unfolded(g, m - 1, a, step)
    BY <1>2
  <2> DEFINE h == [i \in 0..m |-> IF i = m THEN step[<<m, g[m - 1]>>] ELSE g[i]]
  <2>2. g[m - 1] \in V /\ <<m, g[m - 1]>> \in (1..n) \X V
    OBVIOUS
  <2>3. step[<<m, g[m - 1]>>] \in V
    BY <2>2
  <2>4. h \in [0..m -> V]
    BY <2>3
  <2>5. \A i \in 0..m : h[i] = IF i = m THEN step[<<m, g[m - 1]>>] ELSE g[i]
    OBVIOUS
  <2> HIDE DEF h
  <2>6. h[0] = a
    BY <2>1, <2>5 DEF Unfolded
  <2>7. ASSUME NEW i \in 1..m PROVE h[i] = step[<<i, h[i - 1]>>]
    <3>1. h[i - 1] = g[i - 1]
      BY <2>5
    <3>2. CASE i = m
      BY <2>5, <3>1, <3>2
    <3>3. CASE i # m
      <4>1. i \in 1..(m - 1) /\ i \in 0..m
        BY <3>3
      <4>2. h[i] = g[i]
        BY <2>5, <3>3, <4>1
      <4>3. g[i] = step[<<i, g[i - 1]>>]
        BY <2>1, <4>1 DEF Unfolded
      <4>4. QED BY <3>1, <4>2, <4>3
    <3>4. QED BY <3>2, <3>3
  <2>8. Unfolded(h, m, a, step)
    BY <2>6, <2>7 DEF Unfolded
  <2>9. m \in 0..n
    OBVIOUS
  <2>10. QED BY <2>4, <2>8, <2>9
<1>3. \A i \in 0..n : i \in S
  <2> HIDE DEF S
  <2>1. QED BY <1>1, <1>2, HandedOn
<1>4. n \in S
  BY <1>3
<1>5. QED BY <1>4

(* A cache has each key once; the newest of it stand at its end.           *)
NoRepeats(l) == \A i, j \in 1..Len(l) : l[i] = l[j] => i = j
Lru(S) == {l \in Seq(S) : NoRepeats(l)}
Newest(l, T) == \E m \in 1..(Len(l) + 1) : T = {l[j] : j \in m..Len(l)}

(* Used, place by place: of a new key, and of one that is there.           *)
LEMMA UsedNew ==
  ASSUME NEW S, NEW l \in Seq(S), NEW k \in S, k \notin ToSet(l)
  PROVE  /\ Used(l, k) \in Seq(S) /\ Len(Used(l, k)) = Len(l) + 1
         /\ \A j \in 1..(Len(l) + 1) : Used(l, k)[j] = IF j = Len(l) + 1 THEN k ELSE l[j]
<1>1. Used(l, k) = Append(l, k)
  BY DEF Used
<1>2. QED BY <1>1, AppendProperties

LEMMA UsedOld ==
  ASSUME NEW S, NEW l \in Seq(S), NEW k \in S, k \in ToSet(l)
  PROVE  \E at \in 1..Len(l) :
           /\ l[at] = k
           /\ Used(l, k) \in Seq(S) /\ Len(Used(l, k)) = Len(l)
           /\ \A j \in 1..Len(l) :
                Used(l, k)[j] = IF j < at THEN l[j] ELSE IF j < Len(l) THEN l[j + 1] ELSE k
<1> DEFINE at == CHOOSE i \in 1..Len(l) : l[i] = k
<1>1. at \in 1..Len(l) /\ l[at] = k
  BY DEF ToSet
<1>2. Len(l) \in Nat /\ at \in Int
  BY <1>1
<1>3. Used(l, k) = Append(RemoveAt(l, at), k)
  BY DEF Used
<1> HIDE DEF at
<1> DEFINE front == SubSeq(l, 1, at - 1)
           back == SubSeq(l, at + 1, Len(l))
<1>4. /\ front \in Seq(S) /\ Len(front) = at - 1
      /\ \A j \in 1..(at - 1) : front[j] = l[j]
  BY <1>2, <1>1, SubSeqProperties
<1>5. /\ back \in Seq(S) /\ Len(back) = Len(l) - at
      /\ \A j \in 1..(Len(l) - at) : back[j] = l[at + j]
  BY <1>2, <1>1, SubSeqProperties
<1>6. RemoveAt(l, at) = front \o back
  BY DEF RemoveAt
<1> HIDE DEF front, back
<1> DEFINE others == front \o back
<1>7. /\ others \in Seq(S) /\ Len(others) = Len(l) - 1
      /\ \A j \in 1..(Len(l) - 1) : others[j] = IF j < at THEN l[j] ELSE l[j + 1]
  <2>1. front \in Seq(S) /\ back \in Seq(S)
    BY <1>4, <1>5
  <2>2. others \in Seq(S) /\ Len(others) = Len(front) + Len(back)
        /\ \A j \in 1..(Len(front) + Len(back)) :
             others[j] = IF j <= Len(front) THEN front[j] ELSE back[j - Len(front)]
    BY <2>1, ConcatProperties
  <2> HIDE DEF others
  <2>3. Len(others) = Len(l) - 1 /\ Len(front) + Len(back) = Len(l) - 1
    BY <1>2, <1>4, <1>5, <2>2
  <2>4. /\ others \in Seq(S)
        /\ \A j \in 1..(Len(l) - 1) : others[j] = IF j <= Len(front) THEN front[j] ELSE back[j - Len(front)]
    BY <2>2, <2>3
  <2>5. ASSUME NEW j \in 1..(Len(l) - 1) PROVE others[j] = IF j < at THEN l[j] ELSE l[j + 1]
    <3>1. CASE j < at
      BY <1>2, <1>4, <2>4, <2>3, <3>1
    <3>2. CASE ~ (j < at)
      <4>1. j - (at - 1) \in 1..(Len(l) - at) /\ at + (j - (at - 1)) = j + 1
        BY <1>2, <1>1, <3>2
      <4>2. others[j] = back[j - (at - 1)]
        <5>1. others[j] = IF j <= Len(front) THEN front[j] ELSE back[j - Len(front)]
          BY <2>4
        <5>2. Len(front) = at - 1 /\ ~ (j <= at - 1)
          BY <1>2, <1>4, <3>2
        <5>3. QED BY <5>1, <5>2
      <4>3. QED BY <1>5, <3>2, <4>1, <4>2
    <3>3. QED BY <3>1, <3>2
  <2>6. QED BY <2>4, <2>3, <2>5
<1> HIDE DEF others
<1>8. Used(l, k) = Append(others, k)
  BY <1>3, <1>6 DEF others
<1>9. /\ Used(l, k) \in Seq(S) /\ Len(Used(l, k)) = Len(l)
      /\ \A j \in 1..Len(l) : Used(l, k)[j] = IF j = Len(l) THEN k ELSE others[j]
  BY <1>2, <1>7, <1>8, AppendProperties
<1>10. \A j \in 1..Len(l) :
         Used(l, k)[j] = IF j < at THEN l[j] ELSE IF j < Len(l) THEN l[j + 1] ELSE k
  <2>1. SUFFICES ASSUME NEW j \in 1..Len(l)
                 PROVE Used(l, k)[j] = IF j < at THEN l[j] ELSE IF j < Len(l) THEN l[j + 1] ELSE k
    OBVIOUS
  <2>2. CASE j = Len(l)
    BY <1>2, <1>1, <1>9, <2>2
  <2>3. CASE j # Len(l)
    BY <1>2, <1>7, <1>9, <2>3
  <2>4. QED BY <2>2, <2>3
<1>11. QED BY <1>1, <1>9, <1>10

LEMMA ShiftOnce ==
  ASSUME NEW n \in Int, NEW at \in Int, NEW i \in Int, NEW j \in Int, i <= n, j <= n,
         (IF i < at THEN i ELSE IF i < n THEN i + 1 ELSE at)
           = (IF j < at THEN j ELSE IF j < n THEN j + 1 ELSE at)
  PROVE  i = j
OBVIOUS

LEMMA UsedNewer ==
  ASSUME NEW S, NEW l \in Lru(S), NEW k \in S
  PROVE  /\ Used(l, k) \in Lru(S) /\ ToSet(Used(l, k)) = ToSet(l) \cup {k}
         /\ Len(Used(l, k)) = IF k \in ToSet(l) THEN Len(l) ELSE Len(l) + 1
         /\ \A T : Newest(l, T) /\ k \notin T => Newest(Used(l, k), T \cup {k})
<1>0. l \in Seq(S) /\ Len(l) \in Nat /\ ToSet(l) = {l[j] : j \in 1..Len(l)}
      /\ \A i, j \in 1..Len(l) : l[i] = l[j] => i = j
  BY DEF Lru, NoRepeats, ToSet
<1>1. CASE k \notin ToSet(l)
  <2>1. PICK u : u = Used(l, k)
    OBVIOUS
  <2>2. /\ u \in Seq(S) /\ Len(u) = Len(l) + 1
        /\ \A j \in 1..(Len(l) + 1) : u[j] = IF j = Len(l) + 1 THEN k ELSE l[j]
    <3>1. l \in Seq(S)
      BY <1>0
    <3>2. /\ Used(l, k) \in Seq(S) /\ Len(Used(l, k)) = Len(l) + 1
          /\ \A j \in 1..(Len(l) + 1) : Used(l, k)[j] = IF j = Len(l) + 1 THEN k ELSE l[j]
      BY <1>1, <3>1, UsedNew
    <3>3. QED BY <2>1, <3>2
  <2>3. \A j \in 1..Len(l) : u[j] = l[j] /\ l[j] # k
    BY <1>0, <1>1, <2>2
  <2>4. u[Len(l) + 1] = k
    BY <1>0, <2>2
  <2>5. NoRepeats(u)
    <3>1. SUFFICES ASSUME NEW i \in 1..(Len(l) + 1), NEW j \in 1..(Len(l) + 1), u[i] = u[j] PROVE i = j
      BY <2>2 DEF NoRepeats
    <3>2. CASE i = Len(l) + 1
      BY <1>0, <2>3, <2>4, <3>1, <3>2
    <3>3. CASE j = Len(l) + 1
      BY <1>0, <2>3, <2>4, <3>1, <3>3
    <3>4. CASE i \in 1..Len(l) /\ j \in 1..Len(l)
      BY <1>0, <2>3, <3>1, <3>4
    <3>5. QED BY <1>0, <3>2, <3>3, <3>4
  <2>6. ToSet(u) = ToSet(l) \cup {k}
    <3>1. ToSet(u) = {u[j] : j \in 1..(Len(l) + 1)}
      BY <2>2 DEF ToSet
    <3>2. 1..(Len(l) + 1) = 1..Len(l) \cup {Len(l) + 1}
      BY <1>0
    <3>3. QED BY <1>0, <2>3, <2>4, <3>1, <3>2
  <2>7. ASSUME NEW T, Newest(l, T) PROVE Newest(u, T \cup {k})
    <3>1. PICK m \in 1..(Len(l) + 1) : T = {l[j] : j \in m..Len(l)}
      BY <2>7 DEF Newest
    <3>2. m..Len(u) = m..Len(l) \cup {Len(l) + 1} /\ m \in 1..(Len(u) + 1)
      BY <1>0, <2>2
    <3>3. \A j \in m..Len(l) : u[j] = l[j]
      BY <1>0, <2>3
    <3>4. {u[j] : j \in m..Len(u)} = T \cup {k}
      BY <2>4, <3>1, <3>2, <3>3
    <3>5. QED BY <3>2, <3>4 DEF Newest
  <2>8. QED BY <1>1, <2>1, <2>2, <2>5, <2>6, <2>7 DEF Lru
<1>2. CASE k \in ToSet(l)
  <2>0. PICK u : u = Used(l, k)
    OBVIOUS
  <2>1. PICK at \in 1..Len(l) :
          /\ u = Used(l, k) /\ l[at] = k
          /\ u \in Seq(S) /\ Len(u) = Len(l)
          /\ \A j \in 1..Len(l) : u[j] = IF j < at THEN l[j] ELSE IF j < Len(l) THEN l[j + 1] ELSE k
    <3>1. l \in Seq(S)
      BY <1>0
    <3>2. PICK at \in 1..Len(l) :
              /\ l[at] = k
              /\ Used(l, k) \in Seq(S) /\ Len(Used(l, k)) = Len(l)
              /\ \A j \in 1..Len(l) :
                   Used(l, k)[j] = IF j < at THEN l[j] ELSE IF j < Len(l) THEN l[j + 1] ELSE k
      BY <1>2, <3>1, UsedOld
    <3>3. QED BY <2>0, <3>2
  <2>2. PICK from \in [1..Len(l) -> 1..Len(l)] :
          /\ \A j \in 1..Len(l) : u[j] = l[from[j]]
          /\ \A j \in 1..Len(l) : from[j] = IF j < at THEN j ELSE IF j < Len(l) THEN j + 1 ELSE at
    <3> DEFINE f == [j \in 1..Len(l) |-> IF j < at THEN j ELSE IF j < Len(l) THEN j + 1 ELSE at]
    <3>1. f \in [1..Len(l) -> 1..Len(l)]
      BY <1>0
    <3>2. \A j \in 1..Len(l) : f[j] = IF j < at THEN j ELSE IF j < Len(l) THEN j + 1 ELSE at
      OBVIOUS
    <3> HIDE DEF f
    <3>3. \A j \in 1..Len(l) : u[j] = l[f[j]]
      BY <2>1, <3>2
    <3>4. QED BY <3>1, <3>2, <3>3
  <2>3. NoRepeats(u)
    <3>1. ASSUME NEW i \in 1..Len(l), NEW j \in 1..Len(l), from[i] = from[j] PROVE i = j
      <4>1. /\ from[i] = IF i < at THEN i ELSE IF i < Len(l) THEN i + 1 ELSE at
            /\ from[j] = IF j < at THEN j ELSE IF j < Len(l) THEN j + 1 ELSE at
        BY <2>2
      <4>2. i \in Int /\ j \in Int /\ at \in Int /\ i <= Len(l) /\ j <= Len(l) /\ Len(l) \in Int
        BY <1>0
      <4>3. (IF i < at THEN i ELSE IF i < Len(l) THEN i + 1 ELSE at)
              = (IF j < at THEN j ELSE IF j < Len(l) THEN j + 1 ELSE at)
        BY <3>1, <4>1, Zenon
      <4>4. QED BY <4>2, <4>3, ShiftOnce
    <3>2. ASSUME NEW i \in 1..Len(l), NEW j \in 1..Len(l), u[i] = u[j] PROVE i = j
      <4>1. from[i] \in 1..Len(l) /\ from[j] \in 1..Len(l) /\ l[from[i]] = l[from[j]]
        BY <2>2, <3>2
      <4>2. from[i] = from[j]
        BY <1>0, <4>1
      <4>3. QED BY <3>1, <4>2
    <3>3. QED BY <2>1, <3>2 DEF NoRepeats
  <2>4. ToSet(u) = ToSet(l)
    <3>1. ToSet(u) = {u[j] : j \in 1..Len(l)}
      BY <2>1 DEF ToSet
    <3>2. ASSUME NEW i \in 1..Len(l) PROVE \E j \in 1..Len(l) : from[j] = i
      <4>1. CASE i < at
        BY <1>0, <2>2, <4>1
      <4>2. CASE i = at
        <5>1. Len(l) \in 1..Len(l) /\ ~ (Len(l) < at)
          BY <1>0
        <5>2. QED BY <2>2, <4>2, <5>1
      <4>3. CASE i > at
        <5>1. i - 1 \in 1..Len(l) /\ ~ (i - 1 < at) /\ i - 1 < Len(l) /\ (i - 1) + 1 = i
          BY <1>0, <4>3
        <5>2. QED BY <2>2, <5>1
      <4>4. QED BY <1>0, <4>1, <4>2, <4>3
    <3>3. ToSet(u) \subseteq ToSet(l)
      BY <1>0, <2>2, <3>1
    <3>4. ASSUME NEW x \in ToSet(l) PROVE x \in ToSet(u)
      <4>1. PICK i \in 1..Len(l) : x = l[i]
        BY <1>0
      <4>2. PICK j \in 1..Len(l) : from[j] = i
        BY <3>2
      <4>3. u[j] = x
        BY <2>2, <4>1, <4>2
      <4>4. QED BY <3>1, <4>3
    <3>5. QED BY <3>3, <3>4
  <2>5. ASSUME NEW T, Newest(l, T), k \notin T PROVE Newest(u, T \cup {k})
    <3>1. PICK m \in 1..(Len(l) + 1) : T = {l[j] : j \in m..Len(l)}
      BY <2>5 DEF Newest
    <3>2. at < m
      <4>1. ~ (at \in m..Len(l))
        BY <2>1, <2>5, <3>1
      <4>2. QED BY <1>0, <4>1
    <3>3. m - 1 \in 1..(Len(u) + 1) /\ Len(u) = Len(l) /\ Len(l) \in 1..Len(l)
      BY <1>0, <2>1, <3>2
    <3>4. u[Len(l)] = k
      BY <1>0, <2>1, <3>3
    <3>5. \A j \in (m - 1)..(Len(l) - 1) : u[j] = l[j + 1] /\ j + 1 \in m..Len(l)
      BY <1>0, <2>1, <3>2
    <3>6. \A j \in m..Len(l) : j - 1 \in (m - 1)..(Len(l) - 1) /\ (j - 1) + 1 = j
      BY <1>0
    <3>7. (m - 1)..Len(l) = (m - 1)..(Len(l) - 1) \cup {Len(l)}
      BY <1>0, <3>1
    <3>8. {u[j] : j \in (m - 1)..(Len(l) - 1)} = T
      <4>1. \A x \in T : \E j \in m..Len(l) : x = l[j]
        BY <3>1
      <4>2. \A x \in T : \E j \in (m - 1)..(Len(l) - 1) : x = u[j]
        <5>1. SUFFICES ASSUME NEW x \in T PROVE \E j \in (m - 1)..(Len(l) - 1) : x = u[j]
          OBVIOUS
        <5>2. PICK j \in m..Len(l) : x = l[j]
          BY <4>1
        <5>3. j - 1 \in (m - 1)..(Len(l) - 1) /\ (j - 1) + 1 = j
          BY <3>6
        <5>4. u[j - 1] = l[j]
          BY <3>5, <5>3
        <5>5. QED BY <5>2, <5>3, <5>4
      <4>3. \A j \in (m - 1)..(Len(l) - 1) : u[j] \in T
        BY <3>1, <3>5
      <4>4. QED BY <4>2, <4>3
    <3>9. {u[j] : j \in (m - 1)..Len(u)} = T \cup {k}
      BY <3>3, <3>4, <3>7, <3>8
    <3>10. QED BY <3>3, <3>9 DEF Newest
  <2>6. QED BY <1>2, <2>1, <2>3, <2>4, <2>5 DEF Lru
<1>3. QED BY <1>1, <1>2

(* A suffix is as long as it has keys.                                     *)
LEMMA NewestSize ==
  ASSUME NEW S, NEW l \in Lru(S), NEW m \in 1..(Len(l) + 1), NEW T, IsFiniteSet(T),
         T = {l[j] : j \in m..Len(l)}
  PROVE  Len(l) - m + 1 <= Cardinality(T)
<1> DEFINE f == [j \in m..Len(l) |-> l[j]]
<1>0. l \in Seq(S) /\ Len(l) \in Nat /\ \A i, j \in 1..Len(l) : l[i] = l[j] => i = j
  BY DEF Lru, NoRepeats
<1>1. m..Len(l) \subseteq 1..Len(l)
  BY <1>0
<1>2. f \in [m..Len(l) -> T]
  OBVIOUS
<1>3. \A i, j \in m..Len(l) : f[i] = f[j] => i = j
  BY <1>0, <1>1
<1>4. f \in Injection(m..Len(l), T)
  BY <1>2, <1>3 DEF Injection, IsInjective
<1>5. Cardinality(m..Len(l)) <= Cardinality(T)
  BY <1>4, FS_Injection
<1>6. Cardinality(m..Len(l)) = IF m > Len(l) THEN 0 ELSE Len(l) - m + 1
  <2>1. m \in Int /\ Len(l) \in Int
    BY <1>0
  <2>2. QED BY <2>1, FS_Interval
<1>7. Cardinality(T) \in Nat
  BY FS_CardinalityType
<1>8. QED BY <1>0, <1>5, <1>6, <1>7

(* What is evicted is not among the newest that fit.                       *)
LEMMA EvictedKeeps ==
  ASSUME NEW S, NEW l \in Lru(S), Len(l) <= CacheMax + 1
  PROVE  /\ Evicted(l) \in Lru(S) /\ Len(Evicted(l)) <= CacheMax
         /\ ToSet(Evicted(l)) \subseteq ToSet(l)
         /\ \A T : IsFiniteSet(T) /\ Cardinality(T) <= CacheMax /\ Newest(l, T)
                    => Newest(Evicted(l), T)
<1>0. l \in Seq(S) /\ Len(l) \in Nat /\ \A i, j \in 1..Len(l) : l[i] = l[j] => i = j
  BY DEF Lru, NoRepeats
<1>c. CacheMax \in Nat
  BY ReadsAssumption
<1>1. CASE ~ (Len(l) > CacheMax)
  BY <1>0, <1>1, <1>c DEF Evicted
<1>2. CASE Len(l) > CacheMax
  <2>1. PICK t : t = Tail(l)
    OBVIOUS
  <2>2. Evicted(l) = t
    BY <1>2, <2>1 DEF Evicted
  <2>3. l # <<>>
    BY <1>0, <1>2, <1>c
  <2>4. /\ t \in Seq(S) /\ Len(t) = Len(l) - 1
        /\ \A j \in 1..(Len(l) - 1) : t[j] = l[j + 1]
    BY <1>0, <2>1, <2>3, HeadTailProperties
  <2>5. \A j \in 1..(Len(l) - 1) : j + 1 \in 1..Len(l)
    BY <1>0
  <2>6. NoRepeats(t)
    <3>1. SUFFICES ASSUME NEW i \in 1..(Len(l) - 1), NEW j \in 1..(Len(l) - 1), t[i] = t[j] PROVE i = j
      BY <2>4 DEF NoRepeats
    <3>2. i + 1 = j + 1
      BY <1>0, <2>4, <2>5, <3>1
    <3>3. QED BY <3>2
  <2>7. ToSet(t) \subseteq ToSet(l)
    <3>1. ToSet(t) = {t[j] : j \in 1..(Len(l) - 1)} /\ ToSet(l) = {l[j] : j \in 1..Len(l)}
      BY <1>0, <2>4 DEF ToSet
    <3>2. QED BY <2>4, <2>5, <3>1
  <2>8. ASSUME NEW T, IsFiniteSet(T), Cardinality(T) <= CacheMax, Newest(l, T)
        PROVE  Newest(t, T)
    <3>1. PICK m \in 1..(Len(l) + 1) : T = {l[j] : j \in m..Len(l)}
      BY <2>8 DEF Newest
    <3>2. Len(l) - m + 1 <= Cardinality(T) /\ Cardinality(T) \in Nat
      BY <2>8, <3>1, NewestSize, FS_CardinalityType
    <3>3. m - 1 \in 1..(Len(t) + 1)
      BY <1>0, <1>2, <1>c, <2>4, <2>8, <3>2
    <3>4. \A j \in (m - 1)..Len(t) : t[j] = l[j + 1] /\ j + 1 \in m..Len(l)
      BY <1>0, <2>4, <3>3
    <3>5. \A j \in m..Len(l) : j - 1 \in (m - 1)..Len(t) /\ (j - 1) + 1 = j
      BY <1>0, <2>4
    <3>6. ASSUME NEW x \in T PROVE \E j \in (m - 1)..Len(t) : x = t[j]
      <4>1. PICK j \in m..Len(l) : x = l[j]
        BY <3>1
      <4>2. j - 1 \in (m - 1)..Len(t) /\ (j - 1) + 1 = j
        BY <3>5
      <4>3. t[j - 1] = l[j]
        BY <3>4, <4>2
      <4>4. QED BY <4>1, <4>2, <4>3
    <3>7. ASSUME NEW j \in (m - 1)..Len(t) PROVE t[j] \in T
      BY <3>1, <3>4
    <3>8. T = {t[j] : j \in (m - 1)..Len(t)}
      BY <3>6, <3>7
    <3>9. QED BY <3>3, <3>8 DEF Newest
  <2>9. Len(t) <= CacheMax
    BY <1>0, <1>c, <2>4
  <2>10. QED BY <2>2, <2>4, <2>6, <2>7, <2>8, <2>9 DEF Lru
<1>3. QED BY <1>1, <1>2

(* Get and Put, key by key.                                                *)
LEMMA GetUnfolds ==
  ASSUME NEW S, NEW l \in Lru(S), NEW keys \in Seq(S)
  PROVE  \E f \in [0..Len(keys) -> Lru(S)] :
           /\ f[0] = l /\ Get(l, keys) = f[Len(keys)]
           /\ \A i \in 1..Len(keys) :
                f[i] = IF keys[i] \in ToSet(l) THEN Used(f[i - 1], keys[i]) ELSE f[i - 1]
<1> DEFINE n == Len(keys)
           V == Lru(S)
           step == [p \in (1..n) \X V |->
                      IF keys[p[1]] \in ToSet(l) THEN Used(p[2], keys[p[1]]) ELSE p[2]]
<1>0. n \in Nat /\ \A i \in 1..n : keys[i] \in S
  OBVIOUS
<1>1. step \in [(1..n) \X V -> V]
  BY <1>0, UsedNewer
<1> HIDE DEF n, V
<1>2. l \in V
  BY DEF V
<1>3. PICK g \in [0..n -> V] : Unfolded(g, n, l, step)
  <2> HIDE DEF step
  <2>1. QED BY <1>0, <1>1, <1>2, Unfolding
<1>4. \A i \in 1..n : g[i] = IF keys[i] \in ToSet(l) THEN Used(g[i - 1], keys[i]) ELSE g[i - 1]
  <2>1. SUFFICES ASSUME NEW i \in 1..n
                 PROVE g[i] = IF keys[i] \in ToSet(l) THEN Used(g[i - 1], keys[i]) ELSE g[i - 1]
    OBVIOUS
  <2>2. i - 1 \in 0..n
    BY <1>0
  <2>3. <<i, g[i - 1]>> \in (1..n) \X V
    BY <2>2
  <2>4. g[i] = step[<<i, g[i - 1]>>]
    BY <1>3 DEF Unfolded
  <2>5. QED BY <2>3, <2>4
<1> HIDE DEF step
<1>5. g[0] = l
  BY <1>3 DEF Unfolded
<1>6. \A i \in 0..n : i = 0 \/ i \in 1..n
  BY <1>0
<1>7. g = [i \in 0..n |-> IF i = 0 THEN l
             ELSE IF keys[i] \in ToSet(l) THEN Used(g[i - 1], keys[i]) ELSE g[i - 1]]
  BY <1>4, <1>5, <1>6
<1> DEFINE f == CHOOSE h : h = [i \in 0..n |-> IF i = 0 THEN l
                  ELSE IF keys[i] \in ToSet(l) THEN Used(h[i - 1], keys[i]) ELSE h[i - 1]]
<1>8. f = [i \in 0..n |-> IF i = 0 THEN l
             ELSE IF keys[i] \in ToSet(l) THEN Used(f[i - 1], keys[i]) ELSE f[i - 1]]
  BY <1>7
<1>9. Get(l, keys) = f[n]
  BY DEF Get, n
<1> HIDE DEF f
<1>10. f[0] = l /\ \A i \in 1..n :
         f[i] = IF keys[i] \in ToSet(l) THEN Used(f[i - 1], keys[i]) ELSE f[i - 1]
  BY <1>0, <1>8
<1>11. \A i \in 0..n : f[i] \in V
  <2> DEFINE typed == {i \in 0..n : f[i] \in V}
  <2>1. 0 \in typed
    BY <1>0, <1>2, <1>10
  <2>2. ASSUME NEW i \in 1..n, i - 1 \in typed PROVE i \in typed
    <3>1. keys[i] \in S /\ f[i - 1] \in Lru(S)
      BY <1>0, <2>2 DEF V
    <3>2. Used(f[i - 1], keys[i]) \in Lru(S)
      BY <3>1, UsedNewer
    <3>3. f[i] \in Lru(S)
      BY <1>10, <3>1, <3>2
    <3>4. QED BY <3>3 DEF V
  <2> HIDE DEF typed
  <2>3. \A i \in 0..n : i \in typed
    BY <1>0, <2>1, <2>2, HandedOn
  <2>4. QED BY <2>3 DEF typed
<1>12. f \in [0..n -> V]
  <2>1. DOMAIN f = 0..n /\ f = [i \in 0..n |-> f[i]]
    BY <1>8
  <2>2. QED BY <1>11, <2>1
<1>13. QED BY <1>9, <1>10, <1>12 DEF n, V

(* A cache within its limit stays so when a key is put.                    *)
Small(S) == {w \in Lru(S) : Len(w) <= CacheMax}

LEMMA UsedFits ==
  ASSUME NEW S, NEW l \in Small(S), NEW k \in S
  PROVE  /\ Used(l, k) \in Lru(S) /\ Len(Used(l, k)) <= CacheMax + 1
         /\ Evicted(Used(l, k)) \in Small(S)
<1>1. l \in Lru(S) /\ Len(l) <= CacheMax /\ Len(l) \in Nat /\ CacheMax \in Nat
  BY ReadsAssumption DEF Small, Lru
<1>2. Used(l, k) \in Lru(S) /\ Len(Used(l, k)) = IF k \in ToSet(l) THEN Len(l) ELSE Len(l) + 1
  BY <1>1, UsedNewer
<1>3. Len(Used(l, k)) <= CacheMax + 1
  BY <1>1, <1>2
<1>4. QED BY <1>2, <1>3, EvictedKeeps DEF Small

LEMMA PutUnfolds ==
  ASSUME NEW S, NEW l \in Lru(S), Len(l) <= CacheMax, NEW keys \in Seq(S)
  PROVE  \E f \in [0..Len(keys) -> Small(S)] :
           /\ f[0] = l /\ Put(l, keys) = f[Len(keys)]
           /\ \A i \in 1..Len(keys) :
                f[i] = Evicted(Used(f[i - 1], keys[i]))
<1> DEFINE n == Len(keys)
           V == Small(S)
           step == [p \in (1..n) \X V |-> Evicted(Used(p[2], keys[p[1]]))]
<1>0. n \in Nat /\ \A i \in 1..n : keys[i] \in S
  OBVIOUS
<1>1. step \in [(1..n) \X V -> V]
  BY <1>0, UsedFits
<1> HIDE DEF n, V
<1>2. l \in V
  BY DEF V, Small
<1>3. PICK g \in [0..n -> V] : Unfolded(g, n, l, step)
  <2> HIDE DEF step
  <2>1. QED BY <1>0, <1>1, <1>2, Unfolding
<1>4. \A i \in 1..n : g[i] = Evicted(Used(g[i - 1], keys[i]))
  <2>1. SUFFICES ASSUME NEW i \in 1..n
                 PROVE g[i] = Evicted(Used(g[i - 1], keys[i]))
    OBVIOUS
  <2>2. i - 1 \in 0..n
    BY <1>0
  <2>3. <<i, g[i - 1]>> \in (1..n) \X V
    BY <2>2
  <2>4. g[i] = step[<<i, g[i - 1]>>]
    BY <1>3 DEF Unfolded
  <2>5. QED BY <2>3, <2>4
<1> HIDE DEF step
<1>5. g[0] = l
  BY <1>3 DEF Unfolded
<1>6. \A i \in 0..n : i = 0 \/ i \in 1..n
  BY <1>0
<1>7. g = [i \in 0..n |-> IF i = 0 THEN l
             ELSE Evicted(Used(g[i - 1], keys[i]))]
  BY <1>4, <1>5, <1>6
<1> DEFINE f == CHOOSE h : h = [i \in 0..n |-> IF i = 0 THEN l
                  ELSE Evicted(Used(h[i - 1], keys[i]))]
<1>8. f = [i \in 0..n |-> IF i = 0 THEN l
             ELSE Evicted(Used(f[i - 1], keys[i]))]
  BY <1>7
<1>9. Put(l, keys) = f[n]
  BY DEF Put, n
<1> HIDE DEF f
<1>10. f[0] = l /\ \A i \in 1..n :
         f[i] = Evicted(Used(f[i - 1], keys[i]))
  BY <1>0, <1>8
<1>11. \A i \in 0..n : f[i] \in V
  <2> DEFINE typed == {i \in 0..n : f[i] \in V}
  <2>1. 0 \in typed
    BY <1>0, <1>2, <1>10
  <2>2. ASSUME NEW i \in 1..n, i - 1 \in typed PROVE i \in typed
    <3>1. keys[i] \in S /\ f[i - 1] \in V
      BY <1>0, <2>2
    <3>2. Evicted(Used(f[i - 1], keys[i])) \in V
      BY <3>1, UsedFits DEF V
    <3>3. f[i] \in V
      BY <1>10, <3>2
    <3>4. QED BY <3>3
  <2> HIDE DEF typed
  <2>3. \A i \in 0..n : i \in typed
    BY <1>0, <2>1, <2>2, HandedOn
  <2>4. QED BY <2>3 DEF typed
<1>12. f \in [0..n -> V]
  <2>1. DOMAIN f = 0..n /\ f = [i \in 0..n |-> f[i]]
    BY <1>8
  <2>2. QED BY <1>11, <2>1
<1>13. QED BY <1>9, <1>10, <1>12 DEF n, V

(* A batch without repetitions.                                            *)
LEMMA OrdersOf ==
  ASSUME NEW K, IsFiniteSet(K), NEW order \in Orders(K)
  PROVE  order \in Seq(K) /\ NoRepeats(order) /\ ToSet(order) = K
<1>1. /\ order \in [1..Cardinality(K) -> K] /\ Cardinality(K) \in Nat
      /\ \A i, j \in 1..Cardinality(K) : i # j => order[i] # order[j]
  BY FS_CardinalityType DEF Orders, SetToSeqs
<1>2. order \in Seq(K) /\ Len(order) = Cardinality(K)
  BY <1>1
<1>3. NoRepeats(order)
  BY <1>1, <1>2 DEF NoRepeats
<1>4. order \in Injection(1..Cardinality(K), K)
  BY <1>1 DEF Injection, IsInjective
<1>5. Cardinality(1..Cardinality(K)) = Cardinality(K)
  <2>1. 1 \in Int /\ Cardinality(K) \in Int
    BY <1>1
  <2>2. Cardinality(1..Cardinality(K)) = IF 1 > Cardinality(K) THEN 0 ELSE Cardinality(K) - 1 + 1
    BY <2>1, FS_Interval
  <2>3. QED BY <1>1, <2>2
<1>6. order \in Surjection(1..Cardinality(K), K)
  BY <1>4, <1>5, FS_Injection
<1>7. \A k \in K : \E i \in 1..Cardinality(K) : order[i] = k
  BY <1>6 DEF Surjection
<1>8. ToSet(order) = K
  BY <1>1, <1>7 DEF ToSet
<1>9. QED BY <1>2, <1>3, <1>8

(* Reading a batch makes what is cached of it the newest.                  *)
LEMMA GetNewest ==
  ASSUME NEW S, NEW l \in Lru(S), NEW K \in SUBSET S, IsFiniteSet(K), NEW order \in Orders(K)
  PROVE  /\ Get(l, order) \in Lru(S) /\ Len(Get(l, order)) = Len(l)
         /\ ToSet(Get(l, order)) = ToSet(l)
         /\ Newest(Get(l, order), K \cap ToSet(l))
<1>1. order \in Seq(S) /\ NoRepeats(order) /\ ToSet(order) = K /\ Len(order) \in Nat
  BY OrdersOf
<1>2. PICK f \in [0..Len(order) -> Lru(S)] :
         /\ f[0] = l /\ Get(l, order) = f[Len(order)]
         /\ \A i \in 1..Len(order) :
              f[i] = IF order[i] \in ToSet(l) THEN Used(f[i - 1], order[i]) ELSE f[i - 1]
  BY <1>1, GetUnfolds
<1> DEFINE first(i) == {order[j] : j \in 1..i}
           good == {i \in 0..Len(order) :
                      /\ ToSet(f[i]) = ToSet(l) /\ Len(f[i]) = Len(l)
                      /\ Newest(f[i], first(i) \cap ToSet(l))}
<1>3. 0 \in good
  <2>1. first(0) \cap ToSet(l) = {}
    OBVIOUS
  <2>2. l \in Seq(S) /\ Len(l) \in Nat
    BY DEF Lru
  <2>3. Len(l) + 1 \in 1..(Len(l) + 1) /\ {l[j] : j \in (Len(l) + 1)..Len(l)} = {}
    BY <2>2
  <2>4. Newest(l, {})
    BY <2>3 DEF Newest
  <2>5. Newest(f[0], first(0) \cap ToSet(l))
    BY <1>2, <2>1, <2>4, Zenon
  <2>6. ToSet(f[0]) = ToSet(l) /\ Len(f[0]) = Len(l) /\ 0 \in 0..Len(order)
    BY <1>1, <1>2
  <2> HIDE DEF first
  <2>7. QED BY <2>5, <2>6
<1>4. ASSUME NEW i \in 1..Len(order), i - 1 \in good PROVE i \in good
  <2>1. /\ f[i - 1] \in Lru(S) /\ order[i] \in S /\ i - 1 \in 0..Len(order)
        /\ ToSet(f[i - 1]) = ToSet(l) /\ Len(f[i - 1]) = Len(l)
        /\ Newest(f[i - 1], first(i - 1) \cap ToSet(l))
    BY <1>1, <1>4
  <2>2. 1..i = 1..(i - 1) \cup {i}
    BY <1>1
  <2>3. first(i) = first(i - 1) \cup {order[i]}
    BY <2>2
  <2>4. order[i] \notin first(i - 1)
    <3>1. \A j \in 1..(i - 1) : j \in 1..Len(order) /\ j # i
      BY <1>1
    <3>2. QED BY <1>1, <3>1 DEF NoRepeats
  <2> HIDE DEF first
  <2>5. CASE order[i] \in ToSet(l)
    <3>1. f[i] = Used(f[i - 1], order[i])
      BY <1>2, <2>5
    <3>2. /\ ToSet(f[i]) = ToSet(l) \cup {order[i]} /\ Len(f[i]) = Len(l)
          /\ Newest(f[i], (first(i - 1) \cap ToSet(l)) \cup {order[i]})
      BY <2>1, <2>4, <2>5, <3>1, UsedNewer
    <3>3. (first(i - 1) \cap ToSet(l)) \cup {order[i]} = first(i) \cap ToSet(l)
      BY <2>3, <2>5
    <3>4. QED BY <2>1, <2>5, <3>2, <3>3
  <2>6. CASE order[i] \notin ToSet(l)
    <3>1. f[i] = f[i - 1] /\ first(i) \cap ToSet(l) = first(i - 1) \cap ToSet(l)
      BY <1>2, <2>3, <2>6
    <3>2. Newest(f[i], first(i) \cap ToSet(l))
      BY <2>1, <3>1, Zenon
    <3>3. QED BY <2>1, <3>1, <3>2
  <2>7. QED BY <2>5, <2>6
<1>5. Len(order) \in good
  <2> HIDE DEF good
  <2>1. \A i \in 0..Len(order) : i \in good
    BY <1>1, <1>3, <1>4, HandedOn
  <2>2. QED BY <1>1, <2>1
<1>6. first(Len(order)) = K
  BY <1>1 DEF ToSet
<1>7. QED BY <1>1, <1>2, <1>5, <1>6

(* Putting a batch beside the newest keeps both, as long as both fit.      *)
LEMMA PutKeeps ==
  ASSUME NEW S, NEW l \in Small(S), NEW K \in SUBSET S, IsFiniteSet(K), NEW order \in Orders(K)
  PROVE  /\ Put(l, order) \in Small(S)
         /\ ToSet(Put(l, order)) \subseteq ToSet(l) \cup K
         /\ \A T : /\ IsFiniteSet(T \cup K) /\ Cardinality(T \cup K) <= CacheMax
                   /\ Newest(l, T) /\ T \cap K = {}
                   => T \cup K \subseteq ToSet(Put(l, order))
<1>0. l \in Lru(S) /\ Len(l) <= CacheMax /\ CacheMax \in Nat
  BY ReadsAssumption DEF Small
<1>1. order \in Seq(S) /\ NoRepeats(order) /\ ToSet(order) = K /\ Len(order) \in Nat
  BY OrdersOf
<1>2. PICK f \in [0..Len(order) -> Small(S)] :
         /\ f[0] = l /\ Put(l, order) = f[Len(order)]
         /\ \A i \in 1..Len(order) : f[i] = Evicted(Used(f[i - 1], order[i]))
  BY <1>0, <1>1, PutUnfolds
<1> DEFINE first(i) == {order[j] : j \in 1..i}
<1>3. first(0) = {} /\ first(Len(order)) = K
  BY <1>1 DEF ToSet
<1>4. ASSUME NEW i \in 1..Len(order)
      PROVE  /\ f[i - 1] \in Small(S) /\ order[i] \in K
             /\ first(i) = first(i - 1) \cup {order[i]} /\ order[i] \notin first(i - 1)
             /\ first(i) \subseteq K
  <2>1. f[i - 1] \in Small(S)
    <3>1. i - 1 \in 0..Len(order)
      BY <1>1
    <3>2. QED BY <3>1
  <2>2. 1..i = 1..(i - 1) \cup {i} /\ 1..i \subseteq 1..Len(order)
    BY <1>1
  <2>3. \A j \in 1..(i - 1) : j \in 1..Len(order) /\ j # i
    BY <1>1
  <2>4. order[i] \notin first(i - 1)
    BY <1>1, <2>3 DEF NoRepeats
  <2>5. first(i) \subseteq K /\ order[i] \in K
    BY <1>1, <2>2 DEF ToSet
  <2>6. QED BY <2>1, <2>2, <2>4, <2>5
<1> HIDE DEF first
<1>5. Put(l, order) \in Small(S)
  BY <1>1, <1>2
<1>6. ToSet(Put(l, order)) \subseteq ToSet(l) \cup K
  <2> DEFINE within == {i \in 0..Len(order) : ToSet(f[i]) \subseteq ToSet(l) \cup K}
  <2>1. 0 \in within
    BY <1>1, <1>2
  <2>2. ASSUME NEW i \in 1..Len(order), i - 1 \in within PROVE i \in within
    <3>1. PICK u : u = Used(f[i - 1], order[i])
      OBVIOUS
    <3>2. order[i] \in S /\ f[i - 1] \in Small(S) /\ f[i - 1] \in Lru(S)
      BY <1>4 DEF Small
    <3>3. u \in Lru(S) /\ Len(u) <= CacheMax + 1
      BY <3>1, <3>2, UsedFits
    <3>4. ToSet(u) = ToSet(f[i - 1]) \cup {order[i]}
      BY <3>1, <3>2, UsedNewer
    <3>5. ToSet(f[i]) \subseteq ToSet(u)
      BY <1>2, <3>1, <3>3, EvictedKeeps
    <3>6. QED BY <1>4, <2>2, <3>4, <3>5
  <2> HIDE DEF within
  <2>3. \A i \in 0..Len(order) : i \in within
    BY <1>1, <2>1, <2>2, HandedOn
  <2>4. QED BY <1>1, <1>2, <2>3 DEF within
<1>7. ASSUME NEW T, IsFiniteSet(T \cup K), Cardinality(T \cup K) <= CacheMax,
             Newest(l, T), T \cap K = {}
      PROVE  T \cup K \subseteq ToSet(Put(l, order))
  <2> DEFINE newest == {i \in 0..Len(order) : Newest(f[i], T \cup first(i))}
  <2>1. 0 \in newest
    <3>1. T \cup first(0) = T
      BY <1>3
    <3>2. Newest(f[0], T \cup first(0))
      BY <1>2, <1>7, <3>1, Zenon
    <3>3. QED BY <1>1, <3>2
  <2>2. ASSUME NEW i \in 1..Len(order), i - 1 \in newest PROVE i \in newest
    <3>1. PICK u : u = Used(f[i - 1], order[i])
      OBVIOUS
    <3>2. order[i] \in S /\ f[i - 1] \in Small(S) /\ f[i - 1] \in Lru(S)
      BY <1>4 DEF Small
    <3>3. u \in Lru(S) /\ Len(u) <= CacheMax + 1
      BY <3>1, <3>2, UsedFits
    <3>4. order[i] \notin T \cup first(i - 1) /\ Newest(f[i - 1], T \cup first(i - 1))
      BY <1>4, <1>7, <2>2
    <3>5. Newest(u, (T \cup first(i - 1)) \cup {order[i]})
      BY <3>1, <3>2, <3>4, UsedNewer
    <3>6. Newest(u, T \cup first(i))
      <4>1. (T \cup first(i - 1)) \cup {order[i]} = T \cup first(i)
        BY <1>4
      <4>2. QED BY <3>5, <4>1
    <3>7. IsFiniteSet(T \cup first(i)) /\ Cardinality(T \cup first(i)) <= CacheMax
      <4>1. T \cup first(i) \in SUBSET (T \cup K)
        BY <1>4
      <4>2. /\ IsFiniteSet(T \cup first(i))
            /\ Cardinality(T \cup first(i)) <= Cardinality(T \cup K)
        BY <1>7, <4>1, FS_Subset
      <4>3. Cardinality(T \cup first(i)) \in Nat /\ Cardinality(T \cup K) \in Nat
        BY <1>7, <4>2, FS_CardinalityType
      <4>4. QED BY <1>0, <1>7, <4>2, <4>3
    <3>8. Newest(Evicted(u), T \cup first(i))
      BY <3>3, <3>6, <3>7, EvictedKeeps
    <3>9. QED BY <1>2, <3>1, <3>8
  <2>3. Len(order) \in newest
    <3> HIDE DEF newest
    <3>1. \A i \in 0..Len(order) : i \in newest
      BY <1>1, <2>1, <2>2, HandedOn
    <3>2. QED BY <1>1, <3>1
  <2>4. Newest(Put(l, order), T \cup K)
    BY <1>2, <1>3, <2>3
  <2>5. QED
    <3>1. PICK p : p = Put(l, order)
      OBVIOUS
    <3>2. p \in Seq(S) /\ Len(p) \in Nat /\ Newest(p, T \cup K)
      BY <1>5, <2>4, <3>1 DEF Small, Lru
    <3>3. \A m \in 1..(Len(p) + 1) : \A j \in m..Len(p) : j \in DOMAIN p
      BY <3>2
    <3>4. T \cup K \subseteq ToSet(p)
      BY <3>2, <3>3 DEF Newest, ToSet
    <3>5. QED BY <3>1, <3>4
<1>8. QED BY <1>5, <1>6, <1>7

-----------------------------------------------------------------------------
(* There are as many pools and addresses as calls about them.              *)
LEMMA FiniteKeys == IsFiniteSet(Pools) /\ IsFiniteSet(Addresses)
<1>1. ASSUME NEW K, NEW word, {<<word, k>> : k \in K} \subseteq Calls
      PROVE  IsFiniteSet(K)
  <2> DEFINE C == {<<word, k>> : k \in K}
             f == [c \in C |-> c[2]]
  <2>1. IsFiniteSet(C)
    BY <1>1, PoolAssumption, FS_Subset
  <2>2. f \in Surjection(C, K)
    <3>1. \A c \in C : \E k \in K : c = <<word, k>> /\ f[c] = k
      OBVIOUS
    <3>2. \A k \in K : <<word, k>> \in C /\ f[<<word, k>>] = k
      OBVIOUS
    <3>3. f \in [C -> K]
      BY <3>1
    <3> HIDE DEF C, f
    <3>4. QED BY <3>2, <3>3 DEF Surjection
  <2> HIDE DEF C, f
  <2>3. QED BY <2>1, <2>2, FS_Surjection
<1>2. {<<"factory", p>> : p \in Pools} \subseteq Calls /\ {<<"code", a>> : a \in Addresses} \subseteq Calls
  BY ReadsAssumption DEF Factory, Code
<1>3. QED BY <1>1, <1>2

(* Two contexts of a transaction differ in its factories only.             *)
LEMMA SameButFactories ==
  ASSUME NEW r \in Rows, NEW K, NEW L
  PROVE  /\ Context(r.tx, K) # NoContext
         /\ FactsOf(Context(r.tx, K)) = FactsOf(Context(r.tx, L))
         /\ IsPlain(r, Context(r.tx, K)) = IsPlain(r, Context(r.tx, L))
         /\ CallPhrase(r, Context(r.tx, K)) = CallPhrase(r, Context(r.tx, L))
         /\ RuledLane(r, Context(r.tx, K)) = RuledLane(r, Context(r.tx, L))
<1>1. ASSUME NEW M PROVE Context(r.tx, M) # NoContext
  <2>1. PoolsOf(r.tx) \subseteq Pools
    BY DEF Pools
  <2>2. PoolsOf(r.tx) \cap M = PoolsOf(r.tx) \cap (M \cap Pools)
    BY <2>1
  <2>3. Context(r.tx, M) = Context(r.tx, M \cap Pools)
    BY <2>2 DEF Context
  <2>4. QED BY <2>3, ContextAssumption
<1>2. PICK c, d : c = Context(r.tx, K) /\ d = Context(r.tx, L)
  OBVIOUS
<1>3. /\ c.logs = d.logs /\ c.selector = d.selector /\ c.to = d.to /\ c.value = d.value
  BY <1>2, ChainAssumption DEF Context
<1>4. c # NoContext /\ d # NoContext
  BY <1>1, <1>2
<1>5. TopicsOf(c) = TopicsOf(d)
  BY <1>3 DEF TopicsOf
<1>6. FactsOf(c) = FactsOf(d)
  BY <1>3, <1>4, <1>5 DEF FactsOf
<1>7. IsPlain(r, c) = IsPlain(r, d)
  BY <1>3, <1>4, <1>6 DEF IsPlain
<1>8. CallPhrase(r, c) = CallPhrase(r, d)
  BY <1>3, <1>4 DEF CallPhrase
<1>9. RuledLane(r, c) = RuledLane(r, d)
  BY <1>3, <1>4, <1>5, <1>6, <1>7, <1>8 DEF RuledLane
<1>10. QED BY <1>2, <1>4, <1>6, <1>7, <1>8, <1>9

(* What is known of the parties of a round's rows when all wanted are.     *)
Kinds == [a \in Wanted \cup Senders |-> a \notin Senders /\ IsContract[a]]
Truth(known) == [a \in known \ {ZeroAddress} |-> IsContract[a]]
KnownOf(r) == IF r.tx.held THEN Addresses ELSE Parties(r) \cap (Wanted \cup Senders)

LEMMA PartyTrue ==
  ASSUME RoundTyped, NEW r \in round, NEW a \in Parties(r)
  PROVE  Party(a, Kinds) = Party(a, Truth(KnownOf(r)))
<1>0. r \in Rows /\ a \in Addresses \cup {ZeroAddress}
  BY ReadsAssumption DEF RoundTyped
<1>1. ZeroAddress \notin Wanted \cup Senders
  BY ChainAssumption DEF Wanted, Senders, Held, RoundTyped
<1>2. ASSUME a \in Wanted \cup Senders, a \in Addresses PROVE Kinds[a] = IsContract[a]
  <2>1. Kinds[a] = (a \notin Senders /\ IsContract[a])
    BY <1>2 DEF Kinds
  <2>2. IsContract[a] \in BOOLEAN
    BY <1>2, ChainAssumption
  <2>3. a \in Senders => ~IsContract[a]
    BY <1>2, ChainAssumption DEF Senders, Held, RoundTyped
  <2>4. QED BY <2>1, <2>2, <2>3
<1>3. DOMAIN Kinds = Wanted \cup Senders /\ DOMAIN Truth(KnownOf(r)) = KnownOf(r) \ {ZeroAddress}
  BY DEF Kinds, Truth
<1>4. CASE a = ZeroAddress
  BY <1>1, <1>3, <1>4 DEF Party
<1>5. CASE a # ZeroAddress
  <2>1. a \in Addresses
    BY <1>0, <1>5
  <2>2. r.tx.held => a \in Wanted \cup Senders
    BY <1>5 DEF Wanted, Held
  <2>3. a \in Wanted \cup Senders <=> a \in KnownOf(r) \ {ZeroAddress}
    BY <1>5, <2>1, <2>2 DEF KnownOf
  <2>4. CASE a \in Wanted \cup Senders
    <3>1. Kinds[a] = IsContract[a] /\ Truth(KnownOf(r))[a] = IsContract[a]
      BY <1>2, <2>1, <2>3, <2>4 DEF Truth
    <3>2. QED BY <1>3, <2>3, <2>4, <3>1 DEF Party
  <2>5. CASE a \notin Wanted \cup Senders
    BY <1>3, <2>3, <2>5 DEF Party
  <2>6. QED BY <2>4, <2>5
<1>6. QED BY <1>4, <1>5

(* So what is said of a row is what the chain says, but for a venue whose  *)
(* factory is not at hand.                                                 *)
LEMMA SaidOfRow ==
  ASSUME RoundTyped, NEW r \in round, NEW known, known \subseteq DOMAIN FactoryOf,
         NEW d, d = DescribeEvent(r, IF r \in Held THEN Context(r.tx, known) ELSE NoContext, Kinds)
  PROVE  \/ d = Settled(r, KnownOf(r))
         \/ /\ \E p \in PoolsOf(r.tx) : p \notin known
            /\ [d EXCEPT !.protocol = Nothing]
                 = [Settled(r, KnownOf(r)) EXCEPT !.protocol = Nothing]
<1>0. r \in Rows
  BY DEF RoundTyped
<1>1. Opening(r, Kinds) = Opening(r, Truth(KnownOf(r)))
  <2>1. CASE r.transfer = Nothing
    BY <2>1 DEF Opening
  <2>2. CASE r.transfer # Nothing
    <3>1. r.transfer.from \in Parties(r) /\ r.transfer.to \in Parties(r)
      BY <2>2 DEF Parties
    <3>2. /\ Party(r.transfer.from, Kinds) = Party(r.transfer.from, Truth(KnownOf(r)))
          /\ Party(r.transfer.to, Kinds) = Party(r.transfer.to, Truth(KnownOf(r)))
      BY <3>1, PartyTrue
    <3>3. QED BY <2>2, <3>2 DEF Opening
  <2>3. QED BY <2>1, <2>2
<1>2. CASE ~ r.tx.held
  <2>1. Settled(r, KnownOf(r)) = DescribeEvent(r, NoContext, Truth(KnownOf(r)))
    BY <1>2 DEF Settled, Truth
  <2>2. d = DescribeEvent(r, NoContext, Kinds)
    BY <1>2 DEF Held
  <2>3. QED BY <1>1, <2>1, <2>2 DEF DescribeEvent
<1>3. CASE r.tx.held
  <2>1. Settled(r, KnownOf(r)) = DescribeEvent(r, Context(r.tx, DOMAIN FactoryOf), Truth(KnownOf(r)))
    BY <1>3 DEF Settled, Truth
  <2>2. d = DescribeEvent(r, Context(r.tx, known), Kinds)
    BY <1>3 DEF Held
  <2>3. CASE \A p \in PoolsOf(r.tx) : p \in known
    <3>1. PoolsOf(r.tx) \cap known = PoolsOf(r.tx) \cap DOMAIN FactoryOf
      BY <2>3
    <3>2. Context(r.tx, known) = Context(r.tx, DOMAIN FactoryOf)
      BY <3>1 DEF Context
    <3>3. QED BY <1>1, <2>1, <2>2, <3>2 DEF DescribeEvent
  <2>4. CASE \E p \in PoolsOf(r.tx) : p \notin known
    <3>1. PICK c, e : c = Context(r.tx, known) /\ e = Context(r.tx, DOMAIN FactoryOf)
      OBVIOUS
    <3>2. /\ c # NoContext /\ e # NoContext /\ FactsOf(c) = FactsOf(e)
          /\ IsPlain(r, c) = IsPlain(r, e) /\ CallPhrase(r, c) = CallPhrase(r, e)
          /\ RuledLane(r, c) = RuledLane(r, e)
      BY <1>0, <3>1, SameButFactories
    <3>3. [DescribeEvent(r, c, Kinds) EXCEPT !.protocol = Nothing]
            = [DescribeEvent(r, e, Truth(KnownOf(r))) EXCEPT !.protocol = Nothing]
      BY <1>1, <3>2 DEF DescribeEvent
    <3>4. QED BY <2>1, <2>2, <2>4, <3>1, <3>3
  <2>5. QED BY <2>3, <2>4
<1>4. QED BY <1>2, <1>3

-----------------------------------------------------------------------------
(* The caches hold what may be asked, within their limit.                  *)
CacheInv ==
  /\ factories \in Small(Pools \cap DOMAIN FactoryOf) /\ codes \in Small(Addresses)
  /\ unreadable \in [Pools -> 0..FactoryRetry]

(* While the codes of a round are read, its contexts are those of the       *)
(* factories cached, and what is cached of its parties stands at the end   *)
(* of the cache, where the codes still to come do not evict it.            *)
StageInv ==
  /\ stage \in {"idle", "blocks", "factories", "codes"}
  /\ stage # "idle" => Cardinality(round) \in 1..MaxRows
  /\ stage = "factories" => asking \subseteq RoundPools
  /\ stage = "codes" =>
       /\ contexts = [r \in round |->
            IF r \in Held THEN Context(r.tx, ToSet(factories)) ELSE NoContext]
       /\ asking = Wanted \ ToSet(codes)
       /\ Newest(codes, Wanted \cap ToSet(codes))
  /\ described # NoRound => stage = "idle"

ReadsInv == RoundTyped /\ CacheInv /\ StageInv /\ DescribedFromChain

LEMMA SmallWithin ==
  ASSUME NEW S, NEW R, NEW l \in Lru(S), Len(l) <= CacheMax, ToSet(l) \subseteq R
  PROVE  l \in Small(R)
<1>1. l \in Seq(S) /\ NoRepeats(l)
  BY DEF Lru
<1>2. \A i \in 1..Len(l) : l[i] \in R
  BY <1>1 DEF ToSet
<1>3. l \in Seq(R)
  BY <1>1, <1>2
<1>4. QED BY <1>1, <1>3 DEF Small, Lru

LEMMA RoundFits ==
  ASSUME RoundTyped, Cardinality(round) \in 1..MaxRows
  PROVE  IsFiniteSet(Wanted) /\ Cardinality(Wanted) <= CacheMax
<1> DEFINE all == (UNION {Parties(r) : r \in round}) \ {ZeroAddress}
<1>1. ASSUME NEW a \in Wanted PROVE a \in all
  <2>1. PICK r \in Held : a \in Parties(r) /\ a # ZeroAddress
    BY DEF Wanted
  <2>2. r \in round
    BY DEF Held
  <2>3. Parties(r) \in {Parties(q) : q \in round}
    BY <2>2
  <2>4. QED BY <2>1, <2>3
<1>2. ASSUME NEW a \in all PROVE a \in Addresses
  <2>0. PICK P \in {Parties(q) : q \in round} : a \in P /\ a # ZeroAddress
    OBVIOUS
  <2>1. PICK r \in round : a \in Parties(r) /\ a # ZeroAddress
    BY <2>0
  <2>2. r \in Rows
    BY DEF RoundTyped
  <2>3. QED BY <2>1, <2>2, ReadsAssumption
<1>3. IsFiniteSet(all)
  BY <1>2, FiniteKeys, FS_Subset
<1>4. Cardinality(all) <= CacheMax
  BY FitAssumption DEF RoundTyped
<1>5. IsFiniteSet(Wanted) /\ Cardinality(Wanted) <= Cardinality(all)
  BY <1>1, <1>3, FS_Subset
<1>6. Cardinality(all) \in Nat /\ Cardinality(Wanted) \in Nat /\ CacheMax \in Nat
  BY <1>3, <1>5, FS_CardinalityType, ReadsAssumption
<1> HIDE DEF all
<1>7. QED BY <1>4, <1>5, <1>6

(* A failed round leaves the caches within their limits.                   *)
LEMMA FailStep ==
  ASSUME ReadsInv, RoundFails
  PROVE  CacheInv' /\ StageInv' /\ DescribedFromChain'
<1>0. RoundTyped /\ CacheInv /\ StageInv /\ DescribedFromChain
  BY DEF ReadsInv
<1>1. /\ stage' = "idle" /\ stage # "idle"
      /\ UNCHANGED <<factories, unreadable, described>>
  BY DEF RoundFails, Back
<1>2. described = NoRound
  BY <1>0, <1>1 DEF StageInv
<1>3. codes' \in Small(Addresses)
  <2>1. CASE UNCHANGED codes
    BY <1>0, <2>1 DEF CacheInv
  <2>2. CASE /\ Back("codes")
             /\ \E kept \in SUBSET {a \in asking : out[Code(a)] # Rejected} :
                  \E order \in Orders(kept) : codes' = Put(codes, order)
    <3>1. PICK kept \in SUBSET asking : \E order \in Orders(kept) : codes' = Put(codes, order)
      BY <2>2
    <3>2. asking \subseteq Addresses
      BY <1>0, <2>2, PoolsOfRound DEF StageInv, Back
    <3>3. kept \in SUBSET Addresses /\ IsFiniteSet(kept)
      BY <3>1, <3>2, FiniteKeys, FS_Subset
    <3>4. codes \in Small(Addresses)
      BY <1>0 DEF CacheInv
    <3>5. QED BY <3>1, <3>3, <3>4, PutKeeps
  <2>3. QED BY <2>1, <2>2 DEF RoundFails
<1>4. CacheInv'
  BY <1>0, <1>1, <1>3 DEF CacheInv
<1>5. StageInv'
  BY <1>1, <1>2 DEF StageInv
<1>6. DescribedFromChain'
  BY <1>1, <1>2 DEF DescribedFromChain
<1>7. QED BY <1>4, <1>5, <1>6

(* The pools of a round, read from the cache.                              *)
LEMMA FactoriesStep ==
  ASSUME ReadsInv, AskFactories
  PROVE  CacheInv' /\ StageInv' /\ DescribedFromChain'
<1>0. RoundTyped /\ CacheInv /\ StageInv /\ DescribedFromChain
  BY DEF ReadsInv
<1>1. /\ stage = "blocks" /\ stage' = "factories" /\ UNCHANGED <<round, contexts, codes, described>>
      /\ asking' = {p \in RoundPools : p \notin ToSet(factories) /\ unreadable[p] = 0}
  BY DEF AskFactories, Back
<1>2. described = NoRound
  BY <1>0, <1>1 DEF StageInv
<1>3. factories' \in Small(Pools \cap DOMAIN FactoryOf)
  <2>1. PICK order \in Orders(RoundPools) : factories' = Get(factories, order)
    BY DEF AskFactories
  <2>2. IsFiniteSet(RoundPools) /\ RoundPools \in SUBSET Pools
    BY <1>0, PoolsOfRound, FiniteKeys, FS_Subset
  <2>3. factories \in Lru(Pools) /\ Len(factories) <= CacheMax
        /\ ToSet(factories) \subseteq Pools \cap DOMAIN FactoryOf
    <3>1. factories \in Seq(Pools \cap DOMAIN FactoryOf) /\ NoRepeats(factories)
          /\ Len(factories) <= CacheMax
      BY <1>0 DEF CacheInv, Small, Lru
    <3>2. factories \in Seq(Pools)
      BY <3>1
    <3>3. ToSet(factories) \subseteq Pools \cap DOMAIN FactoryOf
      BY <3>1 DEF ToSet
    <3>4. QED BY <3>1, <3>2, <3>3 DEF Lru
  <2>4. /\ factories' \in Lru(Pools) /\ Len(factories') = Len(factories)
        /\ ToSet(factories') = ToSet(factories)
    <3>1. factories \in Lru(Pools)
      BY <2>3
    <3>2. /\ Get(factories, order) \in Lru(Pools) /\ Len(Get(factories, order)) = Len(factories)
          /\ ToSet(Get(factories, order)) = ToSet(factories)
          /\ Newest(Get(factories, order), RoundPools \cap ToSet(factories))
      BY <2>2, <3>1, GetNewest
    <3>3. QED BY <2>1, <3>2
  <2>5. QED BY <2>3, <2>4, SmallWithin
<1>4. unreadable' \in [Pools -> 0..FactoryRetry]
  <2>1. FactoryRetry \in 0..FactoryRetry
    BY ReadsAssumption
  <2>2. unreadable' = [p \in Pools |-> IF p \in asking' THEN FactoryRetry ELSE unreadable[p]]
    BY DEF AskFactories
  <2>3. QED BY <1>0, <2>1, <2>2 DEF CacheInv
<1>5. CacheInv'
  BY <1>0, <1>1, <1>3, <1>4 DEF CacheInv
<1>6. RoundPools' = RoundPools
  BY <1>1 DEF RoundPools, Held
<1>7. StageInv'
  BY <1>0, <1>1, <1>2, <1>6 DEF StageInv
<1>8. DescribedFromChain'
  BY <1>1, <1>2 DEF DescribedFromChain
<1>9. QED BY <1>5, <1>7, <1>8

(* What gave its factory is cached, and the cached codes of the round's    *)
(* parties become the newest.                                              *)
LEMMA CodesStep ==
  ASSUME ReadsInv, AskCodes
  PROVE  CacheInv' /\ StageInv' /\ DescribedFromChain'
<1>0. RoundTyped /\ CacheInv /\ StageInv /\ DescribedFromChain
  BY DEF ReadsInv
<1>1. /\ stage = "factories" /\ stage' = "codes" /\ UNCHANGED <<round, described>>
      /\ asking' = Wanted \ ToSet(codes)
      /\ contexts' = [r \in round |->
            IF r \in Held THEN Context(r.tx, ToSet(factories')) ELSE NoContext]
  BY DEF AskCodes, Back
<1>2. described = NoRound /\ asking \subseteq RoundPools
  BY <1>0, <1>1 DEF StageInv
<1>3. PICK got : /\ got = {p \in asking \cap DOMAIN FactoryOf : out[Factory(p)] # Rejected}
                 /\ \E new \in Orders(got), all \in Orders(RoundPools) :
                      factories' = Get(Put(factories, new), all)
                 /\ unreadable' = [p \in Pools |-> IF p \in got THEN 0 ELSE unreadable[p]]
  BY DEF AskCodes
<1>4. factories' \in Small(Pools \cap DOMAIN FactoryOf)
  <2>1. PICK new \in Orders(got), all \in Orders(RoundPools) :
          factories' = Get(Put(factories, new), all)
    BY <1>3
  <2>2. RoundPools \in SUBSET Pools
    BY <1>0, PoolsOfRound
  <2>3. got \in SUBSET (Pools \cap DOMAIN FactoryOf)
    BY <1>2, <1>3, <2>2
  <2>4. IsFiniteSet(RoundPools) /\ IsFiniteSet(got)
    BY <2>2, <2>3, FiniteKeys, FS_Subset
  <2>5. Put(factories, new) \in Small(Pools \cap DOMAIN FactoryOf)
    BY <1>0, <2>1, <2>3, <2>4, PutKeeps DEF CacheInv
  <2>6. PICK put : put = Put(factories, new)
    OBVIOUS
  <2>7. put \in Lru(Pools) /\ Len(put) <= CacheMax /\ ToSet(put) \subseteq Pools \cap DOMAIN FactoryOf
    <3>1. put \in Seq(Pools \cap DOMAIN FactoryOf) /\ NoRepeats(put) /\ Len(put) <= CacheMax
      BY <2>5, <2>6 DEF Small, Lru
    <3>2. put \in Seq(Pools)
      BY <3>1
    <3>3. ToSet(put) \subseteq Pools \cap DOMAIN FactoryOf
      BY <3>1 DEF ToSet
    <3>4. QED BY <3>1, <3>2, <3>3 DEF Lru
  <2>8. /\ Get(put, all) \in Lru(Pools) /\ Len(Get(put, all)) = Len(put)
        /\ ToSet(Get(put, all)) = ToSet(put)
        /\ Newest(Get(put, all), RoundPools \cap ToSet(put))
    BY <2>1, <2>2, <2>4, <2>7, GetNewest
  <2>9. Get(put, all) \in Small(Pools \cap DOMAIN FactoryOf)
    BY <2>7, <2>8, SmallWithin
  <2>10. QED BY <2>1, <2>6, <2>9
<1>5. unreadable' \in [Pools -> 0..FactoryRetry]
  <2>1. 0 \in 0..FactoryRetry
    BY ReadsAssumption
  <2>2. QED BY <1>0, <1>3, <2>1 DEF CacheInv
<1>6. /\ codes' \in Small(Addresses) /\ ToSet(codes') = ToSet(codes)
      /\ Newest(codes', Wanted \cap ToSet(codes))
  <2>1. PICK order \in Orders(Wanted) : codes' = Get(codes, order)
    BY DEF AskCodes
  <2>2. Wanted \in SUBSET Addresses /\ IsFiniteSet(Wanted)
    BY <1>0, PoolsOfRound, FiniteKeys, FS_Subset
  <2>3. codes \in Lru(Addresses) /\ Len(codes) <= CacheMax
    BY <1>0 DEF CacheInv, Small
  <2>4. /\ codes' \in Lru(Addresses) /\ Len(codes') = Len(codes) /\ ToSet(codes') = ToSet(codes)
        /\ Newest(codes', Wanted \cap ToSet(codes))
    BY <2>1, <2>2, <2>3, GetNewest
  <2>5. QED BY <2>3, <2>4 DEF Small
<1>7. CacheInv'
  BY <1>4, <1>5, <1>6 DEF CacheInv
<1>8. Held' = Held /\ Wanted' = Wanted
  BY <1>1 DEF Held, Wanted, Senders
<1>9. StageInv'
  <2>1. contexts' = [r \in round' |->
            IF r \in Held' THEN Context(r.tx, ToSet(factories')) ELSE NoContext]
    BY <1>1, <1>8
  <2>2. asking' = Wanted' \ ToSet(codes') /\ Newest(codes', Wanted' \cap ToSet(codes'))
    BY <1>1, <1>6, <1>8
  <2>3. QED BY <1>0, <1>1, <1>2, <2>1, <2>2 DEF StageInv
<1>10. DescribedFromChain'
  BY <1>1, <1>2 DEF DescribedFromChain
<1>11. QED BY <1>7, <1>9, <1>10

(* All parties of the round are in the cache when it is described.         *)
LEMMA DescribeStep ==
  ASSUME ReadsInv, DescribeRound
  PROVE  CacheInv' /\ StageInv' /\ DescribedFromChain'
<1>0. RoundTyped /\ CacheInv /\ StageInv
  BY DEF ReadsInv
<1>1. stage = "codes" /\ stage' = "idle" /\ UNCHANGED <<factories, unreadable>>
  BY DEF DescribeRound, Back
<1>2. PICK new \in Orders(asking), all \in Orders(Wanted) :
         /\ codes' = Get(Put(codes, new), all)
         /\ described' = [r \in round |->
               DescribeEvent(r, contexts[r], PartyKinds(ToSet(Put(codes, new))))]
  BY DEF DescribeRound
<1>3. PICK known : known = Put(codes, new)
  OBVIOUS
<1>4. /\ Wanted \in SUBSET Addresses /\ IsFiniteSet(Wanted) /\ Cardinality(Wanted) <= CacheMax
      /\ asking = Wanted \ ToSet(codes) /\ Newest(codes, Wanted \cap ToSet(codes))
      /\ codes \in Small(Addresses)
  BY <1>0, <1>1, PoolsOfRound, RoundFits DEF StageInv, CacheInv
<1>5. known \in Small(Addresses) /\ Wanted \subseteq ToSet(known)
  <2>1. asking \in SUBSET Addresses /\ IsFiniteSet(asking)
    BY <1>4, FS_Subset
  <2>2. (Wanted \cap ToSet(codes)) \cup asking = Wanted /\ (Wanted \cap ToSet(codes)) \cap asking = {}
    BY <1>4
  <2>3. /\ Put(codes, new) \in Small(Addresses)
        /\ (Wanted \cap ToSet(codes)) \cup asking \subseteq ToSet(Put(codes, new))
    BY <1>2, <1>4, <2>1, <2>2, PutKeeps
  <2>4. QED BY <1>3, <2>2, <2>3
<1>6. codes' \in Small(Addresses)
  <2>1. known \in Lru(Addresses) /\ Len(known) <= CacheMax
    BY <1>5 DEF Small
  <2>2. Get(known, all) \in Lru(Addresses) /\ Len(Get(known, all)) = Len(known)
    BY <1>2, <1>4, <2>1, GetNewest
  <2>3. QED BY <1>2, <1>3, <2>1, <2>2 DEF Small
<1>7. PartyKinds(ToSet(known)) = Kinds
  <2>1. (Wanted \cap ToSet(known)) \cup Senders = Wanted \cup Senders
    BY <1>5
  <2>2. QED BY <2>1 DEF PartyKinds, Kinds
<1>8. \A r \in round : contexts[r] = IF r \in Held THEN Context(r.tx, ToSet(factories)) ELSE NoContext
  BY <1>0, <1>1 DEF StageInv
<1>9. described' = [r \in round |-> DescribeEvent(r, contexts[r], Kinds)]
  BY <1>2, <1>3, <1>7
<1>10. ToSet(factories) \subseteq DOMAIN FactoryOf
  BY <1>0 DEF CacheInv, Small, Lru, ToSet
<1>11. DescribedFromChain'
  <2>1. SUFFICES ASSUME NEW r \in round
        PROVE  \E parties \in IF r.tx.held THEN {Addresses} ELSE SUBSET Parties(r) :
                 \/ described'[r] = Settled(r, parties)
                 \/ /\ \E p \in PoolsOf(r.tx) : p \notin ToSet(factories')
                    /\ [described'[r] EXCEPT !.protocol = Nothing]
                         = [Settled(r, parties) EXCEPT !.protocol = Nothing]
    BY <1>9 DEF DescribedFromChain
  <2>2. PICK d : d = DescribeEvent(r, contexts[r], Kinds)
    OBVIOUS
  <2>3. described'[r] = d
    BY <1>9, <2>2
  <2>4. d = DescribeEvent(r, IF r \in Held THEN Context(r.tx, ToSet(factories)) ELSE NoContext, Kinds)
    BY <1>8, <2>2
  <2>5. \/ d = Settled(r, KnownOf(r))
        \/ /\ \E p \in PoolsOf(r.tx) : p \notin ToSet(factories)
           /\ [d EXCEPT !.protocol = Nothing]
                = [Settled(r, KnownOf(r)) EXCEPT !.protocol = Nothing]
    BY <1>0, <1>10, <2>4, SaidOfRow
  <2>6. KnownOf(r) \in IF r.tx.held THEN {Addresses} ELSE SUBSET Parties(r)
    BY DEF KnownOf
  <2>7. QED BY <1>1, <2>3, <2>5, <2>6
<1>12. CacheInv'
  BY <1>0, <1>1, <1>6 DEF CacheInv
<1>13. StageInv'
  BY <1>1 DEF StageInv
<1>14. QED BY <1>11, <1>12, <1>13

LEMMA ReadsStep ==
  ASSUME ReadsInv, ReadNext \/ UNCHANGED allVars
  PROVE  ReadsInv'
<1>0. RoundTyped /\ CacheInv /\ StageInv /\ DescribedFromChain
  BY DEF ReadsInv
<1>1. CASE ReadRound
  <2>1. /\ stage' = "blocks" /\ described' = NoRound /\ UNCHANGED <<factories, unreadable, codes>>
        /\ Cardinality(round') \in 1..MaxRows
    BY <1>1 DEF ReadRound
  <2>2. RoundTyped'
    BY <1>0, <1>1, ReadMovesPool DEF ReadNext, ReadStep
  <2>3. CacheInv'
    BY <1>0, <2>1 DEF CacheInv
  <2>4. StageInv' /\ DescribedFromChain'
    BY <2>1 DEF StageInv, DescribedFromChain
  <2>5. QED BY <2>2, <2>3, <2>4 DEF ReadsInv
<1>2. CASE RoundFails \/ AskFactories \/ AskCodes \/ DescribeRound
  <2>1. RoundTyped'
    BY <1>0, <1>2, ReadMovesPool DEF ReadNext, ReadStep
  <2>2. CacheInv' /\ StageInv' /\ DescribedFromChain'
    BY <1>2, FailStep, FactoriesStep, CodesStep, DescribeStep
  <2>3. QED BY <2>1, <2>2 DEF ReadsInv
<1>3. CASE UNCHANGED <<stage, round, asking, contexts, factories, codes, described>>
           /\ unreadable' \in [Pools -> 0..FactoryRetry]
  <2>1. RoundTyped' /\ CacheInv' /\ DescribedFromChain'
    BY <1>0, <1>3 DEF RoundTyped, CacheInv, DescribedFromChain
  <2>2. Held' = Held /\ Wanted' = Wanted /\ RoundPools' = RoundPools
    BY <1>3 DEF Held, Wanted, Senders, RoundPools
  <2>3. StageInv'
    BY <1>0, <1>3, <2>2 DEF StageInv
  <2>4. QED BY <2>1, <2>3 DEF ReadsInv
<1>4. CASE Time
  <2>1. ASSUME NEW p \in Pools PROVE Higher(0, unreadable[p] - 1) \in 0..FactoryRetry
    BY <1>0, ReadsAssumption DEF CacheInv, Higher
  <2>2. unreadable' \in [Pools -> 0..FactoryRetry]
    BY <1>4, <2>1 DEF Time
  <2>3. QED BY <1>3, <1>4, <2>2 DEF Time
<1>5. CASE UNCHANGED readVars
  BY <1>0, <1>3, <1>5 DEF readVars, CacheInv
<1>6. QED
  BY <1>1, <1>2, <1>4, <1>5 DEF ReadNext, ReadStep, SlowDown, allVars

LEMMA ReadsInitially ==
  ASSUME ReadInit
  PROVE  ReadsInv
<1> USE DEF ReadInit
<1>1. RoundTyped
  BY DEF RoundTyped
<1>2. CacheInv
  <2>1. ASSUME NEW S PROVE <<>> \in Small(S)
    <3>1. <<>> \in Seq(S) /\ Len(<<>>) = 0
      BY EmptySeq
    <3>2. NoRepeats(<<>>)
      BY <3>1 DEF NoRepeats
    <3>3. QED BY <3>1, <3>2, ReadsAssumption DEF Small, Lru
  <2>2. QED BY <2>1, ReadsAssumption DEF CacheInv
<1>3. StageInv
  BY DEF StageInv
<1>4. DescribedFromChain
  BY DEF DescribedFromChain
<1>5. QED BY <1>1, <1>2, <1>3, <1>4 DEF ReadsInv

LEMMA ReadsInvariant == ReadSpec => []ReadsInv
<1>1. ReadInit => ReadsInv
  BY ReadsInitially
<1>2. ReadsInv /\ [ReadNext]_allVars => ReadsInv'
  BY ReadsStep
<1>3. QED BY <1>1, <1>2, PTL DEF ReadSpec

(* The caches stay within CACHE_MAX and hold pools and addresses of the    *)
(* rows (txcontext.ts:106-122), and the rest keeps its types.              *)
THEOREM ReadsTyped == ReadSpec => []ReadTypeOK
<1>1. PoolInv /\ ReadsInv => ReadTypeOK
  <2>1. SUFFICES ASSUME PoolInv, ReadsInv PROVE ReadTypeOK
    OBVIOUS
  <2>2. TypeOK /\ RoundTyped /\ CacheInv /\ StageInv
    BY <2>1 DEF PoolInv, ReadsInv
  <2>3. ASSUME NEW S, NEW l \in Small(S) PROVE ToSet(l) \subseteq S /\ Len(l) <= CacheMax
    BY DEF Small, Lru, ToSet
  <2>4. /\ ToSet(factories) \subseteq Pools \cap DOMAIN FactoryOf /\ Len(factories) <= CacheMax
        /\ ToSet(codes) \subseteq Addresses /\ Len(codes) <= CacheMax
    BY <2>2, <2>3 DEF CacheInv
  <2>5. QED BY <2>2, <2>4 DEF ReadTypeOK, RoundTyped, CacheInv, StageInv
<1>2. QED BY <1>1, ReadPoolInvariant, ReadsInvariant, PTL

(* A description is settled chain data (insights.ts:124-126) for rounds of *)
(* any size whose parties fit the cache: whatever was cached, evicted,     *)
(* refused or read again, a row says what the chain says of it, but for a  *)
(* venue whose factory is not at hand, and the parties of a transaction    *)
(* its block does not hold.                                                *)
THEOREM DescribedFromChainHolds == ReadSpec => []DescribedFromChain
<1>1. ReadsInv => DescribedFromChain
  BY DEF ReadsInv
<1>2. QED BY <1>1, ReadsInvariant, PTL

=============================================================================
