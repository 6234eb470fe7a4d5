------------------------------- MODULE RpcPool -------------------------------
(***************************************************************************)
(* The insight loop's endpoint pool (worker/src/rpcpool.ts) and the pacer  *)
(* of each endpoint (pacer.ts): the calls of one all() are cut in chunks,  *)
(* a chunk falls from endpoint to endpoint with what is left of it, an     *)
(* endpoint that rate-limits or fails rests, and a batch whose reply is    *)
(* too large is halved where it is.                                        *)
(*                                                                         *)
(* Endpoints are numbered in config order. Rests and intervals are counted *)
(* down in one coarse unit of time; which calls share a request is left    *)
(* open, only how many is the code's.                                      *)
(***************************************************************************)
EXTENDS Integers, FiniteSets, Sequences

CONSTANTS
  Count,     \* how many endpoints
  Chunk,     \* per endpoint, calls to a request: CHUNK, or 1 over ws
  Shared,    \* the endpoints ingest queries too
  Calls,     \* the calls a caller may make
  Oversized, \* the sets of calls whose answers pass the body limit
  RestStart, RestMax,           \* REST_START_MS, REST_MAX_MS
  PaceStart, PaceMin, PaceMax,  \* PaceLimits
  None                          \* no endpoint, no answer yet

Endpoints == 1..Count
Rejected == "rejected"

ASSUME PoolAssumption ==
  /\ Count \in Nat \ {0} /\ Chunk \in [Endpoints -> Nat \ {0}] /\ Shared \subseteq Endpoints
  /\ IsFiniteSet(Calls) /\ None \notin Endpoints
  /\ None # "answered" /\ None # Rejected
ASSUME OversizedAssumption ==
  \A s, t \in SUBSET Calls : s \in Oversized /\ s \subseteq t => t \in Oversized
ASSUME TimesAssumption ==
  /\ RestStart \in Nat \ {0} /\ RestMax \in Nat /\ RestStart <= RestMax
  /\ PaceMin \in Nat \ {0} /\ PaceStart \in Nat /\ PaceMax \in Nat
  /\ PaceMin <= PaceStart /\ PaceStart <= PaceMax

VARIABLES
  pc,       \* idle, chunk, pick, send, flight, done
  waiting,  \* the calls of this all() that are in no chunk yet
  pending,  \* the calls of the chunk that no endpoint has answered
  tried,    \* the endpoints the chunk was brought to
  slot,     \* the one it is at
  unsent,   \* what that one has not been asked yet
  left,     \* what it was asked and did not answer
  halves,   \* halved batches still to be sent to it
  flight,   \* the calls of the request under way
  out,      \* out: per call, what all() will return
  asked,    \* history: per call, the endpoints asked in this all()
  penalty,  \* per endpoint, the length of its last rest, 0 after an answer
  rest,     \* restUntil: how long it still rests
  interval, \* Pacer.#interval
  wait,     \* Pacer.#next: how long before its next request may start
  up        \* the endpoints that answer all they are asked from now on (external)

callVars == <<waiting, pending, tried, slot, unsent, left, halves, flight>>
slotVars == <<penalty, rest>>
paceVars == <<interval, wait>>
vars == <<pc, callVars, out, asked, slotVars, paceVars, up>>

Lower(a, b) == IF a < b THEN a ELSE b
Higher(a, b) == IF a > b THEN a ELSE b
Least(S) == CHOOSE x \in S : \A y \in S : x <= y
Cuts(S, size) == {b \in SUBSET S : Cardinality(b) = Lower(size, Cardinality(S))}
Set(f, e, v) == [f EXCEPT ![e] = v]

-----------------------------------------------------------------------------
(* Mutant: nobody is asked while all rest.                                 *)
PickReady ==
  LET ready == {e \in Endpoints \ tried : rest[e] = 0}
  IN IF ready # {} THEN Least(ready) ELSE None

(* #pick: the first untried endpoint that does not rest; when all of them  *)
(* rest, the one whose rest ends first.                                    *)
Pick ==
  LET open == Endpoints \ tried
      ready == {e \in open : rest[e] = 0}
      soonest == {e \in open : \A d \in open : rest[e] <= rest[d]}
  IN IF ready # {} THEN Least(ready) ELSE IF open # {} THEN Least(soonest) ELSE None

(* #rest doubles the last one: 5 s, 10 s, ... 60 s.                        *)
RestAfter(last) == IF last = 0 THEN RestStart ELSE Lower(2 * last, RestMax)

Init ==
  /\ pc = "idle"
  /\ waiting = {} /\ pending = {} /\ tried = {} /\ slot = None
  /\ unsent = {} /\ left = {} /\ halves = <<>> /\ flight = {}
  /\ out = [c \in Calls |-> None]
  /\ asked = [c \in Calls |-> {}]
  /\ penalty = [e \in Endpoints |-> 0] /\ rest = penalty
  /\ interval = [e \in Endpoints |-> PaceStart] /\ wait = rest
  /\ up = {}

-----------------------------------------------------------------------------
(* all(): one at a time, the next one when this one has returned.          *)
All(calls) ==
  /\ pc \in {"idle", "done"}
  /\ pc' = "chunk"
  /\ waiting' = calls
  /\ out' = [c \in Calls |-> None]
  /\ asked' = [c \in Calls |-> {}]
  /\ UNCHANGED <<pending, tried, slot, unsent, left, halves, flight, slotVars, paceVars, up>>

(* The caller has read what the last one returned.                         *)
Taken ==
  /\ pc = "done"
  /\ pc' = "idle"
  /\ out' = [c \in Calls |-> None]
  /\ asked' = [c \in Calls |-> {}]
  /\ UNCHANGED <<callVars, slotVars, paceVars, up>>

(* #all: chunks are cut to the first endpoint's size.                      *)
NextChunk ==
  /\ pc = "chunk" /\ waiting # {}
  /\ \E chunk \in Cuts(waiting, Chunk[1]) :
       waiting' = waiting \ chunk /\ pending' = chunk
  /\ pc' = "pick"
  /\ UNCHANGED <<tried, slot, unsent, left, halves, flight, out, asked, slotVars, paceVars, up>>

Return ==
  /\ pc = "chunk" /\ waiting = {}
  /\ pc' = "done"
  /\ UNCHANGED <<callVars, out, asked, slotVars, paceVars, up>>

(* #chunk: bring what is pending to the next endpoint.                     *)
Bring ==
  /\ pc = "pick" /\ pending # {} /\ Pick # None
  /\ slot' = Pick
  /\ tried' = tried \cup {Pick}
  /\ unsent' = pending
  /\ pc' = "send"
  /\ UNCHANGED <<waiting, pending, left, halves, flight, out, asked, slotVars, paceVars, up>>

(* Mutant: what one chunk has tried is out of reach of the next.           *)
TriedOn == UNCHANGED tried

UntriedAgain == tried' = {}

(* ... until it is empty, or nobody is left to ask.                        *)
EndChunk ==
  /\ pc = "pick" /\ (pending = {} \/ Pick = None)
  /\ out' = [c \in Calls |-> IF c \in pending THEN Rejected ELSE out[c]]
  /\ pending' = {} /\ UntriedAgain /\ slot' = None
  /\ pc' = "chunk"
  /\ UNCHANGED <<waiting, unsent, left, halves, flight, asked, slotVars, paceVars, up>>

(* Pacer.run: the earliest start of the request after this one.            *)
Pace(e) == wait' = Set(wait, e, interval[e])

(* #send: the rest of a halved batch first, then the next slice.           *)
Request ==
  /\ pc = "send" /\ (unsent # {} \/ halves # <<>>)
  /\ wait[slot] = 0
  /\ \/ /\ halves # <<>>
        /\ flight' = Head(halves) /\ halves' = Tail(halves)
        /\ UNCHANGED unsent
     \/ /\ halves = <<>>
        /\ flight' \in Cuts(unsent, Chunk[slot])
        /\ unsent' = unsent \ flight'
        /\ UNCHANGED halves
  /\ Pace(slot)
  /\ asked' = [c \in Calls |-> IF c \in flight' THEN asked[c] \cup {slot} ELSE asked[c]]
  /\ pc' = "flight"
  /\ UNCHANGED <<waiting, pending, tried, slot, left, out, slotVars, interval, up>>

Leave ==
  /\ pc = "send" /\ unsent = {} /\ halves = <<>>
  /\ pending' = left /\ left' = {}
  /\ pc' = "pick"
  /\ UNCHANGED <<waiting, tried, slot, unsent, halves, flight, out, asked, slotVars,
                 paceVars, up>>

-----------------------------------------------------------------------------
(* Replies. A call that goes through shortens the interval by 3 %, in the  *)
(* unit of the model by one or not at all; a rate limit then doubles it.   *)
Relaxed(i) == {i, Higher(PaceMin, i - 1)}

Relax(e) == \E i \in Relaxed(interval[e]) : interval' = Set(interval, e, i) /\ UNCHANGED wait

BackOff(e) ==
  \E i \in Relaxed(interval[e]) :
    LET slower == Lower(PaceMax, 2 * i)
    IN interval' = Set(interval, e, slower) /\ wait' = Set(wait, e, slower)

Rest(e) ==
  /\ penalty' = Set(penalty, e, RestAfter(penalty[e]))
  /\ rest' = Set(rest, e, RestAfter(penalty[e]))

Wake(e) == penalty' = Set(penalty, e, 0) /\ rest' = Set(rest, e, 0)

(* A 429, or one object for the whole batch that says so.                  *)
Throttled ==
  /\ pc = "flight" /\ slot \notin up
  /\ left' = left \cup flight
  /\ BackOff(slot) /\ Rest(slot)
  /\ flight' = {}
  /\ pc' = "send"
  /\ UNCHANGED <<waiting, pending, tried, slot, unsent, halves, out, asked, up>>

(* No reply, another status, or a body without exactly one answer per id    *)
(* asked, which viem would map onto the wrong calls.                        *)
Broken ==
  /\ pc = "flight" /\ slot \notin up
  /\ left' = left \cup flight
  /\ Relax(slot) /\ Rest(slot)
  /\ flight' = {}
  /\ pc' = "send"
  /\ UNCHANGED <<waiting, pending, tried, slot, unsent, halves, out, asked, up>>

(* Each call has an answer or an error of its own, which may be the rate   *)
(* limit; over the body limit nothing arrives.                             *)
Answered ==
  /\ pc = "flight"
  /\ \E got \in SUBSET flight, limited \in BOOLEAN :
       /\ slot \in up => got = flight
       /\ got \notin Oversized
       /\ limited => got # flight
       /\ out' = [c \in Calls |-> IF c \in got THEN "answered" ELSE out[c]]
       /\ left' = left \cup (flight \ got)
       /\ IF limited THEN BackOff(slot) /\ Rest(slot) ELSE Relax(slot) /\ Wake(slot)
  /\ flight' = {}
  /\ pc' = "send"
  /\ UNCHANGED <<waiting, pending, tried, slot, unsent, halves, asked, up>>

Halved(batch) ==
  IF Cardinality(batch) = 1
  THEN out' = [c \in Calls |-> IF c \in batch THEN Rejected ELSE out[c]] /\ UNCHANGED halves
  ELSE \E first \in {b \in SUBSET batch : Cardinality(b) = (Cardinality(batch) + 1) \div 2} :
         halves' = <<first, batch \ first>> \o halves /\ UNCHANGED out

(* The body is cut off at the limit: halve it here, or give the call up.   *)
TooLarge ==
  /\ pc = "flight"
  /\ flight \in Oversized
  /\ Halved(flight)
  /\ Relax(slot) /\ Wake(slot)
  /\ flight' = {}
  /\ pc' = "send"
  /\ UNCHANGED <<waiting, pending, tried, slot, unsent, left, asked, up>>

-----------------------------------------------------------------------------
(* backOffShared: ingest is Degraded; the loop calls it between rounds.    *)
BackOffShared ==
  /\ pc = "idle"
  /\ interval' = [e \in Endpoints |-> IF e \in Shared THEN Lower(PaceMax, 2 * interval[e])
                                                      ELSE interval[e]]
  /\ wait' = [e \in Endpoints |-> IF e \in Shared THEN interval'[e] ELSE wait[e]]
  /\ UNCHANGED <<pc, callVars, out, asked, slotVars, up>>

(* Time passes.                                                            *)
Elapse ==
  /\ rest' = [e \in Endpoints |-> Higher(0, rest[e] - 1)]
  /\ wait' = [e \in Endpoints |-> Higher(0, wait[e] - 1)]
  /\ UNCHANGED <<pc, callVars, out, asked, penalty, interval, up>>

Tick == (\E e \in Endpoints : rest[e] + wait[e] > 0) /\ Elapse

Health ==
  /\ up = {} /\ \E e \in Endpoints : up' = {e}
  /\ UNCHANGED <<pc, callVars, out, asked, slotVars, paceVars>>

Reply == Throttled \/ Broken \/ Answered \/ TooLarge

PoolStep == NextChunk \/ Return \/ Bring \/ EndChunk \/ Request \/ Leave \/ Reply

Next ==
  \/ (\E calls \in SUBSET Calls : All(calls)) \/ Taken
  \/ PoolStep \/ BackOffShared \/ Tick \/ Health

Spec == Init /\ [][Next]_vars

-----------------------------------------------------------------------------
TypeOK ==
  /\ pc \in {"idle", "chunk", "pick", "send", "flight", "done"}
  /\ waiting \subseteq Calls /\ pending \subseteq Calls /\ unsent \subseteq Calls
  /\ left \subseteq Calls /\ flight \subseteq Calls /\ halves \in Seq(SUBSET Calls)
  /\ tried \subseteq Endpoints /\ slot \in Endpoints \cup {None}
  /\ out \in [Calls -> {None, "answered", Rejected}]
  /\ asked \in [Calls -> SUBSET Endpoints]
  /\ penalty \in [Endpoints -> 0..RestMax] /\ rest \in [Endpoints -> 0..RestMax]
  /\ interval \in [Endpoints -> PaceMin..PaceMax] /\ wait \in [Endpoints -> 0..PaceMax]
  /\ up \subseteq Endpoints

(* A call is given up only when every endpoint was asked for it, or when    *)
(* its answer alone is too large (rpcpool.ts:9-16): no rest, refusal or     *)
(* halving on the way makes the pool skip one.                              *)
RejectedByAll ==
  \A c \in Calls : out[c] = Rejected => asked[c] = Endpoints \/ {c} \in Oversized

=============================================================================
