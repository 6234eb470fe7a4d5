-------------------------------- MODULE Tape --------------------------------
(***************************************************************************)
(* The explorer's tape: the tailer (explorer/lib/tailer.ts, release.ts)    *)
(* releases the movements of committed blocks, the hub (hub.ts) keeps the  *)
(* latest and fans them out, and one viewer (streamroute.ts,               *)
(* stream-client.ts, HomeLive.tsx) reads its stream, loses it and comes    *)
(* back with the last id it saw.                                           *)
(*                                                                         *)
(* The worker's schema is external: its cursors move forward, its rows     *)
(* age, and it may be dropped and indexed again from the start.            *)
(***************************************************************************)
EXTENDS Integers, Sequences, SequencesExt, FiniteSetsExt

CONSTANTS
  Moves,       \* how many movements each block carries
  BufferMoves, \* bufferMoves: the movements a hello shows
  Catchup,     \* CATCHUP
  MaxGap,      \* MAX_GAP
  HighWater,   \* the chunks one stream queues before its viewer is dropped
  MaxBlock,    \* the chain's last block          (bound)
  MaxFaults,   \* failed cycles, lost connections, restarts (bound)
  MaxRecreated \* schemas dropped and indexed again         (bound)

Null == -2
Blocks == 1..MaxBlock
Busy == {n \in Blocks : Moves[n] > 0}

ASSUME MovesAssumption == Moves \in [Blocks -> Nat]
ASSUME SizesAssumption ==
  /\ BufferMoves \in Nat \ {0} /\ Catchup \in Nat \ {0} /\ MaxGap \in Nat
  /\ HighWater \in Nat \ {0}
ASSUME BoundsAssumption == MaxBlock \in Nat /\ MaxFaults \in Nat /\ MaxRecreated \in Nat

VARIABLES
  cursor,       \* the worker's _cursor
  icursor,      \* _insights_cursor, -1 when there is none
  aged,         \* the newest block ingested more than LANE_HOLD_MS ago
  lanes,        \* whether the _insights tables exist, as the runtime last saw
  recreated,    \* how often the schema was recreated
  tailer,       \* where the cycle is, and what its target query returned
  lastReleased, \* the last block released, Null before init
  buffer,       \* Hub.#blocks
  trimmed,      \* Hub.#trimmedThrough
  conn,         \* the viewer's stream
  queue,        \* its chunks, each a sequence of frames
  viewer,       \* last id, newest block, tape, and the rows of it kept from
                \* before the last hello
  faults        \* faults so far

schemaVars == <<cursor, icursor, aged, lanes, recreated>>
hubVars == <<buffer, trimmed>>
viewerVars == <<conn, queue, viewer>>
vars == <<schemaVars, tailer, lastReleased, hubVars, viewerVars, faults>>

Higher(a, b) == IF a > b THEN a ELSE b
Lower(a, b) == IF a < b THEN a ELSE b
Newest(s) == IF s = <<>> THEN Null ELSE Last(s)

-----------------------------------------------------------------------------
(* Mutant: the hold is not waited for.                                     *)
HeldAtOnce(above) == Max({n \in Busy : above < n /\ n <= cursor} \cup {-1})

(* The query of #target: of the aged blocks with rows, the newest one.     *)
HeldThrough(above) == Max({n \in Busy : above < n /\ n <= aged} \cup {-1})

(* releaseTo: a row waits for its lane, at most for the hold.              *)
ReleaseTo(held) ==
  IF lanes THEN Higher(Lower(icursor, cursor), Lower(held, cursor)) ELSE cursor

Target == ReleaseTo(HeldThrough(Higher(lastReleased, -1)))

-----------------------------------------------------------------------------
(* The hub: blocks are kept whole, oldest first.                           *)

(* The movements of s from its i-th block on.                              *)
MovesFrom(s, i) ==
  LET upTo[j \in 0..Len(s)] == IF j = 0 THEN 0 ELSE upTo[j - 1] + Moves[s[j]]
  IN upTo[Len(s)] - upTo[i - 1]

(* filter: the blocks of s that are among some, in its order.              *)
Among(s, some) ==
  LET upTo[i \in 0..Len(s)] ==
        IF i = 0 THEN <<>>
        ELSE upTo[i - 1] \o (IF s[i] \in some THEN <<s[i]>> ELSE <<>>)
  IN upTo[Len(s)]

(* #trim: the shortest suffix that still fills a hello.                    *)
Trim(s, through) ==
  LET first == Max({1} \cup {i \in 1..Len(s) : MovesFrom(s, i) >= BufferMoves})
  IN [kept |-> SubSeq(s, first, Len(s)),
      through |-> IF first = 1 THEN through ELSE Higher(through, s[first - 1])]

(* hello(): the latest bufferMoves movements; the oldest block may be cut. *)
HelloFrame(s) ==
  LET left(i) == BufferMoves - MovesFrom(s, i + 1)
      shown == {i \in 1..Len(s) : left(i) > 0}
      message(i) == [n |-> s[i], skip |-> Higher(0, Moves[s[i]] - left(i))]
      from == Len(s) - Cardinality(shown)
  IN [event |-> "hello", id |-> Newest(s),
      blocks |-> [i \in 1..Cardinality(shown) |-> message(from + i)]]

BlockFrame(n) == [event |-> "block", id |-> n, blocks |-> <<[n |-> n, skip |-> 0]>>]

(* A chunk without block frames: retry, stats.                             *)
Aside == <<>>

(* Mutants: a viewer from before the buffer, or ahead of it, is resumed.   *)
ResumesFromAnywhere(id, s, through) == id # Null /\ s # <<>> /\ id <= Newest(s)
ResumesAhead(id, s, through) == id # Null /\ s # <<>> /\ id >= through

(* subscribe: the buffer still holds all that came after the viewer's id.  *)
Resumes(id, s, through) ==
  id # Null /\ s # <<>> /\ id >= through /\ id <= Newest(s)

Greeting(id, s, through) ==
  LET missed == Among(s, {n \in Busy : n > id})
  IN IF Resumes(id, s, through)
       THEN <<Aside>> \o [i \in 1..Len(missed) |-> <<BlockFrame(missed[i])>>] \o <<Aside>>
       ELSE <<Aside, <<HelloFrame(s)>>>>

(* #broadcast: a stream whose queue is full is closed.                     *)
Broadcast(chunk) ==
  IF conn # "open" THEN UNCHANGED <<conn, queue>>
  ELSE IF Len(queue) < HighWater THEN queue' = Append(queue, chunk) /\ UNCHANGED conn
  ELSE conn' = "ended" /\ UNCHANGED queue

-----------------------------------------------------------------------------
NoViewer == [last |-> Null, newest |-> Null, kept |-> 0, tape |-> <<>>]
Idle == [at |-> "idle", to |-> Null]

Init ==
  /\ cursor = 0 /\ icursor = -1 /\ aged = -1
  /\ lanes \in BOOLEAN
  /\ recreated = 0
  /\ tailer = Idle
  /\ lastReleased = Null
  /\ buffer = <<>> /\ trimmed = -1
  /\ conn = "closed" /\ queue = <<>> /\ viewer = NoViewer
  /\ faults = 0

Fault == faults < MaxFaults /\ faults' = faults + 1

-----------------------------------------------------------------------------
(* The worker and its schema (external).  A batch of several blocks is     *)
(* several steps here: the tailer need not look in between.                *)

Commit ==
  /\ cursor < MaxBlock
  /\ cursor' = cursor + 1
  /\ UNCHANGED <<icursor, aged, lanes, recreated, tailer, lastReleased, hubVars,
                 viewerVars, faults>>

Classify ==
  /\ icursor < cursor
  /\ icursor' = icursor + 1
  /\ UNCHANGED <<cursor, aged, lanes, recreated, tailer, lastReleased, hubVars,
                 viewerVars, faults>>

(* Time passes.                                                            *)
Age ==
  /\ aged < cursor
  /\ aged' = aged + 1
  /\ UNCHANGED <<cursor, icursor, lanes, recreated, tailer, lastReleased, hubVars,
                 viewerVars, faults>>

(* The runtime finds the _insights tables; only a target query looks at it. *)
LanesAppear ==
  /\ ~lanes /\ tailer = Idle
  /\ lanes' = TRUE
  /\ UNCHANGED <<cursor, icursor, aged, recreated, tailer, lastReleased, hubVars,
                 viewerVars, faults>>

(* The schema is dropped and indexed again, not between the two queries of *)
(* one cycle.                                                              *)
Recreate ==
  /\ recreated < MaxRecreated
  /\ tailer = Idle
  /\ recreated' = recreated + 1
  /\ cursor' = 0 /\ icursor' = -1 /\ aged' = -1
  /\ UNCHANGED <<lanes, tailer, lastReleased, hubVars, viewerVars, faults>>

-----------------------------------------------------------------------------
(* One cycle: the target is read, then the movements of the range.         *)

Reading(at) ==
  /\ tailer' = [at |-> at, to |-> Target]
  /\ UNCHANGED <<schemaVars, lastReleased, hubVars, viewerVars, faults>>

Start ==
  /\ tailer = Idle
  /\ lastReleased = Null
  /\ Target >= 0
  /\ Reading("reseed")

WentBack == cursor < lastReleased - MaxGap

(* The worker's cursor went back: start over as at boot.                   *)
StartOver ==
  /\ tailer = Idle
  /\ lastReleased # Null /\ WentBack
  /\ lastReleased' = Null
  /\ UNCHANGED <<schemaVars, tailer, hubVars, viewerVars, faults>>

(* Far behind: the last Catchup blocks instead of the gap.                 *)
SkipAhead ==
  /\ tailer = Idle
  /\ lastReleased # Null /\ ~WentBack
  /\ Target - lastReleased > MaxGap
  /\ Reading("reseed")

Follow ==
  /\ tailer = Idle
  /\ lastReleased # Null /\ ~WentBack
  /\ Target > lastReleased /\ Target - lastReleased <= MaxGap
  /\ Reading("publish")

(* #moves: the blocks of a range that have rows.                           *)
InRange(from, to) == Among([n \in Blocks |-> n], {n \in Busy : from < n /\ n <= to})

Reseed ==
  /\ tailer.at = "reseed"
  /\ \E msgs \in {InRange(tailer.to - Catchup, tailer.to)} :
     \E t \in {Trim(msgs, IF msgs = <<>> THEN tailer.to ELSE msgs[1])} :
        /\ buffer' = t.kept /\ trimmed' = t.through
        /\ Broadcast(<<HelloFrame(t.kept)>>)
  /\ lastReleased' = tailer.to
  /\ tailer' = Idle
  /\ UNCHANGED <<schemaVars, viewer, faults>>

(* publishBlocks: the cycle's blocks are one chunk.                        *)
Publish ==
  /\ tailer.at = "publish"
  /\ \E msgs \in {InRange(lastReleased, tailer.to)} :
     \E t \in {Trim(buffer \o msgs, trimmed)} :
        IF msgs = <<>> THEN UNCHANGED <<hubVars, conn, queue>>
        ELSE /\ buffer' = t.kept /\ trimmed' = t.through
             /\ Broadcast([i \in 1..Len(msgs) |-> BlockFrame(msgs[i])])
  /\ lastReleased' = tailer.to
  /\ tailer' = Idle
  /\ UNCHANGED <<schemaVars, viewer, faults>>

(* The database does not answer.                                           *)
FailCycle ==
  /\ tailer # Idle
  /\ Fault
  /\ tailer' = Idle
  /\ UNCHANGED <<schemaVars, lastReleased, hubVars, viewerVars>>

(* The server restarts.                                                    *)
Restart ==
  /\ Fault
  /\ tailer' = Idle /\ lastReleased' = Null
  /\ buffer' = <<>> /\ trimmed' = -1
  /\ conn' = "closed" /\ queue' = <<>>
  /\ UNCHANGED <<schemaVars, viewer>>

-----------------------------------------------------------------------------
(* The viewer.                                                             *)

Rows(blocks) ==
  LET row(b) == [k \in 1..(Moves[b.n] - b.skip) |-> <<b.n, b.skip + k>>]
      upTo[i \in 0..Len(blocks)] ==
        IF i = 0 THEN <<>> ELSE upTo[i - 1] \o row(blocks[i])
  IN upTo[Len(blocks)]

(* One event: the id is kept when there is one; a hello starts the tape    *)
(* again, an empty one only forgets the newest block and leaves the rows; a *)
(* block the tape already has is dropped.                                  *)
Shown(v, f) ==
  LET last == IF f.id = Null THEN v.last ELSE f.id
      newest == IF f.blocks = <<>> THEN Null ELSE Last(f.blocks).n
  IN IF f.event = "hello"
       THEN IF f.blocks = <<>>
              THEN [v EXCEPT !.newest = Null, !.kept = Len(v.tape)]
              ELSE [last |-> last, newest |-> newest, kept |-> 0, tape |-> Rows(f.blocks)]
     ELSE IF v.newest # Null /\ newest <= v.newest
       THEN [v EXCEPT !.last = last]
     ELSE [v EXCEPT !.last = last, !.newest = newest, !.tape = @ \o Rows(f.blocks)]

AllShown(v, frames) ==
  LET after[i \in 0..Len(frames)] ==
        IF i = 0 THEN v ELSE Shown(after[i - 1], frames[i])
  IN after[Len(frames)]

(* The stream is opened; one whose greeting does not fit is refused.       *)
Connect ==
  /\ conn = "closed"
  /\ \E chunks \in {Greeting(viewer.last, buffer, trimmed)} :
       Len(chunks) <= HighWater /\ queue' = chunks
  /\ conn' = "open"
  /\ UNCHANGED <<schemaVars, tailer, lastReleased, hubVars, viewer, faults>>

Receive ==
  /\ queue # <<>>
  /\ viewer' = AllShown(viewer, Head(queue))
  /\ queue' = Tail(queue)
  /\ UNCHANGED <<schemaVars, tailer, lastReleased, hubVars, conn, faults>>

(* A closed stream is read to its end.                                     *)
EndOfStream ==
  /\ conn = "ended" /\ queue = <<>>
  /\ conn' = "closed"
  /\ UNCHANGED <<schemaVars, tailer, lastReleased, hubVars, queue, viewer, faults>>

(* The connection is lost, or the watchdog gives it up, within a chunk.    *)
Break ==
  /\ conn # "closed"
  /\ Fault
  /\ \E k \in 0..(IF queue = <<>> THEN 0 ELSE Len(Head(queue))) :
       viewer' = IF k = 0 THEN viewer ELSE AllShown(viewer, SubSeq(Head(queue), 1, k))
  /\ conn' = "closed" /\ queue' = <<>>
  /\ UNCHANGED <<schemaVars, tailer, lastReleased, hubVars>>

-----------------------------------------------------------------------------
Cycle == Start \/ StartOver \/ SkipAhead \/ Follow \/ Reseed \/ Publish

View == Connect \/ Receive \/ EndOfStream

Next ==
  \/ Commit \/ Classify \/ Age \/ LanesAppear \/ Recreate
  \/ Cycle \/ FailCycle \/ Restart
  \/ View \/ Break

Spec == Init /\ [][Next]_vars

(* The tailer's timer fires, time passes, and the page reads and retries.  *)
FairSpec == Spec /\ WF_vars(Cycle) /\ WF_vars(Age) /\ WF_vars(View)

-----------------------------------------------------------------------------
Message == [n : Busy, skip : Nat]

(* Every variable has the values the code gives it.                        *)
TypeOK ==
  /\ cursor \in 0..MaxBlock /\ icursor \in -1..MaxBlock /\ aged \in -1..MaxBlock
  /\ lanes \in BOOLEAN /\ recreated \in 0..MaxRecreated
  /\ tailer \in [at : {"idle", "reseed", "publish"}, to : {Null} \cup 0..MaxBlock]
  /\ lastReleased \in {Null} \cup 0..MaxBlock
  /\ buffer \in Seq(Busy) /\ trimmed \in -1..MaxBlock
  /\ conn \in {"closed", "open", "ended"}
  /\ Len(queue) <= HighWater
  /\ \A i \in DOMAIN queue : \A j \in DOMAIN queue[i] :
       queue[i][j] \in [event : {"hello", "block"}, id : {Null} \cup Busy,
                        blocks : Seq(Message)]
  /\ viewer \in [last : {Null} \cup Busy, newest : {Null} \cup Busy,
                 kept : Nat, tape : Seq(Busy \X Nat)]
  /\ faults \in 0..MaxFaults

(* Whatever was lost, trimmed, restarted, rewound or greeted again in      *)
(* between, the movements a viewer got since its last hello follow each    *)
(* other as on the chain: none is missing and none comes twice             *)
(* (HomeLive.tsx, "a resumed stream never repeats a block").               *)
NextMove(m) ==
  IF m[2] < Moves[m[1]] THEN <<m[1], m[2] + 1>>
                        ELSE <<Min({n \in Busy : n > m[1]} \cup {MaxBlock + 1}), 1>>

NoGap ==
  \A k \in (viewer.kept + 1)..(Len(viewer.tape) - 1) :
    viewer.tape[k + 1] = NextMove(viewer.tape[k])

(* A movement goes out once the worker has committed it and, with lanes    *)
(* on, once it has its lane or was held long enough (release.ts:7-11).     *)
HeldForLane ==
  [][\A n \in ToSet(buffer') \ ToSet(buffer) :
       n <= cursor /\ (lanes => n <= icursor \/ n <= aged)]_vars

(* No viewer waits "on blocks that never come" (hub.ts, reseed): once the  *)
(* worker rests, the tape ends with the newest released block.             *)
Current ==
  /\ lastReleased # Null /\ Target <= lastReleased /\ ~WentBack
  /\ conn = "open" /\ queue = <<>>
  /\ IF buffer = <<>> THEN viewer.newest = Null
                     ELSE viewer.tape # <<>> /\ Last(viewer.tape)[1] = Newest(buffer)

TapeCatchesUp == <>[](Target >= 0 => Current)

=============================================================================
