--------------------------- MODULE InsightsProofs ---------------------------
(***************************************************************************)
(* The insight loop for every set of rows, every cap and every number of   *)
(* faults: its variables keep their types, its rounds stay within their    *)
(* bound, and it implements the abstract follower, so that its rows up to  *)
(* _insights_cursor are complete.                                          *)
(***************************************************************************)
EXTENDS Insights, WellFoundedInduction, FiniteSetTheorems, TLAPS

(* What a stage of the round may rely on.                                  *)
Staged ==
  /\ seen <= ingested
  /\ pc = "plan" => icursor # NoCursor
  /\ pc \in {"ask", "commit"} => round # None
  /\ pc = "commit" => Unseen = {}

TypeInv == TypeOK /\ Staged

(* A round that waits for the model, through any number of failures, still *)
(* starts right above the cursor and has every row of its blocks.          *)
RoundExact ==
  /\ round # None => /\ icursor # NoCursor /\ round.from = icursor + 1
                     /\ round.rows = InRange(round.from, round.to)
  /\ icursor = NoCursor => placed = NoCursor /\ \A r \in Rows : insights[r] = None

RoundInv == TypeInv /\ RoundExact

(* What a step may do to the cursor, the rows and the round.               *)
Still == UNCHANGED <<icursor, placed, insights>> /\ round' \in {None, round}

Placing ==
  /\ icursor = NoCursor /\ icursor' \in Int /\ icursor' >= NoCursor
  /\ placed' = icursor'
  /\ UNCHANGED <<insights, round>>

Planning == Prepare /\ seen > icursor

Writing == pc = "commit" /\ Written /\ round' = None

LEMMA RowFacts ==
  ASSUME NEW r \in Rows
  PROVE  r.block \in 0..MaxChain /\ r.index \in Nat /\ r.sentence \in Sentences
BY RowsAssumption DEF Sentences

LEMMA StartFits ==
  /\ StartCursor \in Int /\ StartCursor >= NoCursor
  /\ seen \in Int => /\ Higher(seen + Start, -1) \in Int
                     /\ Higher(seen + Start, -1) >= -1
BY BoundsAssumption DEF StartCursor, NoCursor, Higher

(* A nonempty set of naturals has a least element.                         *)
LEMMA Least ==
  ASSUME NEW S \in SUBSET Nat, S # {}
  PROVE  \E b \in S : \A c \in S : b <= c
<1>1. PICK b \in S : \A c \in S : ~ (<<c, b>> \in OpToRel(<, Nat))
  BY NatLessThanWellFounded, WFMin
<1>2. \A c \in S : ~ (c < b)
  BY <1>1 DEF OpToRel
<1>3. QED BY <1>2

(* The cap never ends a round before its first block nor after its last.   *)
LEMMA CapRangeWithin ==
  ASSUME NEW from \in Nat, NEW to \in Nat, from <= to
  PROVE  CapRange(from, to) \in from..to
<1> DEFINE cuts == {b \in from..to : Cardinality(Read(from, b)) > MaxRows}
           cut == CHOOSE b \in cuts : \A c \in cuts : b <= c
<1>1. CapRange(from, to) = IF cuts = {} THEN to ELSE Higher(cut - 1, from)
  BY DEF CapRange
<1>2. CASE cuts = {}
  BY <1>1, <1>2
<1>3. CASE cuts # {}
  <2>1. cuts \in SUBSET Nat
    OBVIOUS
  <2>2. cut \in cuts
    BY <1>3, <2>1, Least
  <2>3. cut \in from..to
    BY <2>2
  <2> HIDE DEF cuts, cut
  <2>4. QED BY <1>1, <1>3, <2>3 DEF Higher
<1>4. QED BY <1>2, <1>3

(* Nor does it leave more rows in the round than it may have, unless the   *)
(* round is one block.                                                     *)
LEMMA CapRangeBounds ==
  ASSUME NEW from \in Nat, NEW to \in Nat, from <= to
  PROVE  \/ Cardinality(Read(from, CapRange(from, to))) <= MaxRows
         \/ CapRange(from, to) = from
<1> DEFINE cuts == {b \in from..to : Cardinality(Read(from, b)) > MaxRows}
           cut == CHOOSE b \in cuts : \A c \in cuts : b <= c
           cap == CapRange(from, to)
<1>1. \A b \in from..to : Cardinality(Read(from, b)) \in Nat
  <2>1. \A b \in from..to : Read(from, b) \in SUBSET Rows
    BY DEF Read, InRange
  <2>2. QED BY <2>1, RowsAssumption, FS_Subset, FS_CardinalityType
<1>2. cap = IF cuts = {} THEN to ELSE Higher(cut - 1, from)
  BY DEF CapRange
<1>3. cap \in from..to
  BY CapRangeWithin
<1>4. CASE cap \notin cuts
  BY <1>1, <1>3, <1>4, BoundsAssumption
<1>5. CASE cap \in cuts
  <2>1. cuts \in SUBSET Nat /\ cuts # {}
    BY <1>5
  <2>2. cut \in cuts /\ cut <= cap
    BY <1>5, <2>1, Least
  <2>3. cut \in from..to
    BY <2>2
  <2>4. cap = Higher(cut - 1, from)
    BY <1>2, <2>1
  <2> HIDE DEF cuts, cut, cap
  <2>5. cap = from
    BY <1>3, <2>2, <2>3, <2>4 DEF Higher
  <2>6. QED BY <2>5 DEF cap
<1>6. QED BY <1>4, <1>5

(* What Prepare makes is a round: it starts above the cursor, ends at or   *)
(* below what was read of _cursor, and has every row in between.           *)
LEMMA PreparedRound ==
  ASSUME TypeInv, Prepare, seen > icursor
  PROVE  /\ round' \in RoundType
         /\ round'.from = icursor + 1
         /\ round'.rows = InRange(round'.from, round'.to)
         /\ \/ Cardinality(round'.rows) <= MaxRows \/ round'.from = round'.to
<1> DEFINE from == icursor + 1
           end == Lower(seen, from + BatchBlocks - 1)
           to == CapRange(from, end)
<1>1. /\ icursor \in Int /\ icursor >= -1 /\ seen \in -1..MaxChain /\ seen <= ingested
      /\ ingested \in -1..MaxChain
  BY DEF Prepare, TypeInv, TypeOK, Staged, NoCursor
<1>2. round' = [from |-> from, to |-> to, rows |-> Read(from, to)]
  BY <1>1 DEF Prepare
<1>3. from \in Nat /\ end \in Nat /\ from <= end /\ end <= seen
  BY <1>1, BoundsAssumption DEF Lower
<1>4. to \in from..end
  BY <1>3, CapRangeWithin
<1>5. Cardinality(Read(from, to)) <= MaxRows \/ to = from
  BY <1>3, CapRangeBounds
<1> HIDE DEF from, end, to
<1>6. Read(from, to) = InRange(from, to)
  <2>1. \A r \in Rows : r.block \in Int
    BY RowFacts
  <2>2. QED BY <1>1, <1>3, <1>4, <2>1 DEF Read, InRange
<1>7. Read(from, to) \in SUBSET Rows
  BY DEF Read, InRange
<1>8. from \in 0..MaxChain /\ to \in 0..MaxChain /\ from <= to
  BY <1>1, <1>3, <1>4, BoundsAssumption
<1>9. round'.from = from /\ round'.to = to /\ round'.rows = Read(from, to)
  BY <1>2
<1>10. round' \in RoundType
  BY <1>2, <1>7, <1>8 DEF RoundType
<1>11. QED BY <1>5, <1>6, <1>9, <1>10 DEF from

(* At the commit every sentence the round asks about has its answer.       *)
LEMMA AnsweredTyped ==
  ASSUME TypeInv, pc = "commit", NEW r \in round.rows
  PROVE  r \in Rows /\ AnswerOf(r) \in Entries /\ LabelOf(r) \in Labels
<1>1. round \in RoundType /\ Unseen = {} /\ model \in Labels
      /\ cache \in [Sentences -> Models \cup {None}]
  BY DEF TypeInv, TypeOK, Staged
<1>2. r \in Rows
  BY <1>1 DEF RoundType
<1>3. CASE r.ruled
  BY <1>2, <1>3 DEF AnswerOf, LabelOf, Entries, Labels
<1>4. CASE ~r.ruled
  <2>1. cache[r.sentence] # None
    BY <1>1, <1>4 DEF Unseen
  <2>2. cache[r.sentence] \in Models
    BY <1>1, <1>2, <2>1, RowFacts
  <2>3. QED BY <1>1, <1>2, <1>4, <2>2 DEF AnswerOf, LabelOf, Entries
<1>5. QED BY <1>3, <1>4

(* What is written is typed: at the commit every sentence the round asks   *)
(* about has its answer.                                                   *)
LEMMA WrittenTyped ==
  ASSUME TypeInv, pc = "commit", Written
  PROVE  /\ insights' \in [Rows -> {None} \cup [model : Labels, by : Entries]]
         /\ sentences' \in [Sentences -> [Labels -> Entries]]
         /\ icursor' = round.to /\ icursor' \in 0..MaxChain
<1>1. round \in RoundType /\ Unseen = {} /\ model \in Labels
      /\ cache \in [Sentences -> Models \cup {None}]
  BY DEF TypeInv, TypeOK, Staged
<1>2. round.rows \in SUBSET Rows /\ round.to \in 0..MaxChain
  BY <1>1 DEF RoundType
<1>3. \A r \in round.rows : AnswerOf(r) \in Entries /\ LabelOf(r) \in Labels
  BY AnsweredTyped
<1>4. insights' \in [Rows -> {None} \cup [model : Labels, by : Entries]]
  <2>1. insights \in [Rows -> {None} \cup [model : Labels, by : Entries]]
    BY DEF TypeInv, TypeOK
  <2>2. \A r \in round.rows :
          [model |-> LabelOf(r), by |-> AnswerOf(r)] \in [model : Labels, by : Entries]
    BY <1>3
  <2>3. QED BY <2>1, <2>2 DEF Written
<1>5. sentences' \in [Sentences -> [Labels -> Entries]]
  <2>1. \A s \in Sentences, m \in Labels : sentences[s][m] \in Entries
    BY DEF TypeInv, TypeOK
  <2>2. \A s, m : Offered(s, m) \in Entries
    BY <1>3 DEF Offered, Entries
  <2>3. \A s \in Sentences, m \in Labels :
          Recorded(sentences[s][m], Offered(s, m)) \in Entries
    BY <2>1, <2>2 DEF Recorded
  <2>4. QED BY <2>3 DEF Written
<1>6. QED BY <1>2, <1>4, <1>5 DEF Written

LEMMA TypeInit == Init => TypeInv
<1> SUFFICES ASSUME Init PROVE TypeInv
  OBVIOUS
<1> USE BoundsAssumption
<1>1. failing \in BOOLEAN
  BY DEF Init
<1>2. TypeOK
  BY <1>1 DEF Init, TypeOK, Phases, NoCursor, Entries, Labels
<1>3. Staged
  BY DEF Init, Staged
<1>4. QED BY <1>2, <1>3 DEF TypeInv

LEMMA TypeStep ==
  ASSUME TypeInv, [Next]_vars
  PROVE  TypeInv'
<1> USE BoundsAssumption DEF ingestVars, dbVars, gateVars, loopVars, Fault
<1>0. TypeOK /\ Staged
  BY DEF TypeInv
<1>1. CASE UNCHANGED vars
  BY <1>0, <1>1 DEF vars, TypeInv, TypeOK, Staged, Unseen
<1>2. CASE Ingest
  BY <1>0, <1>2 DEF Ingest, TypeInv, TypeOK, Staged, Unseen
<1>3. CASE ChangePhase
  BY <1>0, <1>3 DEF ChangePhase, TypeInv, TypeOK, Staged, Unseen
<1>4. CASE Swap
  BY <1>0, <1>4 DEF Swap, TypeInv, TypeOK, Staged, Unseen
<1>5. CASE Bootstrap
  <2>1. icursor' \in Int /\ icursor' >= NoCursor /\ placed' \in Int
    BY <1>0, <1>5, StartFits DEF Bootstrap, Place, TypeOK
  <2>2. TypeOK'
    BY <1>0, <1>5, <2>1 DEF Bootstrap, TypeOK
  <2>3. seen' <= ingested' /\ pc' = "identify"
    BY <1>0, <1>5 DEF Bootstrap, Staged
  <2>4. QED BY <2>2, <2>3 DEF TypeInv, Staged
<1>6. CASE Identify
  <2>1. model' \in Labels /\ faults' \in 0..MaxFaults
    BY <1>0, <1>6 DEF Identify, Identity, TypeOK, Labels
  <2>2. QED BY <1>0, <1>6, <2>1 DEF Identify, TypeInv, TypeOK, Staged
<1>7. CASE Top
  BY <1>0, <1>7 DEF Top, TypeInv, TypeOK, Staged
<1>8. CASE ReadCursors
  BY <1>0, <1>8 DEF ReadCursors, TypeInv, TypeOK, Staged
<1>9. CASE InitCursor
  <2>0. seen \in Int /\ Place(Higher(seen + Start, -1))
    BY <1>0, <1>9 DEF InitCursor, TypeOK
  <2>1. /\ icursor' \in Int /\ icursor' >= NoCursor /\ icursor' # NoCursor
        /\ placed' \in Int
    BY <1>0, <2>0, StartFits DEF Place, TypeOK, NoCursor
  <2>2. pc' = "plan" /\ seen' = seen /\ ingested' = ingested
    BY <1>9 DEF InitCursor
  <2>3. Staged'
    BY <1>0, <2>1, <2>2 DEF Staged
  <2>4. TypeOK'
    BY <1>0, <1>9, <2>1 DEF InitCursor, TypeOK
  <2>5. QED BY <2>3, <2>4 DEF TypeInv
<1>10. CASE Prepare
  <2>1. CASE seen <= icursor
    BY <1>0, <1>10, <2>1 DEF Prepare, TypeInv, TypeOK, Staged
  <2>2. CASE ~(seen <= icursor)
    <3>1. seen > icursor
      BY <1>0, <2>2 DEF TypeOK
    <3>2. round' \in RoundType
      BY <1>10, <3>1, PreparedRound
    <3>3. round' # None
      BY <3>2, ModelsAssumption DEF RoundType
    <3>4. pc' = "ask"
      BY <1>10, <2>2 DEF Prepare
    <3>5. QED BY <1>0, <1>10, <3>2, <3>3, <3>4 DEF Prepare, TypeInv, TypeOK, Staged
  <2>3. QED BY <2>1, <2>2
<1>11. CASE Ask
  <2>1. cache' \in [Sentences -> Models \cup {None}]
    BY <1>0, <1>11 DEF Ask, TypeOK
  <2>2. pc' = "commit" => Unseen' = {}
    BY <1>11 DEF Ask, Unseen
  <2>3. QED BY <1>0, <1>11, <2>1, <2>2 DEF Ask, TypeInv, TypeOK, Staged
<1>12. CASE Commit \/ CommitUnacknowledged
  <2>1. pc = "commit" /\ Written /\ round' = None /\ pc' \in {"done", "sleep"}
    BY <1>12 DEF Commit, CommitUnacknowledged
  <2>2. /\ insights' \in [Rows -> {None} \cup [model : Labels, by : Entries]]
        /\ sentences' \in [Sentences -> [Labels -> Entries]]
        /\ icursor' \in 0..MaxChain
    BY <2>1, WrittenTyped
  <2>3. icursor' \in Int /\ icursor' >= NoCursor
    BY <2>2 DEF NoCursor
  <2>4. failing' \in BOOLEAN
    BY <1>0, <1>12 DEF Commit, CommitUnacknowledged, TypeOK
  <2>5. faults' \in 0..MaxFaults
    BY <1>0, <1>12 DEF Commit, CommitUnacknowledged, TypeOK
  <2>6. UNCHANGED <<placed, ingested, phase, serving, swaps, seen, model, cache>>
    BY <1>12 DEF Commit, CommitUnacknowledged, Written
  <2>7. QED
    BY <1>0, <2>1, <2>2, <2>3, <2>4, <2>5, <2>6 DEF TypeInv, TypeOK, Staged
<1>13. CASE Settle
  <2>1. model' \in Labels /\ faults' \in 0..MaxFaults
    BY <1>0, <1>13 DEF Settle, Identity, TypeOK, Labels
  <2>2. QED BY <1>0, <1>13, <2>1 DEF Settle, TypeInv, TypeOK, Staged
<1>14. CASE Resume
  BY <1>0, <1>14 DEF Resume, TypeInv, TypeOK, Staged
<1>15. CASE Fail
  BY <1>0, <1>15 DEF Fail, TypeInv, TypeOK, Staged
<1>16. CASE Crash
  <2>1. cache' \in [Sentences -> Models \cup {None}] /\ model' \in Labels
    BY <1>16 DEF Crash, Labels
  <2>2. failing' \in BOOLEAN
    BY <1>16 DEF Crash
  <2>3. TypeOK'
    BY <1>0, <1>16, <2>1, <2>2 DEF Crash, TypeOK
  <2>4. seen' <= ingested' /\ pc' = "boot"
    BY <1>0, <1>16 DEF Crash, TypeOK
  <2>5. QED BY <2>3, <2>4 DEF TypeInv, Staged
<1>17. QED
  BY <1>1, <1>2, <1>3, <1>4, <1>5, <1>6, <1>7, <1>8, <1>9, <1>10, <1>11, <1>12,
     <1>13, <1>14, <1>15, <1>16 DEF Next, LoopStep

(* Every variable has the values the code gives it: in particular a commit *)
(* never writes a row the model was asked about and has not answered.      *)
THEOREM TypeCorrect == Spec => []TypeOK
<1>1. TypeInv => TypeOK
  BY DEF TypeInv
<1>2. QED BY <1>1, TypeInit, TypeStep, PTL DEF Spec

(* A round is at most MAX_ROWS_PER_ROUND rows, or one block, for every      *)
(* distribution of rows over blocks.                                       *)
THEOREM RoundBoundedHolds == Spec => []RoundBounded
<1>1. Init => RoundBounded
  BY DEF Init, RoundBounded
<1>2. TypeInv /\ RoundBounded /\ [Next]_vars => RoundBounded'
  <2> SUFFICES ASSUME TypeInv, RoundBounded, [Next]_vars PROVE RoundBounded'
    OBVIOUS
  <2>1. CASE Prepare
    <3>1. CASE seen <= icursor
      <4>1. ~ (seen > icursor)
        BY <3>1 DEF TypeInv, TypeOK
      <4>2. round' = round
        BY <2>1, <4>1 DEF Prepare
      <4>3. QED BY <4>2 DEF RoundBounded
    <3>2. CASE ~(seen <= icursor)
      <4>1. seen > icursor
        BY <3>2 DEF TypeInv, TypeOK
      <4>2. Cardinality(round'.rows) <= MaxRows \/ round'.from = round'.to
        BY <2>1, <4>1, PreparedRound
      <4>3. QED BY <4>2 DEF RoundBounded
    <3>3. QED BY <3>1, <3>2
  <2>2. CASE ~Prepare
    <3>1. round' \in {None, round}
      BY <2>2 DEF Next, LoopStep, vars, loopVars, Ingest, ChangePhase, Swap, Bootstrap,
                  Identify, Top, ReadCursors, InitCursor, Ask, Commit, Settle, Resume,
                  Fail, CommitUnacknowledged, Crash
    <3>2. QED BY <3>1 DEF RoundBounded
  <2>3. QED BY <2>1, <2>2
<1>3. QED BY <1>1, <1>2, TypeInit, TypeStep, PTL DEF Spec

LEMMA Steps ==
  ASSUME TypeInv, [Next]_vars
  PROVE  Still \/ Placing \/ Planning \/ Writing
<1> USE DEF dbVars, loopVars
<1>1. CASE Bootstrap
  <2>1. Place(StartCursor) /\ UNCHANGED <<insights, round>>
    BY <1>1 DEF Bootstrap
  <2>2. QED BY <2>1, StartFits DEF Place, Still, Placing
<1>2. CASE InitCursor
  <2>1. Place(Higher(seen + Start, -1)) /\ UNCHANGED <<insights, round>>
    BY <1>2 DEF InitCursor
  <2>2. seen \in Int
    BY DEF TypeInv, TypeOK
  <2>3. QED BY <2>1, <2>2, StartFits DEF Place, Still, Placing, NoCursor
<1>3. CASE Prepare
  <2>1. seen <= icursor \/ seen > icursor
    BY DEF TypeInv, TypeOK
  <2>2. CASE Planning
    BY <2>2
  <2>3. CASE ~Planning
    BY <1>3, <2>1, <2>3 DEF Prepare, Planning, Still
  <2>4. QED BY <2>2, <2>3
<1>4. CASE Commit \/ CommitUnacknowledged
  BY <1>4 DEF Commit, CommitUnacknowledged, Writing
<1>5. CASE Ingest \/ ChangePhase \/ Swap \/ UNCHANGED vars
  BY <1>5 DEF Ingest, ChangePhase, Swap, vars, Still
<1>6. CASE Identify \/ Top \/ ReadCursors \/ Ask \/ Settle \/ Resume \/ Fail \/ Crash
  BY <1>6 DEF Identify, Top, ReadCursors, Ask, Settle, Resume, Fail, Crash, Still
<1>7. QED BY <1>1, <1>2, <1>3, <1>4, <1>5, <1>6 DEF Next, LoopStep

(* The rows a commit leaves: those there were and those of the round.      *)
LEMMA WrittenRows ==
  ASSUME TypeInv, pc = "commit", Written
  PROVE  \A r \in Rows : insights'[r] # None <=> insights[r] # None \/ r \in round.rows
<1>1. \A r \in round.rows : [model |-> LabelOf(r), by |-> AnswerOf(r)] # None
  BY AnsweredTyped, ModelsAssumption
<1>2. QED BY <1>1 DEF Written

LEMMA RoundStep ==
  ASSUME RoundInv, [Next]_vars
  PROVE  RoundInv'
<1>1. TypeInv /\ TypeInv' /\ RoundExact
  BY TypeStep DEF RoundInv
<1>2. CASE Still
  BY <1>1, <1>2 DEF Still, RoundExact, RoundInv, InRange
<1>3. CASE Placing
  BY <1>1, <1>3 DEF Placing, RoundExact, RoundInv, InRange
<1>4. CASE Planning
  <2>1. /\ round'.from = icursor + 1 /\ icursor' = icursor /\ insights' = insights
        /\ round'.rows = InRange(round'.from, round'.to)
    BY <1>1, <1>4, PreparedRound DEF Planning, Prepare, dbVars
  <2>2. icursor # NoCursor
    BY <1>1, <1>4 DEF Planning, Prepare, TypeInv, Staged
  <2>3. QED BY <1>1, <2>1, <2>2 DEF RoundExact, RoundInv, InRange
<1>5. CASE Writing
  <2>1. icursor' \in 0..MaxChain /\ round' = None
    BY <1>1, <1>5, WrittenTyped DEF Writing
  <2>2. icursor' # NoCursor
    BY <2>1, BoundsAssumption DEF NoCursor
  <2>3. QED BY <1>1, <2>1, <2>2 DEF RoundExact, RoundInv
<1>6. QED BY <1>1, <1>2, <1>3, <1>4, <1>5, Steps DEF RoundInv

LEMMA RoundInvariant == Spec => []RoundInv
<1>1. Init => RoundInv
  BY TypeInit DEF Init, RoundInv, RoundExact
<1>2. RoundInv /\ [Next]_vars => RoundInv'
  BY RoundStep
<1>3. QED BY <1>1, <1>2, PTL DEF Spec

(* A commit moves the cursor over exactly the blocks of its round.         *)
LEMMA WritingMoves ==
  ASSUME RoundInv, Writing
  PROVE  /\ icursor \in Int /\ icursor # NoCursor
         /\ icursor' \in Int /\ icursor' > icursor /\ icursor' # NoCursor
         /\ \A r \in Rows : insights'[r] # None <=>
              insights[r] # None \/ (icursor < r.block /\ r.block <= icursor')
<1>1. /\ round \in RoundType /\ round.from = icursor + 1 /\ icursor # NoCursor
      /\ round.rows = InRange(round.from, round.to)
      /\ icursor \in Int
  BY DEF RoundInv, RoundExact, TypeInv, TypeOK, Staged, Writing
<1>2. icursor' = round.to /\ icursor' \in 0..MaxChain
  BY WrittenTyped DEF RoundInv, Writing
<1>3. round.from <= round.to
  BY <1>1 DEF RoundType
<1>4. icursor' \in Int /\ icursor' > icursor /\ icursor' # NoCursor
  BY <1>1, <1>2, <1>3, BoundsAssumption DEF NoCursor
<1>5. \A r \in Rows : r \in round.rows <=> icursor < r.block /\ r.block <= icursor'
  <2>1. \A r \in Rows : r.block \in Int
    BY RowFacts
  <2>2. QED BY <1>1, <1>2, <2>1 DEF InRange
<1>6. \A r \in Rows : insights'[r] # None <=> insights[r] # None \/ r \in round.rows
  BY WrittenRows DEF RoundInv, Writing
<1>7. QED BY <1>1, <1>4, <1>5, <1>6

(* Placing the cursor is the Begin of the follower, or nothing.            *)
LEMMA PlacingBegins ==
  ASSUME RoundInv, Placing
  PROVE  \/ icursor' = NoCursor /\ Settled' = {} /\ Settled = {}
         \/ Follower!Begin
<1>1. /\ icursor = NoCursor /\ icursor' \in Int /\ placed' = icursor'
      /\ placed = NoCursor
      /\ \A r \in Rows : insights[r] = None /\ insights'[r] = None
  BY DEF Placing, RoundInv, RoundExact, TypeInv, TypeOK
<1>2. \A r \in Rows : r.block \in Nat
  BY RowFacts
<1>3. Settled' = {r \in Rows : r.block <= icursor'} /\ Settled = {}
  BY <1>1, <1>2 DEF Settled, NoCursor
<1>4. CASE icursor' = NoCursor
  BY <1>2, <1>3, <1>4 DEF NoCursor
<1>5. CASE icursor' # NoCursor
  BY <1>1, <1>3, <1>5 DEF Follower!Begin
<1>6. QED BY <1>4, <1>5

(* A commit is its Advance.                                                *)
LEMMA WritingAdvances ==
  ASSUME RoundInv, Writing
  PROVE  Follower!Advance
<1>1. /\ icursor \in Int /\ icursor # NoCursor
      /\ icursor' \in Int /\ icursor' > icursor /\ icursor' # NoCursor
      /\ \A r \in Rows : insights'[r] # None <=>
           insights[r] # None \/ (icursor < r.block /\ r.block <= icursor')
  BY WritingMoves
<1>2. placed' = placed
  BY DEF Writing, Written
<1>3. Follower!Between(icursor, icursor')
        = {r \in Rows : icursor < r.block /\ r.block <= icursor'}
  BY DEF Follower!Between
<1>4. Settled' = Settled \cup Follower!Between(icursor, icursor')
  BY <1>1, <1>2, <1>3 DEF Settled
<1>5. QED BY <1>1, <1>4 DEF Follower!Advance

(* The loop implements the abstract follower: rows and cursor move in one  *)
(* transaction, so neither a crash nor a lost acknowledgement nor a model  *)
(* outage makes it skip a row, write one past its cursor or place the      *)
(* cursor twice.                                                           *)
THEOREM FollowsRowsHolds == Spec => FollowsRows
<1>1. Init => Follower!Init
  <2>1. \A r \in Rows : r.block \in Nat
    BY RowFacts
  <2>2. QED BY <2>1 DEF Init, Follower!Init, Settled, NoCursor
<1>2. RoundInv /\ [Next]_vars => [Follower!Next]_(Follower!vars)
  <2> SUFFICES ASSUME RoundInv, [Next]_vars
               PROVE  [Follower!Next]_(Follower!vars)
    OBVIOUS
  <2>1. CASE Still \/ Planning
    BY <2>1 DEF Still, Planning, Prepare, dbVars, Settled, Follower!vars
  <2>2. CASE Placing
    <3>1. CASE Follower!Begin
      BY <3>1 DEF Follower!Next
    <3>2. CASE ~Follower!Begin
      BY <2>2, <3>2, PlacingBegins DEF Placing, Follower!vars
    <3>3. QED BY <3>1, <3>2
  <2>3. CASE Writing
    BY <2>3, WritingAdvances DEF Follower!Next
  <2>4. QED BY <2>1, <2>2, <2>3, Steps DEF RoundInv
<1>3. QED
  BY <1>1, <1>2, RoundInvariant, PTL DEF Spec, FollowsRows, Follower!Spec

(* Of any rows one is the last: the one with the fewest after it.          *)
LEMMA Latest ==
  ASSUME NEW S \in SUBSET Rows, S # {}
  PROVE  \E r \in S : \A q \in S : q = r \/ Later(r, q)
<1> DEFINE after(r) == {q \in S : Later(q, r)}
           sizes == {Cardinality(after(r)) : r \in S}
<1>1. \A r \in S : IsFiniteSet(after(r)) /\ Cardinality(after(r)) \in Nat
  <2>1. \A r \in S : after(r) \in SUBSET Rows
    OBVIOUS
  <2>2. QED BY <2>1, RowsAssumption, FS_Subset, FS_CardinalityType
<1>2. PICK r \in S : \A q \in S : Cardinality(after(r)) <= Cardinality(after(q))
  <2>1. sizes \in SUBSET Nat /\ sizes # {}
    BY <1>1
  <2>2. PICK n \in sizes : \A m \in sizes : n <= m
    BY <2>1, Least
  <2>3. QED BY <2>2
<1>3. \A q \in S : q.block \in Int /\ q.index \in Int
  BY RowFacts
<1>4. \A q \in S : ~ Later(q, r)
  <2> SUFFICES ASSUME NEW q \in S, Later(q, r) PROVE FALSE
    OBVIOUS
  <2>1. \A t \in S : Later(t, q) => Later(t, r)
    BY <1>3 DEF Later
  <2>2. ~ Later(q, q)
    BY <1>3 DEF Later
  <2>3. after(q) \in SUBSET after(r) /\ q \in after(r) /\ q \notin after(q)
    BY <2>1, <2>2
  <2> HIDE DEF after
  <2>4. Cardinality(after(q)) < Cardinality(after(r))
    BY <1>1, <2>3, FS_Subset
  <2>5. QED BY <1>1, <1>2, <2>4
<1>5. \A q \in S : q = r \/ Later(r, q)
  <2>1. \A q \in S : q = r \/ q.block # r.block \/ q.index # r.index
    BY RowsAssumption
  <2>2. QED BY <1>3, <1>4, <2>1 DEF Later
<1>6. QED BY <1>5

(* No sentence the model was asked about is that of a later, ruled row.    *)
RuledFirst ==
  \A r, q \in Rows : r.sentence = q.sentence /\ r.ruled /\ ~q.ruled => ~ Later(r, q)

(* Then what a commit offers for an asked row's entry is an answer.        *)
LEMMA OfferedAnswer ==
  ASSUME TypeInv, pc = "commit", RuledFirst, NEW r \in round.rows, ~r.ruled
  PROVE  Offered(r.sentence, LabelOf(r)) \in Models
<1> DEFINE same == {q \in round.rows : q.sentence = r.sentence /\ LabelOf(q) = LabelOf(r)}
           last == {q \in same : \A t \in same : t = q \/ Later(q, t)}
<1>1. round \in RoundType /\ Unseen = {} /\ cache \in [Sentences -> Models \cup {None}]
  BY DEF TypeInv, TypeOK, Staged
<1>2. same \in SUBSET Rows /\ r \in same
  BY <1>1 DEF RoundType
<1>3. last # {}
  BY <1>2, Latest
<1>4. \A q \in last : AnswerOf(q) \in Models
  <2> SUFFICES ASSUME NEW q \in last PROVE AnswerOf(q) \in Models
    OBVIOUS
  <2>1. q \in Rows /\ q \in round.rows /\ q.sentence = r.sentence /\ (q = r \/ Later(q, r))
    BY <1>2
  <2>2. ~q.ruled
    BY <1>2, <2>1 DEF RuledFirst
  <2>3. cache[q.sentence] # None
    BY <1>1, <2>1, <2>2 DEF Unseen
  <2>4. QED BY <1>1, <2>1, <2>2, <2>3, RowFacts DEF AnswerOf
<1>5. Offered(r.sentence, LabelOf(r)) = AnswerOf(CHOOSE q \in last : TRUE)
  BY <1>3 DEF Offered
<1>6. QED BY <1>3, <1>4, <1>5

LEMMA AnswersKept ==
  ASSUME TypeInv, RuledFirst, AnsweredKept, pc = "commit", Written
  PROVE  AnsweredKept'
<1> SUFFICES ASSUME NEW r \in Rows, insights'[r] # None, ~r.ruled
             PROVE  sentences'[r.sentence][insights'[r].model] \notin {"absent", "unanswered"}
  BY DEF AnsweredKept
<1> DEFINE s == r.sentence
           m == insights'[r].model
<1>1. /\ insights' \in [Rows -> {None} \cup [model : Labels, by : Entries]]
      /\ sentences \in [Sentences -> [Labels -> Entries]]
  BY WrittenTyped DEF TypeInv, TypeOK
<1>2. s \in Sentences /\ m \in Labels
  BY <1>1, RowFacts
<1>3. sentences'[s][m] = Recorded(sentences[s][m], Offered(s, m))
  BY <1>2 DEF Written
<1>4. CASE insights[r] # None
  <2>1. insights'[r] = insights[r]
    BY <1>4 DEF Written
  <2>2. sentences[s][m] \notin {"absent", "unanswered"}
    BY <1>4, <2>1 DEF AnsweredKept
  <2>3. QED BY <1>3, <2>2 DEF Recorded
<1>5. CASE insights[r] = None
  <2>1. r \in round.rows /\ m = LabelOf(r)
    BY <1>5 DEF Written
  <2>2. Offered(s, m) \in Models
    BY <2>1, OfferedAnswer
  <2>3. Offered(s, m) \notin {"absent", "unanswered"}
    BY <2>2, ModelsAssumption
  <2>4. QED BY <1>3, <2>3 DEF Recorded
<1>6. QED BY <1>4, <1>5

(* An answer is not lost ("An answered one must not be lost", insightsdb.ts,*)
(* sentenceIds): the sentence of a row the model was asked about has its    *)
(* probabilities, through every failure and restart, provided that no later *)
(* row of that sentence is ruled. Without that the code does lose it.       *)
THEOREM AnsweredKeptHolds == Spec /\ RuledFirst => []AnsweredKept
<1> SUFFICES ASSUME RuledFirst PROVE Spec => []AnsweredKept
  OBVIOUS
<1>1. Init => AnsweredKept
  BY DEF Init, AnsweredKept
<1>2. TypeInv /\ AnsweredKept /\ [Next]_vars => AnsweredKept'
  <2> SUFFICES ASSUME TypeInv, AnsweredKept, [Next]_vars PROVE AnsweredKept'
    OBVIOUS
  <2>1. CASE Commit \/ CommitUnacknowledged
    BY <2>1, AnswersKept DEF Commit, CommitUnacknowledged
  <2>2. CASE ~(Commit \/ CommitUnacknowledged)
    <3>1. UNCHANGED <<insights, sentences>>
      BY <2>2 DEF Next, LoopStep, vars, dbVars, loopVars, Ingest, ChangePhase, Swap,
                  Bootstrap, Identify, Top, ReadCursors, InitCursor, Prepare, Ask, Settle,
                  Resume, Fail, Crash
    <3>2. QED BY <3>1 DEF AnsweredKept
  <2>3. QED BY <2>1, <2>2
<1>3. QED BY <1>1, <1>2, TypeInit, TypeStep, PTL DEF Spec

=============================================================================
