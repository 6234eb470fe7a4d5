------------------------------ MODULE Insights ------------------------------
(***************************************************************************)
(* The insight loop (worker/src/insights.ts, insightsdb.ts, laya.ts): it   *)
(* runs behind the ingest cursor, asks a model which lane each committed   *)
(* row belongs to, and writes rows and its own cursor in one transaction.  *)
(* Ingest is what Ingest.tla shows it to be, a follower whose rows up to   *)
(* its cursor are complete; the model gate is external.                    *)
(*                                                                         *)
(* A row carries the sentence that describes it and whether the            *)
(* transaction itself rules its lane; both are settled chain data.         *)
(***************************************************************************)
EXTENDS Integers, FiniteSets

CONSTANTS
  Rows,        \* event rows: records with block, index, sentence and ruled
  Models,      \* the models the gate may serve
  NoModel,     \* model '': not known, or a ruled row
  Start,       \* spec.insights.startBlock, or the indexer's own start
  BatchBlocks, \* polling.batchBlocks
  MaxRows,     \* MAX_ROWS_PER_ROUND
  BatchMax,    \* BATCH_MAX: sentences in one model call
  MaxChain,    \* the last block ingest reaches             (bound)
  MaxFaults,   \* failed stages, unread identities, crashes (bound)
  MaxSwaps,    \* times the gate changes model              (bound)
  None         \* no round, no row, no entry

Sentences == {r.sentence : r \in Rows}
Labels == Models \cup {NoModel}
Entries == {"absent", "unanswered"} \cup Models
Phases == {"Backfilling", "Live", "Degraded"}
NoCursor == -2

ASSUME ModelsAssumption ==
  /\ NoModel \notin Models /\ None \notin Labels
  /\ {"absent", "unanswered"} \cap Models = {}
  /\ None \notin [model : Labels, by : Entries]
  /\ None \notin [from : Int, to : Int, rows : SUBSET Rows]
ASSUME RowsAssumption ==
  /\ IsFiniteSet(Rows)
  /\ \A r \in Rows : r.block \in 0..MaxChain /\ r.index \in Nat /\ r.ruled \in BOOLEAN
  /\ \A r, q \in Rows : r.block = q.block /\ r.index = q.index => r = q
ASSUME BoundsAssumption ==
  /\ MaxChain \in Nat /\ MaxFaults \in Nat /\ MaxSwaps \in Nat
  /\ Start \in Int /\ BatchBlocks \in Nat \ {0} /\ MaxRows \in Nat \ {0}
  /\ BatchMax \in Nat \ {0}

VARIABLES
  ingested,   \* _cursor, placed by bootstrapIndexer before the loop starts
  phase,      \* the ingest phase
  icursor,    \* _insights_cursor
  placed,     \* history: where it was placed
  insights,   \* _insights: per row, None or the label it was given
  sentences,  \* _sentences: per sentence and model, who answered
  serving,    \* the model behind the gate
  swaps,      \* how often that has changed
  pc,         \* where the loop is
  seen,       \* _cursor as the round read it
  round,      \* pending: the prepared round
  model,      \* the identity the loop holds
  cache,      \* LayaClient.cache: who answered each sentence
  failing,    \* failing
  faults      \* faults so far

ingestVars == <<ingested, phase>>
dbVars == <<icursor, placed, insights, sentences>>
gateVars == <<serving, swaps>>
vars == <<ingested, phase, icursor, placed, insights, sentences, serving, swaps,
          pc, seen, round, model, cache, failing, faults>>

Higher(a, b) == IF a > b THEN a ELSE b
Lower(a, b) == IF a < b THEN a ELSE b

-----------------------------------------------------------------------------
(* insightsStart: a block number places the cursor at bootstrap, a         *)
(* negative one leaves it to the first round.                              *)
StartCursor == IF Start < 0 THEN NoCursor ELSE Start - 1

InRange(from, to) == {r \in Rows : from <= r.block /\ r.block <= to}

(* readEventRows: what ingest has committed of the range.                  *)
Read(from, to) == {r \in InRange(from, to) : r.block <= ingested}

(* Mutants: a block that is too large is not taken whole; the cap is one   *)
(* block late.                                                             *)
CapRangeStuck(from, to) ==
  LET cuts == {b \in from..to : Cardinality(Read(from, b)) > MaxRows}
  IN IF cuts = {} THEN to ELSE (CHOOSE b \in cuts : \A c \in cuts : b <= c) - 1

CapRangeLate(from, to) ==
  LET cuts == {b \in from..to : Cardinality(Read(from, b)) > MaxRows}
  IN IF cuts = {} THEN to ELSE CHOOSE b \in cuts : \A c \in cuts : b <= c

(* The last block that keeps a round at MaxRows rows; one block with more  *)
(* is taken whole.                                                         *)
CapRange(from, to) ==
  LET cuts == {b \in from..to : Cardinality(Read(from, b)) > MaxRows}
      cut == CHOOSE b \in cuts : \A c \in cuts : b <= c
  IN IF cuts = {} THEN to ELSE Higher(cut - 1, from)

(* classify(): the sentences of the round nobody has answered yet.         *)
Unseen == {s \in {r.sentence : r \in {q \in round.rows : ~q.ruled}} : cache[s] = None}

(* The label a row of the round is written under, and the answer it has.   *)
LabelOf(r) == IF r.ruled THEN NoModel ELSE model
AnswerOf(r) == IF r.ruled THEN "unanswered" ELSE cache[r.sentence]

Later(a, b) == a.block > b.block \/ (a.block = b.block /\ a.index > b.index)

(* sentenceIds: of the rows that share a sentence and a model the last one *)
(* counts; an entry is inserted once, and only a missing answer is filled. *)
Offered(s, m) ==
  LET same == {r \in round.rows : r.sentence = s /\ LabelOf(r) = m}
      last == {r \in same : \A q \in same : q = r \/ Later(r, q)}
  IN IF last = {} THEN "absent" ELSE AnswerOf(CHOOSE r \in last : TRUE)

(* Mutant: without the UPDATE a ruled row's entry never gets an answer.    *)
RecordedOnce(old, offer) == IF old = "absent" THEN offer ELSE old

Recorded(old, offer) ==
  IF old = "absent" \/ (old = "unanswered" /\ offer # "absent") THEN offer ELSE old

-----------------------------------------------------------------------------
Init ==
  /\ ingested = -1 /\ phase = "Backfilling"
  /\ icursor = NoCursor /\ placed = NoCursor
  /\ insights = [r \in Rows |-> None]
  /\ sentences = [s \in Sentences |-> [m \in Labels |-> "absent"]]
  /\ serving \in Models /\ swaps = 0
  /\ pc = "boot"
  /\ seen = -1 /\ round = None
  /\ model = NoModel
  /\ cache = [s \in Sentences |-> None]
  /\ failing = FALSE
  /\ faults = 0

Fault == faults < MaxFaults /\ faults' = faults + 1

loopVars == <<pc, seen, round, model, cache, failing, faults>>

(* Ingest commits a range, or changes phase.                               *)
Ingest ==
  /\ ingested < MaxChain
  /\ ingested' \in (ingested + 1)..MaxChain
  /\ UNCHANGED <<phase, dbVars, gateVars, loopVars>>

ChangePhase ==
  /\ phase' \in Phases \ {phase}
  /\ UNCHANGED <<ingested, dbVars, gateVars, loopVars>>

(* The gate is redeployed with another model (external).                   *)
Swap ==
  /\ swaps < MaxSwaps
  /\ serving' \in Models \ {serving}
  /\ swaps' = swaps + 1
  /\ UNCHANGED <<ingestVars, dbVars, loopVars>>

(* identity() answers with the model, or with nothing when it fails.       *)
Identity(held) ==
  \/ model' = serving /\ UNCHANGED faults
  \/ model' = held /\ Fault

(* Written once: a cursor that exists is never moved.                      *)
Place(block) ==
  IF icursor = NoCursor THEN icursor' = block /\ placed' = block
                        ELSE UNCHANGED <<icursor, placed>>

(* prepareInsights: a new client with no answers, the tables, and the      *)
(* cursor if there is none yet.                                            *)
Bootstrap ==
  /\ pc = "boot"
  /\ Place(StartCursor)
  /\ pc' = "identify"
  /\ UNCHANGED <<ingestVars, insights, sentences, gateVars, seen, round, model, cache,
                 failing, faults>>

Identify ==
  /\ pc = "identify"
  /\ Identity(NoModel)
  /\ pc' = "top"
  /\ UNCHANGED <<ingestVars, dbVars, gateVars, seen, round, cache, failing>>

(* The head of the loop: only while ingest is Live; a round whose model    *)
(* call failed is taken up again as it was.                                *)
Top ==
  /\ pc = "top"
  /\ pc' = IF phase # "Live" THEN "wait" ELSE IF round = None THEN "cursors" ELSE "ask"
  /\ UNCHANGED <<ingestVars, dbVars, gateVars, seen, round, model, cache, failing, faults>>

ReadCursors ==
  /\ pc = "cursors"
  /\ seen' = ingested
  /\ pc' = IF icursor = NoCursor THEN "init" ELSE "plan"
  /\ UNCHANGED <<ingestVars, dbVars, gateVars, round, model, cache, failing, faults>>

(* The first round of a start relative to the head.                        *)
InitCursor ==
  /\ pc = "init"
  /\ Place(Higher(seen + Start, -1))
  /\ pc' = "plan"
  /\ UNCHANGED <<ingestVars, insights, sentences, gateVars, seen, round, model, cache,
                 failing, faults>>

Prepare ==
  /\ pc = "plan"
  /\ \/ /\ seen <= icursor
        /\ pc' = "nothing"
        /\ UNCHANGED round
     \/ /\ seen > icursor
        /\ LET from == icursor + 1
               to == CapRange(from, Lower(seen, from + BatchBlocks - 1))
           IN round' = [from |-> from, to |-> to, rows |-> Read(from, to)]
        /\ pc' = "ask"
  /\ UNCHANGED <<ingestVars, dbVars, gateVars, seen, model, cache, failing, faults>>

(* One call of ask(), a second after the one before: a chunk of the unseen *)
(* sentences is answered, each of them, by the model that serves then.     *)
Ask ==
  /\ pc = "ask"
  /\ \/ /\ Unseen = {}
        /\ pc' = "commit"
        /\ UNCHANGED cache
     \/ /\ Unseen # {}
        /\ \E chunk \in SUBSET Unseen :
             /\ Cardinality(chunk) = Lower(BatchMax, Cardinality(Unseen))
             /\ cache' = [s \in Sentences |-> IF s \in chunk THEN serving ELSE cache[s]]
        /\ UNCHANGED pc
  /\ UNCHANGED <<ingestVars, dbVars, gateVars, seen, round, model, failing, faults>>

(* Mutant: the cursor is moved to where the round could have ended.        *)
WrittenToSeen ==
  /\ insights' = [r \in Rows |->
       IF r \in round.rows /\ insights[r] = None
       THEN [model |-> LabelOf(r), by |-> AnswerOf(r)] ELSE insights[r]]
  /\ sentences' = [s \in Sentences |-> [m \in Labels |->
       Recorded(sentences[s][m], Offered(s, m))]]
  /\ icursor' = seen /\ UNCHANGED placed

(* commitInsights: rows, sentences and cursor at once.                     *)
Written ==
  /\ insights' = [r \in Rows |->
       IF r \in round.rows /\ insights[r] = None
       THEN [model |-> LabelOf(r), by |-> AnswerOf(r)] ELSE insights[r]]
  /\ sentences' = [s \in Sentences |-> [m \in Labels |->
       Recorded(sentences[s][m], Offered(s, m))]]
  /\ icursor' = round.to /\ UNCHANGED placed

Commit ==
  /\ pc = "commit"
  /\ Written
  /\ round' = None
  /\ pc' = "done"
  /\ UNCHANGED <<ingestVars, gateVars, seen, model, cache, failing, faults>>

(* The end of a round: a loop that was failing asks for the identity again.*)
Settle ==
  /\ pc \in {"done", "nothing"}
  /\ IF failing THEN Identity(model) ELSE UNCHANGED <<model, faults>>
  /\ failing' = FALSE
  /\ pc' = IF pc = "done" THEN "top" ELSE "wait"
  /\ UNCHANGED <<ingestVars, dbVars, gateVars, seen, round, cache>>

(* A stage throws: only a failed model call keeps its round.               *)
Fail ==
  /\ pc \in {"cursors", "init", "plan", "ask", "commit"}
  /\ Fault
  /\ round' = IF pc = "ask" THEN round ELSE None
  /\ failing' = TRUE
  /\ pc' = "sleep"
  /\ UNCHANGED <<ingestVars, dbVars, gateVars, seen, model, cache>>

(* The commit lands and its acknowledgement does not.                      *)
CommitUnacknowledged ==
  /\ pc = "commit"
  /\ Fault
  /\ Written
  /\ round' = None
  /\ failing' = TRUE
  /\ pc' = "sleep"
  /\ UNCHANGED <<ingestVars, gateVars, seen, model, cache>>

(* wake.wait: a committed range or the interval; sleep: the backoff.       *)
Resume ==
  /\ pc \in {"wait", "sleep"}
  /\ pc' = "top"
  /\ UNCHANGED <<ingestVars, dbVars, gateVars, seen, round, model, cache, failing, faults>>

Crash ==
  /\ pc # "boot"
  /\ Fault
  /\ pc' = "boot"
  /\ round' = None /\ seen' = -1
  /\ model' = NoModel
  /\ cache' = [s \in Sentences |-> None]
  /\ failing' = FALSE
  /\ UNCHANGED <<ingestVars, dbVars, gateVars>>

LoopStep ==
  \/ Bootstrap \/ Identify \/ Top \/ ReadCursors \/ InitCursor \/ Prepare \/ Ask \/ Commit
  \/ Settle \/ Resume

Next ==
  \/ Ingest \/ ChangePhase \/ Swap
  \/ LoopStep \/ Fail \/ CommitUnacknowledged \/ Crash

Spec == Init /\ [][Next]_vars

(* The loop's promises and timers resolve.                                 *)
FairSpec == Spec /\ WF_vars(LoopStep)

-----------------------------------------------------------------------------
RoundType ==
  {p \in [from : 0..MaxChain, to : 0..MaxChain, rows : SUBSET Rows] : p.from <= p.to}

(* Every variable has the values the code gives it.                        *)
TypeOK ==
  /\ ingested \in -1..MaxChain /\ phase \in Phases
  /\ icursor \in Int /\ icursor >= NoCursor /\ placed \in Int
  /\ insights \in [Rows -> {None} \cup [model : Labels, by : Entries]]
  /\ sentences \in [Sentences -> [Labels -> Entries]]
  /\ serving \in Models /\ swaps \in 0..MaxSwaps
  /\ pc \in {"boot", "identify", "top", "wait", "cursors", "init", "plan", "ask", "commit",
             "done", "nothing", "sleep"}
  /\ seen \in -1..MaxChain
  /\ round \in {None} \cup RoundType
  /\ model \in Labels
  /\ cache \in [Sentences -> Models \cup {None}]
  /\ failing \in BOOLEAN /\ faults \in 0..MaxFaults

(* The rows with a label, and those the start leaves out.                  *)
Settled == {r \in Rows : insights[r] # None \/ r.block <= placed}

Follower == INSTANCE PrefixFollower WITH
  Items <- Rows, cursor <- icursor, done <- Settled

(* Rows and cursor in one transaction (insightsdb.ts:241): the loop is a   *)
(* follower of its own, wherever its start fell; no crash, lost            *)
(* acknowledgement or model outage makes it skip a row, write one past its *)
(* cursor or place the cursor twice.                                       *)
FollowsRows == Follower!Spec

(* A round has at most MAX_ROWS_PER_ROUND rows, or is a single block       *)
(* (insightsdb.ts:70-72).                                                  *)
RoundBounded ==
  round # None => Cardinality(round.rows) <= MaxRows \/ round.from = round.to

(* "An answered one must not be lost" (insightsdb.ts, sentenceIds): the    *)
(* sentence of a row the model answered has probabilities.                 *)
AnsweredKept ==
  \A r \in Rows : insights[r] # None /\ ~r.ruled =>
    sentences[r.sentence][insights[r].model] \notin {"absent", "unanswered"}

(* "Function of the sentence and the model" (core/src/ddl.ts): what is     *)
(* stored under a model was answered by it.                                *)
AnswerOfModel ==
  \A s \in Sentences, m \in Models : sentences[s][m] \in {"absent", m}

(* Insights fall behind and catch up (insights.ts:22-24): once ingest is   *)
(* Live for good, the insights cursor reaches the ingest cursor.           *)
CatchesUp == <>[](phase = "Live") => <>[](icursor >= ingested)

=============================================================================
