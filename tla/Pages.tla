-------------------------------- MODULE Pages --------------------------------
(***************************************************************************)
(* The explorer's pages: what the runtime keeps in memory and refreshes    *)
(* (explorer/lib/runtime.ts), an address page and its older pages          *)
(* (address.ts, addrstory.ts), a transaction page with its lane and its    *)
(* tokens (tx.ts, tokens.ts, LanePanel.tsx).  One visitor opens one page   *)
(* at a time; every query sees the database as it is when it runs.         *)
(*                                                                         *)
(* The worker and the rollup are what Archive says: their cursors move     *)
(* forward, and the rows up to them are complete.                          *)
(***************************************************************************)
EXTENDS Archive, Sequences, FiniteSetsExt

CONSTANTS
  Moves,    \* each block's transfers in log order, as <<from, to>>
  Subject,  \* the address whose pages are opened
  Txs,      \* the transactions opened, each by the block it is in
  Pooled,   \* those with pool events
  Tokens,   \* the currencies of those pools, USDC aside
  Size,     \* rows of a history page
  Latest,   \* movements that counterparties and lanes are taken from
  Slack,    \* ROLLUP_SLACK
  Outage,   \* OUTAGE_MS, in ticks
  Polls     \* POLLS

Blocks == 1 .. MaxBlock

ASSUME MovesAssumption == Moves \in [Blocks -> Seq(Seq(STRING))]
ASSUME TxsAssumption == Txs \subseteq Blocks /\ Pooled \subseteq Txs
ASSUME SizesAssumption ==
  /\ Size \in Nat \ {0} /\ Latest \in Nat \ {0}
  /\ Slack \in Nat /\ Outage \in Nat /\ Polls \in Nat

VARIABLES
  laneTable, \* whether the _insights tables exist
  lanesFrom, \* where _insights_cursor started, None before
  lanesTo,   \* _insights_cursor
  rt,        \* the runtime: ready, insights, head, rolledTo, its refresh's step
  page,      \* the page being answered or shown
  tok,       \* the tokens its answer still waits for
  stored,    \* explorer.tokens
  down       \* Tokens.#downUntil, as the ticks left

archiveVars == <<head, laneTable, lanesFrom, lanesTo, rolled>>
tokenVars == <<tok, stored, down>>
pageVars == <<archiveVars, rt, page, tokenVars, faults>>

NewRuntime == [ready |-> FALSE, on |-> FALSE, first |-> None, head |-> None,
               rolled |-> None, step |-> "boot"]

Top == <<MaxBlock + 1, 0>>  \* MAX_BLOCK, MAX_LI
Bottom == <<0, 0>>          \* no older page
NoPage == [at |-> "none", before |-> Top, known |-> FALSE, tot |-> 0, walk |-> <<>>,
           older |-> Bottom, peers |-> {}, said |-> "nothing", block |-> None,
           todo |-> {}, seen |-> {}, on |-> FALSE, first |-> None,
           lane |-> "pending", polls |-> 0]
NoneWanted == [t \in Tokens |-> "no"]

PageInit ==
  /\ head = None /\ rolled = None
  /\ laneTable = FALSE /\ lanesFrom = None /\ lanesTo = None
  /\ rt = NewRuntime
  /\ page = NoPage
  /\ tok = NoneWanted /\ stored = {} /\ down = 0
  /\ faults = 0

-----------------------------------------------------------------------------
(* The worker and the rollup (external).                                   *)

Archived ==
  /\ HeadMoves \/ RolledMoves
  /\ UNCHANGED <<laneTable, lanesFrom, lanesTo, rt, page, tokenVars, faults>>

InsightsOn ==
  /\ head # None /\ ~laneTable
  /\ laneTable' = TRUE
  /\ UNCHANGED <<head, lanesFrom, lanesTo, rolled, rt, page, tokenVars, faults>>

(* The insight loop's cursor is placed, then follows the worker's.          *)
Read ==
  /\ laneTable
  /\ IF lanesTo = None THEN lanesFrom' = head /\ lanesTo' = head
       ELSE lanesTo < head /\ lanesTo' = lanesTo + 1 /\ UNCHANGED lanesFrom
  /\ UNCHANGED <<head, laneTable, rolled, rt, page, tokenVars, faults>>

Laned(n) == lanesFrom < n /\ n <= lanesTo /\ Moves[n] # <<>>

-----------------------------------------------------------------------------
(* The runtime.                                                            *)

(* checkSchema: the tables and columns the explorer reads.                 *)
SchemaThere == head # None

HasInsights == laneTable

(* bootRuntime: without the worker's tables the process exits and is       *)
(* started again.                                                          *)
Boot ==
  /\ rt.step = "boot" /\ SchemaThere
  /\ rt' = [rt EXCEPT !.step = "lanes"]
  /\ UNCHANGED <<archiveVars, page, tokenVars, faults>>

FirstLane ==
  LET laned == {n \in Blocks : Laned(n)} IN IF laned = {} THEN None ELSE Min(laned)

(* Mutant: the first lane is looked for once, when the tables appear.      *)
LanesKnownOnce(known) ==
  IF ~HasInsights THEN None
  ELSE IF rt.on THEN known ELSE FirstLane

(* loadInsightsInfo: the first block with a lane, read until there is one. *)
LanesKnown(known) ==
  IF ~HasInsights THEN None
  ELSE IF known = None THEN FirstLane ELSE known

(* refresh: hasInsights and the first lane, then the head, then the rollup. *)
RefreshLanes ==
  /\ rt.step = "lanes"
  /\ rt' = [rt EXCEPT !.on = HasInsights, !.first = LanesKnown(rt.first), !.step = "head"]
  /\ UNCHANGED <<archiveVars, page, tokenVars, faults>>

(* The head is known by the time of a block with rows.                     *)
HeadKnown == IF \E n \in 1 .. head : Moves[n] # <<>> THEN head ELSE None

RefreshHead ==
  /\ rt.step = "head"
  /\ rt' = [rt EXCEPT !.head = HeadKnown, !.step = "rolled"]
  /\ UNCHANGED <<archiveVars, page, tokenVars, faults>>

RefreshRolled ==
  /\ rt.step = "rolled"
  /\ rt' = [rt EXCEPT !.rolled = rolled, !.ready = TRUE, !.step = "lanes"]
  /\ UNCHANGED <<archiveVars, page, tokenVars, faults>>

(* Another refresh 5 s after this one ended, however it ended; before the  *)
(* first, the boot loop again.                                             *)
AfterFailure == IF rt.ready THEN "lanes" ELSE "boot"

(* What was read before the query that failed stays.                       *)
RefreshFails ==
  /\ rt.step \in {"lanes", "head", "rolled"}
  /\ Fault
  /\ rt' = [rt EXCEPT !.step = AfterFailure]
  /\ UNCHANGED <<archiveVars, page, tokenVars>>

RestartExplorer ==
  /\ Fault
  /\ rt' = NewRuntime
  /\ page' = NoPage /\ tok' = NoneWanted /\ down' = 0
  /\ UNCHANGED <<archiveVars, stored>>

-----------------------------------------------------------------------------
(* An address page.                                                        *)

Position == UNION {{<<n, i>> : i \in 1 .. Len(Moves[n])} : n \in Blocks}
Party(p, side) == Moves[p[1]][p[2]][side]
From(p) == Party(p, 1)
To(p) == Party(p, 2)
Below(p, q) == p[1] < q[1] \/ (p[1] = q[1] /\ p[2] < q[2])
Mine == {p \in Position : p[1] <= head /\ Subject \in {From(p), To(p)}}

(* ORDER BY block and log, both DESC, LIMIT k.                             *)
Newest(S, k) == {p \in S : Cardinality({q \in S : Below(p, q)}) < k}
Oldest(S) == CHOOSE p \in S : \A q \in S \ {p} : Below(p, q)

(* latestSql: both index scans stop at the limit, and so does their union,  *)
(* where a self-transfer is one row.                                       *)
Scan(side, before, k) ==
  Newest({p \in Position : p[1] <= head /\ Party(p, side) = Subject /\ Below(p, before)}, k)
LatestRows(before, k) == Newest(Scan(1, before, k) \cup Scan(2, before, k), k)

(* history: a row more than the page shows tells that there is another.    *)
PageRows(before) == Newest(LatestRows(before, Size + 1), Size)
MoreRows(before) == Cardinality(LatestRows(before, Size + 1)) > Size

(* Mutant: the next page starts at the row that did not fit.               *)
OlderFromNext(before) ==
  IF MoreRows(before) THEN Oldest(LatestRows(before, Size + 1)) ELSE Bottom

(* The next page's keyset position, Bottom on the last page.               *)
Older(before) == IF MoreRows(before) THEN Oldest(PageRows(before)) ELSE Bottom

OpenAddress ==
  /\ rt.ready /\ page.at = "none"
  /\ page' = [NoPage EXCEPT !.at = "id"]
  /\ UNCHANGED <<archiveVars, rt, tokenVars, faults>>

FollowOlder ==
  /\ page.at = "address" /\ page.older # Bottom
  /\ page' = [page EXCEPT !.at = "id", !.before = page.older]
  /\ UNCHANGED <<archiveVars, rt, tokenVars, faults>>

(* addressId: the worker writes an address with its first row.             *)
ReadId ==
  /\ page.at = "id"
  /\ page' = [page EXCEPT !.known = Mine # {}, !.tot = 0,
                          !.at = IF Mine # {} THEN "totals" ELSE "decide"]
  /\ UNCHANGED <<archiveVars, rt, tokenVars, faults>>

ReadTotals ==
  /\ page.at = "totals"
  /\ page' = [page EXCEPT !.at = "decide",
                          !.tot = Cardinality({p \in Mine : p[1] <= rolled})]
  /\ UNCHANGED <<archiveVars, rt, tokenVars, faults>>

RollupBehind == rt.rolled # None /\ rt.head # None /\ rt.rolled < rt.head - Slack

(* emptyAddressText, with what the runtime remembers by then.              *)
EmptyText(known) ==
  IF known /\ (rt.rolled = None \/ RollupBehind) THEN "still being added" ELSE "never moved"

ShowEmpty ==
  /\ page.at = "decide" /\ page.tot = 0
  /\ page' = [page EXCEPT !.at = "address", !.known = FALSE, !.said = EmptyText(page.known)]
  /\ UNCHANGED <<archiveVars, rt, tokenVars, faults>>

HasTotals ==
  /\ page.at = "decide" /\ page.tot > 0
  /\ page' = [page EXCEPT !.at = "history", !.known = FALSE]
  /\ UNCHANGED <<archiveVars, rt, tokenVars, faults>>

ReadHistory ==
  /\ page.at = "history"
  /\ page' = [page EXCEPT !.at = "recent", !.older = Older(page.before),
                !.before = Top,
                !.walk = Append(@, PageRows(page.before))]
  /\ UNCHANGED <<archiveVars, rt, tokenVars, faults>>

(* A self-transfer is a movement, but the address is not its own           *)
(* counterparty.                                                           *)
Counterparty(p) == IF To(p) = Subject THEN From(p) ELSE To(p)

ReadRecent ==
  /\ page.at = "recent"
  /\ page' = [page EXCEPT !.at = "address",
                !.peers = {Counterparty(p) : p \in {q \in LatestRows(Top, Latest) : From(q) # To(q)}},
                !.said = IF RollupBehind THEN "still being added" ELSE "all"]
  /\ UNCHANGED <<archiveVars, rt, tokenVars, faults>>

-----------------------------------------------------------------------------
(* A transaction page.                                                     *)

Tables(n) == {k \in {"transfer", "pool"} : IF k = "pool" THEN n \in Pooled ELSE Moves[n] # <<>>}

OpenTx(n) ==
  /\ rt.ready /\ page.at = "none"
  /\ page' = [NoPage EXCEPT !.at = "load", !.block = n, !.todo = {"transfer", "pool"}]
  /\ UNCHANGED <<archiveVars, rt, tokenVars, faults>>

(* loadTx: one query per table, in no order.                               *)
LoadTable(k) ==
  /\ page.at = "load" /\ k \in page.todo
  /\ page' = [page EXCEPT !.todo = @ \ {k},
                !.seen = IF page.block <= head THEN @ \cup (Tables(page.block) \cap {k}) ELSE @]
  /\ UNCHANGED <<archiveVars, rt, tokenVars, faults>>

(* A poll that is answered 404 leaves the panel as it is.                  *)
NotFound ==
  /\ page.at = "load" /\ page.todo = {} /\ page.seen = {}
  /\ page' = IF page.polls = 0 THEN NoPage ELSE [page EXCEPT !.at = "panel"]
  /\ UNCHANGED <<archiveVars, rt, tokenVars, faults>>

(* loadLane gets the insights the runtime remembers now; a page, not a     *)
(* poll, also asks for the tokens of the pools it found.                   *)
Loaded ==
  /\ page.at = "load" /\ page.todo = {} /\ page.seen # {}
  /\ page' = [page EXCEPT !.at = "lane", !.on = rt.on, !.first = rt.first]
  /\ tok' = IF page.polls = 0 /\ "pool" \in page.seen
              THEN [t \in Tokens |-> IF t \in stored THEN "no" ELSE "wanted"] ELSE tok
  /\ UNCHANGED <<archiveVars, rt, stored, down, faults>>

OlderThanLanes(n, first) == first # None /\ n < first

(* loadLane's first query and what it settles.                             *)
ReadLane ==
  /\ page.at = "lane"
  /\ page' = [page EXCEPT !.seen = {}, !.on = FALSE, !.first = None,
       !.lane = IF ~page.on THEN "off"
                ELSE IF Laned(page.block) THEN "read"
                ELSE IF OlderThanLanes(page.block, page.first) THEN "before" ELSE @,
       !.at = IF page.on /\ ~Laned(page.block) /\ ~OlderThanLanes(page.block, page.first)
                THEN "cursor" ELSE "panel"]
  /\ UNCHANGED <<archiveVars, rt, tokenVars, faults>>

ReadLaneCursor ==
  /\ page.at = "cursor"
  /\ page' = [page EXCEPT !.at = "panel",
                !.lane = IF lanesTo = None \/ page.block > lanesTo THEN "pending" ELSE "none"]
  /\ UNCHANGED <<archiveVars, rt, tokenVars, faults>>

(* LanePanel polls while the lane is pending, POLLS times.                 *)
Poll ==
  /\ page.at = "panel" /\ page.lane = "pending" /\ page.polls < Polls
  /\ tok = NoneWanted
  /\ page' = [page EXCEPT !.at = "load", !.todo = {"transfer", "pool"}, !.seen = {},
                          !.polls = @ + 1]
  /\ UNCHANGED <<archiveVars, rt, tokenVars, faults>>

-----------------------------------------------------------------------------
(* Tokens.get                                                              *)

(* Mutant: every view in an outage starts it anew.                         *)
OutageExtended(d) == Outage

OutageKept(d) == d

(* After an unanswered read nobody reads for OUTAGE_MS.                     *)
SkipToken(t) ==
  /\ tok[t] = "wanted" /\ down > 0
  /\ tok' = [tok EXCEPT ![t] = "no"]
  /\ down' = OutageKept(down)
  /\ UNCHANGED <<archiveVars, rt, page, stored, faults>>

AskToken(t) ==
  /\ tok[t] = "wanted" /\ down = 0
  /\ tok' = [tok EXCEPT ![t] = "asked"]
  /\ UNCHANGED <<archiveVars, rt, page, stored, down, faults>>

(* Metadata, or a revert that says it is not a token.                      *)
TokenAnswered(t) ==
  /\ tok[t] = "asked"
  /\ tok' = [tok EXCEPT ![t] = "no"]
  /\ stored' = stored \cup {t}
  /\ UNCHANGED <<archiveVars, rt, page, down, faults>>

(* classifyReadError: a transport failure is not stored.                   *)
TokenUnanswered(t) ==
  /\ tok[t] = "asked"
  /\ Fault
  /\ tok' = [tok EXCEPT ![t] = "no"]
  /\ down' = Outage
  /\ UNCHANGED <<archiveVars, rt, page, stored>>

Tick ==
  /\ down > 0
  /\ down' = down - 1
  /\ UNCHANGED <<archiveVars, rt, page, tok, stored, faults>>

-----------------------------------------------------------------------------
(* A query of the answer fails: an error page, or a poll like any other.   *)
QueryFails ==
  /\ page.at \notin {"none", "address", "panel"}
  /\ Fault
  /\ page' = IF page.polls = 0 THEN NoPage ELSE [page EXCEPT !.at = "panel"]
  /\ tok' = NoneWanted
  /\ UNCHANGED <<archiveVars, rt, stored, down>>

Leave ==
  /\ page.at \in {"address", "panel"} /\ tok = NoneWanted
  /\ page' = NoPage
  /\ UNCHANGED <<archiveVars, rt, tokenVars, faults>>

Refresh == RefreshLanes \/ RefreshHead \/ RefreshRolled
Answer ==
  \/ ReadId \/ ReadTotals \/ ShowEmpty \/ HasTotals \/ ReadHistory \/ ReadRecent
  \/ \E k \in {"transfer", "pool"} : LoadTable(k)
  \/ NotFound \/ Loaded \/ ReadLane \/ ReadLaneCursor
Resolve(t) == SkipToken(t) \/ AskToken(t) \/ TokenAnswered(t)

PageNext ==
  \/ Archived \/ InsightsOn \/ Read
  \/ Boot \/ Refresh \/ RefreshFails \/ RestartExplorer
  \/ OpenAddress \/ FollowOlder \/ (\E n \in Txs : OpenTx(n))
  \/ Answer \/ QueryFails \/ Poll \/ Leave \/ Tick
  \/ \E t \in Tokens : Resolve(t) \/ TokenUnanswered(t)

PageSpec == PageInit /\ [][PageNext]_pageVars

(* The server answers what it is asked, the panel's and the refresh's      *)
(* timers fire, and time passes.                                           *)
FairPageSpec ==
  /\ PageSpec
  /\ WF_pageVars(Boot \/ Refresh) /\ WF_pageVars(Answer \/ Poll) /\ WF_pageVars(Tick)
  /\ \A t \in Tokens : WF_pageVars(Resolve(t))

-----------------------------------------------------------------------------
(* Every variable has the values the code gives it: positions are places   *)
(* in the log order, what is known of the chain is a block of it.          *)
Places == Nat \X Nat
Known == None .. MaxBlock

RuntimeType ==
  [ready : BOOLEAN, on : BOOLEAN, first : Known, head : Known, rolled : Known,
   step : {"boot", "lanes", "head", "rolled"}]
PageType ==
  [at : {"none", "id", "totals", "decide", "history", "recent", "address", "load", "lane",
         "cursor", "panel"},
   before : Places, known : BOOLEAN, tot : Nat, walk : Seq(SUBSET Position), older : Places,
   peers : SUBSET {Counterparty(p) : p \in Position},
   said : {"nothing", "still being added", "never moved", "all"},
   block : {None} \cup Txs, todo : SUBSET {"transfer", "pool"},
   seen : SUBSET {"transfer", "pool"}, on : BOOLEAN, first : Known,
   lane : {"pending", "off", "read", "before", "none"}, polls : 0 .. Polls]

PageTypeOK ==
  /\ {head, rolled, lanesFrom, lanesTo} \subseteq Known /\ laneTable \in BOOLEAN
  /\ rt \in RuntimeType /\ page \in PageType
  /\ tok \in [Tokens -> {"no", "wanted", "asked"}] /\ stored \subseteq Tokens
  /\ down \in 0 .. Outage /\ faults \in 0 .. MaxFaults

Shown == UNION {page.walk[i] : i \in DOMAIN page.walk}

(* Following `older' from a first page shows the address's movements       *)
(* newest first, each once and none left out, self-transfers and blocks    *)
(* that end a page included, and never an empty page, whatever is ingested *)
(* meanwhile (address.ts:80-114).                                          *)
HistoryWhole ==
  page.walk # <<>> =>
    /\ \A i \in DOMAIN page.walk : page.walk[i] # {}
    /\ \A i, j \in DOMAIN page.walk :
         i < j => \A p \in page.walk[i], q \in page.walk[j] : Below(q, p)
    /\ \A p \in Mine \ Shown :
         \/ \A q \in Shown : Below(q, p)
         \/ page.older # Bottom /\ \A q \in Shown : Below(p, q)

(* While transactions with pools are opened again and again, every token   *)
(* is read in the end: an outage is over though pages keep asking          *)
(* (tokens.ts:100, "remembered, not extended").                             *)
Asking == page.at = "lane" /\ page.polls = 0 /\ "pool" \in page.seen
TokensLearned == []<>Asking => <>[](stored = Tokens)

(* A page that is answered says what the archive holds.                    *)
LaneHeld(n) ==
  IF ~laneTable THEN "off"
  ELSE IF Laned(n) THEN "read"
  ELSE IF FirstLane # None /\ n < FirstLane THEN "before"
  ELSE IF lanesTo = None \/ n > lanesTo THEN "pending" ELSE "none"
Answered == page.at \notin {"address", "panel"} /\ page'.at \in {"address", "panel"}
Truthful ==
  IF page'.block = None
    THEN page'.said = IF Mine = {} THEN "never moved" ELSE "all"
    ELSE page'.lane = LaneHeld(page'.block)

(* Once the worker and the rollup rest, every page answered from then on   *)
(* tells the totals and the lane there are: nothing the runtime remembers  *)
(* stays stale, whatever failed before (runtime.ts:74-88 and 127-135).     *)
PagesSettle ==
  <>[][UNCHANGED archiveVars]_pageVars /\ <>[](rolled = head) => <>[][Answered => Truthful]_pageVars

(* The panel stops asking at a lane, and at a block older than all lanes:  *)
(* what it says then is so, and stays so while rounds are committed        *)
(* (tx.ts:104-123, LanePanel.tsx).                                         *)
FinalVerdicts == page.lane \in {"read", "before"} => page.lane = LaneHeld(page.block)

(* Two statements the code does not keep.  A lane verdict of "none" is     *)
(* final for the panel, and reads the cursor after the rows (types.ts:44): *)
(* a round between the two makes it wrong.                                 *)
NoneMeansNone == page.at = "panel" /\ page.lane = "none" => ~Laned(page.block)

(* A known address whose rows are not rolled up is not said to have never  *)
(* moved (addrstory.ts:42-44): within ROLLUP_SLACK of the head it is, and  *)
(* when the refresh overtakes the totals.                                  *)
KnownNeverEmpty == [][ShowEmpty /\ page.known => page'.said # "never moved"]_pageVars

=============================================================================
