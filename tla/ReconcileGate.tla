---------------------------- MODULE ReconcileGate ----------------------------
(***************************************************************************)
(* The operator: the gate that decides which watch events, resync listings *)
(* and retry timers cost a reconcile (operator/src/gate.ts), the reconcile *)
(* it runs (reconcile.ts) and the loop that feeds it (main.ts), against a  *)
(* Kubernetes API server that is external.                                 *)
(*                                                                         *)
(* A key is one incarnation (uid) of an Indexer.  Two incarnations may     *)
(* have the same name: the resources the operator renders and the status   *)
(* it patches are addressed by name.  What an event, a listing or a run    *)
(* carries is a copy of the object, the status of that moment included.    *)
(***************************************************************************)
EXTENDS Integers, Sequences

CONSTANTS
  Keys,            \* Indexer incarnations
  Names,           \* Indexer names
  NameOf,          \* the name of each incarnation
  Invalid,         \* generations whose spec does not parse
  Parts,           \* how many resources one reconcile applies, in order
  Runs,            \* identities of drains; more than there are keys
  Loops,           \* identities of resync listings in progress
  RetryStart,      \* WAIT_RETRY_START_MS
  RetryMax,        \* WAIT_RETRY_MAX_MS
  SecretAtStart,   \* whether the specs' Secret and ConfigMaps may exist then
  Disruptions,     \* how often each DisruptionKind may happen (bound)
  MaxGen,          \* generations of one Indexer         (bound)
  MaxQueue,        \* undelivered watch events           (bound)
  None             \* no object, no run, no resource

DisruptionKinds == {"fail", "restart", "unset"}

Gens == 1..MaxGen
Conds == {"ok", "waiting", "invalid"}

\* status: the observed generation and the Provisioned condition; {} fields
\* are 0 and "none" before the first patch
Stats == [observed : 0..MaxGen, cond : Conds \cup {"none"}]
NoStat == [observed |-> 0, cond |-> "none"]
Objs == [gen : Gens, stat : Stats]

\* what an applied resource carries of the Indexer it was rendered from
Stamps == [key : Keys, gen : Gens]

\* one key's entry in the maps of the gate, and one #drain in progress
Timers == {"set", "unset"}

Entries ==
  [generation : 0..MaxGen, run : Runs \cup {None}, pending : Objs \cup {None},
   latest : Objs \cup {None}, retry : Timers, delay : 0..RetryMax]

Drains ==
  [key : Keys, obj : Objs, step : {"check", "apply", "patch"}, part : 0..Parts,
   cond : Conds \cup {"none"}]

ASSUME NamesAssumption == NameOf \in [Keys -> Names]
ASSUME BoundsAssumption ==
  /\ Parts \in Nat /\ MaxGen \in Nat \ {0} /\ MaxQueue \in Nat \ {0}
  /\ Disruptions \in [DisruptionKinds -> Nat]
ASSUME RetryAssumption ==
  RetryStart \in Nat \ {0} /\ RetryMax \in Nat /\ RetryStart <= RetryMax
ASSUME SecretAssumption == SecretAtStart \subseteq BOOLEAN
ASSUME NoneAssumption == None \notin Objs \cup Stamps \cup Runs \cup Drains

VARIABLES
  server,      \* per key: the Indexer on the API server
  secret,      \* whether the Secret and ConfigMaps the specs name exist
  applied,     \* per name: the resources, each stamped with key and generation
  watch,       \* per key: watch events on their way to the operator
  gate,        \* per key: the maps of ReconcileGate
  closed,      \* #closed
  drains,      \* per run: the #drain in progress
  loops,       \* per listing: what gate.resync is still to be called with
  disruptions  \* how often each of them has happened

serverVars == <<server, secret, applied, watch>>
vars == <<server, secret, applied, watch, gate, closed, drains, loops, disruptions>>

Live(k) == server[k].state = "live"

Object(s) == [gen |-> s.gen, stat |-> s.stat]

-----------------------------------------------------------------------------
(* The gate's maps for one key, and what each of its methods does to them. *)

NoEntry ==
  [generation |-> 0,       \* #generation; 0 is "not recorded"
   run        |-> None,    \* #running
   pending    |-> None,    \* #pending
   latest     |-> None,    \* #latest
   retry      |-> "unset", \* #retry: whether a timer is set
   delay      |-> 0]       \* #retryDelay; 0 is "no consecutive wait"

ClearRetry(g) == [g EXCEPT !.retry = "unset", !.delay = 0]

(* Mutant: a timer is set after close().                                   *)
RetryLaterClosed(g) ==
  IF g.latest = None THEN g
  ELSE [g EXCEPT !.retry = "set", !.delay = RetryMax]

RetryLater(g) ==
  IF closed \/ g.latest = None THEN g
  ELSE LET delay == IF g.delay = 0 THEN RetryStart ELSE g.delay
       IN [g EXCEPT !.retry = "set",
                    !.delay = IF 2 * delay < RetryMax THEN 2 * delay ELSE RetryMax]

Remember(g, o) ==
  IF g.latest = None \/ o.gen >= g.latest.gen THEN [g EXCEPT !.latest = o] ELSE g

(* Mutants: DELETED gives up the running entry; DELETED leaves the timer   *)
(* and what it reads.                                                      *)
ForgetRun(g) == NoEntry

ForgetPending(g) == [g EXCEPT !.generation = 0, !.pending = None]

(* DELETED: everything but a reconcile that is already running.            *)
Forget(g) == ClearRetry([g EXCEPT !.generation = 0, !.pending = None, !.latest = None])

(* Mutants: no generation is stale; the recorded one is.                   *)
NeverStale(g, o) == FALSE

StaleOrSame(g, o) == g.generation # 0 /\ o.gen <= g.generation

Stale(g, o) == g.generation # 0 /\ o.gen < g.generation

(* #schedule past the stale check, when a run is there to join ...         *)
Join(g, o) ==
  [g EXCEPT !.generation = o.gen,
            !.pending = IF g.pending = None THEN o
                        ELSE IF o.gen >= g.pending.gen THEN o ELSE g.pending]

(* ... and when run r is started.                                          *)
Start(g, r, o) == [g EXCEPT !.generation = o.gen, !.run = r]

(* The tail of #drain: run r has reconciled generation gen.                *)
ForgetFailed(g, gen, result) ==
  IF result = "failed" /\ g.generation = gen THEN [g EXCEPT !.generation = 0] ELSE g

Rest(g, r, result) ==
  LET h == IF g.run = r THEN [g EXCEPT !.run = None] ELSE g
  IN CASE result = "waiting" -> RetryLater(h)
       [] result = "ok"      -> ClearRetry(h)
       [] OTHER              -> h

-----------------------------------------------------------------------------
Init ==
  /\ server = [k \in Keys |-> [state |-> "unborn", gen |-> 1, stat |-> NoStat]]
  /\ secret \in SecretAtStart
  /\ applied = [n \in Names |-> [p \in 1..Parts |-> None]]
  /\ watch = [k \in Keys |-> <<>>]
  /\ gate = [k \in Keys |-> NoEntry]
  /\ closed = FALSE
  /\ drains = [r \in Runs |-> None]
  /\ loops = [l \in Loops |-> [todo |-> {}, wait |-> None]]
  /\ disruptions = [kind \in DisruptionKinds |-> 0]

gateVars == <<gate, closed, drains, loops>>

Disrupt(kind) ==
  /\ disruptions[kind] < Disruptions[kind]
  /\ disruptions' = [disruptions EXCEPT ![kind] = @ + 1]

-----------------------------------------------------------------------------
(* The API server, its users and the workers (external).                   *)

(* A watch that falls behind is told the newest state: an event that finds *)
(* the queue full takes the place of the last one, and a relisted object   *)
(* is still ADDED.                                                         *)
Notified(k, phase, s) ==
  LET q == watch[k]
      kept == IF phase = "MODIFIED" /\ Len(q) > 0 /\ q[Len(q)].phase = "ADDED"
              THEN "ADDED" ELSE phase
  IN IF Len(q) < MaxQueue
     THEN [watch EXCEPT ![k] = Append(q, [phase |-> phase, obj |-> Object(s)])]
     ELSE [watch EXCEPT ![k] = [q EXCEPT ![Len(q)] = [phase |-> kept, obj |-> Object(s)]]]

Create(k) ==
  /\ server[k].state = "unborn"
  /\ \A j \in Keys : NameOf[j] = NameOf[k] => ~Live(j)
  /\ server' = [server EXCEPT ![k].state = "live"]
  /\ watch' = Notified(k, "ADDED", server'[k])
  /\ UNCHANGED <<secret, applied, disruptions, gateVars>>

ChangeSpec(k) ==
  /\ Live(k) /\ server[k].gen < MaxGen
  /\ server' = [server EXCEPT ![k].gen = @ + 1]
  /\ watch' = Notified(k, "MODIFIED", server'[k])
  /\ UNCHANGED <<secret, applied, disruptions, gateVars>>

(* The worker patches its own part of the status every 10 s.               *)
WorkerStatus(k) ==
  /\ Live(k)
  /\ watch' = Notified(k, "MODIFIED", server[k])
  /\ UNCHANGED <<server, secret, applied, disruptions, gateVars>>

Delete(k) ==
  /\ Live(k)
  /\ server' = [server EXCEPT ![k].state = "gone"]
  /\ watch' = Notified(k, "DELETED", server[k])
  /\ UNCHANGED <<secret, applied, disruptions, gateVars>>

(* Resources whose owner is gone are collected, one by one.                *)
CollectGarbage(n, p) ==
  /\ applied[n][p] # None /\ server[applied[n][p].key].state = "gone"
  /\ applied' = [applied EXCEPT ![n][p] = None]
  /\ UNCHANGED <<server, secret, watch, disruptions, gateVars>>

CreateSecret ==
  /\ ~secret
  /\ secret' = TRUE
  /\ UNCHANGED <<server, applied, watch, disruptions, gateVars>>

RemoveSecret ==
  /\ Disrupt("unset")
  /\ secret /\ secret' = FALSE
  /\ UNCHANGED <<server, applied, watch, gateVars>>

-----------------------------------------------------------------------------
(* What reaches the gate.                                                  *)

(* #schedule: entry g of key k, as the caller left it, is offered o.       *)
Schedule(k, g, o, isRetry) ==
  LET h == IF isRetry THEN g ELSE ClearRetry(g) IN
  \/ /\ Stale(g, o)
     /\ gate' = [gate EXCEPT ![k] = g]
     /\ UNCHANGED drains
  \/ /\ ~Stale(g, o) /\ g.run # None
     /\ gate' = [gate EXCEPT ![k] = Join(h, o)]
     /\ UNCHANGED drains
  \/ /\ ~Stale(g, o) /\ g.run = None
     /\ \E r \in Runs :
          /\ drains[r] = None
          /\ gate' = [gate EXCEPT ![k] = Start(h, r, o)]
          /\ drains' = [drains EXCEPT ![r] =
               [key |-> k, obj |-> o, step |-> "check", part |-> 0, cond |-> "none"]]

(* ReconcileGate.watch, with the next event of key k.                      *)
Deliver(k) ==
  /\ ~closed /\ watch[k] # <<>>
  /\ LET e == Head(watch[k])
         g == Remember(gate[k], e.obj)
     IN \/ /\ e.phase = "DELETED"
           /\ gate' = [gate EXCEPT ![k] = Forget(@)]
           /\ UNCHANGED drains
        \/ /\ e.phase = "MODIFIED" /\ e.obj.gen = g.generation
           /\ gate' = [gate EXCEPT ![k] = g]
           /\ UNCHANGED drains
        \/ /\ \/ e.phase = "ADDED"
              \/ e.phase = "MODIFIED" /\ e.obj.gen # g.generation
           /\ Schedule(k, g, e.obj, FALSE)
  /\ watch' = [watch EXCEPT ![k] = Tail(@)]
  /\ UNCHANGED <<server, secret, applied, closed, loops, disruptions>>

(* The resync interval: a listing of the Indexers there are.               *)
List(l) ==
  /\ ~closed
  /\ loops[l] = [todo |-> {}, wait |-> None]
  /\ loops' = [loops EXCEPT ![l].todo =
       {[key |-> k, obj |-> Object(server[k])] : k \in {j \in Keys : Live(j)}}]
  /\ UNCHANGED <<serverVars, gate, closed, drains, disruptions>>

(* ReconcileGate.resync with one listed object; the loop then awaits the   *)
(* run it started, joined or found.                                        *)
Resync(l) ==
  /\ loops[l].wait = None
  /\ \E i \in loops[l].todo :
       /\ Schedule(i.key, Remember(gate[i.key], i.obj), i.obj, FALSE)
       /\ loops' = [loops EXCEPT ![l] =
            [todo |-> @.todo \ {i}, wait |-> gate'[i.key].run]]
  /\ UNCHANGED <<serverVars, closed, disruptions>>

(* The timer of #retryLater.                                               *)
RetryFires(k) ==
  /\ gate[k].retry = "set"
  /\ LET g == [gate[k] EXCEPT !.retry = "unset"]
     IN IF g.latest = None
        THEN gate' = [gate EXCEPT ![k] = g] /\ UNCHANGED drains
        ELSE Schedule(k, g, g.latest, TRUE)
  /\ UNCHANGED <<serverVars, closed, loops, disruptions>>

-----------------------------------------------------------------------------
(* One run: #drain around reconcile().                                     *)

(* Mutant: the rerun is looked for before the reconcile ends.              *)
FinishEarly(r, result) ==
  LET d == drains[r]
      g == ForgetFailed(gate[d.key], d.obj.gen, result)
  IN /\ gate' = [gate EXCEPT ![d.key] = Rest(g, r, result)]
     /\ drains' = [drains EXCEPT ![r] = None]
     /\ loops' = [l \in Loops |-> IF loops[l].wait = r
                                  THEN [loops[l] EXCEPT !.wait = None] ELSE loops[l]]

(* The reconcile of run r ended with result.                               *)
Finish(r, result) ==
  LET d == drains[r]
      g == ForgetFailed(gate[d.key], d.obj.gen, result)
  IN \/ /\ g.pending # None
        /\ gate' = [gate EXCEPT ![d.key] = [g EXCEPT !.pending = None]]
        /\ drains' = [drains EXCEPT ![r] =
             [key |-> d.key, obj |-> g.pending, step |-> "check", part |-> 0, cond |-> "none"]]
        /\ UNCHANGED loops
     \/ /\ g.pending = None
        /\ gate' = [gate EXCEPT ![d.key] = Rest(g, r, result)]
        /\ drains' = [drains EXCEPT ![r] = None]
        /\ loops' = [l \in Loops |-> IF loops[l].wait = r
                                     THEN [loops[l] EXCEPT !.wait = None] ELSE loops[l]]

(* The spec is parsed, then the Secret and the ConfigMaps are asked for.   *)
Verdict(o) ==
  IF o.gen \in Invalid THEN "invalid" ELSE IF secret THEN "ok" ELSE "waiting"

Check(r) ==
  /\ drains[r] # None /\ drains[r].step = "check"
  /\ LET c == Verdict(drains[r].obj)
     IN drains' = [drains EXCEPT ![r].cond = c,
                                 ![r].step = IF c = "ok" THEN "apply" ELSE "patch"]
  /\ UNCHANGED <<serverVars, gate, closed, loops, disruptions>>

(* One of the applies, in their order.                                     *)
Apply(r) ==
  /\ drains[r] # None /\ drains[r].step = "apply"
  /\ LET d == drains[r] IN
       \/ /\ d.part < Parts
          /\ applied' = [applied EXCEPT ![NameOf[d.key]][d.part + 1] =
                           [key |-> d.key, gen |-> d.obj.gen]]
          /\ drains' = [drains EXCEPT ![r].part = @ + 1]
       \/ /\ d.part = Parts
          /\ drains' = [drains EXCEPT ![r].step = "patch"]
          /\ UNCHANGED applied
  /\ UNCHANGED <<server, secret, watch, gate, closed, loops, disruptions>>

(* Mutant: the status is always patched.                                   *)
NeverUnchanged(d) == FALSE

(* setCondition: an unchanged status is not patched again ...              *)
Unchanged(d) == d.obj.stat = [observed |-> d.obj.gen, cond |-> d.cond]

Result(cond) == IF cond = "waiting" THEN "waiting" ELSE "ok"

SkipPatch(r) ==
  /\ drains[r] # None /\ drains[r].step = "patch"
  /\ Unchanged(drains[r])
  /\ Finish(r, Result(drains[r].cond))
  /\ UNCHANGED <<serverVars, closed, disruptions>>

(* ... and a changed one is, on whichever Indexer has the name.            *)
Patch(r) ==
  /\ drains[r] # None /\ drains[r].step = "patch"
  /\ ~Unchanged(drains[r])
  /\ LET d == drains[r]
         targets == {k \in Keys : NameOf[k] = NameOf[d.key] /\ Live(k)}
     IN \/ /\ targets = {}
           /\ Finish(r, "failed")
           /\ UNCHANGED <<server, watch>>
        \/ \E k \in targets :
             /\ server' = [server EXCEPT ![k].stat = [observed |-> d.obj.gen, cond |-> d.cond]]
             /\ watch' = Notified(k, "MODIFIED", server'[k])
             /\ Finish(r, Result(d.cond))
  /\ UNCHANGED <<secret, applied, closed, disruptions>>

(* Any of the requests of a reconcile may throw.                           *)
Throw(r) ==
  /\ drains[r] # None
  /\ Disrupt("fail")
  /\ Finish(r, "failed")
  /\ UNCHANGED <<serverVars, closed>>

RunStep(r) == Check(r) \/ Apply(r) \/ SkipPatch(r) \/ Patch(r) \/ Throw(r)

-----------------------------------------------------------------------------
(* SIGTERM: the interval, the retries and the watch stop; runs and resync  *)
(* loops that are under way go on.                                         *)
Close ==
  /\ ~closed /\ Disrupt("restart")
  /\ closed' = TRUE
  /\ gate' = [k \in Keys |-> IF gate[k].retry = "set" THEN ClearRetry(gate[k]) ELSE gate[k]]
  /\ UNCHANGED <<serverVars, drains, loops>>

(* A new process: empty maps, and a watch that starts with what there is.  *)
Boot ==
  /\ gate' = [k \in Keys |-> NoEntry]
  /\ closed' = FALSE
  /\ drains' = [r \in Runs |-> None]
  /\ loops' = [l \in Loops |-> [todo |-> {}, wait |-> None]]
  /\ watch' = [k \in Keys |->
       IF Live(k) THEN <<[phase |-> "ADDED", obj |-> Object(server[k])]>> ELSE <<>>]
  /\ UNCHANGED <<server, secret, applied>>

Restart ==
  \/ closed /\ Boot /\ UNCHANGED disruptions
  \/ ~closed /\ Disrupt("restart") /\ Boot

Next ==
  \/ \E k \in Keys :
       \/ Create(k) \/ ChangeSpec(k) \/ WorkerStatus(k) \/ Delete(k)
       \/ Deliver(k) \/ RetryFires(k)
  \/ \E n \in Names, p \in 1..Parts : CollectGarbage(n, p)
  \/ CreateSecret \/ RemoveSecret
  \/ \E l \in Loops : List(l) \/ Resync(l)
  \/ \E r \in Runs : RunStep(r)
  \/ Close \/ Restart

Spec == Init /\ [][Next]_vars

(* The event loop runs every callback, timer and answered request in the   *)
(* end, the watch delivers, the interval ticks, and a pod that was told to *)
(* stop is replaced.  No user has to do anything.                          *)
Fairness ==
  /\ \A k \in Keys : WF_vars(Deliver(k)) /\ WF_vars(RetryFires(k))
  /\ \A l \in Loops : WF_vars(List(l)) /\ WF_vars(Resync(l))
  /\ \A r \in Runs : WF_vars(Check(r) \/ Apply(r) \/ SkipPatch(r) \/ Patch(r))
  /\ WF_vars(closed /\ Restart)

FairSpec == Spec /\ Fairness

-----------------------------------------------------------------------------
Listed == [key : Keys, obj : Objs]

Indexers == [state : {"unborn", "live", "gone"}, gen : Gens, stat : Stats]

Events == [phase : {"ADDED", "MODIFIED", "DELETED"}, obj : Objs]

Counts == {d \in [DisruptionKinds -> Nat] : \A i \in DisruptionKinds : d[i] <= Disruptions[i]}

ServerTypeOK ==
  /\ server \in [Keys -> Indexers]
  /\ secret \in BOOLEAN
  /\ applied \in [Names -> [1..Parts -> Stamps \cup {None}]]

WatchTypeOK ==
  /\ watch \in [Keys -> Seq(Events)]
  /\ \A k \in Keys : Len(watch[k]) <= MaxQueue

GateTypeOK ==
  /\ gate \in [Keys -> Entries]
  /\ closed \in BOOLEAN

RunTypeOK ==
  /\ drains \in [Runs -> Drains \cup {None}]
  /\ loops \in [Loops -> [todo : SUBSET Listed, wait : Runs \cup {None}]]
  /\ disruptions \in Counts

(* Every map entry, event and run is what its type says; the retry delay   *)
(* never passes WAIT_RETRY_MAX_MS (gate.ts:93).                            *)
TypeOK == ServerTypeOK /\ WatchTypeOK /\ GateTypeOK /\ RunTypeOK

(* "Runs at most one reconcile per Indexer at a time" (gate.ts:3): every   *)
(* reconcile in progress is the one #running names for its key, through    *)
(* deletions, reruns and retries, and #running names no other.             *)
OneRun ==
  /\ \A r \in Runs : drains[r] # None => gate[drains[r].key].run = r
  /\ \A k \in Keys : gate[k].run # None =>
       drains[gate[k].run] # None /\ drains[gate[k].run].key = k

(* An event that was queued behind a run is never left behind by it: while *)
(* an object is pending there is a run that will take it (gate.ts:166).    *)
NoEventLost == \A k \in Keys : gate[k].pending # None => gate[k].run # None

(* A retry timer is set only for an idle, remembered Indexer of a gate     *)
(* that is open: none survives a run, a DELETED or close() (gate.ts:67,91).*)
RetryIdle ==
  \A k \in Keys : gate[k].retry = "set" =>
    gate[k].run = None /\ gate[k].latest # None /\ ~closed

(* "A stale generation would overwrite newer desired state" (gate.ts:109): *)
(* no resource of an Indexer that exists goes back to an older generation. *)
AppliedForward ==
  [][\A n \in Names, p \in 1..Parts :
       (/\ applied[n][p] # None /\ applied'[n][p] # None
        /\ applied'[n][p].key = applied[n][p].key
        /\ Live(applied[n][p].key))
       => applied'[n][p].gen >= applied[n][p].gen]_vars

(* The same while no reconcile has failed, through any retry and restart.  *)
ForwardUnlessFailed ==
  [][\A n \in Names, p \in 1..Parts :
       (/\ disruptions["fail"] = 0
        /\ applied[n][p] # None /\ applied'[n][p] # None
        /\ applied'[n][p].key = applied[n][p].key
        /\ Live(applied[n][p].key))
       => applied'[n][p].gen >= applied[n][p].gen]_vars

(* What the operator owes Indexer k.                                       *)
Told(k) ==
  /\ server[k].stat = [observed |-> server[k].gen, cond |-> Verdict(Object(server[k]))]
  /\ Verdict(Object(server[k])) = "ok" =>
       \A p \in 1..Parts :
         applied[NameOf[k]][p] = [key |-> k, gen |-> server[k].gen]

(* Once users stop changing things, every Indexer that exists ends with    *)
(* its newest generation applied in full, or told why not.                 *)
Converges == <>[](\A k \in Keys : Live(k) => Told(k))

(* No self-feeding loop (reconcile.ts:41): the operator stops patching,    *)
(* though each patch is an event and a missing Secret is asked for forever.*)
Quiet == <>[][~\E r \in Runs : Patch(r)]_vars

(* A deleted Indexer is left alone in the end: no run, no retry.           *)
Forgotten ==
  <>[](\A k \in Keys : server[k].state = "gone" => gate[k].run = None /\ gate[k].retry = "unset")

=============================================================================
