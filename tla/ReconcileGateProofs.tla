------------------------- MODULE ReconcileGateProofs -------------------------
(***************************************************************************)
(* The gate's safety for any number of Indexers, runs and listings: types, *)
(* one run per key, no event left behind a run, no timer where none may be,*)
(* and no older generation over a newer one until a reconcile fails.       *)
(*                                                                         *)
(* The first three are one induction.  That a timer never meets a run      *)
(* needs that a run that ends is the one #running names (OneRun), and that *)
(* a rerun is never dropped needs both.                                    *)
(***************************************************************************)
EXTENDS ReconcileGate, TLAPS

(* What RetryIdle and NoEventLost say of one entry.                        *)
Sound(g, c) ==
  /\ g.pending # None => g.run # None
  /\ g.retry = "set" => g.run = None /\ g.latest # None /\ ~c

Safe == \A k \in Keys : Sound(gate[k], closed)

DrainsTypeOK == drains \in [Runs -> Drains \cup {None}]

Gated == GateTypeOK /\ DrainsTypeOK /\ OneRun /\ Safe

Env == ServerTypeOK /\ WatchTypeOK

Queues ==
  /\ loops \in [Loops -> [todo : SUBSET Listed, wait : Runs \cup {None}]]
  /\ disruptions \in Counts

IInv == Env /\ Queues /\ Gated

(***************************************************************************)
(* What the methods do to one entry.                                       *)
(***************************************************************************)
LEMMA NoneYet == [kind \in DisruptionKinds |-> 0] \in Counts
  BY BoundsAssumption DEF Counts

LEMMA ZeroFits == 0 \in 0..MaxGen /\ 0 \in 0..RetryMax
  BY BoundsAssumption, RetryAssumption

LEMMA GenFits == ASSUME NEW o \in Objs PROVE o.gen \in 0..MaxGen
  BY BoundsAssumption DEF Objs, Gens

LEMMA NoEntryFits == NoEntry \in Entries /\ \A c : Sound(NoEntry, c)
<1>1. NoEntry \in Entries
  BY ZeroFits, Zenon DEF NoEntry, Entries, Timers
<1>2. NoEntry.pending = None /\ NoEntry.retry = "unset"
  BY DEF NoEntry
<1> QED BY <1>1, <1>2 DEF Sound

LEMMA ClearRetryFits ==
  ASSUME NEW g \in Entries
  PROVE  /\ ClearRetry(g) \in Entries
         /\ ClearRetry(g).run = g.run /\ ClearRetry(g).pending = g.pending
         /\ ClearRetry(g).latest = g.latest /\ ClearRetry(g).retry = "unset"
         /\ ClearRetry(g).generation = g.generation
  BY ZeroFits DEF ClearRetry, Entries, Timers

LEMMA RememberFits ==
  ASSUME NEW g \in Entries, NEW o \in Objs
  PROVE  /\ Remember(g, o) \in Entries
         /\ Remember(g, o).run = g.run /\ Remember(g, o).pending = g.pending
         /\ Remember(g, o).latest # None /\ Remember(g, o).retry = g.retry
  BY NoneAssumption DEF Remember, Entries

LEMMA ForgetFits ==
  ASSUME NEW g \in Entries
  PROVE  /\ Forget(g) \in Entries
         /\ Forget(g).run = g.run /\ Forget(g).pending = None
         /\ Forget(g).retry = "unset"
<1> DEFINE h == [g EXCEPT !.generation = 0, !.pending = None, !.latest = None]
<1>1. h \in Entries /\ h.run = g.run /\ h.pending = None
  BY ZeroFits DEF Entries
<1> HIDE DEF h
<1>2. Forget(g) = ClearRetry(h)
  BY DEF Forget, h
<1> QED BY <1>1, <1>2, ClearRetryFits

LEMMA JoinFits ==
  ASSUME NEW g \in Entries, NEW o \in Objs
  PROVE  /\ Join(g, o) \in Entries
         /\ Join(g, o).run = g.run /\ Join(g, o).retry = g.retry
<1> DEFINE next == IF g.pending = None THEN o
                   ELSE IF o.gen >= g.pending.gen THEN o ELSE g.pending
<1>1. next \in Objs \cup {None}
  BY DEF Entries
<1> HIDE DEF next
<1>2. Join(g, o) = [g EXCEPT !.generation = o.gen, !.pending = next]
  BY DEF Join, next
<1> QED BY <1>1, <1>2, GenFits DEF Entries

LEMMA DrainIsNotNone == ASSUME NEW d \in Drains PROVE d # None
  BY NoneAssumption

LEMMA StartFits ==
  ASSUME NEW g \in Entries, NEW o \in Objs, NEW r \in Runs
  PROVE  /\ Start(g, r, o) \in Entries
         /\ Start(g, r, o).run = r /\ Start(g, r, o).retry = g.retry
         /\ Start(g, r, o).pending = g.pending
  BY GenFits DEF Start, Entries

LEMMA ForgetFailedFits ==
  ASSUME NEW g \in Entries, NEW gen, NEW result
  PROVE  /\ ForgetFailed(g, gen, result) \in Entries
         /\ ForgetFailed(g, gen, result).run = g.run
         /\ ForgetFailed(g, gen, result).pending = g.pending
         /\ ForgetFailed(g, gen, result).latest = g.latest
         /\ ForgetFailed(g, gen, result).retry = g.retry
  BY ZeroFits DEF ForgetFailed, Entries

LEMMA RetryLaterFits ==
  ASSUME NEW g \in Entries, g.run = None, g.pending = None, g.retry = "unset"
  PROVE  /\ RetryLater(g) \in Entries
         /\ RetryLater(g).run = None
         /\ Sound(RetryLater(g), closed)
<1>1. CASE closed \/ g.latest = None
  <2>1. RetryLater(g) = g
    BY <1>1 DEF RetryLater
  <2> QED BY <2>1 DEF Sound
<1>2. CASE ~(closed \/ g.latest = None)
  <2> DEFINE delay == IF g.delay = 0 THEN RetryStart ELSE g.delay
             next == IF 2 * delay < RetryMax THEN 2 * delay ELSE RetryMax
  <2>1. next \in 0..RetryMax
    BY RetryAssumption DEF Entries
  <2>2. RetryLater(g) = [g EXCEPT !.retry = "set", !.delay = next]
    BY <1>2 DEF RetryLater
  <2> HIDE DEF next
  <2>3. RetryLater(g) \in Entries
    BY <2>1, <2>2 DEF Entries, Timers
  <2>4. /\ RetryLater(g).run = g.run /\ RetryLater(g).pending = g.pending
        /\ RetryLater(g).latest = g.latest
    BY <2>2 DEF Entries
  <2> QED BY <1>2, <2>3, <2>4 DEF Sound
<1> QED BY <1>1, <1>2

LEMMA RestFits ==
  ASSUME NEW g \in Entries, NEW r \in Runs, g.run = r, g.pending = None, g.retry = "unset",
         NEW result
  PROVE  /\ Rest(g, r, result) \in Entries
         /\ Rest(g, r, result).run = None
         /\ Sound(Rest(g, r, result), closed)
<1> DEFINE h == [g EXCEPT !.run = None]
<1>1. /\ h \in Entries /\ h.run = None /\ h.pending = None /\ h.retry = g.retry
  BY DEF Entries, Timers
<1>2. CASE result = "waiting"
  <2>1. Rest(g, r, result) = RetryLater(h)
    BY <1>2 DEF Rest
  <2> HIDE DEF h
  <2> QED BY <1>1, <2>1, RetryLaterFits
<1>3. CASE result = "ok"
  <2>1. Rest(g, r, result) = ClearRetry(h)
    BY <1>3 DEF Rest
  <2> HIDE DEF h
  <2> QED BY <1>1, <2>1, ClearRetryFits DEF Sound
<1>4. CASE result # "waiting" /\ result # "ok"
  <2>1. Rest(g, r, result) = h
    BY <1>4 DEF Rest
  <2> HIDE DEF h
  <2> QED BY <1>1, <2>1 DEF Sound
<1> QED BY <1>2, <1>3, <1>4

(***************************************************************************)
(* The three ways the gate and its runs change together.                   *)
(***************************************************************************)

(* An entry changes and its run, if any, goes on.                          *)
LEMMA EntryStep ==
  ASSUME Gated, NEW k \in Keys, NEW e \in Entries, e.run = gate[k].run,
         Sound(e, closed), gate' = [gate EXCEPT ![k] = e],
         UNCHANGED <<drains, closed>>
  PROVE  Gated'
<1>1. GateTypeOK' /\ DrainsTypeOK'
  BY DEF Gated, GateTypeOK, DrainsTypeOK
<1>2. \A j \in Keys : gate'[j].run = gate[j].run
  BY DEF Gated, GateTypeOK
<1>3. OneRun'
  BY <1>2 DEF Gated, OneRun, DrainsTypeOK, Drains
<1>4. Safe'
  BY DEF Gated, GateTypeOK, Safe
<1> QED BY <1>1, <1>3, <1>4 DEF Gated

(* Run r starts for an idle key.                                           *)
LEMMA StartStep ==
  ASSUME Gated, NEW k \in Keys, NEW e \in Entries, NEW r \in Runs, NEW d \in Drains,
         gate[k].run = None, drains[r] = None, d.key = k,
         e.run = r, Sound(e, closed),
         gate' = [gate EXCEPT ![k] = e], drains' = [drains EXCEPT ![r] = d],
         UNCHANGED closed
  PROVE  Gated'
<1>1. GateTypeOK' /\ DrainsTypeOK'
  BY DEF Gated, GateTypeOK, DrainsTypeOK
<1>2. /\ \A j \in Keys : gate'[j].run = IF j = k THEN r ELSE gate[j].run
      /\ \A q \in Runs : drains'[q] = IF q = r THEN d ELSE drains[q]
  BY DEF Gated, GateTypeOK, DrainsTypeOK
<1>3. \A j \in Keys : gate[j].run \in Runs \cup {None}
  BY DEF Gated, GateTypeOK, Entries
<1>4. d # None /\ r # None
  <2>1. r # None
    BY NoneAssumption
  <2>2. \A q \in Runs : drains[q] # None => drains[q] \in Drains
    BY DEF Gated, DrainsTypeOK
  <2> QED BY <2>1, DrainIsNotNone
<1>5. OneRun'
  <2>1. ASSUME NEW q \in Runs, drains'[q] # None PROVE gate'[drains'[q].key].run = q
    <3>1. CASE q = r
      BY <3>1, <1>2
    <3>2. CASE q # r
      <4>1. drains'[q] = drains[q] /\ drains[q] # None
        BY <3>2, <1>2, <2>1
      <4>2. drains[q].key \in Keys /\ gate[drains[q].key].run = q
        BY <4>1 DEF Gated, OneRun, DrainsTypeOK, Drains
      <4>3. drains[q].key # k
        BY <4>2, NoneAssumption
      <4> QED BY <4>1, <4>2, <4>3, <1>2
    <3> QED BY <3>1, <3>2
  <2>2. ASSUME NEW j \in Keys, gate'[j].run # None
        PROVE  drains'[gate'[j].run] # None /\ drains'[gate'[j].run].key = j
    <3>1. CASE j = k
      BY <3>1, <1>2, <1>4
    <3>2. CASE j # k
      <4>1. gate'[j].run = gate[j].run /\ gate[j].run \in Runs
        BY <3>2, <1>2, <1>3, <2>2
      <4>2. drains[gate[j].run] # None /\ drains[gate[j].run].key = j
        BY <4>1, <2>2 DEF Gated, OneRun
      <4> QED BY <4>1, <4>2, <1>2
    <3> QED BY <3>1, <3>2
  <2> QED BY <2>1, <2>2 DEF OneRun
<1>6. Safe'
  BY DEF Gated, GateTypeOK, Safe
<1> QED BY <1>1, <1>5, <1>6 DEF Gated

(* A run goes on with another object or step.                              *)
LEMMA ContinueStep ==
  ASSUME Gated, NEW k \in Keys, NEW e \in Entries, NEW r \in Runs, NEW d \in Drains,
         drains[r] # None, drains[r].key = k, d.key = k,
         e.run = gate[k].run, Sound(e, closed),
         gate' = [gate EXCEPT ![k] = e], drains' = [drains EXCEPT ![r] = d],
         UNCHANGED closed
  PROVE  Gated'
<1>1. GateTypeOK' /\ DrainsTypeOK'
  BY DEF Gated, GateTypeOK, DrainsTypeOK
<1>2. /\ \A j \in Keys : gate'[j].run = gate[j].run
      /\ \A q \in Runs : drains'[q] = IF q = r THEN d ELSE drains[q]
  BY DEF Gated, GateTypeOK, DrainsTypeOK
<1>3. \A j \in Keys : gate[j].run \in Runs \cup {None}
  BY DEF Gated, GateTypeOK, Entries
<1>4. d # None
  BY DrainIsNotNone
<1>5. \A q \in Runs : /\ (drains'[q] # None <=> drains[q] # None)
                      /\ drains[q] # None => drains'[q].key = drains[q].key
  BY <1>2, <1>4
<1>6. \A q \in Runs : drains[q] # None => drains[q].key \in Keys
  BY DEF Gated, DrainsTypeOK, Drains
<1>7. OneRun'
  BY <1>2, <1>3, <1>5, <1>6 DEF Gated, OneRun
<1>8. Safe'
  BY DEF Gated, GateTypeOK, Safe
<1> QED BY <1>1, <1>7, <1>8 DEF Gated

(* The run of a key ends.                                                  *)
LEMMA EndStep ==
  ASSUME Gated, NEW k \in Keys, NEW e \in Entries, NEW r \in Runs,
         gate[k].run = r, e.run = None, Sound(e, closed),
         gate' = [gate EXCEPT ![k] = e], drains' = [drains EXCEPT ![r] = None],
         UNCHANGED closed
  PROVE  Gated'
<1>1. GateTypeOK' /\ DrainsTypeOK'
  BY DEF Gated, GateTypeOK, DrainsTypeOK
<1>2. /\ \A j \in Keys : gate'[j].run = IF j = k THEN None ELSE gate[j].run
      /\ \A q \in Runs : drains'[q] = IF q = r THEN None ELSE drains[q]
  BY DEF Gated, GateTypeOK, DrainsTypeOK
<1>3. \A j \in Keys : gate[j].run \in Runs \cup {None}
  BY DEF Gated, GateTypeOK, Entries
<1>4. \A q \in Runs : drains[q] # None => drains[q].key \in Keys
  BY DEF Gated, DrainsTypeOK, Drains
<1>5. OneRun'
  <2>1. ASSUME NEW q \in Runs, drains'[q] # None PROVE gate'[drains'[q].key].run = q
    <3>1. q # r /\ drains'[q] = drains[q]
      BY <2>1, <1>2
    <3>2. drains[q].key \in Keys /\ gate[drains[q].key].run = q
      BY <2>1, <3>1, <1>4 DEF Gated, OneRun
    <3>3. drains[q].key # k
      BY <3>1, <3>2
    <3> QED BY <3>1, <3>2, <3>3, <1>2
  <2>2. ASSUME NEW j \in Keys, gate'[j].run # None
        PROVE  drains'[gate'[j].run] # None /\ drains'[gate'[j].run].key = j
    <3>1. j # k /\ gate'[j].run = gate[j].run /\ gate[j].run \in Runs
      BY <2>2, <1>2, <1>3
    <3>2. drains[gate[j].run] # None /\ drains[gate[j].run].key = j
      BY <2>2, <3>1 DEF Gated, OneRun
    <3>3. gate[j].run # r
      <4>1. drains[r].key = k
        BY NoneAssumption DEF Gated, OneRun
      <4> QED BY <3>1, <3>2, <4>1
    <3> QED BY <3>1, <3>2, <3>3, <1>2
  <2> QED BY <2>1, <2>2 DEF OneRun
<1>6. Safe'
  BY DEF Gated, GateTypeOK, Safe
<1> QED BY <1>1, <1>5, <1>6 DEF Gated

(***************************************************************************)
(* #schedule and the end of a reconcile.                                   *)
(***************************************************************************)
NewDrain(k, o) ==
  [key |-> k, obj |-> o, step |-> "check", part |-> 0, cond |-> "none"]

LEMMA NewDrainFits ==
  ASSUME NEW k \in Keys, NEW o \in Objs
  PROVE  NewDrain(k, o) \in Drains /\ NewDrain(k, o).key = k
<1>1. 0 \in 0..Parts
  BY BoundsAssumption
<1> QED BY <1>1 DEF NewDrain, Drains

LEMMA ScheduleStep ==
  ASSUME Gated, NEW k \in Keys, NEW g \in Entries, NEW o \in Objs,
         NEW isRetry \in BOOLEAN, isRetry => g.retry = "unset",
         g.run = gate[k].run, Sound(g, closed),
         Schedule(k, g, o, isRetry), UNCHANGED closed
  PROVE  Gated'
<1> DEFINE h == IF isRetry THEN g ELSE ClearRetry(g)
<1>1. h \in Entries /\ h.run = g.run /\ h.pending = g.pending /\ h.retry = "unset"
  BY ClearRetryFits
<1>2. CASE Stale(g, o) /\ gate' = [gate EXCEPT ![k] = g] /\ UNCHANGED drains
  BY <1>2, EntryStep
<1>3. CASE g.run # None /\ gate' = [gate EXCEPT ![k] = Join(h, o)] /\ UNCHANGED drains
  <2> HIDE DEF h
  <2>1. Join(h, o) \in Entries /\ Join(h, o).run = g.run /\ Sound(Join(h, o), closed)
    BY <1>1, <1>3, JoinFits DEF Sound
  <2> QED BY <2>1, <1>3, EntryStep
<1>4. ASSUME g.run = None, NEW r \in Runs, drains[r] = None,
             gate' = [gate EXCEPT ![k] = Start(h, r, o)],
             drains' = [drains EXCEPT ![r] = NewDrain(k, o)]
      PROVE  Gated'
  <2> HIDE DEF h
  <2>1. /\ Start(h, r, o) \in Entries /\ Start(h, r, o).run = r
        /\ Sound(Start(h, r, o), closed)
    BY <1>1, <1>4, StartFits DEF Sound
  <2> QED BY <2>1, <1>4, NewDrainFits, StartStep
<1> QED BY <1>2, <1>3, <1>4 DEF Schedule, NewDrain

LEMMA FinishStep ==
  ASSUME Gated, NEW r \in Runs, drains[r] # None, NEW result,
         Finish(r, result), UNCHANGED closed
  PROVE  Gated'
<1> DEFINE d == drains[r]
           k == d.key
           g == ForgetFailed(gate[k], d.obj.gen, result)
<1>1. d \in Drains /\ k \in Keys /\ gate[k].run = r
  BY DEF Gated, DrainsTypeOK, Drains, OneRun
<1>2. gate[k] \in Entries /\ Sound(gate[k], closed)
  BY <1>1 DEF Gated, GateTypeOK, Safe
<1>3. r # None
  BY NoneAssumption
<1>4. gate[k].retry = "unset"
  BY <1>1, <1>2, <1>3 DEF Sound, Entries, Timers
<1>5. g \in Entries /\ g.run = r /\ g.retry = "unset"
  BY <1>1, <1>2, <1>4, ForgetFailedFits
<1>6. CASE /\ g.pending # None
           /\ gate' = [gate EXCEPT ![k] = [g EXCEPT !.pending = None]]
           /\ drains' = [drains EXCEPT ![r] = NewDrain(k, g.pending)]
  <2> HIDE DEF g, k, d
  <2> DEFINE e == [g EXCEPT !.pending = None]
  <2>1. e \in Entries /\ e.run = r /\ e.retry = "unset" /\ e.pending = None
    BY <1>5 DEF Entries
  <2>2. g.pending \in Objs
    BY <1>5, <1>6 DEF Entries
  <2>3. NewDrain(k, g.pending) \in Drains /\ NewDrain(k, g.pending).key = k
    BY <1>1, <2>2, NewDrainFits
  <2>4. drains[r].key = k
    BY DEF k, d
  <2>5. Sound(e, closed)
    BY <2>1 DEF Sound
  <2>6. gate' = [gate EXCEPT ![k] = e]
    BY <1>6
  <2>7. e.run = gate[k].run
    BY <1>1, <2>1
  <2> HIDE DEF e
  <2> DEFINE n == NewDrain(k, g.pending)
  <2>8. n \in Drains /\ n.key = k /\ drains' = [drains EXCEPT ![r] = n]
    BY <1>6, <2>3
  <2> HIDE DEF n
  <2>9. k \in Keys /\ e \in Entries
    BY <1>1, <2>1
  <2> QED BY <2>4, <2>5, <2>6, <2>7, <2>8, <2>9, ContinueStep
<1>7. CASE /\ g.pending = None
           /\ gate' = [gate EXCEPT ![k] = Rest(g, r, result)]
           /\ drains' = [drains EXCEPT ![r] = None]
  <2> HIDE DEF g, k, d
  <2>1. /\ Rest(g, r, result) \in Entries /\ Rest(g, r, result).run = None
        /\ Sound(Rest(g, r, result), closed)
    BY <1>5, <1>7, RestFits
  <2> QED BY <1>1, <1>7, <2>1, EndStep
<1> QED BY <1>6, <1>7 DEF Finish, NewDrain

(***************************************************************************)
(* What the API server keeps and sends.                                    *)
(***************************************************************************)
LEMMA ObjectFits == ASSUME NEW s \in Indexers PROVE Object(s) \in Objs
  BY DEF Object, Objs, Indexers

LEMMA VerdictFits == \A o : Verdict(o) \in Conds
  BY DEF Verdict, Conds

LEMMA NotifiedFits ==
  ASSUME WatchTypeOK, NEW k \in Keys, NEW s \in Indexers,
         NEW phase \in {"ADDED", "MODIFIED", "DELETED"},
         watch' = Notified(k, phase, s)
  PROVE  WatchTypeOK'
<1> DEFINE q == watch[k]
           kept == IF phase = "MODIFIED" /\ Len(q) > 0 /\ q[Len(q)].phase = "ADDED"
                   THEN "ADDED" ELSE phase
           e == [phase |-> phase, obj |-> Object(s)]
           f == [phase |-> kept, obj |-> Object(s)]
           t == IF Len(q) < MaxQueue THEN Append(q, e) ELSE [q EXCEPT ![Len(q)] = f]
<1>1. q \in Seq(Events) /\ Len(q) <= MaxQueue /\ Len(q) \in Nat
  BY DEF WatchTypeOK
<1>2. e \in Events /\ f \in Events
  BY ObjectFits DEF Events
<1>3. watch' = [watch EXCEPT ![k] = t]
  BY DEF Notified
<1> HIDE DEF e, f, q
<1>4. t \in Seq(Events) /\ Len(t) <= MaxQueue
  <2>1. CASE Len(q) < MaxQueue
    BY <2>1, <1>1, <1>2, BoundsAssumption
  <2>2. CASE ~(Len(q) < MaxQueue)
    <3>1. Len(q) = MaxQueue /\ Len(q) \in 1..Len(q)
      BY <2>2, <1>1, BoundsAssumption
    <3> QED BY <2>2, <3>1, <1>1, <1>2
  <2> QED BY <2>1, <2>2
<1> HIDE DEF t
<1> QED BY <1>3, <1>4 DEF WatchTypeOK

(***************************************************************************)
(* The induction.                                                          *)
(***************************************************************************)
LEMMA InitIInv == Init => IInv
<1> SUFFICES ASSUME Init PROVE IInv
  OBVIOUS
<1>1. Env
  <2>1. NoStat \in Stats /\ (MaxGen > 0 => 1 \in Gens)
    BY BoundsAssumption DEF NoStat, Stats, Gens
  <2>2. server \in [Keys -> Indexers]
    BY <2>1, BoundsAssumption DEF Init, Indexers
  <2>3. secret \in BOOLEAN
    BY SecretAssumption DEF Init
  <2>4. applied \in [Names -> [1..Parts -> Stamps \cup {None}]]
    BY DEF Init
  <2>5. WatchTypeOK
    BY BoundsAssumption DEF Init, WatchTypeOK
  <2> QED BY <2>2, <2>3, <2>4, <2>5 DEF Env, ServerTypeOK
<1>2. Queues
  BY NoneYet DEF Init, Queues
<1>3. Gated
  <2>1. GateTypeOK
    BY NoEntryFits DEF Init, GateTypeOK
  <2>2. DrainsTypeOK
    BY DEF Init, DrainsTypeOK
  <2>3. \A k \in Keys : gate[k].run = None
    BY DEF Init, NoEntry
  <2>4. OneRun
    BY <2>3 DEF Init, OneRun
  <2>5. Safe
    BY NoEntryFits DEF Init, Safe
  <2> QED BY <2>1, <2>2, <2>4, <2>5 DEF Gated
<1> QED BY <1>1, <1>2, <1>3 DEF IInv

LEMMA GatedStutter == ASSUME Gated, UNCHANGED gateVars PROVE Gated'
  BY DEF Gated, GateTypeOK, DrainsTypeOK, OneRun, Safe, gateVars

LEMMA DisruptFits ==
  ASSUME disruptions \in Counts, NEW kind \in DisruptionKinds, Disrupt(kind)
  PROVE  disruptions' \in Counts
<1>1. /\ disruptions \in [DisruptionKinds -> Nat]
      /\ \A i \in DisruptionKinds : disruptions[i] <= Disruptions[i]
      /\ \A i \in DisruptionKinds : Disruptions[i] \in Nat
  BY BoundsAssumption DEF Counts
<1>2. /\ disruptions[kind] < Disruptions[kind]
      /\ disruptions' = [disruptions EXCEPT ![kind] = @ + 1]
  BY DEF Disrupt
<1>3. disruptions' \in [DisruptionKinds -> Nat]
  BY <1>1, <1>2
<1>4. \A i \in DisruptionKinds : disruptions'[i] <= Disruptions[i]
  BY <1>1, <1>2
<1> QED BY <1>3, <1>4 DEF Counts

LEMMA KindNames ==
  "fail" \in DisruptionKinds /\ "restart" \in DisruptionKinds /\ "unset" \in DisruptionKinds
  BY DEF DisruptionKinds

LEMMA DeliverStep == ASSUME IInv, NEW k \in Keys, Deliver(k) PROVE IInv'
<1> USE DEF IInv
<1> DEFINE e == Head(watch[k])
           g == Remember(gate[k], e.obj)
<1>1. e \in Events /\ e.obj \in Objs /\ Tail(watch[k]) \in Seq(Events)
      /\ Len(Tail(watch[k])) <= MaxQueue
  <2>1. watch[k] \in Seq(Events) /\ watch[k] # <<>> /\ Len(watch[k]) <= MaxQueue
    BY DEF Deliver, Env, WatchTypeOK
  <2>2. e \in Events /\ Tail(watch[k]) \in Seq(Events)
        /\ Len(Tail(watch[k])) = Len(watch[k]) - 1 /\ Len(watch[k]) \in Nat
    BY <2>1
  <2> QED BY <2>1, <2>2, BoundsAssumption DEF Events
<1>2. gate[k] \in Entries /\ Sound(gate[k], closed)
  BY DEF Gated, GateTypeOK, Safe
<1>3. /\ g \in Entries /\ g.run = gate[k].run /\ g.pending = gate[k].pending
      /\ g.latest # None /\ g.retry = gate[k].retry
  BY <1>1, <1>2, RememberFits
<1>4. Sound(g, closed)
  BY <1>2, <1>3 DEF Sound
<1>5. Env' /\ Queues'
  BY <1>1 DEF Deliver, Env, ServerTypeOK, WatchTypeOK, Queues
<1>6. UNCHANGED closed
  BY DEF Deliver
<1>7. CASE gate' = [gate EXCEPT ![k] = Forget(gate[k])] /\ UNCHANGED drains
  <2>1. /\ Forget(gate[k]) \in Entries /\ Forget(gate[k]).run = gate[k].run
        /\ Sound(Forget(gate[k]), closed)
    BY <1>2, ForgetFits DEF Sound
  <2>2. Gated'
    BY <1>6, <1>7, <2>1, EntryStep
  <2> QED BY <2>2, <1>5
<1>8. CASE gate' = [gate EXCEPT ![k] = g] /\ UNCHANGED drains
  <2>1. Gated'
    BY <1>3, <1>4, <1>6, <1>8, EntryStep
  <2> QED BY <2>1, <1>5
<1>9. CASE Schedule(k, g, e.obj, FALSE)
  <2>1. Gated'
    BY <1>1, <1>3, <1>4, <1>6, <1>9, ScheduleStep
  <2> QED BY <2>1, <1>5
<1> QED
  <2>1. \/ gate' = [gate EXCEPT ![k] = Forget(gate[k])] /\ UNCHANGED drains
        \/ gate' = [gate EXCEPT ![k] = g] /\ UNCHANGED drains
        \/ Schedule(k, g, e.obj, FALSE)
    BY DEF Deliver
  <2> QED BY <2>1, <1>7, <1>8, <1>9

LEMMA ResyncStep == ASSUME IInv, NEW l \in Loops, Resync(l) PROVE IInv'
<1> USE DEF IInv
<1>1. PICK i \in loops[l].todo :
        /\ Schedule(i.key, Remember(gate[i.key], i.obj), i.obj, FALSE)
        /\ loops' = [loops EXCEPT ![l] = [todo |-> loops[l].todo \ {i}, wait |-> gate'[i.key].run]]
  BY DEF Resync
<1>2. i.key \in Keys /\ i.obj \in Objs /\ loops[l].todo \ {i} \in SUBSET Listed
  BY DEF Queues, Listed
<1> DEFINE g == Remember(gate[i.key], i.obj)
<1>3. gate[i.key] \in Entries /\ Sound(gate[i.key], closed)
  BY <1>2 DEF Gated, GateTypeOK, Safe
<1>4. /\ g \in Entries /\ g.run = gate[i.key].run /\ g.pending = gate[i.key].pending
      /\ g.latest # None /\ g.retry = gate[i.key].retry
  BY <1>2, <1>3, RememberFits
<1>5. Sound(g, closed) /\ UNCHANGED closed
  BY <1>3, <1>4 DEF Sound, Resync
<1>6. Gated'
  BY <1>1, <1>2, <1>4, <1>5, ScheduleStep
<1>7. gate'[i.key].run \in Runs \cup {None}
  BY <1>2, <1>6 DEF Gated, GateTypeOK, Entries
<1>8. Queues'
  BY <1>1, <1>2, <1>7 DEF Queues, Resync
<1>9. Env'
  BY DEF Env, ServerTypeOK, WatchTypeOK, Resync, serverVars
<1> QED BY <1>6, <1>8, <1>9

LEMMA RetryFiresStep == ASSUME IInv, NEW k \in Keys, RetryFires(k) PROVE IInv'
<1> USE DEF IInv
<1> DEFINE g == [gate[k] EXCEPT !.retry = "unset"]
<1>1. gate[k] \in Entries /\ Sound(gate[k], closed) /\ gate[k].retry = "set"
  BY DEF Gated, GateTypeOK, Safe, RetryFires
<1>2. /\ g \in Entries /\ g.run = gate[k].run /\ g.pending = gate[k].pending
      /\ g.latest = gate[k].latest /\ g.retry = "unset"
  BY <1>1 DEF Entries, Timers
<1>3. gate[k].latest \in Objs
  BY <1>1 DEF Sound, Entries
<1>4. Schedule(k, g, g.latest, TRUE)
  BY <1>1, <1>2 DEF RetryFires, Sound
<1> HIDE DEF g
<1>5. Sound(g, closed) /\ UNCHANGED closed
  BY <1>1, <1>2 DEF Sound, RetryFires
<1>6. Gated'
  BY <1>2, <1>3, <1>4, <1>5, ScheduleStep
<1>7. Env' /\ Queues'
  BY DEF Env, ServerTypeOK, WatchTypeOK, Queues, RetryFires, serverVars
<1> QED BY <1>6, <1>7

(* The API server's own steps touch no entry and no run.                   *)
LEMMA ServerStep ==
  ASSUME IInv, UNCHANGED <<gate, closed, drains, loops>>,
         disruptions' \in Counts, Env'
  PROVE  IInv'
<1>1. Gated'
  BY GatedStutter DEF IInv, gateVars
<1>2. Queues'
  BY DEF IInv, Queues
<1> QED BY <1>1, <1>2 DEF IInv

LEMMA CreateStep == ASSUME IInv, NEW k \in Keys, Create(k) PROVE IInv'
<1>1. server' = [server EXCEPT ![k].state = "live"] /\ server' \in [Keys -> Indexers]
  BY DEF Create, IInv, Env, ServerTypeOK, Indexers
<1>2. WatchTypeOK'
  BY <1>1, NotifiedFits DEF Create, IInv, Env
<1>3. Env'
  BY <1>1, <1>2 DEF Create, IInv, Env, ServerTypeOK
<1> QED BY <1>3, ServerStep DEF Create, gateVars, IInv, Queues

LEMMA ChangeSpecStep == ASSUME IInv, NEW k \in Keys, ChangeSpec(k) PROVE IInv'
<1>1. server' \in [Keys -> Indexers]
  <2>1. server[k].gen + 1 \in Gens
    BY BoundsAssumption DEF ChangeSpec, IInv, Env, ServerTypeOK, Indexers, Gens
  <2> QED BY <2>1 DEF ChangeSpec, IInv, Env, ServerTypeOK, Indexers
<1>2. WatchTypeOK'
  BY <1>1, NotifiedFits DEF ChangeSpec, IInv, Env
<1>3. Env'
  BY <1>1, <1>2 DEF ChangeSpec, IInv, Env, ServerTypeOK
<1> QED BY <1>3, ServerStep DEF ChangeSpec, gateVars, IInv, Queues

LEMMA DeleteStep == ASSUME IInv, NEW k \in Keys, Delete(k) PROVE IInv'
<1>1. server' \in [Keys -> Indexers] /\ server[k] \in Indexers
  BY DEF Delete, IInv, Env, ServerTypeOK, Indexers
<1>2. WatchTypeOK'
  BY <1>1, NotifiedFits DEF Delete, IInv, Env
<1>3. Env'
  BY <1>1, <1>2 DEF Delete, IInv, Env, ServerTypeOK
<1> QED BY <1>3, ServerStep DEF Delete, gateVars, IInv, Queues

LEMMA WorkerStatusStep == ASSUME IInv, NEW k \in Keys, WorkerStatus(k) PROVE IInv'
<1>1. server[k] \in Indexers
  BY DEF IInv, Env, ServerTypeOK
<1>2. WatchTypeOK'
  BY <1>1, NotifiedFits DEF WorkerStatus, IInv, Env
<1>3. Env'
  BY <1>2 DEF WorkerStatus, IInv, Env, ServerTypeOK
<1> QED BY <1>3, ServerStep DEF WorkerStatus, gateVars, IInv, Queues

LEMMA ClusterStep ==
  ASSUME IInv, \/ \E n \in Names, p \in 1..Parts : CollectGarbage(n, p)
               \/ CreateSecret \/ RemoveSecret
  PROVE  IInv'
<1>1. CASE \E n \in Names, p \in 1..Parts : CollectGarbage(n, p)
  <2>1. Env'
    BY <1>1 DEF CollectGarbage, IInv, Env, ServerTypeOK, WatchTypeOK
  <2> QED BY <1>1, <2>1, ServerStep DEF CollectGarbage, gateVars, IInv, Queues
<1>2. CASE CreateSecret \/ RemoveSecret
  <2>1. secret' \in BOOLEAN
    BY <1>2 DEF CreateSecret, RemoveSecret
  <2>2. Env'
    BY <1>2, <2>1 DEF CreateSecret, RemoveSecret, IInv, Env, ServerTypeOK, WatchTypeOK
  <2>3. disruptions' \in Counts
    BY <1>2, DisruptFits, KindNames DEF CreateSecret, RemoveSecret, IInv, Queues
  <2> QED BY <1>2, <2>2, <2>3, ServerStep DEF CreateSecret, RemoveSecret, gateVars
<1> QED BY <1>1, <1>2

LEMMA ListStep == ASSUME IInv, NEW l \in Loops, List(l) PROVE IInv'
<1>1. \A k \in Keys : [key |-> k, obj |-> Object(server[k])] \in Listed
  BY ObjectFits DEF IInv, Env, ServerTypeOK, Listed
<1>2. Queues'
  BY <1>1 DEF List, IInv, Queues
<1>3. Env'
  BY DEF List, IInv, Env, ServerTypeOK, WatchTypeOK, serverVars
<1>4. Gated'
  BY DEF List, IInv, Gated, GateTypeOK, DrainsTypeOK, OneRun, Safe
<1> QED BY <1>2, <1>3, <1>4 DEF IInv

(* A step of run r that leaves the gate alone.                             *)
LEMMA StepStep ==
  ASSUME Gated, NEW r \in Runs, drains[r] # None, NEW d \in Drains,
         d.key = drains[r].key,
         drains' = [drains EXCEPT ![r] = d], UNCHANGED <<gate, closed>>
  PROVE  Gated'
<1> DEFINE k == drains[r].key
<1>1. k \in Keys
  BY DEF Gated, DrainsTypeOK, Drains
<1>2. gate[k] \in Entries /\ Sound(gate[k], closed)
  BY <1>1 DEF Gated, GateTypeOK, Safe
<1>3. gate' = [gate EXCEPT ![k] = gate[k]]
  BY <1>1 DEF Gated, GateTypeOK
<1> HIDE DEF k
<1>4. drains[r].key = k
  BY DEF k
<1> QED BY <1>1, <1>2, <1>3, <1>4, ContinueStep

LEMMA CheckStep == ASSUME IInv, NEW r \in Runs, Check(r) PROVE IInv'
<1> DEFINE c == Verdict(drains[r].obj)
           d == [drains[r] EXCEPT !.cond = c, !.step = IF c = "ok" THEN "apply" ELSE "patch"]
<1>1. drains[r] \in Drains /\ drains[r] # None
  BY DEF Check, IInv, Gated, DrainsTypeOK
<1>2. c \in Conds
  BY VerdictFits
<1>3. drains' = [drains EXCEPT ![r] = d]
  BY <1>1 DEF Check, IInv, Gated, DrainsTypeOK
<1> HIDE DEF c
<1>4. d \in Drains /\ d.key = drains[r].key
  BY <1>1, <1>2 DEF Drains
<1> HIDE DEF d
<1>5. Gated'
  BY <1>1, <1>3, <1>4, StepStep DEF IInv, Check
<1>6. Env' /\ Queues'
  BY DEF Check, IInv, Env, ServerTypeOK, WatchTypeOK, Queues, serverVars
<1> QED BY <1>5, <1>6 DEF IInv

LEMMA ApplyStep == ASSUME IInv, NEW r \in Runs, Apply(r) PROVE IInv'
<1>1. drains[r] \in Drains /\ drains[r] # None
  BY DEF Apply, IInv, Gated, DrainsTypeOK
<1> DEFINE d == drains[r]
<1>2. CASE /\ d.part < Parts
           /\ applied' = [applied EXCEPT ![NameOf[d.key]][d.part + 1] =
                            [key |-> d.key, gen |-> d.obj.gen]]
           /\ drains' = [drains EXCEPT ![r].part = d.part + 1]
  <2> DEFINE e == [d EXCEPT !.part = d.part + 1]
  <2>1. d.part + 1 \in 0..Parts /\ d.part + 1 \in 1..Parts
    BY <1>1, <1>2, BoundsAssumption DEF Drains
  <2>2. e \in Drains /\ e.key = d.key /\ drains' = [drains EXCEPT ![r] = e]
    BY <1>1, <1>2, <2>1 DEF Drains, IInv, Gated, DrainsTypeOK
  <2>3. [key |-> d.key, gen |-> d.obj.gen] \in Stamps
    BY <1>1 DEF Drains, Stamps, Objs
  <2>4. Env'
    BY <1>2, <2>1, <2>3 DEF Apply, IInv, Env, ServerTypeOK, WatchTypeOK
  <2> HIDE DEF e
  <2>5. Gated'
    BY <1>1, <2>2, StepStep DEF IInv, Apply
  <2>6. Queues'
    BY DEF Apply, IInv, Queues
  <2> QED BY <2>4, <2>5, <2>6 DEF IInv
<1>3. CASE drains' = [drains EXCEPT ![r].step = "patch"] /\ UNCHANGED applied
  <2> DEFINE e == [d EXCEPT !.step = "patch"]
  <2>1. e \in Drains /\ e.key = d.key /\ drains' = [drains EXCEPT ![r] = e]
    BY <1>1, <1>3 DEF Drains, IInv, Gated, DrainsTypeOK
  <2> HIDE DEF e
  <2>2. Gated'
    BY <1>1, <2>1, StepStep DEF IInv, Apply
  <2>3. Env' /\ Queues'
    BY <1>3 DEF Apply, IInv, Env, ServerTypeOK, WatchTypeOK, Queues
  <2> QED BY <2>2, <2>3 DEF IInv
<1> QED BY <1>2, <1>3 DEF Apply

LEMMA FinishQueues ==
  ASSUME Queues, NEW r \in Runs, NEW result, Finish(r, result),
         disruptions' \in Counts
  PROVE  Queues'
<1>1. CASE UNCHANGED loops
  BY <1>1 DEF Queues
<1>2. CASE loops' = [l \in Loops |-> IF loops[l].wait = r
                                     THEN [loops[l] EXCEPT !.wait = None] ELSE loops[l]]
  <2>1. \A l \in Loops :
          /\ loops[l] \in [todo : SUBSET Listed, wait : Runs \cup {None}]
          /\ [loops[l] EXCEPT !.wait = None] \in [todo : SUBSET Listed, wait : Runs \cup {None}]
    BY DEF Queues
  <2> QED BY <1>2, <2>1 DEF Queues
<1> QED BY <1>1, <1>2 DEF Finish

LEMMA SkipPatchStep == ASSUME IInv, NEW r \in Runs, SkipPatch(r) PROVE IInv'
<1>1. Gated'
  BY FinishStep DEF SkipPatch, IInv
<1>2. Queues'
  BY FinishQueues DEF SkipPatch, IInv, Queues
<1>3. Env'
  BY DEF SkipPatch, IInv, Env, ServerTypeOK, WatchTypeOK, serverVars
<1> QED BY <1>1, <1>2, <1>3 DEF IInv

LEMMA PatchStep == ASSUME IInv, NEW r \in Runs, Patch(r) PROVE IInv'
<1> DEFINE d == drains[r]
           targets == {k \in Keys : NameOf[k] = NameOf[d.key] /\ Live(k)}
<1>1. PICK result : Finish(r, result)
  BY DEF Patch
<1>2. Gated'
  BY <1>1, FinishStep DEF Patch, IInv
<1>3. Queues'
  BY <1>1, FinishQueues DEF Patch, IInv, Queues
<1>4. UNCHANGED <<secret, applied>>
  BY DEF Patch
<1>5. CASE UNCHANGED <<server, watch>>
  <2>1. Env'
    BY <1>4, <1>5 DEF IInv, Env, ServerTypeOK, WatchTypeOK
  <2> QED BY <1>2, <1>3, <2>1 DEF IInv
<1>6. ASSUME NEW k \in targets,
             server' = [server EXCEPT ![k].stat = [observed |-> d.obj.gen, cond |-> d.cond]],
             watch' = Notified(k, "MODIFIED", server'[k])
      PROVE  IInv'
  <2>1. d \in Drains /\ d.obj.gen \in 0..MaxGen
    <3>1. d \in Drains
      BY DEF Patch, IInv, Gated, DrainsTypeOK
    <3> QED BY <3>1, GenFits DEF Drains
  <2>2. [observed |-> d.obj.gen, cond |-> d.cond] \in Stats
    BY <2>1 DEF Drains, Stats
  <2>3. server' \in [Keys -> Indexers] /\ server'[k] \in Indexers /\ k \in Keys
    BY <1>6, <2>2 DEF IInv, Env, ServerTypeOK, Indexers
  <2>4. WatchTypeOK'
    BY <1>6, <2>3, NotifiedFits DEF IInv, Env
  <2>5. Env'
    BY <1>4, <2>3, <2>4 DEF IInv, Env, ServerTypeOK
  <2> QED BY <1>2, <1>3, <2>5 DEF IInv
<1> QED BY <1>5, <1>6 DEF Patch

LEMMA ThrowStep == ASSUME IInv, NEW r \in Runs, Throw(r) PROVE IInv'
<1>1. Gated'
  BY FinishStep DEF Throw, IInv
<1>2. Queues'
  BY FinishQueues, DisruptFits, KindNames DEF Throw, IInv, Queues
<1>3. Env'
  BY DEF Throw, IInv, Env, ServerTypeOK, WatchTypeOK, serverVars
<1> QED BY <1>1, <1>2, <1>3 DEF IInv

LEMMA CloseStep == ASSUME IInv, Close PROVE IInv'
<1> DEFINE e(k) == IF gate[k].retry = "set" THEN ClearRetry(gate[k]) ELSE gate[k]
<1>1. \A k \in Keys : gate[k] \in Entries /\ Sound(gate[k], closed)
  BY DEF IInv, Gated, GateTypeOK, Safe
<1>2. \A k \in Keys : /\ e(k) \in Entries /\ e(k).run = gate[k].run
                      /\ e(k).pending = gate[k].pending /\ e(k).retry = "unset"
  BY <1>1, ClearRetryFits DEF Entries, Timers
<1>3. gate' = [k \in Keys |-> e(k)] /\ UNCHANGED drains
  BY DEF Close
<1>4. closed' \in BOOLEAN
  BY DEF Close
<1> HIDE DEF e
<1>5. GateTypeOK' /\ DrainsTypeOK'
  BY <1>2, <1>3, <1>4 DEF GateTypeOK, DrainsTypeOK, IInv, Gated
<1>6. OneRun'
  BY <1>2, <1>3 DEF OneRun, IInv, Gated, DrainsTypeOK, Drains
<1>7. Safe'
  <2>1. \A k \in Keys : Sound(e(k), closed')
    BY <1>1, <1>2 DEF Sound
  <2> QED BY <1>3, <2>1 DEF Safe
<1>8. Env' /\ Queues'
  BY DisruptFits, KindNames DEF Close, IInv, Env, ServerTypeOK, WatchTypeOK, Queues, serverVars
<1> QED BY <1>5, <1>6, <1>7, <1>8 DEF IInv, Gated

LEMMA RestartStep == ASSUME IInv, Restart PROVE IInv'
<1>1. Boot
  BY DEF Restart
<1>2. disruptions' \in Counts
  BY DisruptFits, KindNames DEF Restart, IInv, Queues
<1>3. Queues'
  BY <1>1, <1>2 DEF Boot, Queues
<1>4. Env'
  <2> DEFINE q(k) == IF Live(k)
                     THEN <<[phase |-> "ADDED", obj |-> Object(server[k])]>> ELSE <<>>
  <2>1. \A k \in Keys : q(k) \in Seq(Events) /\ Len(q(k)) <= MaxQueue
    <3> SUFFICES ASSUME NEW k \in Keys
                 PROVE  q(k) \in Seq(Events) /\ Len(q(k)) <= MaxQueue
      OBVIOUS
    <3> DEFINE e == [phase |-> "ADDED", obj |-> Object(server[k])]
    <3>1. e \in Events
      BY ObjectFits DEF IInv, Env, ServerTypeOK, Events
    <3>2. q(k) = <<e>> \/ q(k) = <<>>
      OBVIOUS
    <3> HIDE DEF e, q
    <3>3. /\ <<e>> \in Seq(Events) /\ Len(<<e>>) = 1
          /\ <<>> \in Seq(Events) /\ Len(<<>>) = 0
      BY <3>1
    <3>4. 1 <= MaxQueue /\ 0 <= MaxQueue
      BY BoundsAssumption
    <3>5. CASE q(k) = <<e>>
      <4>1. Len(q(k)) = Len(<<e>>)
        BY <3>5, Zenon
      <4> QED BY <3>3, <3>4, <3>5, <4>1, Zenon
    <3>6. CASE q(k) = <<>>
      <4>1. Len(q(k)) = Len(<<>>)
        BY <3>6, Zenon
      <4> QED BY <3>3, <3>4, <3>6, <4>1, Zenon
    <3> QED BY <3>2, <3>5, <3>6
  <2>2. watch' = [k \in Keys |-> q(k)]
    BY <1>1 DEF Boot
  <2> HIDE DEF q
  <2>3. WatchTypeOK'
    BY <2>1, <2>2 DEF WatchTypeOK
  <2> QED BY <1>1, <2>3 DEF Boot, IInv, Env, ServerTypeOK
<1>5. GateTypeOK' /\ DrainsTypeOK'
  <2>1. closed' \in BOOLEAN
    BY <1>1 DEF Boot
  <2> QED BY <1>1, <2>1, NoEntryFits DEF Boot, GateTypeOK, DrainsTypeOK
<1>6. OneRun'
  <2>1. \A k \in Keys : gate'[k].run = None
    BY <1>1 DEF Boot, NoEntry
  <2> QED BY <1>1, <2>1 DEF Boot, OneRun
<1>7. Safe'
  BY <1>1, NoEntryFits DEF Boot, Safe
<1> QED BY <1>3, <1>4, <1>5, <1>6, <1>7 DEF IInv, Gated

LEMMA NextIInv == IInv /\ [Next]_vars => IInv'
<1> SUFFICES ASSUME IInv, [Next]_vars PROVE IInv'
  OBVIOUS
<1>1. ASSUME NEW k \in Keys,
             \/ Create(k) \/ ChangeSpec(k) \/ WorkerStatus(k) \/ Delete(k)
             \/ Deliver(k) \/ RetryFires(k)
      PROVE  IInv'
  BY <1>1, CreateStep, ChangeSpecStep, WorkerStatusStep, DeleteStep, DeliverStep,
     RetryFiresStep
<1>2. CASE \/ \E n \in Names, p \in 1..Parts : CollectGarbage(n, p)
           \/ CreateSecret \/ RemoveSecret
  BY <1>2, ClusterStep
<1>3. ASSUME NEW l \in Loops, List(l) \/ Resync(l) PROVE IInv'
  BY <1>3, ListStep, ResyncStep
<1>4. ASSUME NEW r \in Runs, RunStep(r) PROVE IInv'
  BY <1>4, CheckStep, ApplyStep, SkipPatchStep, PatchStep, ThrowStep DEF RunStep
<1>5. CASE Close
  BY <1>5, CloseStep
<1>6. CASE Restart
  BY <1>6, RestartStep
<1>7. CASE UNCHANGED vars
  <2>1. Gated'
    BY <1>7, GatedStutter DEF IInv, vars, gateVars
  <2>2. Env' /\ Queues'
    BY <1>7 DEF IInv, vars, Env, ServerTypeOK, WatchTypeOK, Queues
  <2> QED BY <2>1, <2>2 DEF IInv
<1> QED BY <1>1, <1>2, <1>3, <1>4, <1>5, <1>6, <1>7 DEF Next

(* The inductive invariant, of every behaviour.                            *)
THEOREM Inductive == Spec => []IInv
<1>1. IInv /\ [Next]_vars => IInv'
  BY NextIInv
<1> QED BY <1>1, InitIInv, PTL DEF Spec

(* Every map, event and run keeps its type, whatever the API server does   *)
(* and whenever the operator restarts.                                     *)
THEOREM TypeCorrect == Spec => []TypeOK
<1>1. IInv => TypeOK
  BY DEF IInv, Env, Queues, Gated, DrainsTypeOK, TypeOK, RunTypeOK
<1> QED BY <1>1, Inductive, PTL

(* At most one reconcile per Indexer at a time (gate.ts:3).                *)
THEOREM OneRunHolds == Spec => []OneRun
<1>1. IInv => OneRun
  BY DEF IInv, Gated
<1> QED BY <1>1, Inductive, PTL

(* No event is left behind a run that has ended (gate.ts:166-172).         *)
THEOREM NoEventLostHolds == Spec => []NoEventLost
<1>1. IInv => NoEventLost
  BY DEF IInv, Gated, Safe, Sound, NoEventLost
<1> QED BY <1>1, Inductive, PTL

(* No timer survives a run, a DELETED or close() (gate.ts:67, 91).         *)
THEOREM RetryIdleHolds == Spec => []RetryIdle
<1>1. IInv => RetryIdle
  BY DEF IInv, Gated, Safe, Sound, RetryIdle
<1> QED BY <1>1, Inductive, PTL

-----------------------------------------------------------------------------
(***************************************************************************)
(* Generations only go forward, until a reconcile fails.                   *)
(*                                                                         *)
(* AppliedForward is false once a failed reconcile has made the gate       *)
(* forget the generation it knew.  That it is true until then takes all    *)
(* the copies of an Indexer there are: the events and listings on their    *)
(* way, what is pending, what the retry timer reads and what is under      *)
(* reconcile, against what the cluster has.                                *)
(***************************************************************************)

(* The copies of Indexer k the gate may still be told of, the generations   *)
(* its resources are stamped with, and the one under reconcile.             *)
Offered(k) ==
  {o \in Objs : \/ \E i \in 1..Len(watch[k]) : watch[k][i].obj = o
                \/ \E l \in Loops : [key |-> k, obj |-> o] \in loops[l].todo}

Stamped(k) ==
  {g \in Gens : \E n \in Names, p \in 1..Parts : applied[n][p] = [key |-> k, gen |-> g]}

RunGen(k) == drains[gate[k].run].obj.gen

Undeleted(k) == \A i \in 1..Len(watch[k]) : watch[k][i].phase # "DELETED"

(* Nobody is ahead of the API server ...                                   *)
NotAhead(g, run, top) ==
  /\ g.pending # None => g.pending.gen <= top
  /\ g.latest # None => g.latest.gen <= top
  /\ g.run # None => run <= top

(* ... and an entry is behind nothing that has been applied: not what it   *)
(* recorded, nor what is under reconcile, nor what is pending behind that. *)
(* An entry that has recorded nothing has yet to be offered what there is. *)
Ordered(g, run, S, O) ==
  /\ g.generation = 0 => /\ g.run = None /\ g.latest = None
                         /\ \A o \in O, h \in S : h <= o.gen
  /\ g.generation # 0 /\ g.run = None => \A h \in S : h <= g.generation
  /\ g.run # None => /\ \A h \in S : h <= run
                     /\ run <= g.generation
                     /\ g.pending # None => run <= g.pending.gen /\ g.pending.gen <= g.generation

Unborn(g) == g.generation = 0 /\ g.latest = None /\ g.run = None

InOrder(k) ==
  /\ \A o \in Offered(k) : o.gen <= server[k].gen
  /\ \A h \in Stamped(k) : h <= server[k].gen
  /\ NotAhead(gate[k], RunGen(k), server[k].gen)
  /\ server[k].state = "unborn" => Offered(k) = {} /\ Unborn(gate[k])
  /\ server[k].state # "gone" => Undeleted(k)
  /\ disruptions["fail"] = 0 /\ server[k].state # "gone" =>
       Ordered(gate[k], RunGen(k), Stamped(k), Offered(k))

FInv == \A k \in Keys : InOrder(k)

(* What a step may do to everything but the entry of k ...                 *)
Streams(k) ==
  /\ Stamped(k)' \subseteq Stamped(k)
  /\ \A o \in Offered(k)' : o \in Offered(k) \/ (o.gen = server'[k].gen /\ server'[k].state # "unborn")
  /\ server'[k].gen >= server[k].gen
  /\ server'[k].state = "unborn" => server[k].state = "unborn"
  /\ server'[k].state # "gone" => server[k].state # "gone" /\ Undeleted(k)'
  /\ disruptions'["fail"] = 0 => disruptions["fail"] = 0

(* ... and what has to be true of the entry then.                          *)
EntryInOrder(k) ==
  /\ NotAhead(gate'[k], RunGen(k)', server[k].gen)
  /\ server[k].state = "unborn" => Unborn(gate'[k])
  /\ disruptions'["fail"] = 0 /\ server[k].state # "gone" =>
       Ordered(gate'[k], RunGen(k)', Stamped(k), Offered(k))

LEMMA Numbers ==
  ASSUME IInv, NEW k \in Keys
  PROVE  /\ server[k].gen \in Gens /\ gate[k] \in Entries
         /\ \A o \in Offered(k) : o \in Objs /\ o.gen \in Gens
         /\ \A h \in Stamped(k) : h \in Nat
         /\ \A g \in Gens : g \in Nat /\ g # 0
         /\ gate[k].generation \in Nat
         /\ gate[k].run # None => gate[k].run \in Runs /\ drains[gate[k].run] \in Drains
                                  /\ drains[gate[k].run].key = k /\ RunGen(k) \in Gens
<1>1. server[k].gen \in Gens /\ gate[k] \in Entries
  BY DEF IInv, Env, ServerTypeOK, Indexers, Gated, GateTypeOK
<1>2. \A o \in Offered(k) : o \in Objs /\ o.gen \in Gens
  BY DEF Offered, Objs
<1>3. \A g \in Gens : g \in Nat /\ g # 0
  BY BoundsAssumption DEF Gens
<1>4. \A h \in Stamped(k) : h \in Nat
  BY <1>3 DEF Stamped
<1>5. gate[k].generation \in Nat
  BY <1>1, BoundsAssumption DEF Entries
<1>6. ASSUME gate[k].run # None
      PROVE  gate[k].run \in Runs /\ drains[gate[k].run] \in Drains
             /\ drains[gate[k].run].key = k /\ RunGen(k) \in Gens
  <2>1. gate[k].run \in Runs
    BY <1>1, <1>6 DEF Entries
  <2>2. drains[gate[k].run] \in Drains /\ drains[gate[k].run].key = k
    BY <1>6, <2>1 DEF IInv, Gated, OneRun, DrainsTypeOK
  <2> QED BY <2>1, <2>2 DEF RunGen, Drains, Objs
<1> QED BY <1>1, <1>2, <1>3, <1>4, <1>5, <1>6

LEMMA InOrderStep ==
  ASSUME IInv, IInv', NEW k \in Keys, InOrder(k), Streams(k), EntryInOrder(k)
  PROVE  InOrder(k)'
<1> DEFINE top == server[k].gen
<1>1. /\ top \in Nat /\ server'[k].gen \in Nat /\ top <= server'[k].gen
      /\ \A h \in Stamped(k) : h \in Nat /\ h <= top
      /\ \A h \in Stamped(k)' : h \in Stamped(k)
  <2>1. server'[k].gen \in Gens
    BY DEF IInv, Env, ServerTypeOK, Indexers
  <2>2. top \in Nat /\ server'[k].gen \in Nat
    BY <2>1, Numbers
  <2> QED BY <2>2, Numbers DEF InOrder, Streams
<1>2. \A o \in Offered(k)' : o.gen \in Nat /\ (o \in Offered(k) \/ o.gen = server'[k].gen)
  BY Numbers DEF Streams, Offered, Objs
<1>3. \A o \in Offered(k)' : o.gen <= server'[k].gen
  BY <1>1, <1>2, Numbers DEF InOrder
<1>4. \A h \in Stamped(k)' : h <= server'[k].gen
  BY <1>1
<1>5. gate'[k] \in Entries /\ (gate'[k].run # None => RunGen(k)' \in Gens)
  <2>1. gate'[k] \in Entries
    BY DEF IInv, Gated, GateTypeOK
  <2>2. ASSUME gate'[k].run # None PROVE RunGen(k)' \in Gens
    <3>1. gate'[k].run \in Runs
      BY <2>1, <2>2 DEF Entries
    <3>2. drains'[gate'[k].run] \in Drains
      BY <2>2, <3>1 DEF IInv, Gated, OneRun, DrainsTypeOK
    <3> QED BY <3>2 DEF RunGen, Drains, Objs
  <2> QED BY <2>1, <2>2
<1>6. NotAhead(gate'[k], RunGen(k)', server'[k].gen)
  <2>1. /\ gate'[k].pending # None => gate'[k].pending.gen \in Nat
        /\ gate'[k].latest # None => gate'[k].latest.gen \in Nat
        /\ gate'[k].run # None => RunGen(k)' \in Nat
    BY <1>5, Numbers DEF Entries, Objs
  <2> QED BY <1>1, <2>1 DEF EntryInOrder, NotAhead
<1>7. ASSUME server'[k].state = "unborn" PROVE Offered(k)' = {} /\ Unborn(gate'[k])
  <2>1. server[k].state = "unborn"
    BY <1>7 DEF Streams
  <2> QED BY <1>7, <2>1 DEF InOrder, Streams, EntryInOrder
<1>8. ASSUME disruptions'["fail"] = 0, server'[k].state # "gone"
      PROVE  Ordered(gate'[k], RunGen(k)', Stamped(k)', Offered(k)')
  <2>1. Ordered(gate'[k], RunGen(k)', Stamped(k), Offered(k))
    BY <1>8 DEF EntryInOrder, Streams
  <2>2. \A o \in Offered(k)', h \in Stamped(k)' :
          (\A q \in Offered(k) : h <= q.gen) => h <= o.gen
    BY <1>1, <1>2
  <2> QED BY <1>1, <2>1, <2>2 DEF Ordered
<1> QED BY <1>3, <1>4, <1>6, <1>7, <1>8 DEF InOrder, Streams

(* An entry nothing happens to.                                            *)
LEMMA EntryKept ==
  ASSUME IInv, NEW k \in Keys, InOrder(k), disruptions'["fail"] = 0 => disruptions["fail"] = 0,
         gate'[k].generation = gate[k].generation, gate'[k].run = gate[k].run,
         gate'[k].pending = gate[k].pending, gate'[k].latest = gate[k].latest,
         gate[k].run # None => drains'[gate[k].run].obj = drains[gate[k].run].obj
  PROVE  EntryInOrder(k)
<1>1. gate[k].run # None => RunGen(k)' = RunGen(k)
  BY DEF RunGen
<1>2. NotAhead(gate'[k], RunGen(k)', server[k].gen)
  BY <1>1 DEF InOrder, NotAhead
<1>3. ASSUME disruptions'["fail"] = 0, server[k].state # "gone"
      PROVE  Ordered(gate'[k], RunGen(k)', Stamped(k), Offered(k))
  BY <1>1, <1>3 DEF InOrder, Ordered
<1>4. server[k].state = "unborn" => Unborn(gate'[k])
  BY DEF InOrder, Unborn
<1> QED BY <1>2, <1>3, <1>4 DEF EntryInOrder

(* What a step leaves alone for k, it leaves in order.                     *)
LEMMA StreamsKept ==
  ASSUME NEW k \in Keys, InOrder(k), IInv,
         server' = server \/ (server'[k].state = server[k].state /\ server'[k].gen >= server[k].gen),
         Stamped(k)' \subseteq Stamped(k), Offered(k)' \subseteq Offered(k),
         server[k].state # "gone" => Undeleted(k)',
         disruptions'["fail"] = 0 => disruptions["fail"] = 0
  PROVE  Streams(k)
<1>1. server[k].gen \in Nat
  BY Numbers
<1> QED BY <1>1 DEF Streams

LEMMA StampedKept == ASSUME NEW k, UNCHANGED applied PROVE Stamped(k)' = Stamped(k)
  BY DEF Stamped

LEMMA OfferedKept ==
  ASSUME NEW k, watch'[k] = watch[k], UNCHANGED loops
  PROVE  Offered(k)' = Offered(k) /\ (Undeleted(k) => Undeleted(k)')
  BY DEF Offered, Undeleted

(* An event adds the object of that moment to what is offered.             *)
LEMMA NotifiedOffers ==
  ASSUME WatchTypeOK, NEW k \in Keys, NEW s \in Indexers, NEW phase,
         watch' = Notified(k, phase, s), \A l \in Loops : loops'[l].todo = loops[l].todo
  PROVE  /\ \A j \in Keys : j # k => Offered(j)' \subseteq Offered(j) /\ (Undeleted(j) => Undeleted(j)')
         /\ \A o \in Offered(k)' : o \in Offered(k) \/ o = Object(s)
         /\ phase # "DELETED" /\ Undeleted(k) => Undeleted(k)'
<1> DEFINE q == watch[k]
           kept == IF phase = "MODIFIED" /\ Len(q) > 0 /\ q[Len(q)].phase = "ADDED"
                   THEN "ADDED" ELSE phase
           e == [phase |-> phase, obj |-> Object(s)]
           f == [phase |-> kept, obj |-> Object(s)]
           t == IF Len(q) < MaxQueue THEN Append(q, e) ELSE [q EXCEPT ![Len(q)] = f]
<1>1. q \in Seq(Events) /\ Len(q) \in Nat
  BY DEF WatchTypeOK
<1>2. /\ e.obj = Object(s) /\ f.obj = Object(s)
      /\ phase # "DELETED" => e.phase # "DELETED" /\ f.phase # "DELETED"
  OBVIOUS
<1>3. watch' = [watch EXCEPT ![k] = t]
  BY DEF Notified
<1> HIDE DEF e, f, q
<1>4. \A i \in 1..Len(t) : (i \in 1..Len(q) /\ t[i] = q[i]) \/ t[i] = e \/ t[i] = f
  <2>1. CASE Len(q) < MaxQueue
    BY <1>1, <2>1
  <2>2. CASE ~(Len(q) < MaxQueue)
    BY <1>1, <2>2
  <2> QED BY <2>1, <2>2
<1> HIDE DEF t
<1>5. watch'[k] = t /\ \A j \in Keys : j # k => watch'[j] = watch[j]
  BY <1>3 DEF WatchTypeOK
<1>6. \A j \in Keys : j # k => Offered(j)' \subseteq Offered(j) /\ (Undeleted(j) => Undeleted(j)')
  BY <1>5 DEF Offered, Undeleted
<1>7. \A o \in Offered(k)' : o \in Offered(k) \/ o = Object(s)
  BY <1>2, <1>4, <1>5 DEF Offered, q
<1>8. phase # "DELETED" /\ Undeleted(k) => Undeleted(k)'
  BY <1>2, <1>4, <1>5 DEF Undeleted, q
<1> QED BY <1>6, <1>7, <1>8

LEMMA Failures ==
  ASSUME IInv, NEW kind \in DisruptionKinds, Disrupt(kind)
  PROVE  IF kind = "fail" THEN disruptions'["fail"] # 0
         ELSE disruptions'["fail"] = disruptions["fail"]
<1>1. disruptions \in [DisruptionKinds -> Nat]
  BY DEF IInv, Queues, Counts
<1>2. disruptions' = [disruptions EXCEPT ![kind] = disruptions[kind] + 1]
  BY DEF Disrupt
<1> QED BY <1>1, <1>2, KindNames

(* The steps of the API server, its users and the workers.                 *)
LEMMA ServerInOrder ==
  ASSUME IInv, IInv', FInv, NEW k \in Keys,
         Create(k) \/ ChangeSpec(k) \/ WorkerStatus(k) \/ Delete(k)
  PROVE  FInv'
<1> SUFFICES ASSUME NEW j \in Keys PROVE InOrder(j)'
  BY DEF FInv
<1>1. UNCHANGED <<applied, disruptions, gate, drains, loops>>
  BY DEF Create, ChangeSpec, WorkerStatus, Delete, gateVars
<1>2. InOrder(j)
  BY DEF FInv
<1>3. EntryInOrder(j)
  BY <1>1, <1>2, EntryKept
<1>4. /\ server \in [Keys -> Indexers] /\ server' \in [Keys -> Indexers]
      /\ WatchTypeOK /\ server[j].gen \in Nat /\ server[k].gen \in Nat
  BY Numbers DEF IInv, Env, ServerTypeOK
<1>5. PICK phase, s :
        /\ watch' = Notified(k, phase, s)
        /\ \/ s = server'[k] /\ phase # "DELETED"
           \/ s = server[k] /\ server'[k].state = "gone" /\ server'[k].gen = server[k].gen
  <2>1. CASE Create(k)
    <3>1. watch' = Notified(k, "ADDED", server'[k])
      BY <2>1 DEF Create
    <3>2. "ADDED" # "DELETED"
      OBVIOUS
    <3> QED BY <3>1, <3>2, Zenon
  <2>2. CASE ChangeSpec(k)
    <3>1. watch' = Notified(k, "MODIFIED", server'[k])
      BY <2>2 DEF ChangeSpec
    <3>2. "MODIFIED" # "DELETED"
      OBVIOUS
    <3> QED BY <3>1, <3>2, Zenon
  <2>3. CASE WorkerStatus(k)
    <3>1. watch' = Notified(k, "MODIFIED", server'[k])
      BY <2>3 DEF WorkerStatus
    <3>2. "MODIFIED" # "DELETED"
      OBVIOUS
    <3> QED BY <3>1, <3>2, Zenon
  <2>4. CASE Delete(k)
    <3>1. watch' = Notified(k, "DELETED", server[k])
      BY <2>4 DEF Delete
    <3>2. server'[k].state = "gone" /\ server'[k].gen = server[k].gen
      BY <1>4, <2>4 DEF Delete, Indexers
    <3> QED BY <3>1, <3>2, Zenon
  <2> QED BY <2>1, <2>2, <2>3, <2>4
<1>6. /\ \A i \in Keys : i # k => server'[i] = server[i]
      /\ server'[k].gen >= server[k].gen
      /\ server'[k].state \in {"live", "gone"} /\ server[k].state # "gone"
  <2>1. CASE Create(k)
    BY <1>4, <2>1 DEF Create, Indexers
  <2>2. CASE ChangeSpec(k)
    BY <1>4, <2>2 DEF ChangeSpec, Live, Indexers
  <2>3. CASE WorkerStatus(k)
    BY <1>4, <2>3 DEF WorkerStatus, Live
  <2>4. CASE Delete(k)
    BY <1>4, <2>4 DEF Delete, Live, Indexers
  <2> QED BY <2>1, <2>2, <2>3, <2>4
<1>7. /\ \A i \in Keys : i # k => Offered(i)' \subseteq Offered(i) /\ (Undeleted(i) => Undeleted(i)')
      /\ \A o \in Offered(k)' : o \in Offered(k) \/ o.gen = server'[k].gen
      /\ server'[k].state # "gone" /\ Undeleted(k) => Undeleted(k)'
  <2>1. s \in Indexers /\ Object(s).gen = server'[k].gen
    BY <1>4, <1>5 DEF Object
  <2> QED BY <1>1, <1>4, <1>5, <2>1, NotifiedOffers
<1>8. Streams(j)
  <2>1. Stamped(j)' = Stamped(j)
    BY <1>1, StampedKept
  <2>2. CASE j = k
    BY <1>1, <1>2, <1>5, <1>6, <1>7, <2>1, <2>2 DEF Streams, InOrder
  <2>3. CASE j # k
    BY <1>1, <1>2, <1>4, <1>6, <1>7, <2>1, <2>3, StreamsKept DEF InOrder
  <2> QED BY <2>2, <2>3
<1> QED BY <1>2, <1>3, <1>8, InOrderStep

LEMMA ClusterInOrder ==
  ASSUME IInv, IInv', FInv, \/ \E n \in Names, p \in 1..Parts : CollectGarbage(n, p)
                            \/ CreateSecret \/ RemoveSecret
  PROVE  FInv'
<1> SUFFICES ASSUME NEW j \in Keys PROVE InOrder(j)'
  BY DEF FInv
<1>1. UNCHANGED <<server, watch, gate, drains, loops>>
  BY DEF CollectGarbage, CreateSecret, RemoveSecret, gateVars
<1>2. InOrder(j)
  BY DEF FInv
<1>3. disruptions'["fail"] = disruptions["fail"]
  <2>1. UNCHANGED disruptions \/ Disrupt("unset")
    BY DEF CollectGarbage, CreateSecret, RemoveSecret
  <2> QED BY <2>1, Failures, KindNames
<1>4. Stamped(j)' \subseteq Stamped(j)
  <2>1. CASE UNCHANGED applied
    BY <2>1, StampedKept
  <2>2. ASSUME NEW n \in Names, NEW p \in 1..Parts, CollectGarbage(n, p)
        PROVE  Stamped(j)' \subseteq Stamped(j)
    <3>1. \A m \in Names, q \in 1..Parts : applied'[m][q] = None \/ applied'[m][q] = applied[m][q]
      BY <2>2 DEF CollectGarbage, IInv, Env, ServerTypeOK
    <3>2. \A g \in Gens : [key |-> j, gen |-> g] # None
      BY NoneAssumption DEF Stamps
    <3> QED BY <3>1, <3>2 DEF Stamped
  <2> QED BY <2>1, <2>2 DEF CreateSecret, RemoveSecret
<1>5. Offered(j)' = Offered(j) /\ (Undeleted(j) => Undeleted(j)')
  BY <1>1, OfferedKept
<1>6. Streams(j)
  BY <1>1, <1>2, <1>3, <1>4, <1>5, StreamsKept DEF InOrder
<1>7. EntryInOrder(j)
  BY <1>1, <1>2, <1>3, EntryKept
<1> QED BY <1>2, <1>6, <1>7, InOrderStep

(* Steps that change no entry but for its timer.                           *)
LEMMA OperatorInOrder ==
  ASSUME IInv, IInv', FInv, (\E l \in Loops : List(l)) \/ (\E r \in Runs : Check(r)) \/ Close
  PROVE  FInv'
<1> SUFFICES ASSUME NEW j \in Keys PROVE InOrder(j)'
  BY DEF FInv
<1>1. UNCHANGED <<server, watch, applied>>
  BY DEF List, Check, Close, serverVars
<1>2. InOrder(j) /\ gate[j] \in Entries /\ server[j].gen \in Nat
  BY Numbers DEF FInv
<1>3. disruptions'["fail"] = disruptions["fail"]
  <2>1. UNCHANGED disruptions \/ Disrupt("restart")
    BY DEF List, Check, Close
  <2> QED BY <2>1, Failures, KindNames
<1>4. /\ gate'[j].generation = gate[j].generation /\ gate'[j].run = gate[j].run
      /\ gate'[j].pending = gate[j].pending /\ gate'[j].latest = gate[j].latest
  <2>1. gate'[j] = gate[j] \/ gate'[j] = ClearRetry(gate[j])
    BY DEF List, Check, Close
  <2> QED BY <1>2, <2>1, ClearRetryFits
<1>5. ASSUME NEW r \in Runs, drains[r] # None PROVE drains'[r].obj = drains[r].obj
  <2>1. CASE \E q \in Runs : Check(q)
    <3>1. drains[r] \in Drains /\ drains \in [Runs -> Drains \cup {None}]
      BY <1>5 DEF IInv, Gated, DrainsTypeOK
    <3> QED BY <2>1, <3>1 DEF Check, Drains
  <2>2. CASE UNCHANGED drains
    BY <2>2
  <2> QED BY <2>1, <2>2 DEF List, Close
<1>6. EntryInOrder(j)
  <2>1. gate[j].run # None => gate[j].run \in Runs /\ drains[gate[j].run] # None
    BY Numbers, NoneAssumption
  <2> QED BY <1>2, <1>3, <1>4, <1>5, <2>1, EntryKept
<1>7. \A o \in Offered(j)' : o \in Offered(j) \/ (o.gen = server[j].gen /\ server[j].state # "unborn")
  <2>1. CASE UNCHANGED loops
    BY <1>1, <2>1, OfferedKept
  <2>2. ASSUME NEW l \in Loops, List(l)
        PROVE  \A o \in Offered(j)' : o \in Offered(j)
                                      \/ (o.gen = server[j].gen /\ server[j].state # "unborn")
    <3> DEFINE listed == {[key |-> k, obj |-> Object(server[k])] : k \in {i \in Keys : Live(i)}}
    <3>1. loops' = [loops EXCEPT ![l].todo = listed]
      BY <2>2 DEF List
    <3>2. \A m \in Loops : loops'[m].todo = loops[m].todo \/ loops'[m].todo = listed
      BY <3>1 DEF IInv, Queues
    <3>3. \A o : [key |-> j, obj |-> o] \in listed =>
                   o.gen = server[j].gen /\ server[j].state # "unborn"
      <4> SUFFICES ASSUME NEW o, [key |-> j, obj |-> o] \in listed
                   PROVE  o.gen = server[j].gen /\ server[j].state # "unborn"
        OBVIOUS
      <4>1. PICK k \in Keys : /\ Live(k)
                             /\ [key |-> j, obj |-> o] = [key |-> k, obj |-> Object(server[k])]
        OBVIOUS
      <4>2. k = j /\ o = Object(server[k])
        BY <4>1
      <4> QED BY <4>1, <4>2 DEF Object, Live
    <3> HIDE DEF listed
    <3> QED BY <1>1, <3>2, <3>3 DEF Offered
  <2> QED BY <2>1, <2>2 DEF Check, Close
<1>8. Streams(j)
  <2>1. Stamped(j)' = Stamped(j) /\ (Undeleted(j) => Undeleted(j)')
    BY <1>1, StampedKept DEF Undeleted
  <2> QED BY <1>1, <1>2, <1>3, <1>7, <2>1 DEF Streams, InOrder
<1> QED BY <1>2, <1>6, <1>8, InOrderStep

(* A run applies what it has: nothing it stamps is ahead of it.            *)
LEMMA ApplyInOrder ==
  ASSUME IInv, IInv', FInv, NEW r \in Runs, Apply(r)
  PROVE  FInv'
<1> SUFFICES ASSUME NEW j \in Keys PROVE InOrder(j)'
  BY DEF FInv
<1> DEFINE d == drains[r]
<1>1. UNCHANGED <<server, watch, gate, loops, disruptions>>
  BY DEF Apply
<1>2. InOrder(j) /\ d \in Drains /\ d # None /\ drains \in [Runs -> Drains \cup {None}]
  BY DEF FInv, Apply, IInv, Gated, DrainsTypeOK
<1>3. gate[d.key].run = r /\ d.key \in Keys /\ d.obj.gen \in Gens
  BY <1>2 DEF IInv, Gated, OneRun, Drains, Objs
<1>4. \A q \in Runs : drains[q] # None => drains'[q].obj = drains[q].obj
  BY <1>2 DEF Apply, Drains
<1>5. RunGen(j)' = RunGen(j) \/ gate[j].run = None
  <2>1. gate[j].run # None => gate[j].run \in Runs /\ drains[gate[j].run] # None
    BY Numbers, NoneAssumption
  <2> QED BY <1>1, <1>4, <2>1 DEF RunGen
<1>6. Offered(j)' = Offered(j) /\ (Undeleted(j) => Undeleted(j)')
  BY <1>1, OfferedKept
<1>7. \A h \in Stamped(j)' : h \in Stamped(j) \/ (j = d.key /\ h = d.obj.gen)
  <2>1. CASE UNCHANGED applied
    BY <2>1, StampedKept
  <2>2. CASE applied' = [applied EXCEPT ![NameOf[d.key]][d.part + 1] =
                           [key |-> d.key, gen |-> d.obj.gen]]
    <3>1. \A n \in Names, p \in 1..Parts :
            applied'[n][p] = applied[n][p] \/ applied'[n][p] = [key |-> d.key, gen |-> d.obj.gen]
      BY <2>2 DEF IInv, Env, ServerTypeOK
    <3> HIDE DEF d
    <3> QED BY <3>1 DEF Stamped
  <2> QED BY <2>1, <2>2 DEF Apply
<1>8. CASE j # d.key
  <2>1. Stamped(j)' \subseteq Stamped(j)
    BY <1>7, <1>8
  <2>2. Streams(j) /\ EntryInOrder(j)
    <3>1. gate[j].run # None => drains'[gate[j].run].obj = drains[gate[j].run].obj
      BY <1>4, Numbers, NoneAssumption
    <3> QED BY <1>1, <1>2, <1>6, <2>1, <3>1, StreamsKept, EntryKept DEF InOrder
  <2> QED BY <1>2, <2>2, InOrderStep
<1>9. CASE j = d.key
  <2>1. gate[j].run = r /\ r # None /\ RunGen(j) = d.obj.gen /\ RunGen(j)' = d.obj.gen
    BY <1>1, <1>3, <1>5, <1>9, NoneAssumption DEF RunGen
  <2>2. \A h \in Stamped(j)' : h \in Stamped(j) \/ h = RunGen(j)
    BY <1>7, <2>1
  <2>3. RunGen(j) \in Nat /\ RunGen(j) <= server[j].gen
    BY <1>2, <1>3, <2>1, Numbers DEF InOrder, NotAhead
  <2>4. \A h \in Stamped(j)' : h <= server[j].gen
    BY <1>2, <2>2, <2>3 DEF InOrder
  <2>5. ASSUME disruptions["fail"] = 0, server[j].state # "gone"
        PROVE  Ordered(gate[j], RunGen(j), Stamped(j)', Offered(j))
    <3>1. Ordered(gate[j], RunGen(j), Stamped(j), Offered(j))
      BY <1>2, <2>5 DEF InOrder
    <3> QED BY <2>1, <2>2, <2>3, <3>1 DEF Ordered
  <2> QED BY <1>1, <1>2, <1>6, <2>1, <2>4, <2>5 DEF InOrder
<1> QED BY <1>8, <1>9

(* #schedule with an object that nothing applied is ahead of, if the gate   *)
(* has recorded no generation it could tell by.                            *)
LEMMA ScheduleInOrder ==
  ASSUME IInv, IInv', FInv, NEW k \in Keys, NEW g \in Entries, NEW o \in Objs,
         NEW isRetry \in BOOLEAN, Schedule(k, g, o, isRetry), UNCHANGED disruptions,
         g.generation = gate[k].generation, g.run = gate[k].run, g.pending = gate[k].pending,
         g.latest \in Objs, g.latest.gen <= server[k].gen, o.gen <= server[k].gen,
         server[k].state # "unborn",
         gate[k].generation = 0 =>
           o \in Offered(k) \/ disruptions["fail"] # 0 \/ server[k].state = "gone"
  PROVE  \A j \in Keys : EntryInOrder(j)
<1> DEFINE h == IF isRetry THEN g ELSE ClearRetry(g)
<1>1. /\ h \in Entries /\ h.generation = g.generation /\ h.run = g.run
      /\ h.pending = g.pending /\ h.latest = g.latest
  BY ClearRetryFits
<1>2. InOrder(k) /\ gate[k] \in Entries /\ o.gen \in Nat /\ o.gen # 0
  BY Numbers DEF FInv, Objs, Gens, BoundsAssumption
<1>3. g.pending # None => g.run # None
  BY <1>2 DEF IInv, Gated, Safe, Sound
<1>4. ASSUME NEW e, gate' = [gate EXCEPT ![k] = e],
             \A q \in Runs : drains[q] # None => drains'[q] = drains[q],
             NEW j \in Keys, j # k
      PROVE  EntryInOrder(j)
  <2>1. gate'[j] = gate[j]
    BY <1>4 DEF IInv, Gated, GateTypeOK
  <2>2. gate[j].run # None => gate[j].run \in Runs /\ drains[gate[j].run] # None
    BY Numbers, NoneAssumption
  <2> QED BY <1>4, <2>1, <2>2, EntryKept DEF FInv
<1>5. ASSUME NEW e \in Entries, gate' = [gate EXCEPT ![k] = e], UNCHANGED drains,
             e.run = g.run, e.latest = g.latest,
             e.pending \in {g.pending, o},
             disruptions["fail"] = 0 /\ server[k].state # "gone" =>
               Ordered(e, RunGen(k), Stamped(k), Offered(k))
      PROVE  EntryInOrder(k)
  <2>1. gate'[k] = e
    BY <1>5 DEF IInv, Gated, GateTypeOK
  <2>2. RunGen(k)' = RunGen(k)
    BY <1>5, <2>1 DEF RunGen
  <2>3. NotAhead(e, RunGen(k), server[k].gen)
    BY <1>2, <1>5 DEF InOrder, NotAhead
  <2> QED BY <1>5, <2>1, <2>2, <2>3 DEF EntryInOrder
<1>6. CASE Stale(g, o) /\ gate' = [gate EXCEPT ![k] = g] /\ UNCHANGED drains
  <2>1. g.generation # 0
    BY <1>6 DEF Stale
  <2>2. disruptions["fail"] = 0 /\ server[k].state # "gone" =>
          Ordered(g, RunGen(k), Stamped(k), Offered(k))
    BY <1>2, <2>1 DEF InOrder, Ordered
  <2>3. EntryInOrder(k)
    BY <1>5, <1>6, <2>2
  <2> QED BY <1>4, <1>6, <2>3
<1>7. CASE /\ ~Stale(g, o) /\ g.run # None
           /\ gate' = [gate EXCEPT ![k] = Join(h, o)] /\ UNCHANGED drains
  <2> HIDE DEF h
  <2> DEFINE e == Join(h, o)
  <2>1. e \in Entries /\ e.run = g.run
    BY <1>1, JoinFits
  <2>2. /\ e.generation = o.gen /\ e.latest = g.latest
        /\ e.pending = IF g.pending = None THEN o
                       ELSE IF o.gen >= g.pending.gen THEN o ELSE g.pending
    BY <1>1 DEF Join, Entries
  <2> HIDE DEF e
  <2>3. ASSUME disruptions["fail"] = 0, server[k].state # "gone"
        PROVE  Ordered(e, RunGen(k), Stamped(k), Offered(k))
    <3>1. Ordered(gate[k], RunGen(k), Stamped(k), Offered(k))
      BY <1>2, <2>3 DEF InOrder
    <3>2. g.generation # 0 /\ g.generation \in Nat /\ o.gen >= g.generation
      BY <1>2, <1>7, <3>1, Numbers DEF Ordered, Stale
    <3>3. RunGen(k) \in Nat /\ (g.pending # None => g.pending \in Objs /\ g.pending.gen \in Nat)
      BY <1>7, Numbers DEF Entries, Objs
    <3>4. RunGen(k) <= g.generation /\ \A s \in Stamped(k) : s <= RunGen(k)
      BY <1>7, <3>1 DEF Ordered
    <3>5. g.pending # None => RunGen(k) <= g.pending.gen /\ g.pending.gen <= g.generation
      BY <1>7, <3>1 DEF Ordered
    <3>6. RunGen(k) <= o.gen /\ (g.pending # None => g.pending.gen <= o.gen)
      BY <1>2, <3>2, <3>3, <3>4, <3>5
    <3>7. e.pending = o
      BY <1>2, <2>2, <3>3, <3>6
    <3> QED BY <1>2, <1>7, <2>1, <2>2, <3>4, <3>6, <3>7 DEF Ordered
  <2>4. EntryInOrder(k)
    BY <1>5, <1>7, <2>1, <2>2, <2>3 DEF e
  <2> QED BY <1>4, <1>7, <2>4
<1>8. ASSUME ~Stale(g, o), g.run = None, NEW r \in Runs, drains[r] = None,
             gate' = [gate EXCEPT ![k] = Start(h, r, o)],
             drains' = [drains EXCEPT ![r] = NewDrain(k, o)]
      PROVE  \A j \in Keys : EntryInOrder(j)
  <2> HIDE DEF h
  <2>1. gate'[k] = Start(h, r, o) /\ drains'[r] = NewDrain(k, o)
        /\ \A q \in Runs : q # r => drains'[q] = drains[q]
    BY <1>8 DEF IInv, Gated, GateTypeOK, DrainsTypeOK
  <2>2. /\ gate'[k].generation = o.gen /\ gate'[k].run = r
        /\ gate'[k].pending = None /\ gate'[k].latest = g.latest
    <3>1. h \in Entries /\ h.pending = None /\ h.latest = g.latest
      BY <1>1, <1>3, <1>8
    <3>2. gate'[k] = [h EXCEPT !.generation = o.gen, !.run = r]
      BY <2>1 DEF Start
    <3> QED BY <3>1, <3>2 DEF Entries
  <2>3. RunGen(k)' = o.gen
    BY <2>1, <2>2 DEF RunGen, NewDrain
  <2>4. NotAhead(gate'[k], o.gen, server[k].gen)
    BY <2>2 DEF NotAhead
  <2>5. ASSUME disruptions["fail"] = 0, server[k].state # "gone"
        PROVE  Ordered(gate'[k], o.gen, Stamped(k), Offered(k))
    <3>1. Ordered(gate[k], RunGen(k), Stamped(k), Offered(k))
      BY <1>2, <2>5 DEF InOrder
    <3>2. \A s \in Stamped(k) : s <= o.gen
      <4>1. CASE g.generation = 0
        BY <2>5, <3>1, <4>1 DEF Ordered
      <4>2. CASE g.generation # 0
        BY <1>2, <1>8, <3>1, <4>2, Numbers DEF Ordered, Stale
      <4> QED BY <4>1, <4>2
    <3> QED BY <1>2, <2>2, <3>2 DEF Ordered
  <2>6. EntryInOrder(k)
    BY <2>3, <2>4, <2>5 DEF EntryInOrder
  <2> QED BY <1>4, <1>8, <2>1, <2>6
<1> QED BY <1>6, <1>7, <1>8 DEF Schedule, NewDrain

(* Remember keeps the newer of what it knew and what it is told.            *)
LEMMA RememberNewer ==
  ASSUME IInv, NEW k \in Keys, InOrder(k), NEW o \in Objs, o.gen <= server[k].gen
  PROVE  LET g == Remember(gate[k], o)
         IN  /\ g \in Entries /\ g.generation = gate[k].generation /\ g.run = gate[k].run
             /\ g.pending = gate[k].pending
             /\ g.latest \in Objs /\ g.latest.gen <= server[k].gen
<1>1. gate[k] \in Entries /\ (gate[k].latest # None => gate[k].latest \in Objs)
  BY Numbers DEF Entries
<1>2. gate[k].latest # None => gate[k].latest.gen <= server[k].gen
  BY DEF InOrder, NotAhead
<1>3. CASE gate[k].latest = None \/ o.gen >= gate[k].latest.gen
  <2>1. Remember(gate[k], o) = [gate[k] EXCEPT !.latest = o]
    BY <1>3 DEF Remember
  <2> QED BY <1>1, <2>1 DEF Entries
<1>4. CASE ~(gate[k].latest = None \/ o.gen >= gate[k].latest.gen)
  <2>1. Remember(gate[k], o) = gate[k]
    BY <1>4 DEF Remember
  <2> QED BY <1>1, <1>2, <1>4, <2>1
<1> QED BY <1>3, <1>4

LEMMA DeliverInOrder ==
  ASSUME IInv, IInv', FInv, NEW k \in Keys, Deliver(k)
  PROVE  FInv'
<1> DEFINE e == Head(watch[k])
           g == Remember(gate[k], e.obj)
<1>1. /\ UNCHANGED <<server, applied, loops, disruptions, closed>>
      /\ watch' = [watch EXCEPT ![k] = Tail(watch[k])]
  BY DEF Deliver
<1>2. /\ watch[k] \in Seq(Events) /\ watch[k] # <<>> /\ watch \in [Keys -> Seq(Events)]
      /\ Len(watch[k]) \in Nat /\ 1 \in 1..Len(watch[k]) /\ e = watch[k][1] /\ e \in Events
  <2>1. watch \in [Keys -> Seq(Events)] /\ watch[k] # <<>>
    BY DEF Deliver, IInv, Env, WatchTypeOK
  <2> QED BY <2>1
<1>3. e.obj \in Offered(k)
  BY <1>2 DEF Offered, Events
<1>4. InOrder(k) /\ e.obj \in Objs /\ e.obj.gen \in Gens /\ e.obj.gen <= server[k].gen
      /\ server[k].state # "unborn"
  BY <1>3, Numbers DEF FInv, InOrder
<1>5. ASSUME NEW j \in Keys PROVE Streams(j)
  <2>1. InOrder(j) /\ Stamped(j)' = Stamped(j)
    BY <1>1, StampedKept DEF FInv
  <2>2. Offered(j)' \subseteq Offered(j) /\ (Undeleted(j) => Undeleted(j)')
    <3>1. CASE j # k
      <4>1. watch'[j] = watch[j]
        BY <1>1, <1>2, <3>1
      <4> QED BY <1>1, <4>1, OfferedKept
    <3>2. CASE j = k
      <4>1. watch'[k] = Tail(watch[k])
        BY <1>1, <1>2
      <4>2. \A i \in 1..Len(watch'[k]) : i + 1 \in 1..Len(watch[k]) /\ watch'[k][i] = watch[k][i + 1]
        BY <1>2, <4>1
      <4> QED BY <1>1, <3>2, <4>2 DEF Offered, Undeleted
    <3> QED BY <3>1, <3>2
  <2> QED BY <1>1, <2>1, <2>2, StreamsKept DEF InOrder
<1>6. ASSUME NEW f, gate' = [gate EXCEPT ![k] = f], UNCHANGED drains, NEW j \in Keys, j # k
      PROVE  EntryInOrder(j)
  <2>1. gate'[j] = gate[j]
    BY <1>6 DEF IInv, Gated, GateTypeOK
  <2> QED BY <1>1, <1>6, <2>1, EntryKept DEF FInv
<1>7. ASSUME NEW j \in Keys PROVE EntryInOrder(j)
  <2> HIDE DEF e
  <2> DEFINE n == Remember(gate[k], e.obj)
  <2>1. /\ n \in Entries /\ n.generation = gate[k].generation /\ n.run = gate[k].run
        /\ n.pending = gate[k].pending
        /\ n.latest \in Objs /\ n.latest.gen <= server[k].gen
    BY <1>4, RememberNewer
  <2> HIDE DEF n
  <2>2. CASE e.phase = "DELETED" /\ gate' = [gate EXCEPT ![k] = Forget(gate[k])] /\ UNCHANGED drains
    <3>1. server[k].state = "gone"
      BY <1>2, <1>4, <2>2 DEF InOrder, Undeleted
    <3>2. gate'[k] = Forget(gate[k]) /\ gate[k] \in Entries
      BY <2>2 DEF IInv, Gated, GateTypeOK
    <3>3. /\ gate'[k].run = gate[k].run /\ gate'[k].pending = None /\ gate'[k].latest = None
      <4> DEFINE f == [gate[k] EXCEPT !.generation = 0, !.pending = None, !.latest = None]
      <4>1. f \in Entries /\ f.run = gate[k].run /\ f.pending = None /\ f.latest = None
        BY <3>2, ZeroFits DEF Entries
      <4> HIDE DEF f
      <4>2. Forget(gate[k]) = ClearRetry(f)
        BY DEF Forget, f
      <4> QED BY <3>2, <4>1, <4>2, ClearRetryFits
    <3>4. RunGen(k)' = RunGen(k)
      BY <2>2, <3>3 DEF RunGen
    <3>5. EntryInOrder(k)
      BY <1>4, <3>1, <3>3, <3>4 DEF EntryInOrder, InOrder, NotAhead
    <3> QED BY <1>6, <2>2, <3>5
  <2>3. CASE e.obj.gen = n.generation /\ gate' = [gate EXCEPT ![k] = n] /\ UNCHANGED drains
    <3>1. gate'[k] = n /\ n.generation # 0
      BY <1>4, <2>3, Numbers DEF IInv, Gated, GateTypeOK
    <3>2. RunGen(k)' = RunGen(k)
      BY <2>1, <2>3, <3>1 DEF RunGen
    <3>3. EntryInOrder(k)
      BY <1>1, <1>4, <2>1, <3>1, <3>2 DEF EntryInOrder, InOrder, NotAhead, Ordered
    <3> QED BY <1>6, <2>3, <3>3
  <2>4. CASE Schedule(k, n, e.obj, FALSE)
    BY <1>1, <1>3, <1>4, <2>1, <2>4, ScheduleInOrder
  <2>5. \/ e.phase = "DELETED" /\ gate' = [gate EXCEPT ![k] = Forget(gate[k])] /\ UNCHANGED drains
        \/ e.obj.gen = n.generation /\ gate' = [gate EXCEPT ![k] = n] /\ UNCHANGED drains
        \/ Schedule(k, n, e.obj, FALSE)
    BY DEF Deliver, n, e
  <2> QED BY <2>2, <2>3, <2>4, <2>5
<1> QED BY <1>5, <1>7, InOrderStep DEF FInv

LEMMA ResyncInOrder ==
  ASSUME IInv, IInv', FInv, NEW l \in Loops, Resync(l)
  PROVE  FInv'
<1>1. PICK i \in loops[l].todo :
        /\ Schedule(i.key, Remember(gate[i.key], i.obj), i.obj, FALSE)
        /\ loops' = [loops EXCEPT ![l] = [todo |-> loops[l].todo \ {i}, wait |-> gate'[i.key].run]]
  BY DEF Resync
<1>2. UNCHANGED <<server, watch, applied, disruptions>>
  BY DEF Resync, serverVars
<1>3. i.key \in Keys /\ i.obj \in Objs /\ i = [key |-> i.key, obj |-> i.obj]
  BY DEF IInv, Queues, Listed
<1>4. i.obj \in Offered(i.key)
  BY <1>3 DEF Offered
<1>5. InOrder(i.key) /\ i.obj.gen <= server[i.key].gen /\ server[i.key].state # "unborn"
  BY <1>3, <1>4 DEF FInv, InOrder
<1>6. \A j \in Keys : EntryInOrder(j)
  <2> DEFINE n == Remember(gate[i.key], i.obj)
  <2>1. /\ n \in Entries /\ n.generation = gate[i.key].generation /\ n.run = gate[i.key].run
        /\ n.pending = gate[i.key].pending
        /\ n.latest \in Objs /\ n.latest.gen <= server[i.key].gen
    BY <1>3, <1>5, RememberNewer
  <2> HIDE DEF n
  <2>2. Schedule(i.key, n, i.obj, FALSE)
    BY <1>1 DEF n
  <2> QED BY <1>2, <1>3, <1>4, <1>5, <2>1, <2>2, ScheduleInOrder
<1>7. ASSUME NEW j \in Keys PROVE Streams(j)
  <2>1. InOrder(j) /\ Stamped(j)' = Stamped(j) /\ (Undeleted(j) => Undeleted(j)')
    BY <1>2, StampedKept DEF FInv, Undeleted
  <2>2. \A m \in Loops : loops'[m].todo \subseteq loops[m].todo
    BY <1>1 DEF IInv, Queues
  <2>3. Offered(j)' \subseteq Offered(j)
    BY <1>2, <2>2 DEF Offered
  <2> QED BY <1>2, <2>1, <2>3, StreamsKept DEF InOrder
<1> QED BY <1>6, <1>7, InOrderStep DEF FInv

(* The timer offers what it reads, which the gate has recorded.             *)
LEMMA RetryInOrder ==
  ASSUME IInv, IInv', FInv, NEW k \in Keys, RetryFires(k)
  PROVE  FInv'
<1> DEFINE g == [gate[k] EXCEPT !.retry = "unset"]
<1>1. gate[k] \in Entries /\ gate[k].retry = "set" /\ gate[k].latest # None /\ gate[k].latest \in Objs
  BY DEF IInv, Gated, GateTypeOK, Safe, Sound, RetryFires, Entries
<1>2. /\ g \in Entries /\ g.generation = gate[k].generation /\ g.run = gate[k].run
      /\ g.pending = gate[k].pending /\ g.latest = gate[k].latest
  BY <1>1 DEF Entries, Timers
<1>3. Schedule(k, g, g.latest, TRUE)
  BY <1>1, <1>2 DEF RetryFires
<1>4. UNCHANGED <<server, watch, applied, loops, disruptions>>
  BY DEF RetryFires, serverVars
<1> HIDE DEF g
<1>5. InOrder(k) /\ g.latest.gen <= server[k].gen /\ server[k].state # "unborn"
  BY <1>1, <1>2 DEF FInv, InOrder, NotAhead, Unborn
<1>6. ASSUME NEW j \in Keys PROVE Streams(j)
  <2>1. InOrder(j) /\ Stamped(j)' = Stamped(j)
    BY <1>4, StampedKept DEF FInv
  <2>2. Offered(j)' = Offered(j) /\ (Undeleted(j) => Undeleted(j)')
    BY <1>4, OfferedKept
  <2> QED BY <1>4, <2>1, <2>2, StreamsKept DEF InOrder
<1>7. gate[k].generation = 0 =>
        g.latest \in Offered(k) \/ disruptions["fail"] # 0 \/ server[k].state = "gone"
  BY <1>1, <1>5 DEF InOrder, Ordered
<1>8. \A j \in Keys : EntryInOrder(j)
  BY <1>1, <1>2, <1>3, <1>4, <1>5, <1>7, ScheduleInOrder
<1> QED BY <1>6, <1>8, InOrderStep DEF FInv

(* The end of a reconcile, failed or not, and the rerun behind it.         *)
LEMMA FinishInOrder ==
  ASSUME IInv, IInv', FInv, NEW r \in Runs, drains[r] # None, NEW result, Finish(r, result),
         disruptions'["fail"] = 0 => disruptions["fail"] = 0,
         \/ result # "failed" \/ disruptions'["fail"] # 0
         \/ server[drains[r].key].state # "live"
  PROVE  \A j \in Keys : EntryInOrder(j)
<1> DEFINE d == drains[r]
<1>0. PICK k \in Keys : k = d.key
  BY DEF IInv, Gated, DrainsTypeOK, Drains
<1> DEFINE g == ForgetFailed(gate[k], d.obj.gen, result)
<1>1. d \in Drains /\ k \in Keys /\ gate[k].run = r /\ r # None /\ gate[k] \in Entries
  BY <1>0, NoneAssumption DEF IInv, Gated, GateTypeOK, DrainsTypeOK, Drains, OneRun
<1>2. /\ g \in Entries /\ g.run = r /\ g.pending = gate[k].pending /\ g.latest = gate[k].latest
  BY <1>1, ForgetFailedFits
<1>3. InOrder(k) /\ RunGen(k) = d.obj.gen /\ server[k].state # "unborn"
  BY <1>1 DEF FInv, InOrder, Unborn, RunGen
<1>4. ASSUME disruptions'["fail"] = 0, server[k].state # "gone"
      PROVE  /\ g.generation = gate[k].generation
             /\ Ordered(gate[k], RunGen(k), Stamped(k), Offered(k)) /\ gate[k].generation # 0
  <2>1. server[k].state = "live"
    BY <1>0, <1>1, <1>3, <1>4 DEF IInv, Env, ServerTypeOK, Indexers
  <2>2. result # "failed"
    BY <1>0, <1>4, <2>1
  <2>3. g = gate[k]
    BY <2>2 DEF ForgetFailed
  <2>4. Ordered(gate[k], RunGen(k), Stamped(k), Offered(k))
    BY <1>3, <1>4 DEF InOrder
  <2> QED BY <1>1, <2>3, <2>4 DEF Ordered
<1>5. ASSUME NEW e, gate' = [gate EXCEPT ![k] = e],
             \A q \in Runs : q # r => drains'[q] = drains[q],
             NEW j \in Keys, j # k
      PROVE  EntryInOrder(j)
  <2>1. gate'[j] = gate[j]
    BY <1>5 DEF IInv, Gated, GateTypeOK
  <2>2. gate[j].run # None => gate[j].run \in Runs /\ gate[j].run # r
    BY <1>0, <1>5, Numbers
  <2> QED BY <1>5, <2>1, <2>2, EntryKept DEF FInv
<1>6. CASE /\ g.pending # None
           /\ gate' = [gate EXCEPT ![k] = [g EXCEPT !.pending = None]]
           /\ drains' = [drains EXCEPT ![r] = NewDrain(k, g.pending)]
  <2> HIDE DEF g, d
  <2>1. /\ gate'[k] = [g EXCEPT !.pending = None] /\ drains'[r] = NewDrain(k, g.pending)
        /\ \A q \in Runs : q # r => drains'[q] = drains[q]
    BY <1>1, <1>6 DEF IInv, Gated, GateTypeOK, DrainsTypeOK
  <2>2. /\ gate'[k].generation = g.generation /\ gate'[k].run = r
        /\ gate'[k].pending = None /\ gate'[k].latest = gate[k].latest
    BY <1>2, <2>1 DEF Entries
  <2>3. RunGen(k)' = g.pending.gen
    <3>1. RunGen(k)' = drains'[gate'[k].run].obj.gen
      BY DEF RunGen
    <3>2. \A o : NewDrain(k, o).obj = o
      BY DEF NewDrain
    <3> QED BY <2>1, <2>2, <3>1, <3>2
  <2>4. g.pending.gen \in Nat /\ \A s \in Stamped(k) : s \in Nat
    BY <1>1, <1>2, <1>6, Numbers DEF Entries, Objs
  <2>5. NotAhead(gate'[k], g.pending.gen, server[k].gen)
    BY <1>2, <1>3, <1>6, <2>2 DEF InOrder, NotAhead
  <2>6. ASSUME disruptions'["fail"] = 0, server[k].state # "gone"
        PROVE  Ordered(gate'[k], g.pending.gen, Stamped(k), Offered(k))
    <3>1. /\ \A s \in Stamped(k) : s <= RunGen(k)
          /\ RunGen(k) <= g.pending.gen /\ g.pending.gen <= gate[k].generation
          /\ g.generation = gate[k].generation /\ g.generation # 0
      BY <1>1, <1>2, <1>4, <1>6, <2>6 DEF Ordered
    <3>2. RunGen(k) \in Nat
      BY <1>1, Numbers
    <3>3. \A s \in Stamped(k) : s <= g.pending.gen
      BY <2>4, <3>1, <3>2
    <3> QED BY <1>1, <2>2, <3>1, <3>3 DEF Ordered
  <2>7. EntryInOrder(k)
    BY <1>3, <2>3, <2>5, <2>6 DEF EntryInOrder
  <2> QED BY <1>5, <1>6, <2>1, <2>7
<1>7. CASE /\ g.pending = None
           /\ gate' = [gate EXCEPT ![k] = Rest(g, r, result)]
           /\ drains' = [drains EXCEPT ![r] = None]
  <2> HIDE DEF g, d
  <2>1. /\ gate'[k] = Rest(g, r, result)
        /\ \A q \in Runs : q # r => drains'[q] = drains[q]
    BY <1>1, <1>7 DEF IInv, Gated, GateTypeOK, DrainsTypeOK
  <2>2. /\ gate'[k].generation = g.generation /\ gate'[k].run = None
        /\ gate'[k].pending = None /\ gate'[k].latest = gate[k].latest
    <3> DEFINE h == [g EXCEPT !.run = None]
    <3>1. h \in Entries /\ h.generation = g.generation /\ h.run = None
          /\ h.pending = None /\ h.latest = gate[k].latest
      BY <1>2, <1>7 DEF Entries
    <3>2. gate'[k] \in {RetryLater(h), ClearRetry(h), h}
      BY <1>2, <2>1 DEF Rest
    <3> HIDE DEF h
    <3>3. /\ RetryLater(h).generation = h.generation /\ RetryLater(h).run = h.run
          /\ RetryLater(h).pending = h.pending /\ RetryLater(h).latest = h.latest
      BY <3>1 DEF RetryLater, Entries
    <3> QED BY <3>1, <3>2, <3>3, ClearRetryFits
  <2>3. NotAhead(gate'[k], RunGen(k)', server[k].gen)
    BY <1>3, <2>2 DEF InOrder, NotAhead
  <2>4. ASSUME disruptions'["fail"] = 0, server[k].state # "gone"
        PROVE  Ordered(gate'[k], RunGen(k)', Stamped(k), Offered(k))
    <3>1. /\ \A s \in Stamped(k) : s <= RunGen(k) /\ s \in Nat
          /\ RunGen(k) <= gate[k].generation /\ RunGen(k) \in Nat /\ gate[k].generation \in Nat
          /\ g.generation = gate[k].generation /\ g.generation # 0
      BY <1>1, <1>4, <2>4, Numbers DEF Ordered
    <3>2. \A s \in Stamped(k) : s <= g.generation
      BY <3>1
    <3> QED BY <2>2, <3>1, <3>2 DEF Ordered
  <2>5. EntryInOrder(k)
    BY <1>3, <2>3, <2>4 DEF EntryInOrder
  <2> QED BY <1>5, <1>7, <2>1, <2>5
<1> QED BY <1>0, <1>6, <1>7 DEF Finish, NewDrain

LEMMA RunInOrder ==
  ASSUME IInv, IInv', FInv, NEW r \in Runs, SkipPatch(r) \/ Patch(r) \/ Throw(r)
  PROVE  FInv'
<1> DEFINE d == drains[r]
<1>1. PICK result : Finish(r, result)
  BY DEF SkipPatch, Patch, Throw
<1>2. drains[r] # None /\ d \in Drains /\ UNCHANGED applied
  BY DEF SkipPatch, Patch, Throw, serverVars, IInv, Gated, DrainsTypeOK
<1>3. \A l \in Loops : loops'[l].todo = loops[l].todo
  <2>1. \A l \in Loops : loops[l] \in [todo : SUBSET Listed, wait : Runs \cup {None}]
    BY DEF IInv, Queues
  <2> QED BY <1>1, <2>1 DEF Finish
<1>4. \A j \in Keys : EntryInOrder(j)
  <2>1. CASE SkipPatch(r)
    <3>1. Finish(r, Result(d.cond)) /\ Result(d.cond) # "failed" /\ UNCHANGED disruptions
      BY <2>1 DEF SkipPatch, Result
    <3> QED BY <1>2, <3>1, FinishInOrder
  <2>2. CASE Patch(r)
    <3>1. \/ Finish(r, Result(d.cond)) /\ Result(d.cond) # "failed"
          \/ Finish(r, "failed") /\ {k \in Keys : NameOf[k] = NameOf[d.key] /\ Live(k)} = {}
      BY <2>2 DEF Patch, Result
    <3>2. d.key \in Keys /\ UNCHANGED disruptions
      BY <1>2, <2>2 DEF Drains, Patch
    <3>3. \/ Finish(r, Result(d.cond)) /\ Result(d.cond) # "failed"
          \/ Finish(r, "failed") /\ server[d.key].state # "live"
      BY <3>1, <3>2 DEF Live
    <3> QED BY <1>2, <3>2, <3>3, FinishInOrder
  <2>3. CASE Throw(r)
    <3>1. Finish(r, "failed") /\ disruptions'["fail"] # 0
      BY <2>3, Failures, KindNames DEF Throw
    <3> QED BY <1>2, <3>1, FinishInOrder
  <2> QED BY <2>1, <2>2, <2>3
<1>5. disruptions'["fail"] = 0 => disruptions["fail"] = 0
  BY Failures, KindNames DEF SkipPatch, Patch, Throw
<1>6. ASSUME NEW j \in Keys PROVE Streams(j)
  <2>1. InOrder(j) /\ Stamped(j)' = Stamped(j)
    BY <1>2, StampedKept DEF FInv
  <2>2. CASE UNCHANGED <<server, watch>>
    <3>1. Offered(j)' \subseteq Offered(j) /\ (Undeleted(j) => Undeleted(j)')
      BY <1>3, <2>2 DEF Offered, Undeleted
    <3> QED BY <1>5, <2>1, <2>2, <3>1, StreamsKept DEF InOrder
  <2>3. ASSUME NEW k \in Keys, Live(k),
               server' = [server EXCEPT ![k].stat = [observed |-> d.obj.gen, cond |-> d.cond]],
               watch' = Notified(k, "MODIFIED", server'[k])
        PROVE  Streams(j)
    <3>1. /\ server \in [Keys -> Indexers] /\ server' \in [Keys -> Indexers] /\ WatchTypeOK
          /\ server[k].gen \in Nat /\ server[j].gen \in Nat
      BY Numbers DEF IInv, Env, ServerTypeOK
    <3>2. \A i \in Keys : server'[i].state = server[i].state /\ server'[i].gen = server[i].gen
      BY <2>3, <3>1 DEF Indexers
    <3>3. Object(server'[k]).gen = server'[k].gen /\ server'[k] \in Indexers
      BY <3>1 DEF Object
    <3>4. /\ \A i \in Keys : i # k => Offered(i)' \subseteq Offered(i) /\ (Undeleted(i) => Undeleted(i)')
          /\ \A o \in Offered(k)' : o \in Offered(k) \/ o.gen = server'[k].gen
          /\ Undeleted(k) => Undeleted(k)'
      BY <1>3, <2>3, <3>1, <3>3, NotifiedOffers
    <3>5. CASE j = k
      BY <1>5, <2>1, <2>3, <3>1, <3>2, <3>4, <3>5 DEF Streams, InOrder, Live
    <3>6. CASE j # k
      BY <1>5, <2>1, <3>1, <3>2, <3>4, <3>6 DEF Streams, InOrder
    <3> QED BY <3>5, <3>6
  <2> QED BY <2>2, <2>3 DEF SkipPatch, Patch, Throw, serverVars
<1> QED BY <1>4, <1>6, InOrderStep DEF FInv

(* A new process has recorded nothing, and is told what there is.          *)
LEMMA RestartInOrder == ASSUME IInv, IInv', FInv, Restart PROVE FInv'
<1> SUFFICES ASSUME NEW j \in Keys PROVE InOrder(j)'
  BY DEF FInv
<1>1. /\ UNCHANGED <<server, applied>> /\ gate'[j] = NoEntry
      /\ watch'[j] = IF Live(j) THEN <<[phase |-> "ADDED", obj |-> Object(server[j])]>> ELSE <<>>
      /\ \A l \in Loops : loops'[l].todo = {}
  BY DEF Restart, Boot
<1>2. InOrder(j) /\ server[j].gen \in Nat
  BY Numbers DEF FInv
<1>3. /\ NoEntry.generation = 0 /\ NoEntry.run = None
      /\ NoEntry.pending = None /\ NoEntry.latest = None
  BY DEF NoEntry
<1>4. Undeleted(j)' /\ \A o \in Offered(j)' : Live(j) /\ o = Object(server[j])
  <2>1. CASE Live(j)
    <3> DEFINE e == [phase |-> "ADDED", obj |-> Object(server[j])]
    <3>1. watch'[j] = <<e>>
      BY <1>1, <2>1
    <3>2. e.phase # "DELETED" /\ e.obj = Object(server[j])
      OBVIOUS
    <3> HIDE DEF e
    <3>3. \A i \in 1..Len(watch'[j]) : watch'[j][i] = e
      BY <3>1
    <3> QED BY <1>1, <2>1, <3>2, <3>3 DEF Undeleted, Offered
  <2>2. CASE ~Live(j)
    <3>1. watch'[j] = <<>>
      BY <1>1, <2>2
    <3>2. Len(watch'[j]) = 0
      BY <3>1
    <3> QED BY <1>1, <3>2 DEF Undeleted, Offered
  <2> QED BY <2>1, <2>2
<1>5. \A o \in Offered(j)' : o.gen = server[j].gen /\ server[j].state = "live"
  BY <1>4 DEF Object, Live
<1>6. Stamped(j)' = Stamped(j) /\ \A h \in Stamped(j) : h <= server[j].gen
  BY <1>1, <1>2, StampedKept DEF InOrder
<1>7. \A o \in Offered(j)' : o.gen <= server[j].gen
  BY <1>2, <1>5
<1>8. NotAhead(gate'[j], RunGen(j)', server[j].gen) /\ Unborn(gate'[j])
  BY <1>1, <1>3 DEF NotAhead, Unborn
<1>9. Ordered(gate'[j], RunGen(j)', Stamped(j)', Offered(j)')
  BY <1>1, <1>3, <1>5, <1>6 DEF Ordered
<1>10. server[j].state = "unborn" => Offered(j)' = {}
  BY <1>5
<1> QED BY <1>1, <1>4, <1>6, <1>7, <1>8, <1>9, <1>10 DEF InOrder

LEMMA InitInOrder == Init => FInv
<1> SUFFICES ASSUME Init, NEW j \in Keys PROVE InOrder(j)
  BY DEF FInv
<1>1. /\ server[j].state = "unborn" /\ gate[j] = NoEntry /\ watch[j] = <<>>
      /\ \A l \in Loops : loops[l].todo = {}
      /\ \A n \in Names, p \in 1..Parts : applied[n][p] = None
  BY DEF Init
<1>2. Len(watch[j]) = 0
  BY <1>1
<1>3. Undeleted(j) /\ Offered(j) = {}
  BY <1>1, <1>2 DEF Undeleted, Offered
<1>4. Stamped(j) = {}
  <2>1. \A g \in Gens : [key |-> j, gen |-> g] # None
    BY NoneAssumption DEF Stamps
  <2> QED BY <1>1, <2>1 DEF Stamped
<1>5. /\ NoEntry.generation = 0 /\ NoEntry.run = None
      /\ NoEntry.pending = None /\ NoEntry.latest = None
  BY DEF NoEntry
<1> QED BY <1>1, <1>3, <1>4, <1>5 DEF InOrder, NotAhead, Unborn, Ordered

LEMMA StutterInOrder == ASSUME FInv, UNCHANGED vars PROVE FInv'
<1> SUFFICES ASSUME NEW j \in Keys PROVE InOrder(j)'
  BY DEF FInv
<1>1. UNCHANGED <<server, applied, watch, gate, drains, loops, disruptions>>
  BY DEF vars
<1>2. Stamped(j)' = Stamped(j) /\ Offered(j)' = Offered(j) /\ RunGen(j)' = RunGen(j)
      /\ (Undeleted(j) => Undeleted(j)')
  BY <1>1 DEF Stamped, Offered, RunGen, Undeleted
<1> QED BY <1>1, <1>2 DEF FInv, InOrder

LEMMA NextInOrder == IInv /\ IInv' /\ FInv /\ [Next]_vars => FInv'
<1> SUFFICES ASSUME IInv, IInv', FInv, [Next]_vars PROVE FInv'
  OBVIOUS
<1>1. ASSUME NEW k \in Keys,
             \/ Create(k) \/ ChangeSpec(k) \/ WorkerStatus(k) \/ Delete(k)
             \/ Deliver(k) \/ RetryFires(k)
      PROVE  FInv'
  BY <1>1, ServerInOrder, DeliverInOrder, RetryInOrder
<1>2. CASE \/ \E n \in Names, p \in 1..Parts : CollectGarbage(n, p)
           \/ CreateSecret \/ RemoveSecret
  BY <1>2, ClusterInOrder
<1>3. ASSUME NEW l \in Loops, List(l) \/ Resync(l) PROVE FInv'
  BY <1>3, OperatorInOrder, ResyncInOrder
<1>4. ASSUME NEW r \in Runs, RunStep(r) PROVE FInv'
  BY <1>4, OperatorInOrder, ApplyInOrder, RunInOrder DEF RunStep
<1>5. CASE Close
  BY <1>5, OperatorInOrder
<1>6. CASE Restart
  BY <1>6, RestartInOrder
<1>7. CASE UNCHANGED vars
  BY <1>7, StutterInOrder
<1> QED BY <1>1, <1>2, <1>3, <1>4, <1>5, <1>6, <1>7 DEF Next

(* "A stale generation would overwrite newer desired state" (gate.ts:109):  *)
(* until a reconcile fails, no resource of an Indexer that exists goes back *)
(* to an older generation, whatever is delivered late, listed early,        *)
(* retried, or lost with the process.                                       *)
THEOREM ForwardHolds == Spec => ForwardUnlessFailed
<1>1. IInv /\ FInv /\ [Next]_vars =>
        [\A n \in Names, p \in 1..Parts :
           (/\ disruptions["fail"] = 0
            /\ applied[n][p] # None /\ applied'[n][p] # None
            /\ applied'[n][p].key = applied[n][p].key
            /\ Live(applied[n][p].key))
           => applied'[n][p].gen >= applied[n][p].gen]_vars
  <2> SUFFICES ASSUME IInv, FInv, [Next]_vars, NEW n \in Names, NEW p \in 1..Parts,
                      disruptions["fail"] = 0, applied[n][p] # None, applied'[n][p] # None,
                      applied'[n][p].key = applied[n][p].key, Live(applied[n][p].key)
               PROVE  applied'[n][p].gen >= applied[n][p].gen
    OBVIOUS
  <2>1. applied \in [Names -> [1..Parts -> Stamps \cup {None}]] /\ applied[n][p] \in Stamps
    BY DEF IInv, Env, ServerTypeOK
  <2>2. applied[n][p].gen \in Nat
    BY <2>1, BoundsAssumption DEF Stamps, Gens
  <2>3. CASE applied'[n][p] = applied[n][p]
    BY <2>2, <2>3
  <2>4. ASSUME NEW r \in Runs, Apply(r), applied'[n][p] # applied[n][p]
        PROVE  applied'[n][p].gen >= applied[n][p].gen
    <3> DEFINE d == drains[r]
    <3>1. d \in Drains /\ d # None /\ d.key \in Keys /\ gate[d.key].run = r /\ r # None
      BY <2>4, NoneAssumption DEF Apply, IInv, Gated, DrainsTypeOK, Drains, OneRun
    <3>2. applied'[n][p] = [key |-> d.key, gen |-> d.obj.gen]
      <4>1. applied' = [applied EXCEPT ![NameOf[d.key]][d.part + 1] =
                          [key |-> d.key, gen |-> d.obj.gen]]
        BY <2>4 DEF Apply
      <4> HIDE DEF d
      <4> QED BY <2>1, <2>4, <4>1
    <3>3. applied[n][p].key = d.key
      BY <3>2
    <3>4. applied[n][p] = [key |-> d.key, gen |-> applied[n][p].gen]
      BY <2>1, <3>3 DEF Stamps
    <3>5. applied[n][p].gen \in Stamped(d.key)
      BY <2>1, <3>4 DEF Stamped, Stamps
    <3>6. Ordered(gate[d.key], RunGen(d.key), Stamped(d.key), Offered(d.key))
      BY <3>1, <3>3 DEF FInv, InOrder, Live
    <3>7. RunGen(d.key) = d.obj.gen /\ d.obj.gen \in Nat
      BY <3>1, BoundsAssumption DEF RunGen, Drains, Objs, Gens
    <3> QED BY <2>2, <3>1, <3>2, <3>5, <3>6, <3>7 DEF Ordered
  <2>5. CASE \E m \in Names, q \in 1..Parts : CollectGarbage(m, q)
    BY <2>1, <2>2, <2>5 DEF CollectGarbage
  <2>6. CASE UNCHANGED applied
    BY <2>2, <2>6
  <2>7. \/ UNCHANGED applied \/ (\E r \in Runs : Apply(r))
        \/ \E m \in Names, q \in 1..Parts : CollectGarbage(m, q)
    BY DEF Next, RunStep, Create, ChangeSpec, WorkerStatus, Delete, Deliver, RetryFires,
           CreateSecret, RemoveSecret, List, Resync, Check, SkipPatch, Patch, Throw,
           Close, Restart, Boot, serverVars, vars
  <2> QED BY <2>3, <2>4, <2>5, <2>6, <2>7
<1>2. Spec => []FInv
  BY InitInOrder, NextInOrder, Inductive, PTL DEF Spec
<1> QED BY <1>1, <1>2, Inductive, PTL DEF Spec, ForwardUnlessFailed

=============================================================================
