---------------------------- MODULE WorkerProofs ----------------------------
(***************************************************************************)
(* What a schema's rows mean, for any configs, endpoints, patches, changes *)
(* of the spec and boots cut off anywhere; the types; and the gauge of the *)
(* announcements.                                                          *)
(***************************************************************************)
EXTENDS Worker, TLAPS

(* _meta says what the rows and the index of a layout-2 schema are, and a   *)
(* process past its bootstrap runs under what _meta says.                   *)
MetaInv ==
  /\ layout \in {"none", "1", "2"} /\ OneOrigin(origins) /\ DOMAIN meta \subseteq Keys
  /\ layout = "none" => meta = Absent /\ index = "none" /\ origins = {}
  /\ layout = "2" =>
       /\ {"contract", "partition_blocks"} \subseteq DOMAIN meta
       /\ \A o \in origins : o.contract = meta["contract"] /\ o.span = meta["partition_blocks"]
       /\ index = IndexFor(IF "address_indexes" \in DOMAIN meta
                           THEN meta["address_indexes"] ELSE Legacy["address_indexes"])
  /\ pc \in {"cursor", "start", "run"} => layout = "2" /\ meta = Meta(cfg)

LEMMA MetaValues ==
  ASSUME NEW c
  PROVE  /\ DOMAIN Meta(c) = Keys
         /\ Meta(c)["contract"] = c.contract /\ Meta(c)["partition_blocks"] = c.span
         /\ Meta(c)["address_indexes"] = c.indexes
BY DEF Meta, Keys

LEMMA InitMeta == Init => MetaInv
<1> SUFFICES ASSUME Init PROVE MetaInv
  OBVIOUS
<1>1. PICK s \in Schemas : layout = s.layout /\ meta = s.meta /\ index = s.index /\ origins = s.origins
  BY DEF Init
<1>2. pc = "down"
  BY DEF Init
<1>3. QED BY <1>1, <1>2, SchemasAssumption DEF MetaInv

(* The boot that is let through writes what it asks for, and that is what   *)
(* was there already.                                                       *)
LEMMA BuildKeeps ==
  ASSUME MetaInv, ~Refused(cfg), Build
  PROVE  /\ layout' = "2" /\ meta' = Meta(cfg) /\ origins' = origins
         /\ \A o \in origins : o.contract = cfg.contract /\ o.span = cfg.span
         /\ index' = IndexFor(cfg.indexes)
<1>1. /\ layout # "1" /\ Recorded(cfg) = Meta(cfg) /\ layout' = "2" /\ meta' = Recorded(cfg)
      /\ index' = IF index # "none" THEN index ELSE IndexFor(cfg.indexes)
      /\ origins' = origins
  BY DEF Refused, Build
<1>2. \A key \in Keys : /\ key \in DOMAIN meta => Recorded(cfg)[key] = meta[key]
                        /\ key \notin DOMAIN meta => Recorded(cfg)[key] = First(key, Meta(cfg)[key])
  BY DEF Recorded
<1>3. CASE layout = "none"
  BY <1>1, <1>3 DEF MetaInv
<1>4. CASE layout = "2"
  <2>1. meta["contract"] = cfg.contract /\ meta["partition_blocks"] = cfg.span
    BY <1>1, <1>2, <1>4, MetaValues DEF MetaInv, Keys
  <2>2. \A o \in origins : o.contract = cfg.contract /\ o.span = cfg.span
    BY <1>4, <2>1 DEF MetaInv
  <2>3. (IF "address_indexes" \in DOMAIN meta
         THEN meta["address_indexes"] ELSE Legacy["address_indexes"]) = cfg.indexes
    <3>1. CASE "address_indexes" \in DOMAIN meta
      BY <1>1, <1>2, <3>1, MetaValues DEF Keys
    <3>2. CASE "address_indexes" \notin DOMAIN meta
      <4>1. Recorded(cfg)["address_indexes"] = Legacy["address_indexes"]
        BY <1>2, <1>4, <3>2 DEF Keys, First, Existed, Legacy
      <4>2. QED BY <1>1, <3>2, <4>1, MetaValues
    <3>3. QED BY <3>1, <3>2
  <2>4. index = IndexFor(cfg.indexes)
    BY <1>4, <2>3 DEF MetaInv
  <2>5. QED BY <1>1, <2>2, <2>4
<1>5. QED BY <1>1, <1>3, <1>4 DEF MetaInv

(* A step that leaves the schema alone, and past the bootstrap the config.  *)
LEMMA MetaKept ==
  ASSUME MetaInv, UNCHANGED <<layout, meta, index, origins>>,
         pc' \in {"cursor", "start", "run"} =>
           pc \in {"cursor", "start", "run"} /\ cfg' = cfg
  PROVE  MetaInv'
BY DEF MetaInv, Meta

LEMMA MetaStep == MetaInv /\ [Next]_vars => MetaInv'
<1> SUFFICES ASSUME MetaInv, [Next]_vars PROVE MetaInv'
  OBVIOUS
<1> USE DEF schema, process, pods, applied, world, cluster
<1>1. CASE Bootstrap
  <2>1. /\ ~Refused(cfg) /\ Build
        /\ (pc' = "cursor" /\ cfg' = cfg) \/ pc' = "down"
    BY <1>1 DEF Bootstrap, End
  <2>2. /\ layout' = "2" /\ meta' = Meta(cfg) /\ origins' = origins
        /\ \A o \in origins : o.contract = cfg.contract /\ o.span = cfg.span
        /\ index' = IndexFor(cfg.indexes)
    BY <2>1, BuildKeeps
  <2>3. /\ DOMAIN meta' = Keys /\ meta'["contract"] = cfg.contract
        /\ meta'["partition_blocks"] = cfg.span /\ meta'["address_indexes"] = cfg.indexes
    BY <2>2, MetaValues
  <2>4. pc' \in {"cursor", "start", "run"} => meta' = Meta(cfg')
    BY <2>1, <2>2
  <2>5. QED BY <2>2, <2>3, <2>4 DEF MetaInv, Keys, Meta
<1>2. CASE RoundDone
  <2>1. /\ pc = "run" /\ origins' = origins \cup {cfg}
        /\ UNCHANGED <<layout, meta, index, pc, cfg>>
    BY <1>2 DEF RoundDone
  <2>2. layout = "2" /\ meta = Meta(cfg)
    BY <2>1 DEF MetaInv
  <2>3. \A o \in origins' : o.contract = meta["contract"] /\ o.span = meta["partition_blocks"]
    BY <2>1, <2>2, MetaValues DEF MetaInv
  <2>4. OneOrigin(origins')
    BY <2>3 DEF OneOrigin
  <2>5. QED BY <2>1, <2>2, <2>3, <2>4 DEF MetaInv, Meta
<1>3. CASE ChangeSpec \/ ChangeEndpoint \/ Operator \/ Sync
  BY <1>3, MetaKept DEF ChangeSpec, ChangeEndpoint, Operator, ApplyConfigMap, ApplyDeployment, Sync
<1>4. CASE Kubelet \/ Crash \/ Shutdown
  BY <1>4, MetaKept DEF Kubelet, StartPod, EndPod, Terminate, Boot, Crash, Shutdown, End
<1>5. CASE FilterRpcs \/ ResolveAbis \/ Refuse \/ InitCursor \/ Fatal \/ Start
  BY <1>5, MetaKept DEF FilterRpcs, ResolveAbis, Refuse, InitCursor, Fatal, Start, End
<1>6. CASE RoundFails \/ Push \/ \E p \in patches : Land(p) \/ Lose(p)
  BY <1>6, MetaKept DEF RoundFails, Push, Land, Lose
<1>7. CASE \E e \in Endpoints : Subscribed(e) \/ Drop(e) \/ Reconnect(e)
  BY <1>7, MetaKept DEF Subscribed, Drop, Reconnect
<1>8. CASE UNCHANGED vars
  BY <1>8, MetaKept DEF vars
<1>9. QED
  BY <1>1, <1>2, <1>3, <1>4, <1>5, <1>6, <1>7, <1>8 DEF Next, Booting, Round

(* Whatever configs come and go, whatever a boot finds and wherever it is   *)
(* cut off (db.ts:38-69, ddl.ts:170-174): the rows of a schema are of one   *)
(* contract and one span, and its address index is what the running worker  *)
(* takes it for.                                                            *)
THEOREM OneMeaningHolds == Spec => []OneMeaning
<1>1. MetaInv => OneMeaning
  BY MetaValues, Zenon DEF MetaInv, OneMeaning, Keys
<1>2. QED BY <1>1, InitMeta, MetaStep, PTL DEF Spec

-----------------------------------------------------------------------------
(* The types, for which a pod needs the ConfigMap that is applied before    *)
(* the Deployment, and the sockets, which only a running process has.       *)
LifeInv ==
  /\ TypeOK
  /\ rendering # None \/ template # None \/ pod # None => configMap # None
  /\ gauge = Connected(sock)
  /\ pc # "run" => sock = Closed
  /\ pc \in {"abis", "bootstrap", "cursor", "start", "run"} => rpcs # {}

LEMMA InitLife == Init => LifeInv
<1> SUFFICES ASSUME Init PROVE LifeInv
  OBVIOUS
<1>1. endpoint \in [Endpoints -> Answers]
  BY WorkerAssumption DEF Init
<1>2. ~Connected(sock)
  BY DEF Init, Connected, Closed
<1>3. 0 \in 0 .. MaxChanges /\ 0 \in 0 .. MaxOutages /\ 0 \in 0 .. MaxFaults
  BY WorkerAssumption
<1>4. sock \in [Endpoints -> {"closed", "opening", "open", "waiting"}]
  BY DEF Init, Closed
<1>5. TypeOK
  <2>1. {rendering, configMap, template, pod, volume, cfg} \subseteq Configs \cup {None}
    BY DEF Init
  <2>2. QED BY <1>1, <1>3, <1>4, <2>1 DEF Init, TypeOK, Phases
<1>6. gauge = Connected(sock)
  BY <1>2 DEF Init, Connected
<1>7. QED BY <1>5, <1>6 DEF Init, LifeInv

(* The end of a process.                                                   *)
LEMMA EndLife ==
  ASSUME LifeInv, End, faults' \in 0 .. MaxFaults, cr' \in Phases \cup {None},
         patches' \subseteq Phases,
         UNCHANGED cluster
  PROVE  LifeInv'
<1>1. ~Connected(sock') /\ sock' \in [Endpoints -> {"closed", "opening", "open", "waiting"}]
  BY DEF End, Connected, Closed
<1>2. QED BY <1>1 DEF LifeInv, TypeOK, End, Phases, Connected, cluster, applied, pods, world

(* A step on the way from one station of the boot to the next.              *)
LEMMA BootLife ==
  ASSUME LifeInv, pc \notin {"down", "run"}, UNCHANGED <<cluster, status, faults, cfg, stopping, sockets>>,
         pc' \in {"rpcs", "abis", "bootstrap", "cursor", "start", "fatal"},
         pc' \in {"abis", "bootstrap", "cursor", "start"} => rpcs' # {},
         rpcs' \subseteq Endpoints, phase' \in Phases
  PROVE  LifeInv'
BY DEF LifeInv, TypeOK, Connected, Closed, cluster, applied, pods, world, status, sockets

(* One connection opens or closes, and the gauge with it.                   *)
LEMMA ConnLife ==
  ASSUME LifeInv, NEW e \in Endpoints, sock[e] # "closed",
         NEW state \in {"opening", "open", "waiting"}, SetConn(e, state),
         faults' \in 0 .. MaxFaults, UNCHANGED <<cluster, status, process>>
  PROVE  LifeInv'
<1>1. pc = "run"
  BY DEF LifeInv, Closed
<1>2. sock' = [sock EXCEPT ![e] = state] /\ gauge' = Connected(sock')
  BY DEF SetConn, LifeInv
<1>3. sock' \in [Endpoints -> {"closed", "opening", "open", "waiting"}]
  BY <1>2 DEF LifeInv, TypeOK
<1>4. Connected(sock') \in BOOLEAN
  BY DEF Connected
<1>5. QED
  BY <1>1, <1>2, <1>3, <1>4 DEF LifeInv, TypeOK, Connected, cluster, applied, pods, world, status, process

LEMMA LifeStep == LifeInv /\ [Next]_vars => LifeInv'
<1> SUFFICES ASSUME LifeInv, [Next]_vars PROVE LifeInv'
  OBVIOUS
<1> USE DEF cluster, applied, pods, world, status, process, sockets, Connected
<1>0. \A n \in Nat : \A m \in 0 .. n : m < n => m + 1 \in 0 .. n
  OBVIOUS
<1>f. (UNCHANGED faults \/ Fault) => faults' \in 0 .. MaxFaults
  BY <1>0, WorkerAssumption DEF LifeInv, TypeOK, Fault
<1>1. CASE ChangeSpec
  BY <1>0, <1>1, WorkerAssumption DEF ChangeSpec, LifeInv, TypeOK
<1>2. CASE ChangeEndpoint
  <2>1. endpoint' \in [Endpoints -> Answers] /\ outages' \in 0 .. MaxOutages
    BY <1>0, <1>2, WorkerAssumption DEF ChangeEndpoint, LifeInv, TypeOK
  <2>2. QED BY <1>2, <2>1 DEF ChangeEndpoint, LifeInv, TypeOK
<1>3. CASE ApplyConfigMap
  BY <1>3, WorkerAssumption DEF ApplyConfigMap, LifeInv, TypeOK
<1>4. CASE ApplyDeployment
  BY <1>4, <1>f DEF ApplyDeployment, LifeInv, TypeOK, Hash
<1>5. CASE StartPod \/ EndPod \/ Sync
  <2>1. CASE StartPod
    BY <2>1 DEF StartPod, LifeInv, TypeOK
  <2>2. CASE EndPod
    BY <2>2 DEF EndPod, LifeInv, TypeOK
  <2>3. CASE Sync
    BY <2>3 DEF Sync, LifeInv, TypeOK
  <2>4. QED BY <1>5, <2>1, <2>2, <2>3
<1>6. CASE Boot
  BY <1>6 DEF Boot, LifeInv, TypeOK
<1>7. CASE Crash \/ Fatal \/ Shutdown
  <2>1. End /\ UNCHANGED <<cluster, patches>> /\ (UNCHANGED cr \/ cr' = "Degraded")
        /\ (UNCHANGED faults \/ Fault)
    BY <1>7 DEF Crash, Fatal, Shutdown, ReportFatal
  <2>2. QED BY <1>f, <2>1, EndLife DEF LifeInv, TypeOK, Phases
<1>8. CASE Terminate
  <2>1. CASE pc = "run"
    BY <1>8, <2>1 DEF Terminate, LifeInv, TypeOK
  <2>2. CASE pc # "run"
    <3>1. End /\ UNCHANGED <<cluster, status, faults>>
      BY <1>8, <2>2 DEF Terminate
    <3>2. QED BY <3>1, EndLife DEF LifeInv, TypeOK
  <2>3. QED BY <2>1, <2>2
<1>9. CASE FilterRpcs
  <2>1. cfg \in Configs /\ Usable \subseteq Endpoints
    BY <1>9, WorkerAssumption DEF FilterRpcs, LifeInv, TypeOK, Usable
  <2>2. CASE Usable = {}
    BY <1>9, <2>2, BootLife DEF FilterRpcs, LifeInv, TypeOK, Phases
  <2>3. CASE Usable # {}
    BY <1>9, <2>1, <2>3, BootLife DEF FilterRpcs, LifeInv, TypeOK
  <2>4. QED BY <2>2, <2>3
<1>10. CASE ResolveAbis \/ Refuse \/ InitCursor
  BY <1>10, BootLife DEF ResolveAbis, Refuse, InitCursor, LifeInv, TypeOK
<1>11. CASE Bootstrap
  <2>1. CASE pc' = "cursor" /\ UNCHANGED <<faults, cfg, rpcs, phase, stopping, sockets>>
    BY <1>11, <2>1, BootLife DEF Bootstrap, LifeInv, TypeOK
  <2>2. CASE Fault /\ End
    BY <1>11, <1>f, <2>2, EndLife DEF Bootstrap, LifeInv, TypeOK
  <2>3. QED BY <1>11, <2>1, <2>2 DEF Bootstrap
<1>12. CASE Start
  <2>1. sock' \in [Endpoints -> {"closed", "opening"}] /\ ~gauge
    BY <1>12 DEF Start, LifeInv, Closed
  <2>2. ~Connected(sock') /\ sock' \in [Endpoints -> {"closed", "opening", "open", "waiting"}]
    BY <2>1
  <2>3. QED BY <1>12, <2>1, <2>2 DEF Start, LifeInv, TypeOK
<1>13. CASE RoundDone \/ RoundFails \/ Push \/ \E p \in patches : Land(p) \/ Lose(p)
  <2>1. CASE RoundDone \/ RoundFails
    <3>1. phase' \in Phases /\ UNCHANGED <<cluster, status, pc, cfg, rpcs, stopping, sockets>>
      BY <2>1 DEF RoundDone, RoundFails, Phases
    <3>2. faults' \in 0 .. MaxFaults
      BY <1>f, <2>1 DEF RoundDone, RoundFails
    <3>3. QED BY <3>1, <3>2 DEF LifeInv, TypeOK
  <2>2. CASE Push
    BY <2>2 DEF Push, LifeInv, TypeOK
  <2>3. ASSUME NEW p \in patches, Land(p) \/ Lose(p) PROVE LifeInv'
    <3>1. /\ cr' \in Phases \cup {None} /\ patches' \subseteq Phases
          /\ UNCHANGED <<cluster, process, sockets>>
      BY <2>3 DEF Land, Lose, LifeInv, TypeOK
    <3>2. faults' \in 0 .. MaxFaults
      BY <1>f, <2>3 DEF Land, Lose
    <3>3. QED BY <3>1, <3>2 DEF LifeInv, TypeOK
  <2>4. QED BY <1>13, <2>1, <2>2, <2>3
<1>14. ASSUME NEW e \in Endpoints, Subscribed(e) \/ Drop(e) \/ Reconnect(e) PROVE LifeInv'
  BY <1>14, <1>f, ConnLife DEF Subscribed, Drop, Reconnect
<1>15. CASE UNCHANGED vars
  BY <1>15 DEF vars, LifeInv, TypeOK
<1>16. QED
  BY <1>1, <1>2, <1>3, <1>4, <1>5, <1>6, <1>7, <1>8, <1>9, <1>10, <1>11, <1>12, <1>13, <1>14, <1>15
     DEF Next, Operator, Kubelet, Booting, Round

LEMMA LifeInvariant == Spec => []LifeInv
BY InitLife, LifeStep, PTL DEF Spec

(* Every variable keeps its type wherever a process ends: whatever boots    *)
(* finds a config of the operator's.                                        *)
THEOREM WorkerTyped == Spec => []TypeOK
<1>1. LifeInv => TypeOK
  BY DEF LifeInv
<1>2. QED BY <1>1, LifeInvariant, PTL

(* For any number of announcing endpoints, and whichever drop, reconnect or *)
(* answer late (ws.ts:51-57): the gauge tells whether one is open.          *)
THEOREM GaugeToldHolds == Spec => []GaugeTold
<1>1. LifeInv => GaugeTold
  BY DEF LifeInv, GaugeTold, Connected, Closed
<1>2. QED BY <1>1, LifeInvariant, PTL

=============================================================================
