------------------------------- MODULE Worker -------------------------------
(***************************************************************************)
(* The life of one Indexer's worker around its ingest loop: the ConfigMap  *)
(* and the Deployment the operator renders for it (operator/src/           *)
(* resources.ts, the end of reconcile.ts), the pod that mounts them, the   *)
(* boot of its process (worker/src/main.ts) with the schema it may find    *)
(* (bootstrap in db.ts, ddl.ts), the announcements it subscribes to        *)
(* (ws.ts), and what it tells of itself on the Indexer (crstatus.ts,       *)
(* status.ts).                                                             *)
(*                                                                         *)
(* A config is the record of what may not change in a schema's life; two   *)
(* specs may render the same one. What a round of ingest does is Ingest's; *)
(* here it ends well or badly. A status patch is a request on its way, and *)
(* the server takes them in any order.                                     *)
(***************************************************************************)
EXTENDS Integers, FiniteSets

CONSTANTS
  Configs,    \* [contract, span, indexes, rpc, announce]: what specs render to
  Schemas,    \* the schemas there may be at first
  Endpoints,  \* the rpc endpoints
  Websockets, \* those whose rpc url is a ws url: splitRpcUrls
  AtFirst,    \* what they may be at first
  MaxPatches, \* status patches on their way                      (bound)
  MaxChanges, \* changes of the spec                              (bound)
  MaxOutages, \* changes of an endpoint                           (bound)
  MaxFaults,  \* crashes and failed calls                         (bound)
  None

(* What eth_chainId gives of an endpoint: the network's chain, another one, *)
(* or no number at all.                                                     *)
Answers == {"ours", "other", "down"}

Absent == [k \in {} |-> None]

(* What a schema records: the contract of its table, partition_blocks and  *)
(* address_indexes, each fixed at the first boot that writes it.           *)
Keys == {"contract", "partition_blocks", "address_indexes"}
Legacy == [address_indexes |-> FALSE] \* LEGACY_META
Meta(c) == [contract |-> c.contract, partition_blocks |-> c.span, address_indexes |-> c.indexes]

(* A table's rows under one contract and one span.                          *)
OneOrigin(rows) == \A a, b \in rows : a.contract = b.contract /\ a.span = b.span
IndexFor(wanted) == IF wanted THEN "address" ELSE "plain"

ASSUME WorkerAssumption ==
  /\ \A c \in Configs : {"contract", "span", "indexes", "rpc", "announce"} = DOMAIN c
                        /\ c.indexes \in BOOLEAN /\ c.rpc \cup c.announce \subseteq Endpoints
  /\ MaxPatches \in Nat \ {0} /\ MaxChanges \in Nat /\ MaxOutages \in Nat /\ MaxFaults \in Nat
  /\ AtFirst \subseteq [Endpoints -> Answers] /\ Websockets \subseteq Endpoints
  /\ None \notin Configs

(* What earlier versions left behind: nothing, a schema of layout 2, whose  *)
(* _meta may lack the keys added since, or one of layout 1.                 *)
ASSUME SchemasAssumption ==
  \A s \in Schemas :
    /\ s.layout \in {"none", "1", "2"} /\ OneOrigin(s.origins)
    /\ DOMAIN s.meta \subseteq Keys
    /\ s.layout = "none" => s.meta = Absent /\ s.index = "none" /\ s.origins = {}
    /\ s.layout = "2" =>
         /\ {"contract", "partition_blocks"} \subseteq DOMAIN s.meta
         /\ \A o \in s.origins : /\ o.contract = s.meta["contract"]
                                 /\ o.span = s.meta["partition_blocks"]
         /\ s.index = IndexFor(IF "address_indexes" \in DOMAIN s.meta
                               THEN s.meta["address_indexes"] ELSE Legacy["address_indexes"])

VARIABLES
  \* the cluster
  spec,       \* the config the Indexer's spec asks for
  rendering,  \* the one a reconcile is applying
  configMap, template, \* what is applied of it: the document, and the annotated hash
  pod,        \* the template of the pod, None without one
  volume,     \* the ConfigMap as mounted in the pod
  endpoint,   \* per endpoint: ours, other (chain), down
  cr,         \* the worker's fields of the Indexer's status
  patches,    \* status patches on their way
  changes, outages, faults,
  \* the schema
  layout,     \* none, "1", or "2"
  meta,       \* the table _meta
  index,      \* the address index built: none, plain, address
  cursor,     \* whether _cursor has its row
  origins,    \* history: the configs under which rows were written
  \* the process
  pc,         \* down, rpcs, abis, bootstrap, cursor, start, run, fatal
  cfg, rpcs,
  phase,      \* PhaseTracker: the phase, its error and blocks with it
  stopping,   \* ctrl.signal
  sock,       \* per announcing endpoint: closed, opening, open, waiting
  gauge       \* metrics.wsConnected

applied == <<rendering, configMap, template>>
pods == <<pod, volume>>
world == <<endpoint, outages>>
cluster == <<spec, changes, applied, pods, world>>
status == <<cr, patches>>
schema == <<layout, meta, index, cursor, origins>>
process == <<pc, cfg, rpcs, phase, stopping>>
sockets == <<sock, gauge>>
vars == <<cluster, status, faults, schema, process, sockets>>

Fault == faults < MaxFaults /\ faults' = faults + 1

Closed == [e \in Endpoints |-> "closed"]
\* Live stands for Backfilling, too: the rounds go well.
Phases == {"Provisioning", "Live", "Degraded"}

Init ==
  /\ spec \in Configs /\ rendering = None
  /\ configMap = None /\ template = None /\ pod = None /\ volume = None
  /\ endpoint \in AtFirst
  /\ cr = None /\ patches = {} /\ changes = 0 /\ outages = 0 /\ faults = 0
  /\ \E s \in Schemas : layout = s.layout /\ meta = s.meta /\ index = s.index /\ cursor = s.cursor
                        /\ origins = s.origins
  /\ pc = "down" /\ cfg = None /\ rpcs = {} /\ phase = "Provisioning" /\ stopping = FALSE
  /\ sock = Closed /\ gauge = FALSE

-----------------------------------------------------------------------------
(* The cluster. The user changes the spec; an endpoint fails, moves to     *)
(* another chain or is well again.                                         *)
ChangeSpec ==
  /\ changes < MaxChanges /\ changes' = changes + 1
  /\ spec' \in Configs \ {spec}
  /\ UNCHANGED <<applied, pods, world, status, faults, schema, process, sockets>>

ChangeEndpoint ==
  /\ outages < MaxOutages /\ outages' = outages + 1
  /\ \E e \in Endpoints : \E s \in Answers \ {endpoint[e]} :
       endpoint' = [endpoint EXCEPT ![e] = s]
  /\ UNCHANGED <<spec, changes, applied, pods, status, faults, schema, process, sockets>>

(* Mutant: a pod template that does not change with the config.            *)
HashOfNothing(c) == "template"

(* configHash of the worker's config, an annotation of the pod template.   *)
Hash(c) == c

(* reconcile applies the ConfigMap and then the Deployment.                *)
ApplyConfigMap ==
  /\ rendering = None
  /\ configMap # spec \/ template # Hash(spec)
  /\ rendering' = spec /\ configMap' = spec
  /\ UNCHANGED <<spec, changes, template, pods, world, status, faults, schema, process, sockets>>

ApplyDeployment ==
  /\ rendering # None
  /\ rendering' = None
  /\ \/ template' = Hash(rendering) /\ UNCHANGED faults
     \/ Fault /\ UNCHANGED template
  /\ UNCHANGED <<spec, changes, configMap, pods, world, status, schema, process, sockets>>

(* Recreate: the old pod has ended before the new one starts. The pod      *)
(* mounts the ConfigMap as it is then, under the annotation of the template.*)
StartPod ==
  /\ pod = None /\ template # None
  /\ pod' = template /\ volume' = configMap
  /\ UNCHANGED <<spec, changes, applied, world, status, faults, schema, process, sockets>>

EndPod ==
  /\ pod \notin {None, template} /\ pc = "down"
  /\ pod' = None /\ volume' = None
  /\ UNCHANGED <<spec, changes, applied, world, status, faults, schema, process, sockets>>

(* The kubelet brings the mounted file up to date in its own time.         *)
Sync ==
  /\ pod # None /\ volume # configMap
  /\ volume' = configMap
  /\ UNCHANGED <<spec, changes, applied, pod, world, status, faults, schema, process, sockets>>

-----------------------------------------------------------------------------
(* The process. Its end leaves nothing of it but patches on their way.     *)
End ==
  /\ pc' = "down" /\ cfg' = None /\ rpcs' = {} /\ phase' = "Provisioning" /\ stopping' = FALSE
  /\ sock' = Closed /\ gauge' = FALSE

Crash ==
  /\ pc # "down" /\ Fault /\ End
  /\ UNCHANGED <<cluster, status, schema>>

Boot ==
  /\ pc = "down" /\ pod # None
  /\ pc' = "rpcs" /\ cfg' = volume
  /\ UNCHANGED <<cluster, status, faults, schema, rpcs, phase, stopping, sockets>>

Usable == {e \in cfg.rpc : endpoint[e] = "ours"}

(* filterHealthyRpcs: with none left, Degraded and again in 30 s.          *)
FilterRpcs ==
  /\ pc = "rpcs"
  /\ IF Usable = {}
     THEN phase' = "Degraded" /\ UNCHANGED <<pc, rpcs>>
     ELSE rpcs' = Usable /\ pc' = "abis" /\ UNCHANGED phase
  /\ UNCHANGED <<cluster, status, faults, schema, cfg, stopping, sockets>>

(* The head for relative starts, and the ABIs: a failure ends the process. *)
ResolveAbis ==
  /\ pc = "abis"
  /\ pc' = "bootstrap"
  /\ UNCHANGED <<cluster, status, faults, schema, cfg, rpcs, phase, stopping, sockets>>

-----------------------------------------------------------------------------
(* bootstrap: one transaction. A schema with a _cursor and no layout 2 is  *)
(* refused, and so is any key that has another value.                      *)
Existed == layout # "none"

(* Mutant: a key added later takes whatever is asked.                      *)
FirstAsked(key, asked) == asked

First(key, asked) == IF Existed /\ key \in DOMAIN Legacy THEN Legacy[key] ELSE asked

Recorded(c) == [key \in Keys |->
  IF key \in DOMAIN meta THEN meta[key] ELSE First(key, Meta(c)[key])]

Refused(c) == layout = "1" \/ Recorded(c) # Meta(c)

Refuse ==
  /\ pc = "bootstrap" /\ Refused(cfg)
  /\ pc' = "fatal"
  /\ UNCHANGED <<cluster, status, faults, schema, cfg, rpcs, phase, stopping, sockets>>

(* buildEventTable: IF NOT EXISTS, and both kinds of index have one name.  *)
Build ==
  /\ layout' = "2" /\ meta' = Recorded(cfg)
  /\ index' = IF index # "none" THEN index ELSE IndexFor(cfg.indexes)
  /\ UNCHANGED <<cursor, origins>>

(* The COMMIT may be done and its answer lost: then the process ends.      *)
Bootstrap ==
  /\ pc = "bootstrap" /\ ~Refused(cfg)
  /\ Build
  /\ \/ /\ pc' = "cursor"
        /\ UNCHANGED <<faults, cfg, rpcs, phase, stopping, sockets>>
     \/ Fault /\ End
  /\ UNCHANGED <<cluster, status>>

InitCursor ==
  /\ pc = "cursor"
  /\ cursor' = TRUE
  /\ pc' = "start"
  /\ UNCHANGED <<cluster, status, faults, layout, meta, index, origins, cfg, rpcs, phase,
                 stopping, sockets>>

(* Mutant: the process ends without a word.                                *)
ReportNothing == UNCHANGED cr

(* reportFatalToCr: one patch, awaited, best effort; then exit.            *)
ReportFatal == cr' = "Degraded"

Fatal ==
  /\ pc = "fatal"
  /\ \/ ReportFatal /\ UNCHANGED faults
     \/ Fault /\ UNCHANGED cr
  /\ End
  /\ UNCHANGED <<cluster, patches, schema>>

-----------------------------------------------------------------------------
(* The subscription's connections.                                         *)
Connected(s) == \E e \in Endpoints : s[e] = "open"

(* Mutant: what was there before is read after the change.                 *)
SetConnLate(e, state) == sock' = [sock EXCEPT ![e] = state] /\ UNCHANGED gauge

(* setConn: the gauge is told only of the first and the last.              *)
SetConn(e, state) ==
  /\ sock' = [sock EXCEPT ![e] = state]
  /\ gauge' = IF Connected(sock) # Connected(sock') THEN Connected(sock') ELSE gauge

(* The reply to eth_subscribe, whatever it says.                           *)
Subscribed(e) ==
  /\ sock[e] = "opening" /\ endpoint[e] # "down"
  /\ SetConn(e, "open")
  /\ UNCHANGED <<cluster, status, faults, schema, process>>

(* onclose: wait 1 s, 2 s, ... 30 s. A connection also drops by itself.    *)
Drop(e) ==
  /\ sock[e] \in {"opening", "open"}
  /\ (endpoint[e] = "down" /\ UNCHANGED faults) \/ Fault
  /\ SetConn(e, "waiting")
  /\ UNCHANGED <<cluster, status, schema, process>>

Reconnect(e) ==
  /\ sock[e] = "waiting"
  /\ SetConn(e, "opening")
  /\ UNCHANGED <<cluster, status, faults, schema, process>>

-----------------------------------------------------------------------------
(* announceUrls: the announceRpc endpoints, and those of the rpcs that are *)
(* websockets, if they were healthy at boot.                               *)
Announcing == cfg.announce \cup (rpcs \cap Websockets)

(* Start: subscribe, begin to patch the status, take signals.              *)
Start ==
  /\ pc = "start"
  /\ pc' = "run"
  /\ sock' = [e \in Endpoints |-> IF e \in Announcing THEN "opening" ELSE "closed"]
  /\ patches' = patches \cup {phase}
  /\ UNCHANGED <<cluster, cr, faults, schema, cfg, rpcs, phase, stopping, gauge>>

(* The client falls back from one endpoint to the next, in order.          *)
Reachable == \E e \in rpcs : endpoint[e] # "down"

(* A round of runLoop: it writes rows under this config, or fails.         *)
RoundDone ==
  /\ pc = "run" /\ Reachable
  /\ phase' = "Live"
  /\ origins' = origins \cup {cfg}
  /\ UNCHANGED <<cluster, status, faults, layout, meta, index, cursor, pc, cfg, rpcs,
                 stopping, sockets>>

RoundFails ==
  /\ pc = "run"
  /\ (~Reachable /\ UNCHANGED faults) \/ Fault
  /\ phase' = "Degraded"
  /\ UNCHANGED <<cluster, status, schema, pc, cfg, rpcs, stopping, sockets>>

(* Every 10 s a patch, whatever became of the ones before.                 *)
Push ==
  /\ pc = "run"
  /\ phase \notin patches /\ Cardinality(patches) < MaxPatches
  /\ patches' = patches \cup {phase}
  /\ UNCHANGED <<cluster, cr, faults, schema, process, sockets>>

(* A server-side apply replaces all the fields this manager owns.          *)
Land(p) ==
  /\ p \in patches
  /\ patches' = patches \ {p}
  /\ cr' = p
  /\ UNCHANGED <<cluster, faults, schema, process, sockets>>

Lose(p) ==
  /\ p \in patches /\ Fault
  /\ patches' = patches \ {p}
  /\ UNCHANGED <<cluster, cr, schema, process, sockets>>

(* SIGTERM: before the loop runs nobody listens, and the process ends.     *)
Terminate ==
  /\ pod \notin {None, template} /\ pc # "down" /\ ~stopping
  /\ IF pc = "run" THEN /\ stopping' = TRUE /\ UNCHANGED <<pc, cfg, rpcs, phase, sockets>>
     ELSE End
  /\ UNCHANGED <<cluster, status, faults, schema>>

(* The loop has ended its round: close what runs, and exit.                *)
Shutdown ==
  /\ pc = "run" /\ stopping
  /\ End
  /\ UNCHANGED <<cluster, status, faults, schema>>

-----------------------------------------------------------------------------
Operator == ApplyConfigMap \/ ApplyDeployment
Kubelet == StartPod \/ EndPod \/ Terminate \/ Boot
Booting == FilterRpcs \/ ResolveAbis \/ Refuse \/ Bootstrap \/ InitCursor \/ Fatal \/ Start
Round == RoundDone \/ RoundFails

Next ==
  \/ ChangeSpec \/ ChangeEndpoint \/ Operator \/ Kubelet \/ Sync
  \/ Crash \/ Booting \/ Shutdown \/ Round \/ Push
  \/ \E e \in Endpoints : Subscribed(e) \/ Drop(e) \/ Reconnect(e)
  \/ \E p \in patches : Land(p) \/ Lose(p)

Spec == Init /\ [][Next]_vars

(* Controllers retry, an exited container is restarted, requests end, and   *)
(* the worker's loops and timers go on.                                     *)
FairSpec ==
  /\ Spec
  /\ WF_vars(Operator) /\ WF_vars(Kubelet) /\ SF_vars(EndPod) /\ WF_vars(Booting) /\ WF_vars(Shutdown)
  /\ WF_vars(Round) /\ WF_vars(Push)
  /\ \A e \in Endpoints :
       WF_vars(Subscribed(e)) /\ WF_vars(endpoint[e] = "down" /\ Drop(e)) /\ WF_vars(Reconnect(e))
  /\ \A p \in Phases : WF_vars(Land(p))

-----------------------------------------------------------------------------
(* Every variable but the schema's, which may be as an earlier version left *)
(* it, has the values the code gives it; a pod has its ConfigMap, and a     *)
(* process a config of the operator's.                                      *)
TypeOK ==
  /\ spec \in Configs /\ {rendering, configMap, template, pod, volume, cfg} \subseteq Configs \cup {None}
  /\ endpoint \in [Endpoints -> Answers]
  /\ cr \in Phases \cup {None} /\ patches \subseteq Phases
  /\ changes \in 0..MaxChanges /\ outages \in 0..MaxOutages /\ faults \in 0..MaxFaults
  /\ pc \in {"down", "rpcs", "abis", "bootstrap", "cursor", "start", "run", "fatal"}
  /\ pod # None <=> volume # None
  /\ pc # "down" <=> cfg # None
  /\ rpcs \subseteq Endpoints /\ phase \in Phases /\ stopping \in BOOLEAN
  /\ sock \in [Endpoints -> {"closed", "opening", "open", "waiting"}] /\ gauge \in BOOLEAN

-----------------------------------------------------------------------------
(* The rows of a schema were all written under one contract and one         *)
(* partition span, in one layout, and its address index is of the kind the  *)
(* running worker and its readers take it for (db.ts:38-41, ddl.ts:170-174),*)
(* whatever configs came and went and wherever a boot was cut off.          *)
OneMeaning ==
  /\ OneOrigin(origins)
  /\ pc = "run" => /\ index = IndexFor(cfg.indexes)
                   /\ meta["address_indexes"] = cfg.indexes

Well == <>[](\A e \in Endpoints : endpoint[e] = "ours")

(* The newest spec comes to be what the process runs, or refuses to run     *)
(* (resources.ts:126): a boot between the two applies starts with one       *)
(* config under the annotation of another, and is not the last.             *)
Adopted ==
  Well => \A c \in Configs : <>[](spec = c) => []<>(pc \in {"run", "fatal"} /\ cfg = c)

(* The Indexer's status settles at the phase the worker is in, however      *)
(* patches overtake each other, and at Degraded when the schema refuses the *)
(* spec (README.md:20, crstatus.ts:96-98).                                  *)
StatusTold ==
  /\ \A p \in {"Live", "Degraded"} :
       <>[](pc = "run" /\ phase = p) => <>[](cr = p)
  /\ Well => \A c \in Configs :
       <>[](spec = c /\ Refused(c)) => <>[](cr = "Degraded")

(* The gauge tells whether a connection is open, though it is only told of  *)
(* the first and the last (ws.ts:51-57), and only a running worker has one. *)
GaugeTold == gauge = Connected(sock) /\ (pc # "run" => ~gauge)

(* With an announcing endpoint there again, whether announceRpc names it or *)
(* it was a healthy websocket at boot, a worker listens, and the gauge says *)
(* so (main.ts:114-131, ws.ts:51-57).                                       *)
Listening ==
  \A e \in Endpoints :
    <>[](pc = "run" /\ e \in Announcing /\ endpoint[e] # "down")
      => <>[](gauge /\ sock[e] = "open")

=============================================================================
