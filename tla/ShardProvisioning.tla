------------------------- MODULE ShardProvisioning -------------------------
(***************************************************************************)
(* The provisioning half of the APIShard controller's Reconcile: which     *)
(* objects a pass applies and in what order, where it stops, and which     *)
(* owned objects CleanupOrphans deletes at its end because the pass did    *)
(* not track them.  Around it cert-manager issues the secrets of the       *)
(* Certificates, pods start once what they mount and dial is there, the    *)
(* user edits the shard and its connection secret, objects and secrets get *)
(* lost, and the operator restarts and repeats its API discovery.          *)
(*                                                                         *)
(* Objects are those of Manifests.  Deletion of the shard is the subject   *)
(* of APIShardRegistration, the phase that of ShardReadiness.              *)
(***************************************************************************)
EXTENDS Manifests, Sequences

CONSTANTS
  Shards,      \* specs the user chooses from
  Clusters,    \* clusters: are the ServiceMonitor and the SCC API there
  Connections, \* states of the user's connection secret: absent, malformed, valid
  Fragile,     \* bound: kinds of objects that are deleted behind the operator's back
  MaxEdits,    \* bound: edits of the shard or its connection secret
  MaxTroubles  \* bound: failed requests, such deletions and restarts of the operator

ASSUME ShardsAssumption == \A s \in Shards : s.storage \in {SQLite, InClusterPostgreSQL, PostgreSQL}
ASSUME ConnectionsAssumption == Connections \subseteq {"absent", "malformed", "valid"}
ASSUME ClustersAssumption == Clusters \subseteq [monitor: BOOLEAN, scc: BOOLEAN]
ASSUME BoundsAssumption == MaxEdits \in Nat /\ MaxTroubles \in Nat

VARIABLES
  shard,       \* the spec, as stored
  connection,  \* the user's connection secret
  cluster,     \* the APIs that are there
  found,       \* the APIs the running operator believes to be there
  objects,     \* objects with the shard's owner label
  issued,      \* secrets that cert-manager has written
  template,    \* of each workload, what its pod template was last applied with
  running,     \* workloads with all replicas ready
  degraded,    \* the stored MonitoringDegraded condition
  queued,      \* the shard is in the workqueue, or will be after a delay
  pc,          \* the next step of the running pass, "idle" if none runs
  copy,        \* the spec this pass works on
  tracked,     \* what this pass has applied
  report,      \* this pass's MonitoringDegraded condition
  again,       \* this pass will be repeated, its RequeueAfter
  skipped,     \* the last finished pass failed to delete an orphan
  budgets

pass == <<pc, copy, tracked, report, again>>
world == <<shard, connection, cluster>>
stack == <<objects, template, running>>
vars == <<world, found, stack, issued, degraded, queued, pass, skipped, budgets>>
-----------------------------------------------------------------------------
(* What the steps of a pass apply, in order.                               *)
Ids(set) == {x.id : x \in set}
PDB(name, replicas, labels) ==
  IF BuildPDB(name, replicas, labels) = {} THEN <<>> ELSE <<Ref("PodDisruptionBudget", name)>>

reconcileInClusterPostgreSQL ==
  <<BuildPostgreSQLSecret, BuildPostgreSQLInitConfigMap, BuildPostgreSQLStatefulSet.id,
    BuildPostgreSQLService.id>>
reconcileKine(s) ==
  <<BuildKineDeployment(s).id>> \o PDB("kine", s.kine, KineLabels) \o <<BuildKineService.id>>
reconcileStorage(s) ==
  (IF s.storage = InClusterPostgreSQL THEN reconcileInClusterPostgreSQL ELSE <<>>)
  \o reconcileKine(s)

applyOTelCollector(s, f) ==
  <<BuildOTelCollectorConfigMap(s), BuildOTelCollectorDeployment(s).id,
    BuildOTelCollectorService.id>>
  \o (IF f.monitor THEN <<BuildPostgreSQLMetricsServiceMonitor.id>> ELSE <<>>)
(* Variant: the credentials are expected to be there.                      *)
ensureOTelCredentialSecretSkipped(s) == <<>>
ensureOTelCredentialSecret(s) ==
  IF s.storage = PostgreSQL THEN <<Secret("postgresql-metrics-credentials")>> ELSE <<>>
Collector(s, f) == ensureOTelCredentialSecret(s) \o applyOTelCollector(s, f)

(* Variant: the chain of PostgreSQL is left out.                           *)
reconcileCertManagerWithoutDatabase(s) ==
  <<BuildSelfSignedIssuer.id, BuildCACertificate.id, BuildCAIssuer.id,
    BuildServingCertificate.id, BuildAdminClientCertificate.id,
    BuildKineSelfSignedIssuer.id, BuildKineCACertificate.id, BuildKineCAIssuer.id,
    BuildKineServingCertificate.id, BuildEtcdClientCertificate.id>>
reconcileCertManager(s) ==
  <<BuildSelfSignedIssuer.id, BuildCACertificate.id, BuildCAIssuer.id,
    BuildServingCertificate.id, BuildAdminClientCertificate.id,
    BuildKineSelfSignedIssuer.id, BuildKineCACertificate.id, BuildKineCAIssuer.id,
    BuildKineServingCertificate.id, BuildEtcdClientCertificate.id>>
  \o (IF s.storage = InClusterPostgreSQL
        THEN <<BuildPostgreSQLSelfSignedIssuer.id, BuildPostgreSQLCACertificate.id,
               BuildPostgreSQLCAIssuer.id, BuildPostgreSQLServingCertificate.id>>
        ELSE <<>>)
reconcileAuthConfig == <<ConfigMap("authz-config")>>
reconcileSecondaryServiceAccount == <<BuildSecondaryServiceAccount>>
reconcileAuthDelegator == <<AuthDelegatorBinding.id>>
reconcileAPIServerSCC(f) ==
  IF f.scc THEN <<BuildAPIServerSCC, BuildAPIServerSCCClusterRole, BuildAPIServerSCCRoleBinding.id>>
           ELSE <<>>
reconcileRequestHeaderCA == <<ConfigMap("requestheader-ca")>>
Foundation(s, f) ==
  reconcileCertManager(s) \o reconcileAuthConfig \o reconcileSecondaryServiceAccount
  \o reconcileAuthDelegator \o reconcileAPIServerSCC(f) \o reconcileRequestHeaderCA

reconcileSecondary(s) ==
  <<BuildSecondaryDeployment(s).id>> \o PDB("apiserver", s.secondary, APIServerLabels)
  \o <<BuildSecondaryService.id>>

(* The shared ClusterRole is patched on the way and not tracked.  Without  *)
(* the ServiceMonitor API the step ends at the first ServiceMonitor.       *)
reconcileMetrics(f, c) ==
  IF ~f.monitor THEN <<>>
  ELSE <<BuildMetricsReaderServiceAccount, BuildMetricsReaderTokenSecret,
         BuildMetricsReaderClusterRoleBinding.id>>
       \o (IF c.monitor THEN <<BuildKineServiceMonitor.id, BuildSecondaryServiceMonitor.id,
                               BuildPrometheusDiscoveryRole, BuildPrometheusDiscoveryRoleBinding.id>>
                        ELSE <<>>)
-----------------------------------------------------------------------------
(* What a shard needs, given the APIs the operator has found: Firm for the *)
(* shard to work, Collected for the metrics of its database.               *)
Elements(seq) == {seq[i] : i \in 1..Len(seq)}
Firm(s, f, c) ==
  Elements(reconcileStorage(s)) \cup Elements(Foundation(s, f))
  \cup Elements(reconcileSecondary(s)) \cup Elements(reconcileMetrics(f, c))
Collected(s, f) ==
  IF s.monitoring /\ s.storage # SQLite THEN Elements(Collector(s, f)) ELSE {}

Workloads(s) ==
  {BuildKineDeployment(s), BuildSecondaryDeployment(s), BuildOTelCollectorDeployment(s),
   BuildPostgreSQLStatefulSet}
WorkloadIds == Ids(Workloads([storage |-> SQLite, kine |-> 1, secondary |-> 1, colocate |-> FALSE]))
Needed(s) ==
  {BuildKineDeployment(s).id, BuildSecondaryDeployment(s).id}
  \cup (IF s.storage = InClusterPostgreSQL THEN {BuildPostgreSQLStatefulSet.id} ELSE {})

(* The part of the pod template that changes: the database, and the        *)
(* numeric user that Kine and PostgreSQL get where no SCC assigns one.     *)
Template(w, s, f) ==
  [storage |-> IF w \in {BuildKineDeployment(s).id, BuildOTelCollectorDeployment(s).id}
                 THEN s.storage ELSE "",
   user |-> w \in {BuildKineDeployment(s).id, BuildPostgreSQLStatefulSet.id} /\ ~f.scc]

(* Kinds that SetupWithManager watches.                                    *)
OwnedKinds(f) ==
  {"Deployment", "StatefulSet", "Service", "Secret", "ConfigMap", "ClusterRoleBinding"}
  \cup (IF f.monitor THEN {"ServiceMonitor"} ELSE {})
-----------------------------------------------------------------------------
Conditions == {"unset", "False", "True"}
Counters == [edits: 0..MaxEdits, faults: 0..MaxTroubles, mishaps: 0..MaxTroubles,
             hiccups: 0..MaxTroubles]
Trouble(kind) ==
  /\ budgets.faults + budgets.mishaps + budgets.hiccups < MaxTroubles
  /\ budgets' = [budgets EXCEPT ![kind] = @ + 1]
MayEdit ==
  /\ budgets.edits < MaxEdits
  /\ budgets' = [budgets EXCEPT !.edits = @ + 1]

Init ==
  /\ shard \in Shards /\ cluster \in Clusters /\ found = cluster
  /\ connection \in Connections
  /\ objects = {} /\ issued = {} /\ running = {}
  /\ template = [w \in WorkloadIds |-> [storage |-> "", user |-> FALSE]]
  /\ degraded = "unset" /\ queued = TRUE
  /\ pc = "idle" /\ copy = shard /\ tracked = {} /\ report = "unset" /\ again = FALSE
  /\ skipped = FALSE
  /\ budgets = [edits |-> 0, faults |-> 0, mishaps |-> 0, hiccups |-> 0]

(* The user.  connectionSecretMapper reports changes of the secret while   *)
(* the shard uses external storage.                                        *)
Edit ==
  /\ MayEdit
  /\ shard' \in Shards \ {shard}
  /\ queued' = TRUE
  /\ UNCHANGED <<connection, cluster, found, stack, issued, degraded, pass, skipped>>

(* Variant: changes of the secret go unnoticed.                            *)
EditConnectionUnwatched ==
  /\ MayEdit
  /\ connection' \in Connections \ {connection}
  /\ UNCHANGED <<shard, cluster, found, stack, issued, degraded, queued, pass, skipped>>
EditConnection ==
  /\ MayEdit
  /\ connection' \in Connections \ {connection}
  /\ queued' = (queued \/ shard.storage = PostgreSQL)
  /\ UNCHANGED <<shard, cluster, found, stack, issued, degraded, pass, skipped>>

(* cert-manager (external): a Certificate gets its secret once its issuer  *)
(* can sign.  Secrets outlive their Certificate, and carry no owner label. *)
Signatures ==
  LET all == [storage |-> InClusterPostgreSQL]
  IN  {x \in [c: Certificates(all), i: Issuers(all)] : x.i.id = x.c.issuer}
Issue ==
  \E x \in Signatures :
    /\ x.c.id \in objects /\ x.i.id \in objects
    /\ x.c.secret \notin issued
    /\ x.i.secret = Nothing \/ x.i.secret \in issued
    /\ issued' = issued \cup {x.c.secret}
    /\ UNCHANGED <<world, found, stack, degraded, queued, pass, budgets, skipped>>

(* The kubelet and the controllers of the workloads (external).            *)
Admitted(w, t, objs) ==
  /\ w \in {BuildPostgreSQLStatefulSet.id, Ref("Deployment", "kine")} => t.user = ~cluster.scc
  /\ cluster.scc /\ w = Ref("Deployment", "apiserver") =>
       Elements(reconcileAPIServerSCC([scc |-> TRUE])) \subseteq objs
Supplied ==
  (IF connection = "absent" THEN {} ELSE {Secret("connection")}) \cup {Secret("database-ca")}
Serving(host) == \E w \in running : w.name = host[1] /\ Ref("Service", w.name) \in objects

Pods ==
  [s \in Shards, storage \in {SQLite, InClusterPostgreSQL, PostgreSQL}, w \in WorkloadIds |->
     CHOOSE m \in Workloads([s EXCEPT !.storage = storage]) : m.id = w]
StartPods ==
  \E w \in (WorkloadIds \cap objects) \ running :
    LET storage == IF w.name \in {"kine", "postgresql-metrics"}
                     THEN template[w].storage ELSE shard.storage
        m == Pods[shard, storage, w]
    IN  /\ m.mounts \subseteq objects \cup issued \cup Supplied
        /\ m.account \in objects \cup {Nothing}
        /\ \A d \in m.dials : Serving(d.host)
        /\ Admitted(w, template[w], objects)
        /\ running' = running \cup {w}
        /\ queued' = TRUE
        /\ UNCHANGED <<world, found, objects, template, issued, degraded, pass, budgets, skipped>>

(* Somebody deletes an owned object or an issued secret, or removes the    *)
(* ServiceMonitor API and the objects with it.                             *)
Vanish(gone) ==
  /\ objects' = objects \ gone
  /\ running' = running \ gone
  /\ UNCHANGED template
LoseObject ==
  /\ Trouble("mishaps")
  /\ \E o \in {o \in objects : o.kind \in Fragile} :
       /\ Vanish({o})
       /\ queued' = (queued \/ o.kind \in OwnedKinds(found))
  /\ UNCHANGED <<world, found, issued, degraded, pass, skipped>>
LoseSecret ==
  /\ Trouble("mishaps")
  /\ \E x \in issued : issued' = issued \ {x}
  /\ UNCHANGED <<world, found, stack, degraded, queued, pass, skipped>>
RemoveMonitors ==
  /\ Trouble("mishaps")
  /\ cluster.monitor /\ cluster' = [cluster EXCEPT !.monitor = FALSE]
  /\ Vanish({o \in objects : o.kind = "ServiceMonitor"})
  /\ queued' \in {queued, queued \/ found.monitor}
  /\ UNCHANGED <<shard, connection, found, issued, degraded, pass, skipped>>

(* Variant: the shards that are there are not queued.                      *)
RestartUnlisted ==
  /\ Trouble("mishaps")
  /\ found' = cluster
  /\ queued' = FALSE
  /\ pc' = "idle" /\ tracked' = {} /\ report' = "unset" /\ again' = FALSE
  /\ UNCHANGED <<world, stack, issued, degraded, copy, skipped>>
(* The operator restarts: the pass is gone and main repeats the discovery  *)
(* of the two APIs, where an error counts as absence.                      *)
Restart ==
  /\ \E hiccup \in SUBSET {"monitor", "scc"} :
       /\ Trouble(IF hiccup = {} THEN "mishaps" ELSE "hiccups")
       /\ found' = [api \in {"monitor", "scc"} |-> cluster[api] /\ api \notin hiccup]
  /\ queued' = TRUE
  /\ pc' = "idle" /\ tracked' = {} /\ report' = "unset" /\ again' = FALSE
  /\ UNCHANGED <<world, stack, issued, degraded, copy, skipped>>
-----------------------------------------------------------------------------
(* The pass.                                                               *)
Begin ==
  /\ pc = "idle" /\ queued
  /\ pc' = "storage" /\ copy' = shard /\ tracked' = {} /\ again' = FALSE
  /\ report' = degraded
  /\ queued' = FALSE
  /\ UNCHANGED <<world, found, stack, issued, degraded, budgets, skipped>>

(* setErrorAndRequeue: the error is written to the status with whatever    *)
(* conditions the pass has set, and the shard is queued again.             *)
setErrorAndRequeue ==
  /\ pc' = "idle" /\ tracked' = {} /\ again' = FALSE /\ report' = "unset"
  /\ degraded' \in {degraded, report}
  /\ queued' = TRUE
  /\ UNCHANGED copy

(* ApplyOwned of the objects put.  A changed pod template is rolled out:   *)
(* a Deployment first starts a new pod, a StatefulSet first stops the old. *)
Put(put) ==
  LET new == [w \in WorkloadIds |-> IF w \in put THEN Template(w, copy, found) ELSE template[w]]
  IN  /\ objects' = objects \cup put
      /\ template' = new
      /\ running' = {w \in running : new[w] # template[w] =>
                       w.kind = "Deployment" /\ ~Admitted(w, new[w], objects \cup put)}

(* Apply the objects refs in order, and go on to the step next.  The       *)
(* first failed request ends the step; it may have taken effect.           *)
Apply(refs, next) ==
  /\ Put(Elements(refs))
  /\ tracked' = tracked \cup Elements(refs)
  /\ pc' = next
  /\ queued' = (queued \/ \E o \in Elements(refs) \ objects : o.kind \in OwnedKinds(found))
  /\ UNCHANGED <<copy, again, degraded, budgets>>
ApplyFails(refs) ==
  /\ Trouble("faults")
  /\ \E k \in 0..Len(refs) : Put({refs[i] : i \in 1..k})
  /\ setErrorAndRequeue

Storage ==
  /\ pc = "storage"
  /\ copy.storage = PostgreSQL => connection # "absent"
  /\ Apply(reconcileStorage(copy), "collector")
  /\ UNCHANGED <<world, found, issued, report, skipped>>
StorageFails ==
  /\ pc = "storage"
  /\ \/ ApplyFails(reconcileStorage(copy))
     \/ /\ copy.storage = PostgreSQL /\ connection = "absent"
        /\ setErrorAndRequeue
        /\ UNCHANGED <<stack, budgets>>
  /\ UNCHANGED <<world, found, issued, skipped>>

(* reconcilePostgreSQLMetrics never stops the pass; what went wrong is     *)
(* left to the MonitoringDegraded condition.                               *)
DeployableFor(s) ==
  \/ s.storage = InClusterPostgreSQL
  \/ s.storage = PostgreSQL /\ connection = "valid" /\ s.caCert
Deployable == DeployableFor(copy)
CollectMetrics ==
  /\ pc = "collector"
  /\ LET wanted == copy.monitoring /\ copy.storage # SQLite
         refs == IF wanted /\ Deployable THEN Collector(copy, found) ELSE <<>>
     IN  /\ wanted /\ Deployable /\ found.monitor => cluster.monitor
         /\ Apply(refs, "foundation")
         /\ report' = IF ~copy.monitoring THEN "unset"
                      ELSE IF wanted /\ Deployable THEN "False" ELSE "True"
  /\ UNCHANGED <<world, found, issued, skipped>>
CollectMetricsFails ==
  /\ pc = "collector"
  /\ copy.monitoring /\ copy.storage # SQLite /\ Deployable
  /\ LET refs == Collector(copy, found)
     IN  \E k \in 0..Len(refs) - 1, lost \in {0, 1} :
           /\ \/ Trouble("faults")
              \/ /\ found.monitor /\ ~cluster.monitor
                 /\ k = Len(refs) - 1 /\ lost = 0 /\ UNCHANGED budgets
           /\ Put({refs[i] : i \in 1..k + lost})
           /\ tracked' = tracked \cup {refs[i] : i \in 1..k}
           /\ queued' = (queued \/ \E i \in 1..k + lost : refs[i] \notin objects)
  /\ report' = "True" /\ pc' = "foundation"
  /\ UNCHANGED <<world, found, issued, degraded, copy, again, skipped>>

(* Certificates, access and configuration of the secondary.                *)
Establish ==
  /\ pc = "foundation"
  /\ Apply(Foundation(copy, found), "kubeconfig")
  /\ UNCHANGED <<world, found, issued, report, skipped>>
(* Variant: the failure is logged, and the pass goes on.                   *)
EstablishFailsLogged ==
  /\ pc = "foundation"
  /\ Trouble("faults")
  /\ \E k \in 0..Len(Foundation(copy, found)) :
       LET put == {Foundation(copy, found)[i] : i \in 1..k}
       IN  Put(put) /\ tracked' = tracked \cup put
  /\ pc' = "kubeconfig" /\ queued' = TRUE
  /\ UNCHANGED <<world, found, issued, skipped, degraded, report, again, copy>>
EstablishFails ==
  /\ pc = "foundation"
  /\ ApplyFails(Foundation(copy, found))
  /\ UNCHANGED <<world, found, issued, skipped>>

(* Without the secrets of both certificates there is nothing to publish.   *)
Kubeconfig ==
  IF {Secret("pki"), Secret("admin-client-cert")} \subseteq issued THEN <<AdminKubeconfig>> ELSE <<>>
PublishKubeconfig ==
  /\ pc = "kubeconfig"
  /\ Apply(Kubeconfig, "secondary")
  /\ UNCHANGED <<world, found, issued, report, skipped>>
PublishKubeconfigFails ==
  /\ pc = "kubeconfig"
  /\ ApplyFails(Kubeconfig)
  /\ UNCHANGED <<world, found, issued, skipped>>

(* The secondary API server, and what scrapes the shard.                   *)
Serve ==
  /\ pc = "secondary"
  /\ Apply(reconcileSecondary(copy) \o reconcileMetrics(found, cluster), "health")
  /\ UNCHANGED <<world, found, issued, report, skipped>>
ServeFails ==
  /\ pc = "secondary"
  /\ ApplyFails(reconcileSecondary(copy) \o reconcileMetrics(found, cluster))
  /\ UNCHANGED <<world, found, issued, skipped>>

(* reconcileAPIServices needs the CA of the serving certificate;           *)
(* updateHealthStatus asks to be repeated while a workload is not ready.   *)
(* Variant: the pass is not repeated while a workload is not ready.        *)
CheckHealthOnce ==
  /\ pc = "health" /\ Secret("pki") \in issued
  /\ again' = FALSE
  /\ pc' = "cleanup"
  /\ UNCHANGED <<world, found, stack, issued, degraded, queued, copy, tracked, report, budgets, skipped>>
CheckHealth ==
  /\ pc = "health" /\ Secret("pki") \in issued
  /\ again' = ~(Needed(copy) \subseteq running)
  /\ pc' = "cleanup"
  /\ UNCHANGED <<world, found, stack, issued, degraded, queued, copy, tracked, report, budgets, skipped>>
CheckHealthFails ==
  /\ pc = "health"
  /\ \/ Secret("pki") \notin issued /\ UNCHANGED budgets
     \/ Trouble("faults")
  /\ setErrorAndRequeue
  /\ UNCHANGED <<world, found, stack, issued, skipped>>

(* CleanupOrphans deletes what the pass has not tracked; an error of it is *)
(* only logged.  Then the status is written, or refused and the pass is    *)
(* repeated.                                                               *)
(* Variant: managedGVKs lacks the kinds that are not watched.              *)
OrphansOfOwnedKinds == {o \in objects \ tracked : o.kind \in OwnedKinds(found)}
Orphans == objects \ tracked
Finish(gone, written) ==
  /\ pc = "cleanup"
  /\ Vanish(gone)
  /\ queued' = (queued \/ again \/ ~written \/ \E o \in gone : o.kind \in OwnedKinds(found))
  /\ skipped' = (gone # Orphans)
  /\ degraded' = IF written THEN report ELSE degraded
  /\ pc' = "idle" /\ tracked' = {} /\ report' = "unset" /\ again' = FALSE
  /\ UNCHANGED <<world, found, issued, copy>>

CleanupAndReport ==
  Finish(Orphans, TRUE) /\ UNCHANGED budgets
CleanupAndReportFails ==
  /\ Trouble("faults")
  /\ \/ Finish(Orphans, FALSE)
     \/ Orphans # {} /\ Finish({}, TRUE)
     \/ \E o \in Orphans : Finish(Orphans \ {o}, TRUE)
-----------------------------------------------------------------------------
Reconcile ==
  \/ Begin
  \/ Storage \/ StorageFails
  \/ CollectMetrics \/ CollectMetricsFails
  \/ Establish \/ EstablishFails
  \/ PublishKubeconfig \/ PublishKubeconfigFails
  \/ Serve \/ ServeFails
  \/ CheckHealth \/ CheckHealthFails
  \/ CleanupAndReport \/ CleanupAndReportFails
User == Edit \/ EditConnection
Misfortune == LoseObject \/ LoseSecret \/ RemoveMonitors \/ Restart
Next == Reconcile \/ Issue \/ StartPods \/ User \/ Misfortune

Spec == Init /\ [][Next]_vars
FairSpec == Spec /\ WF_vars(Reconcile) /\ WF_vars(Issue) /\ WF_vars(StartPods)
-----------------------------------------------------------------------------
(* The variables keep to their types: in particular only workloads of the  *)
(* shard run, and a pass tracks nothing while none is running.             *)
TypeOK ==
  /\ shard \in Shards /\ copy \in Shards
  /\ connection \in Connections
  /\ cluster \in [{"monitor", "scc"} -> BOOLEAN] /\ found \in [{"monitor", "scc"} -> BOOLEAN]
  /\ running \subseteq objects \cap WorkloadIds
  /\ \A o \in objects \cup issued \cup tracked : DOMAIN o = {"kind", "name"}
  /\ template \in [WorkloadIds -> [storage: {"", SQLite, InClusterPostgreSQL, PostgreSQL},
                                   user: BOOLEAN]]
  /\ {degraded, report} \subseteq Conditions
  /\ {queued, again, skipped} \subseteq BOOLEAN
  /\ pc \in {"idle", "storage", "collector", "foundation", "kubeconfig", "secondary",
             "health", "cleanup"}
  /\ pc = "idle" => tracked = {}
  /\ budgets \in Counters

(* A pass that has come to its end has applied whatever its manifests      *)
(* name: every mount is of an object it applied, a secret that one of its  *)
(* Certificates yields, or a secret of the user; every issuer, role and    *)
(* account that is referred to by name is among what it applied, even      *)
(* where the collector was given up.                                       *)
Yielded == {c.secret : c \in {c \in Certificates(copy) : c.id \in tracked}}
Resolved ==
  pc = "cleanup" =>
    /\ \A m \in Workloads(copy) : m.id \in tracked =>
         /\ m.mounts \subseteq tracked \cup Yielded \cup {Secret("connection"), Secret("database-ca")}
         /\ m.account \in tracked \cup {Nothing}
    /\ \A c \in Certificates(copy) : c.issuer \in tracked
    /\ \A i \in Issuers(copy) : i.secret \in Yielded \cup {Nothing}
    /\ \A b \in {AuthDelegatorBinding, BuildMetricsReaderClusterRoleBinding,
                 BuildPrometheusDiscoveryRoleBinding, BuildAPIServerSCCRoleBinding} :
         b.id \in tracked =>
           /\ b.role \in tracked \cup {Ref("ClusterRole", "system:auth-delegator"),
                                     BuildMetricsReaderClusterRole}
           /\ b.account \in tracked \cup {PrometheusServiceAccount}

(* Whoever dials a component of the shard can verify it and is accepted:   *)
(* the Service and its port lead to one workload, the certificate it       *)
(* serves is valid for the host and of the CA the caller checks against,   *)
(* and a caller shows a client certificate of the CA the server trusts, or *)
(* none on a port that does not ask for one.  Kine trusts no client        *)
(* certificate but that of the secondary, as KineCAIssuerName says.        *)
Services == {BuildKineService, BuildSecondaryService, BuildPostgreSQLService,
             BuildOTelCollectorService}
Selected(labels) == {m \in Workloads(copy) : m.id \in tracked /\ labels \subseteq m.labels}
Accepted(d, port, m) ==
  IF d.cert = Nothing THEN port \notin m.asks
  ELSE \E k \in Certificates(copy) :
         k.secret = d.cert /\ k.client /\ CAOf(copy, d.cert) = CAOf(copy, m.trusts)
Reached(d) ==
  \E v \in Services, p \in UNION {v.ports : v \in Services}, m \in Selected({}),
     c \in Certificates(copy) :
    /\ v.id \in tracked /\ v.id.name = d.host[1] /\ p \in v.ports /\ p.number = d.port
    /\ Selected(v.labels) = {m} /\ p.target \in m.ports
    /\ c.secret = m.serves /\ d.host \in c.hosts
    /\ CAOf(copy, c.secret) = CAOf(copy, d.ca)
    /\ Accepted(d, p.target, m)
Monitors == {BuildKineServiceMonitor, BuildSecondaryServiceMonitor,
             BuildPostgreSQLMetricsServiceMonitor}
Verified ==
  pc = "cleanup" =>
    /\ \A m \in Selected({}) : \A d \in m.dials : Reached(d)
    /\ \A m \in Monitors : m.id \in tracked => \A d \in m.dials : Reached(d)
    /\ Reached(AdminDial)
    /\ {c \in Certificates(copy) : c.client /\ CAOf(copy, c.secret)
                                  = CAOf(copy, BuildKineDeployment(copy).trusts)}
         = {BuildEtcdClientCertificate}

(* Selectors find what they are meant for and nothing else: a Service and  *)
(* a PodDisruptionBudget the pods of one workload, a ServiceMonitor one    *)
(* Service and a port it names, an affinity term the pods of Kine or of    *)
(* the workload itself.                                                    *)
SelectsOwn ==
  pc = "cleanup" =>
    /\ \A v \in Services : v.id \in tracked => \E m \in Workloads(copy) : Selected(v.labels) = {m}
    /\ \A b \in BuildPDB("kine", copy.kine, KineLabels)
              \cup BuildPDB("apiserver", copy.secondary, APIServerLabels) :
         Ids(Selected(b.selector)) = {Ref("Deployment", b.id.name)}
    /\ \A m \in Monitors : m.id \in tracked =>
         \E v \in Services :
           /\ {x \in Services : x.id \in tracked /\ m.selector \subseteq x.labels} = {v}
           /\ \E p \in v.ports : p.name = m.port
    /\ \A m \in Selected({}) : \A a \in m.affinity :
         Ids(Selected(a.selector)) = IF a.near THEN {BuildKineDeployment(copy).id} ELSE {m.id}

(* CleanupOrphans deletes nothing that the shard needs to work: whichever  *)
(* steps fail, and however often the spec changes during a pass, a pass    *)
(* that reaches the clean-up has applied and tracked all of it.            *)
KeepsWanted ==
  [][pc = "cleanup" /\ pc' = "idle" => (objects \ objects') \cap Firm(copy, found, cluster) = {}]_vars

(* When no pass is running and none is due, the shard is provisioned: the  *)
(* objects of the watched kinds are there, the workloads of the storage    *)
(* type are ready, and the collector is there or reported as degraded.     *)
Quiet == pc = "idle" /\ ~queued
QuietMeansProvisioned ==
  Quiet =>
    /\ {o \in Firm(shard, found, cluster) : o.kind \in OwnedKinds(found)} \subseteq objects
    /\ Needed(shard) \subseteq running
    /\ shard.monitoring <=> degraded # "unset"
    /\ degraded = "False" =>
         {o \in Collected(shard, found) : o.kind \in OwnedKinds(found) /\
            (o.kind = "ServiceMonitor" => cluster.monitor)} \subseteq objects

(* When no pass is running and none is due, the status tells of the        *)
(* connection secret as it is now: the controller does not rest while it   *)
(* is absent, and MonitoringDegraded is True just when the collector       *)
(* cannot be deployed with it, or a request of the collector has failed,   *)
(* as that for a ServiceMonitor does once the API is gone.                 *)
ReportIsCurrent ==
  Quiet =>
    /\ shard.storage = PostgreSQL => connection # "absent"
    /\ shard.monitoring /\ ~DeployableFor(shard) => degraded = "True"
    /\ degraded = "True" /\ budgets.faults = 0 /\ (found.monitor => cluster.monitor) =>
         ~DeployableFor(shard)

(* When no pass is running and none is due, nothing of an earlier spec is  *)
(* left over, unless the last clean-up failed.                             *)
NoLeftovers ==
  Quiet /\ ~skipped =>
    objects \subseteq Firm(shard, found, [monitor |-> TRUE]) \cup Collected(shard, found)
                    \cup {AdminKubeconfig}

(* The start-up never locks up: whatever order the certificates, pods and  *)
(* passes come in, the controller ends with nothing to do (and then        *)
(* QuietMeansProvisioned holds), waits for the user's secret, or has not   *)
(* found out about the APIs of the cluster when it started.                *)
Settles ==
  <>[](\/ Quiet
       \/ shard.storage = PostgreSQL /\ connection = "absent"
       \/ budgets.hiccups > 0)

(* The comment at the clean-up: "only after all apply steps have           *)
(* completed, so the tracked set is complete and nothing gets incorrectly  *)
(* deleted".  The kubeconfig of a shard is wanted as well, but a pass that *)
(* does not find the admin certificate's secret does not track it.         *)
NothingIncorrectlyDeleted ==
  [][pc = "cleanup" /\ pc' = "idle" =>
       (objects \ objects') \cap (Firm(copy, found, cluster) \cup {AdminKubeconfig}) = {}]_vars

(* DiscoverSCC and DiscoverServiceMonitor: "callers should treat an error  *)
(* as unknown".  What the shard needs on this cluster is not deleted when  *)
(* the operator could not find out about its APIs.                         *)
UnknownIsKept ==
  [][pc = "cleanup" /\ pc' = "idle" => (objects \ objects') \cap Firm(copy, cluster, cluster) = {}]_vars

(* The design: the admin kubeconfig is created and surfaced in the status. *)
(* Once its certificates are issued it is there for good.                  *)
KubeconfigPublished == <>[](AdminKubeconfig \in objects)
=============================================================================
