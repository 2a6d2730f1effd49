---------------------- MODULE ShardProvisioningProofs ----------------------
(***************************************************************************)
(* Proofs about ShardProvisioning, for any specs, clusters and bounds.     *)
(***************************************************************************)
EXTENDS ShardProvisioning, TLAPS

(* What the steps of a pass apply, as sets.                                *)
Listed(q, set) == q \in Seq(set) /\ Elements(q) = set

LEMMA ConcatListed ==
  ASSUME NEW a, NEW S, Listed(a, S), NEW b, NEW T, Listed(b, T)
  PROVE  Listed(a \o b, S \cup T)
<1>0. a \in Seq(S \cup T) /\ b \in Seq(S \cup T)
  BY DEF Listed
<1>1. Len(a \o b) = Len(a) + Len(b) /\ Len(a) \in Nat /\ Len(b) \in Nat /\ a \o b \in Seq(S \cup T)
  BY <1>0
<1>2. \A i \in 1..Len(a) : (a \o b)[i] = a[i]
  BY <1>0
<1>3. \A i \in 1..Len(b) : (a \o b)[Len(a) + i] = b[i]
  BY <1>0
<1>4. \A i \in 1..Len(a \o b) : i \in 1..Len(a) \/ (i - Len(a) \in 1..Len(b) /\ i = Len(a) + (i - Len(a)))
  BY <1>1
<1>5. Elements(a \o b) \subseteq Elements(a) \cup Elements(b)
  BY <1>1, <1>2, <1>3, <1>4 DEF Elements
<1>6. Elements(a) \cup Elements(b) \subseteq Elements(a \o b)
  <2>1. \A i \in 1..Len(a) : i \in 1..Len(a \o b)
    BY <1>1
  <2>2. \A i \in 1..Len(b) : Len(a) + i \in 1..Len(a \o b)
    BY <1>1
  <2> QED  BY <1>2, <1>3, <2>1, <2>2, Zenon DEF Elements
<1> QED  BY <1>1, <1>5, <1>6, Zenon DEF Listed

LEMMA TuplesListed ==
  /\ Listed(<<>>, {})
  /\ \A x : Listed(<<x>>, {x})
  /\ \A x, y, z : Listed(<<x, y, z>>, {x, y, z})
  /\ \A x, y, z, w : Listed(<<x, y, z, w>>, {x, y, z, w})
<1>1. Listed(<<>>, {})  BY DEF Listed, Elements
<1>2. ASSUME NEW x PROVE Listed(<<x>>, {x})  BY DEF Listed, Elements
<1>3. ASSUME NEW x, NEW y, NEW z PROVE Listed(<<x, y, z>>, {x, y, z})  BY DEF Listed, Elements
<1>4. ASSUME NEW x, NEW y, NEW z, NEW w PROVE Listed(<<x, y, z, w>>, {x, y, z, w})
  BY DEF Listed, Elements
<1> QED  BY <1>1, <1>2, <1>3, <1>4, Zenon

LEMMA TenListed ==
  ASSUME NEW a, NEW b, NEW c, NEW d, NEW e, NEW f, NEW g, NEW h, NEW i, NEW j
  PROVE  Listed(<<a, b, c, d, e, f, g, h, i, j>>, {a, b, c, d, e, f, g, h, i, j})
<1> DEFINE q == <<a, b, c, d, e, f, g, h, i, j>>
           S == {a, b, c, d, e, f, g, h, i, j}
<1>1. q \in Seq(S)
  OBVIOUS
<1>2. Len(q) = 10 /\ q[1] = a /\ q[2] = b /\ q[3] = c /\ q[4] = d /\ q[5] = e /\ q[6] = f /\ q[7] = g /\ q[8] = h /\ q[9] = i /\ q[10] = j
  BY Zenon
<1>3. 1..10 = {1, 2, 3, 4, 5, 6, 7, 8, 9, 10}
  OBVIOUS
<1> HIDE DEF q
<1>4. {q[k] : k \in {1, 2, 3, 4, 5, 6, 7, 8, 9, 10}} = S
  BY <1>2
<1> QED  BY <1>1, <1>2, <1>3, <1>4 DEF Listed, Elements

-----------------------------------------------------------------------------
LEMMA IdsAre ==
  /\ \A s : /\ BuildKineDeployment(s).id = Ref("Deployment", "kine")
           /\ BuildSecondaryDeployment(s).id = Ref("Deployment", "apiserver")
           /\ BuildOTelCollectorDeployment(s).id = Ref("Deployment", "postgresql-metrics")
  /\ BuildPostgreSQLStatefulSet.id = Ref("StatefulSet", "postgresql")
  /\ BuildKineService.id = Ref("Service", "kine")
  /\ BuildSecondaryService.id = Ref("Service", "apiserver")
  /\ BuildPostgreSQLService.id = Ref("Service", "postgresql")
  /\ BuildOTelCollectorService.id = Ref("Service", "postgresql-metrics")
<1>1. ASSUME NEW s PROVE BuildKineDeployment(s).id = Ref("Deployment", "kine")
  BY Zenon DEF BuildKineDeployment
<1>2. ASSUME NEW s PROVE BuildSecondaryDeployment(s).id = Ref("Deployment", "apiserver")
  BY Zenon DEF BuildSecondaryDeployment
<1>3. ASSUME NEW s PROVE BuildOTelCollectorDeployment(s).id = Ref("Deployment", "postgresql-metrics")
  BY Zenon DEF BuildOTelCollectorDeployment
<1>4. BuildPostgreSQLStatefulSet.id = Ref("StatefulSet", "postgresql")
  BY Zenon DEF BuildPostgreSQLStatefulSet
<1>5. /\ BuildKineService.id = Ref("Service", "kine")
      /\ BuildSecondaryService.id = Ref("Service", "apiserver")
      /\ BuildPostgreSQLService.id = Ref("Service", "postgresql")
      /\ BuildOTelCollectorService.id = Ref("Service", "postgresql-metrics")
  BY Zenon DEF Service, BuildKineService, BuildSecondaryService, BuildPostgreSQLService,
         BuildOTelCollectorService
<1> QED  BY <1>1, <1>2, <1>3, <1>4, <1>5, Zenon

Budget(name, replicas, labels) == Elements(PDB(name, replicas, labels))
KineSet(s) ==
  {Ref("Deployment", "kine")} \cup Budget("kine", s.kine, KineLabels) \cup {Ref("Service", "kine")}
DatabaseSet ==
  {Secret("postgresql-credentials"), ConfigMap("postgresql-init"),
   Ref("StatefulSet", "postgresql"), Ref("Service", "postgresql")}
StorageSet(s) == (IF s.storage = InClusterPostgreSQL THEN DatabaseSet ELSE {}) \cup KineSet(s)
SecondarySet(s) ==
  {Ref("Deployment", "apiserver")} \cup Budget("apiserver", s.secondary, APIServerLabels)
  \cup {Ref("Service", "apiserver")}

LEMMA BudgetListed ==
  ASSUME NEW name, NEW replicas, NEW labels
  PROVE  /\ Listed(PDB(name, replicas, labels), Budget(name, replicas, labels))
         /\ Budget(name, replicas, labels) \subseteq {Ref("PodDisruptionBudget", name)}
<1>1. \/ PDB(name, replicas, labels) = <<>>
      \/ PDB(name, replicas, labels) = <<Ref("PodDisruptionBudget", name)>>
  BY Zenon DEF PDB
<1>2. \/ Listed(PDB(name, replicas, labels), {})
      \/ Listed(PDB(name, replicas, labels), {Ref("PodDisruptionBudget", name)})
  BY <1>1, TuplesListed, Zenon
<1>3. \A q, S : Listed(q, S) => Listed(q, Elements(q)) /\ Elements(q) = S
  BY Zenon DEF Listed
<1> QED  BY <1>2, <1>3 DEF Budget

LEMMA StorageListed ==
  ASSUME NEW s
  PROVE  Listed(reconcileStorage(s), StorageSet(s))
<1>1. Listed(reconcileKine(s), KineSet(s))
  <2>1. /\ Listed(<<Ref("Deployment", "kine")>>, {Ref("Deployment", "kine")})
        /\ Listed(<<Ref("Service", "kine")>>, {Ref("Service", "kine")})
    BY TuplesListed, Zenon
  <2> QED  BY <2>1, IdsAre, BudgetListed, ConcatListed, Zenon DEF reconcileKine, KineSet
<1>2. Listed(reconcileInClusterPostgreSQL, DatabaseSet)
  BY IdsAre, TuplesListed, Zenon
     DEF reconcileInClusterPostgreSQL, DatabaseSet, BuildPostgreSQLSecret,
     BuildPostgreSQLInitConfigMap
<1>3. Listed(<<>>, {})
  BY TuplesListed, Zenon
<1>4. CASE s.storage = InClusterPostgreSQL
  <2>1. reconcileStorage(s) = reconcileInClusterPostgreSQL \o reconcileKine(s)
        /\ StorageSet(s) = DatabaseSet \cup KineSet(s)
    BY <1>4, Zenon DEF reconcileStorage, StorageSet
  <2>2. Listed(reconcileInClusterPostgreSQL \o reconcileKine(s), DatabaseSet \cup KineSet(s))
    BY <1>1, <1>2, ConcatListed, Zenon
  <2> QED  BY <2>1, <2>2, Zenon
<1>5. CASE s.storage # InClusterPostgreSQL
  <2>1. reconcileStorage(s) = <<>> \o reconcileKine(s) /\ StorageSet(s) = {} \cup KineSet(s)
    BY <1>5, Zenon DEF reconcileStorage, StorageSet
  <2> QED  BY <1>1, <1>3, <2>1, ConcatListed, ZenonT(30)
<1> QED  BY <1>4, <1>5, Zenon

LEMMA SecondaryListed ==
  ASSUME NEW s
  PROVE  Listed(reconcileSecondary(s), SecondarySet(s))
<1>1. /\ Listed(<<Ref("Deployment", "apiserver")>>, {Ref("Deployment", "apiserver")})
      /\ Listed(<<Ref("Service", "apiserver")>>, {Ref("Service", "apiserver")})
  BY TuplesListed, Zenon
<1> QED  BY <1>1, IdsAre, BudgetListed, ConcatListed, Zenon DEF reconcileSecondary, SecondarySet

ReaderSet ==
  {BuildMetricsReaderServiceAccount, BuildMetricsReaderTokenSecret,
   BuildMetricsReaderClusterRoleBinding.id}
ScrapedSet ==
  {BuildKineServiceMonitor.id, BuildSecondaryServiceMonitor.id,
   BuildPrometheusDiscoveryRole, BuildPrometheusDiscoveryRoleBinding.id}
MetricsSet(f, c) ==
  IF ~f.monitor THEN {} ELSE ReaderSet \cup (IF c.monitor THEN ScrapedSet ELSE {})
CollectorSet(s, f) ==
  (IF s.storage = PostgreSQL THEN {Secret("postgresql-metrics-credentials")} ELSE {})
  \cup ({BuildOTelCollectorConfigMap(s), Ref("Deployment", "postgresql-metrics"),
         Ref("Service", "postgresql-metrics")}
        \cup (IF f.monitor THEN {BuildPostgreSQLMetricsServiceMonitor.id} ELSE {}))

LEMMA MetricsListed ==
  ASSUME NEW f, NEW c
  PROVE  Listed(reconcileMetrics(f, c), MetricsSet(f, c))
<1> DEFINE reader == <<BuildMetricsReaderServiceAccount, BuildMetricsReaderTokenSecret,
                       BuildMetricsReaderClusterRoleBinding.id>>
           scraped == <<BuildKineServiceMonitor.id, BuildSecondaryServiceMonitor.id,
                        BuildPrometheusDiscoveryRole, BuildPrometheusDiscoveryRoleBinding.id>>
<1>1. Listed(reader, ReaderSet) /\ Listed(scraped, ScrapedSet) /\ Listed(<<>>, {})
  BY TuplesListed, Zenon DEF ReaderSet, ScrapedSet
<1>2. reconcileMetrics(f, c) = IF ~f.monitor THEN <<>> ELSE reader \o (IF c.monitor THEN scraped ELSE <<>>)
  BY Zenon DEF reconcileMetrics
<1> HIDE DEF reader, scraped
<1>3. Listed(reader \o scraped, ReaderSet \cup ScrapedSet) /\ Listed(reader \o <<>>, ReaderSet \cup {})
  BY <1>1, ConcatListed, Zenon
<1>4. CASE ~f.monitor
  BY <1>1, <1>2, <1>4, Zenon DEF MetricsSet
<1>5. CASE f.monitor /\ c.monitor
  BY <1>2, <1>3, <1>5, Zenon DEF MetricsSet
<1>6. CASE f.monitor /\ ~c.monitor
  BY <1>2, <1>3, <1>6, Zenon DEF MetricsSet
<1> QED  BY <1>4, <1>5, <1>6, Zenon

LEMMA CollectorListed ==
  ASSUME NEW s, NEW f
  PROVE  Listed(Collector(s, f), CollectorSet(s, f))
<1>1. /\ Listed(<<>>, {})
      /\ Listed(<<Secret("postgresql-metrics-credentials")>>, {Secret("postgresql-metrics-credentials")})
      /\ Listed(<<BuildPostgreSQLMetricsServiceMonitor.id>>, {BuildPostgreSQLMetricsServiceMonitor.id})
      /\ Listed(<<BuildOTelCollectorConfigMap(s), Ref("Deployment", "postgresql-metrics"),
                  Ref("Service", "postgresql-metrics")>>,
                {BuildOTelCollectorConfigMap(s), Ref("Deployment", "postgresql-metrics"),
                 Ref("Service", "postgresql-metrics")})
  BY TuplesListed, Zenon
<1> QED
  BY <1>1, IdsAre, ConcatListed, Zenon
     DEF Collector, ensureOTelCredentialSecret, applyOTelCollector, CollectorSet

ChainSet ==
  {BuildSelfSignedIssuer.id, BuildCACertificate.id, BuildCAIssuer.id,
   BuildServingCertificate.id, BuildAdminClientCertificate.id,
   BuildKineSelfSignedIssuer.id, BuildKineCACertificate.id, BuildKineCAIssuer.id,
   BuildKineServingCertificate.id, BuildEtcdClientCertificate.id}
DatabaseChainSet ==
  {BuildPostgreSQLSelfSignedIssuer.id, BuildPostgreSQLCACertificate.id,
   BuildPostgreSQLCAIssuer.id, BuildPostgreSQLServingCertificate.id}
CertificateSet(s) ==
  ChainSet \cup (IF s.storage = InClusterPostgreSQL THEN DatabaseChainSet ELSE {})
SCCSet(f) ==
  IF f.scc THEN {BuildAPIServerSCC, BuildAPIServerSCCClusterRole, BuildAPIServerSCCRoleBinding.id}
           ELSE {}
FoundationSet(s, f) ==
  CertificateSet(s) \cup {ConfigMap("authz-config")} \cup {BuildSecondaryServiceAccount}
  \cup {AuthDelegatorBinding.id} \cup SCCSet(f) \cup {ConfigMap("requestheader-ca")}

LEMMA FoundationListed ==
  ASSUME NEW s, NEW f
  PROVE  Listed(Foundation(s, f), FoundationSet(s, f))
<1>0. Listed(<<>>, {}) /\ \A x : Listed(<<x>>, {x})
  BY TuplesListed, Zenon
<1>1. Listed(reconcileCertManager(s), CertificateSet(s))
  <2> DEFINE chain == <<BuildSelfSignedIssuer.id, BuildCACertificate.id, BuildCAIssuer.id,
               BuildServingCertificate.id, BuildAdminClientCertificate.id,
               BuildKineSelfSignedIssuer.id, BuildKineCACertificate.id, BuildKineCAIssuer.id,
               BuildKineServingCertificate.id, BuildEtcdClientCertificate.id>>
             more == IF s.storage = InClusterPostgreSQL
                       THEN <<BuildPostgreSQLSelfSignedIssuer.id, BuildPostgreSQLCACertificate.id,
                              BuildPostgreSQLCAIssuer.id, BuildPostgreSQLServingCertificate.id>>
                       ELSE <<>>
             moreSet == IF s.storage = InClusterPostgreSQL THEN DatabaseChainSet ELSE {}
  <2>1. Listed(chain, ChainSet)
    BY TenListed, Zenon DEF ChainSet
  <2>2. Listed(more, moreSet)
    BY TuplesListed, Zenon DEF DatabaseChainSet
  <2>3. reconcileCertManager(s) = chain \o more /\ CertificateSet(s) = ChainSet \cup moreSet
    BY Zenon DEF reconcileCertManager, CertificateSet
  <2> HIDE DEF chain, more, moreSet
  <2>4. Listed(chain \o more, ChainSet \cup moreSet)
    BY <2>1, <2>2, ConcatListed, Zenon
  <2> QED  BY <2>3, <2>4, Zenon
<1>2. Listed(reconcileAPIServerSCC(f), SCCSet(f))
  <2>1. ASSUME NEW x, NEW y, NEW z PROVE Listed(<<x, y, z>>, {x, y, z})
    BY TuplesListed, Zenon
  <2>2. CASE f.scc
    BY <2>1, <2>2, Zenon DEF reconcileAPIServerSCC, SCCSet
  <2>3. CASE ~f.scc
    BY <1>0, <2>3, Zenon DEF reconcileAPIServerSCC, SCCSet
  <2> QED  BY <2>2, <2>3, Zenon
<1>3. /\ Listed(reconcileAuthConfig, {ConfigMap("authz-config")})
      /\ Listed(reconcileSecondaryServiceAccount, {BuildSecondaryServiceAccount})
      /\ Listed(reconcileAuthDelegator, {AuthDelegatorBinding.id})
      /\ Listed(reconcileRequestHeaderCA, {ConfigMap("requestheader-ca")})
  BY <1>0, Zenon DEF reconcileAuthConfig, reconcileSecondaryServiceAccount, reconcileAuthDelegator,
     reconcileRequestHeaderCA
<1>4. Listed(reconcileCertManager(s) \o reconcileAuthConfig \o reconcileSecondaryServiceAccount,
             CertificateSet(s) \cup {ConfigMap("authz-config")} \cup {BuildSecondaryServiceAccount})
  BY <1>1, <1>3, ConcatListed, Zenon
<1>5. Listed(reconcileCertManager(s) \o reconcileAuthConfig \o reconcileSecondaryServiceAccount
             \o reconcileAuthDelegator \o reconcileAPIServerSCC(f),
             CertificateSet(s) \cup {ConfigMap("authz-config")} \cup {BuildSecondaryServiceAccount}
             \cup {AuthDelegatorBinding.id} \cup SCCSet(f))
  BY <1>2, <1>3, <1>4, ConcatListed, Zenon
<1>6. Listed(reconcileCertManager(s) \o reconcileAuthConfig \o reconcileSecondaryServiceAccount
             \o reconcileAuthDelegator \o reconcileAPIServerSCC(f) \o reconcileRequestHeaderCA,
             FoundationSet(s, f))
  BY <1>3, <1>5, ConcatListed, Zenon DEF FoundationSet
<1> QED  BY <1>6, Zenon DEF Foundation

LEMMA FirmIs ==
  ASSUME NEW s, NEW f, NEW c
  PROVE  /\ Firm(s, f, c) = StorageSet(s) \cup FoundationSet(s, f) \cup SecondarySet(s) \cup MetricsSet(f, c)
         /\ Elements(reconcileSecondary(s) \o reconcileMetrics(f, c)) = SecondarySet(s) \cup MetricsSet(f, c)
         /\ Elements(reconcileStorage(s)) = StorageSet(s)
         /\ Elements(Foundation(s, f)) = FoundationSet(s, f)
<1>1. Listed(reconcileSecondary(s) \o reconcileMetrics(f, c), SecondarySet(s) \cup MetricsSet(f, c))
  BY SecondaryListed, MetricsListed, ConcatListed, Zenon
<1> QED
  BY <1>1, StorageListed, FoundationListed, SecondaryListed, MetricsListed, Zenon DEF Listed, Firm

LEMMA MetricsMost ==
  ASSUME NEW f, NEW c, NEW d, ~d.monitor
  PROVE  MetricsSet(f, d) \subseteq MetricsSet(f, c) /\ MetricsSet(f, c) \subseteq MetricsSet(f, [monitor |-> TRUE])
<1>1. [monitor |-> TRUE].monitor = TRUE
  BY Zenon
<1> QED  BY <1>1, Zenon DEF MetricsSet

LEMMA NeededIs ==
  ASSUME NEW s
  PROVE  /\ Needed(s) \subseteq StorageSet(s) \cup SecondarySet(s)
         /\ \A o \in Needed(s) : o.kind \in {"Deployment", "StatefulSet"}
<1>1. Needed(s) \subseteq {Ref("Deployment", "kine"), Ref("Deployment", "apiserver"), Ref("StatefulSet", "postgresql")}
  BY IdsAre, Zenon DEF Needed
<1>2. \A o \in Needed(s) : o.kind \in {"Deployment", "StatefulSet"}
  BY <1>1 DEF Ref
<1>3. Needed(s) \subseteq StorageSet(s) \cup SecondarySet(s)
  BY IdsAre, Zenon DEF Needed, StorageSet, SecondarySet, KineSet, DatabaseSet
<1> QED  BY <1>2, <1>3, Zenon

LEMMA FirmKinds ==
  ASSUME NEW s, NEW f, NEW c, ~c.monitor, NEW o \in Firm(s, f, c)
  PROVE  o.kind # "ServiceMonitor"
<1>1. CASE o \in StorageSet(s) \cup SecondarySet(s)
  <2>1. o \in {Ref("Deployment", "kine"), Ref("PodDisruptionBudget", "kine"), Ref("Service", "kine"),
               Ref("Deployment", "apiserver"), Ref("PodDisruptionBudget", "apiserver"),
               Ref("Service", "apiserver")} \cup DatabaseSet
    BY <1>1, BudgetListed, Zenon DEF StorageSet, SecondarySet, KineSet
  <2> QED  BY <2>1 DEF DatabaseSet, Secret, ConfigMap, Ref
<1>2. CASE o \in FoundationSet(s, f)
  <2>1. CASE o \in CertificateSet(s)
    <3>1. \A x \in ChainSet : x.kind \in {"Issuer", "Certificate"}
      BY DEF ChainSet, BuildSelfSignedIssuer, BuildCACertificate, BuildCAIssuer,
        BuildServingCertificate, BuildAdminClientCertificate,
        BuildKineSelfSignedIssuer, BuildKineCACertificate, BuildKineCAIssuer,
        BuildKineServingCertificate, BuildEtcdClientCertificate, Certificate, buildServingCert,
        CAIssuer, Issuer, Ref
    <3>2. \A x \in DatabaseChainSet : x.kind \in {"Issuer", "Certificate"}
      BY DEF DatabaseChainSet, BuildPostgreSQLSelfSignedIssuer, BuildPostgreSQLCACertificate,
        BuildPostgreSQLCAIssuer, BuildPostgreSQLServingCertificate, Certificate, buildServingCert,
        CAIssuer, Issuer, Ref
    <3> QED  BY <2>1, <3>1, <3>2, Zenon DEF CertificateSet
  <2>2. CASE o \in {ConfigMap("authz-config"), BuildSecondaryServiceAccount, ConfigMap("requestheader-ca")}
    BY <2>2 DEF ConfigMap, BuildSecondaryServiceAccount, Ref
  <2>3. CASE o = AuthDelegatorBinding.id \/ o \in SCCSet(f)
    BY <2>3
       DEF SCCSet, AuthDelegatorBinding, Binding, BuildAPIServerSCC, BuildAPIServerSCCClusterRole,
       BuildAPIServerSCCRoleBinding, Ref
  <2> QED  BY <1>2, <2>1, <2>2, <2>3, Zenon DEF FoundationSet
<1>3. CASE o \in MetricsSet(f, c)
  <2>1. o \in ReaderSet
    BY <1>3, Zenon DEF MetricsSet
  <2> QED  BY <2>1 DEF ReaderSet, BuildMetricsReaderServiceAccount, BuildMetricsReaderTokenSecret,
              BuildMetricsReaderClusterRoleBinding, Binding, Secret, Ref
<1> QED  BY <1>1, <1>2, <1>3, FirmIs
-----------------------------------------------------------------------------
(* A step of the pass that is behind it is tracked.                        *)
AfterStorage == {"collector", "foundation", "kubeconfig", "secondary", "health", "cleanup"}
AfterFoundation == {"kubeconfig", "secondary", "health", "cleanup"}
AfterServing == {"health", "cleanup"}
TrackInv ==
  /\ pc \in AfterStorage => StorageSet(copy) \subseteq tracked
  /\ pc \in AfterFoundation => FoundationSet(copy, found) \subseteq tracked
  /\ pc \in AfterServing => SecondarySet(copy) \cup MetricsSet(found, cluster) \subseteq tracked

(* A pass that goes on to a later step has tracked the one behind it; what *)
(* happens around it takes nothing from what it has tracked.               *)
LEMMA TrackStep == TrackInv /\ [Next]_vars => TrackInv'
<1> SUFFICES ASSUME TrackInv, [Next]_vars PROVE TrackInv'
  BY Zenon
<1> USE DEF TrackInv, AfterStorage, AfterFoundation, AfterServing
<1>0. ASSUME UNCHANGED <<pc, copy, found, tracked>>,
             UNCHANGED cluster \/ (~cluster'.monitor)
      PROVE  TrackInv'
  <2>1. CASE UNCHANGED cluster
    BY <1>0, <2>1, Zenon
  <2>2. CASE ~cluster'.monitor
    <3>1. MetricsSet(found, cluster') \subseteq MetricsSet(found, cluster)
      BY <2>2, MetricsMost, Zenon
    <3> QED  BY <1>0, <3>1, Zenon
  <2> QED  BY <1>0, <2>1, <2>2, Zenon
<1>1. CASE Edit \/ EditConnection \/ Issue \/ StartPods \/ LoseObject \/ LoseSecret \/ UNCHANGED vars
  <2>1. UNCHANGED <<pc, copy, found, tracked, cluster>>
    BY <1>1, Zenon
       DEF Edit, EditConnection, Issue, StartPods, LoseObject, LoseSecret, vars, pass, world
  <2> QED  BY <1>0, <2>1, Zenon
<1>2. CASE RemoveMonitors
  <2>1. UNCHANGED <<pc, copy, found, tracked>>
    BY <1>2, Zenon DEF RemoveMonitors, pass
  <2>2. UNCHANGED cluster \/ ~cluster'.monitor
    BY <1>2 DEF RemoveMonitors
  <2> QED  BY <1>0, <2>1, <2>2, Zenon
<1>3. CASE \/ Restart \/ Begin \/ StorageFails \/ EstablishFails \/ PublishKubeconfigFails
           \/ ServeFails \/ CheckHealthFails \/ CleanupAndReport \/ CleanupAndReportFails
  <2>1. pc' = "idle" \/ pc' = "storage"
    BY <1>3, Zenon
       DEF Restart, Begin, StorageFails, EstablishFails, PublishKubeconfigFails, ServeFails,
         CheckHealthFails, CleanupAndReport, CleanupAndReportFails, Finish, ApplyFails,
         setErrorAndRequeue
  <2> QED  BY <2>1, Zenon
<1>4. CASE Storage
  <2>1. /\ pc' = "collector" /\ UNCHANGED copy
        /\ tracked' = tracked \cup StorageSet(copy)
    BY <1>4, FirmIs, Zenon DEF Storage, Apply
  <2> QED  BY <2>1, Zenon
<1>5. CASE CollectMetrics \/ CollectMetricsFails
  <2>1. pc = "collector" /\ pc' = "foundation" /\ UNCHANGED copy
    BY <1>5, Zenon DEF CollectMetrics, CollectMetricsFails, Apply
  <2>2. \E more : tracked' = tracked \cup more
    BY <1>5, Zenon DEF CollectMetrics, CollectMetricsFails, Apply
  <2> QED  BY <2>1, <2>2, Zenon
<1>6. CASE Establish
  <2>1. /\ pc = "foundation" /\ pc' = "kubeconfig" /\ UNCHANGED <<copy, found>>
        /\ tracked' = tracked \cup FoundationSet(copy, found)
    BY <1>6, FirmIs, Zenon DEF Establish, Apply
  <2> QED  BY <2>1, Zenon
<1>7. CASE PublishKubeconfig
  <2>1. /\ pc = "kubeconfig" /\ pc' = "secondary" /\ UNCHANGED <<copy, found>>
        /\ tracked' = tracked \cup Elements(Kubeconfig)
    BY <1>7, Zenon DEF PublishKubeconfig, Apply
  <2> QED  BY <2>1, Zenon
<1>8. CASE Serve
  <2>1. /\ pc = "secondary" /\ pc' = "health" /\ UNCHANGED <<copy, found, cluster>>
        /\ tracked' = tracked \cup Elements(reconcileSecondary(copy) \o reconcileMetrics(found, cluster))
    BY <1>8, Zenon DEF Serve, Apply, world
  <2>2. tracked' = tracked \cup (SecondarySet(copy) \cup MetricsSet(found, cluster))
    BY <2>1, FirmIs, ZenonT(30)
  <2> QED  BY <2>1, <2>2, Zenon
<1>9. CASE CheckHealth
  <2>1. pc = "health" /\ pc' = "cleanup" /\ UNCHANGED <<copy, found, cluster, tracked>>
    BY <1>9, Zenon DEF CheckHealth, world
  <2> QED  BY <2>1, Zenon
<1> QED
  BY <1>1, <1>2, <1>3, <1>4, <1>5, <1>6, <1>7, <1>8, <1>9, Zenon
     DEF Next, Reconcile, User, Misfortune

(* CleanupOrphans deletes nothing that the shard needs to work, for any    *)
(* specs and clusters, and any number of edits, failed requests, losses    *)
(* and restarts: every step that Reconcile does not return from has        *)
(* tracked what it applies.                                                *)
THEOREM CleanupKeepsWanted == Spec => KeepsWanted
<1>1. Init => TrackInv
  BY Zenon DEF Init, TrackInv, AfterStorage, AfterFoundation, AfterServing
<1>2. TrackInv /\ [Next]_vars =>
        [pc = "cleanup" /\ pc' = "idle" => (objects \ objects') \cap Firm(copy, found, cluster) = {}]_vars
  <2> SUFFICES ASSUME TrackInv, Next, pc = "cleanup", pc' = "idle"
               PROVE  (objects \ objects') \cap Firm(copy, found, cluster) = {} \/ UNCHANGED vars
    BY Zenon
  <2>1. Firm(copy, found, cluster) \subseteq tracked
    BY FirmIs DEF TrackInv, AfterStorage, AfterFoundation, AfterServing
  <2>2. CASE CleanupAndReport \/ CleanupAndReportFails
    <3>1. PICK gone : gone \subseteq objects \ tracked /\ objects' = objects \ gone
      <4>1. PICK gone, written : gone \subseteq Orphans /\ Finish(gone, written)
        BY <2>2, Zenon DEF CleanupAndReport, CleanupAndReportFails
      <4> QED  BY <4>1, Zenon DEF Finish, Vanish, Orphans
    <3> QED  BY <2>1, <3>1, Zenon
  <2>3. CASE Restart
    BY <2>3, Zenon DEF Restart, stack
  <2>4. CASE Edit \/ EditConnection \/ Issue \/ StartPods \/ LoseObject \/ LoseSecret \/ RemoveMonitors
    <3>1. UNCHANGED pc
      BY <2>4, Zenon
         DEF Edit, EditConnection, Issue, StartPods, LoseObject, LoseSecret, RemoveMonitors, pass
    <3> QED  BY <3>1, Zenon
  <2>5. CASE \/ Begin \/ Storage \/ StorageFails \/ CollectMetrics \/ CollectMetricsFails
             \/ Establish \/ EstablishFails \/ PublishKubeconfig \/ PublishKubeconfigFails
             \/ Serve \/ ServeFails \/ CheckHealth \/ CheckHealthFails
    <3>1. pc \in {"idle", "storage", "collector", "foundation", "kubeconfig", "secondary", "health"}
      BY <2>5, Zenon
         DEF Begin, Storage, StorageFails, CollectMetrics, CollectMetricsFails, Establish,
           EstablishFails, PublishKubeconfig, PublishKubeconfigFails, Serve, ServeFails, CheckHealth,
           CheckHealthFails
    <3> QED  BY <3>1, Zenon
  <2> QED  BY <2>2, <2>3, <2>4, <2>5, Zenon DEF Next, Reconcile, User, Misfortune
<1> QED  BY <1>1, <1>2, TrackStep, PTL DEF Spec, KeepsWanted
-----------------------------------------------------------------------------
(* What a pass may apply at most, and what of a set the operator would see *)
(* disappear: objects of the watched kinds, without the ServiceMonitors    *)
(* that went with their API.                                               *)
AfterCollector == {"foundation", "kubeconfig", "secondary", "health", "cleanup"}
Wanted(s, f) == Firm(s, f, [monitor |-> TRUE]) \cup Collected(s, f) \cup {AdminKubeconfig}
Watched(set) ==
  {o \in set : o.kind \in OwnedKinds(found) /\ (o.kind = "ServiceMonitor" => cluster.monitor)}

(* While no further pass is due, what the running pass has tracked is      *)
(* there, and what it will say of the collector is true of the shard.      *)
PassInv ==
  /\ queued \in BOOLEAN
  /\ pc # "idle" => tracked \subseteq Wanted(copy, found)
  /\ pc \in AfterCollector =>
       /\ copy.monitoring <=> report # "unset"
       /\ report = "False" => Collected(copy, found) \subseteq tracked
  /\ ~queued /\ pc # "idle" => copy = shard /\ Watched(tracked) \subseteq objects
  /\ ~queued /\ pc = "cleanup" /\ ~again => Needed(shard) \subseteq running
RestInv ==
  Quiet =>
    /\ Watched(Firm(shard, found, cluster)) \subseteq objects
    /\ Needed(shard) \subseteq running
    /\ shard.monitoring <=> degraded # "unset"
    /\ degraded = "False" => Watched(Collected(shard, found)) \subseteq objects
    /\ ~skipped => objects \subseteq Wanted(shard, found)

(* What is said of the collector, in the status or by a pass underway.     *)
Tally == [edits: Nat, faults: Nat, mishaps: Nat, hiccups: Nat]
Says(condition) ==
  /\ shard.monitoring /\ ~DeployableFor(shard) => condition = "True"
  /\ condition = "True" /\ budgets.faults = 0 /\ (found.monitor => cluster.monitor) =>
       ~DeployableFor(shard)
ReportInv ==
  /\ budgets \in Tally
  /\ ~queued /\ pc \in AfterStorage \cup {"idle"} =>
       (shard.storage = PostgreSQL => connection # "absent")
  /\ ~queued /\ pc \in AfterCollector => Says(report)
  /\ Quiet => Says(degraded)

(* What happens around a pass and goes unnoticed disturbs neither.         *)
Around ==
  /\ UNCHANGED <<shard, found, degraded, skipped, pc, copy, tracked, report, again>>
  /\ UNCHANGED cluster \/ ~cluster'.monitor
  /\ queued' \in BOOLEAN
  /\ objects' \subseteq objects
  /\ ~queued' =>
       /\ ~queued
       /\ \A o \in objects \ objects' :
            ~(o.kind \in OwnedKinds(found) /\ (o.kind = "ServiceMonitor" => cluster'.monitor))
       /\ \A o \in running \ running' : o.kind \notin {"Deployment", "StatefulSet"}

LEMMA WatchedShrinks ==
  ASSUME UNCHANGED found, UNCHANGED cluster \/ ~cluster'.monitor,
         \A o \in objects \ objects' :
            ~(o.kind \in OwnedKinds(found) /\ (o.kind = "ServiceMonitor" => cluster'.monitor)),
         NEW set, Watched(set) \subseteq objects, NEW less \in SUBSET set
  PROVE  {o \in less : o.kind \in OwnedKinds(found') /\ (o.kind = "ServiceMonitor" => cluster'.monitor)}
           \subseteq objects'
  BY Zenon DEF Watched

LEMMA AroundHolds ==
  ASSUME PassInv, RestInv, Around
  PROVE  PassInv' /\ RestInv'
<1>1. ASSUME ~queued' PROVE \A s : Needed(s) \subseteq running => Needed(s) \subseteq running'
  BY <1>1, NeededIs, Zenon DEF Around
<1>2. PassInv'
  <2>1. ASSUME ~queued', pc' # "idle" PROVE Watched(tracked)' \subseteq objects'
    <3>1. Watched(tracked) \subseteq objects /\ tracked' = tracked
      BY <2>1, Zenon DEF PassInv, Around
    <3> QED  BY <2>1, <3>1, WatchedShrinks, Zenon DEF Around, Watched
  <2> QED  BY <1>1, <2>1, Zenon DEF PassInv, Around
<1>3. RestInv'
  <2> SUFFICES ASSUME Quiet' PROVE RestInv'
    BY Zenon DEF RestInv
  <2>1. Quiet /\ ~queued' /\ UNCHANGED <<shard, found, degraded, skipped>>
    BY Zenon DEF Quiet, Around
  <2>2. Watched(Firm(shard, found, cluster))' \subseteq objects'
    <3>1. Firm(shard, found, cluster') \subseteq Firm(shard, found, cluster)
      BY FirmIs, MetricsMost DEF Around
    <3>2. Watched(Firm(shard, found, cluster)) \subseteq objects
      BY <2>1, Zenon DEF RestInv
    <3> QED  BY <2>1, <3>1, <3>2, WatchedShrinks, Zenon DEF Around, Watched
  <2>3. degraded' = "False" => Watched(Collected(shard, found))' \subseteq objects'
    <3>1. ASSUME degraded = "False" PROVE Watched(Collected(shard, found)) \subseteq objects
      BY <2>1, <3>1, Zenon DEF RestInv
    <3> QED  BY <2>1, <3>1, WatchedShrinks, Zenon DEF Around, Watched
  <2>4. Needed(shard) \subseteq running'
    BY <1>1, <2>1, Zenon DEF RestInv
  <2>5. /\ shard.monitoring <=> degraded # "unset"
        /\ ~skipped => objects' \subseteq Wanted(shard, found)
    BY <2>1, Zenon DEF RestInv, Around
  <2> QED  BY <2>1, <2>2, <2>3, <2>4, <2>5, Zenon DEF RestInv
<1> QED  BY <1>2, <1>3, Zenon

(* A step that applies put and goes on.                                    *)
Applies(put) ==
  /\ UNCHANGED <<shard, cluster, found, copy>>
  /\ put \subseteq Wanted(copy, found)
  /\ objects \cup put \subseteq objects'
  /\ tracked' = tracked \cup put
  /\ queued' \in BOOLEAN /\ (~queued' => ~queued)
  /\ pc # "idle" /\ pc' \notin {"idle", "cleanup"}

LEMMA AppliesHolds ==
  ASSUME PassInv, NEW put, Applies(put),
         pc' \in AfterCollector =>
           /\ copy.monitoring <=> report' # "unset"
           /\ report' = "False" => Collected(copy, found) \subseteq tracked'
  PROVE  PassInv' /\ RestInv'
<1>1. RestInv'
  BY Zenon DEF RestInv, Quiet, Applies
<1>2. tracked' \subseteq Wanted(copy, found)
  BY Zenon DEF PassInv, Applies
<1>3. ASSUME ~queued' PROVE Watched(tracked)' \subseteq objects'
  BY <1>3, Zenon DEF PassInv, Applies, Watched
<1>4. ASSUME ~queued' PROVE copy = shard
  BY <1>4, Zenon DEF PassInv, Applies
<1>5. PassInv'
  <2>1. /\ queued' \in BOOLEAN /\ pc' \notin {"idle", "cleanup"} /\ UNCHANGED <<shard, found, copy>>
    BY Zenon DEF Applies
  <2> QED  BY <1>2, <1>3, <1>4, <2>1, Zenon DEF PassInv
<1> QED  BY <1>1, <1>5, Zenon

(* The clean-up: what the pass has tracked stays, and only that.           *)
LEMMA FinishHolds ==
  ASSUME TrackInv, PassInv, NEW gone, gone \subseteq Orphans, NEW written \in BOOLEAN,
         Finish(gone, written)
  PROVE  PassInv' /\ RestInv'
<1>1. /\ pc = "cleanup" /\ pc' = "idle" /\ UNCHANGED <<shard, cluster, found>>
      /\ objects' = objects \ gone /\ running' = running \ gone
      /\ skipped' = (gone # Orphans) /\ degraded' = IF written THEN report ELSE degraded
  BY Zenon DEF Finish, Vanish, world
<1>2. queued' \in BOOLEAN /\ (~queued' => ~queued /\ ~again /\ written)
  BY Zenon DEF Finish
<1>3. PassInv'
  BY <1>1, <1>2, Zenon DEF PassInv, AfterCollector
<1>4. ASSUME ~queued' PROVE RestInv'
  <2>1. copy = shard /\ Watched(tracked) \subseteq objects /\ degraded' = report /\ Needed(shard) \subseteq running
    BY <1>1, <1>2, <1>4, Zenon DEF PassInv
  <2>2. gone \subseteq objects \ tracked
    BY Zenon DEF Orphans
  <2>3. Watched(tracked) \subseteq objects'
    BY <1>1, <2>1, <2>2, Zenon DEF Watched
  <2>4. Firm(shard, found, cluster) \subseteq tracked
    BY <1>1, <2>1, FirmIs DEF TrackInv, AfterStorage, AfterFoundation, AfterServing
  <2>5. Watched(Firm(shard, found, cluster))' \subseteq objects'
    BY <1>1, <2>3, <2>4, Zenon DEF Watched
  <2>6. Needed(shard) \subseteq running'
    BY <1>1, <2>1, <2>2, <2>4, NeededIs, FirmIs
  <2>7. (shard.monitoring <=> report # "unset") /\ (report = "False" => Collected(shard, found) \subseteq tracked)
    BY <1>1, <2>1, Zenon DEF PassInv, AfterCollector
  <2>8. degraded' = "False" => Watched(Collected(shard, found))' \subseteq objects'
    BY <1>1, <2>1, <2>3, <2>7, Zenon DEF Watched
  <2>9. ~skipped' => objects' \subseteq Wanted(shard, found)
    <3>1. ASSUME ~skipped' PROVE objects' \subseteq tracked
      BY <1>1, <3>1, Zenon DEF Orphans
    <3>2. tracked \subseteq Wanted(shard, found)
      BY <1>1, <2>1, Zenon DEF PassInv
    <3> QED  BY <3>1, <3>2, Zenon
  <2> QED  BY <1>1, <2>1, <2>5, <2>6, <2>7, <2>8, <2>9, Zenon DEF RestInv
<1> QED  BY <1>3, <1>4, Zenon DEF RestInv, Quiet

LEMMA WantedIs ==
  ASSUME NEW s, NEW f, NEW c
  PROVE  /\ Firm(s, f, c) \cup Collected(s, f) \cup {AdminKubeconfig} \subseteq Wanted(s, f)
         /\ Elements(Kubeconfig) \subseteq {AdminKubeconfig}
<1>1. Firm(s, f, c) \subseteq Firm(s, f, [monitor |-> TRUE])
  <2>1. ~[monitor |-> FALSE].monitor
    BY Zenon
  <2>2. MetricsSet(f, c) \subseteq MetricsSet(f, [monitor |-> TRUE])
    BY <2>1, MetricsMost, Zenon
  <2> QED  BY <2>2, FirmIs
<1>2. Elements(Kubeconfig) \subseteq {AdminKubeconfig}
  <2>1. Kubeconfig = <<AdminKubeconfig>> \/ Kubeconfig = <<>>
    BY Zenon DEF Kubeconfig
  <2> QED  BY <2>1, TuplesListed, Zenon DEF Listed
<1> QED  BY <1>1, <1>2, Zenon DEF Wanted

(* The steps that apply objects.                                           *)
LEMMA ApplyStep ==
  ASSUME PassInv, NEW refs, NEW next, Apply(refs, next), UNCHANGED <<world, found>>,
         Elements(refs) \subseteq Wanted(copy, found), pc # "idle", next \notin {"idle", "cleanup"}
  PROVE  Applies(Elements(refs))
<1>1. /\ objects' = objects \cup Elements(refs) /\ tracked' = tracked \cup Elements(refs)
      /\ pc' = next /\ UNCHANGED <<copy, shard, cluster, found>>
  BY Zenon DEF Apply, Put, world
<1>2. queued' \in BOOLEAN /\ (~queued' => ~queued)
  BY Zenon DEF Apply
<1> QED  BY <1>1, <1>2, Zenon DEF Applies

LEMMA CollectorStep ==
  ASSUME PassInv, CollectMetrics \/ CollectMetricsFails
  PROVE  PassInv' /\ RestInv'
<1>0. pc = "collector" /\ pc' = "foundation" /\ UNCHANGED <<copy, shard, cluster, found>>
  BY Zenon DEF CollectMetrics, CollectMetricsFails, Apply, world
<1> DEFINE wanted == copy.monitoring /\ copy.storage # SQLite
           refs == Collector(copy, found)
<1>1. Elements(refs) = CollectorSet(copy, found) /\ Len(refs) \in Nat /\ Elements(<<>>) = {}
  BY CollectorListed, TuplesListed DEF Listed
<1>2. /\ wanted => Collected(copy, found) = Elements(refs)
      /\ ~wanted => Collected(copy, found) = {}
  BY Zenon DEF Collected
<1>3. Collected(copy, found) \subseteq Wanted(copy, found)
  BY WantedIs, Zenon
<1>4. CASE CollectMetrics
  <2> DEFINE some == IF wanted /\ Deployable THEN refs ELSE <<>>
  <2>1. /\ Apply(some, "foundation")
        /\ report' = IF ~copy.monitoring THEN "unset" ELSE IF wanted /\ Deployable THEN "False" ELSE "True"
    BY <1>4, Zenon DEF CollectMetrics
  <2>2. Elements(some) \subseteq Wanted(copy, found)
    BY <1>1, <1>2, <1>3, Zenon
  <2>3. Applies(Elements(some))
    <3>1. UNCHANGED <<world, found>>
      BY <1>4, Zenon DEF CollectMetrics
    <3> HIDE DEF some
    <3> QED  BY <1>0, <2>1, <2>2, <3>1, ApplyStep, Zenon
  <2>4. /\ copy.monitoring <=> report' # "unset"
        /\ report' = "False" => wanted /\ Deployable
    BY <2>1, Zenon
  <2>5. report' = "False" => Collected(copy, found) \subseteq tracked'
    <3>1. ASSUME wanted /\ Deployable PROVE some = refs
      BY <3>1, Zenon
    <3>2. tracked' = tracked \cup Elements(some)
      BY <2>3, Zenon DEF Applies
    <3> HIDE DEF some, refs, wanted
    <3> QED  BY <1>2, <2>4, <3>1, <3>2, Zenon
  <2> HIDE DEF some
  <2> QED  BY <2>3, <2>4, <2>5, AppliesHolds, Zenon
<1>5. CASE CollectMetricsFails
  <2>1. wanted /\ report' = "True"
    BY <1>5, Zenon DEF CollectMetricsFails
  <2>2. PICK k \in 0..Len(refs) - 1, lost \in {0, 1} :
          /\ Put({refs[i] : i \in 1..k + lost})
          /\ tracked' = tracked \cup {refs[i] : i \in 1..k}
          /\ queued' = (queued \/ \E i \in 1..k + lost : refs[i] \notin objects)
    BY <1>5, Zenon DEF CollectMetricsFails
  <2> DEFINE put == {refs[i] : i \in 1..k}
  <2> HIDE DEF refs
  <2>3. objects' = objects \cup {refs[i] : i \in 1..k + lost}
    BY <2>2, Zenon DEF Put
  <2>4. put \subseteq Elements(refs) /\ put \subseteq {refs[i] : i \in 1..k + lost}
    BY <1>1 DEF Elements
  <2>5. queued' \in BOOLEAN /\ (~queued' => ~queued)
    BY <2>2, Zenon
  <2>6. tracked' = tracked \cup put
    BY <2>2, Zenon
  <2> HIDE DEF put
  <2>7. Applies(put)
    BY <1>0, <1>2, <1>3, <2>1, <2>3, <2>4, <2>5, <2>6, Zenon DEF Applies
  <2> QED  BY <2>1, <2>7, AppliesHolds, Zenon
<1> QED  BY <1>4, <1>5, Zenon

(* The APIs of the cluster are there or not.                               *)
ClusterInv == cluster \in [monitor: BOOLEAN, scc: BOOLEAN]
LEMMA ClusterStep == ClusterInv /\ [Next]_vars => ClusterInv'
<1> SUFFICES ASSUME ClusterInv, [Next]_vars PROVE ClusterInv'
  BY Zenon
<1>1. CASE RemoveMonitors
  BY <1>1, Zenon DEF RemoveMonitors, ClusterInv
<1>2. CASE ~RemoveMonitors
  <2>1. UNCHANGED cluster
    BY <1>2, Zenon DEF Next, Reconcile, User, Misfortune, Edit, EditConnection, Issue, StartPods,
       LoseObject, LoseSecret, Restart, Begin, Storage, StorageFails, CollectMetrics,
       CollectMetricsFails, Establish, EstablishFails, PublishKubeconfig, PublishKubeconfigFails,
       Serve, ServeFails, CheckHealth, CheckHealthFails, CleanupAndReport, CleanupAndReportFails,
       Finish, vars, world
  <2> QED  BY <2>1, Zenon DEF ClusterInv
<1> QED  BY <1>1, <1>2, Zenon

LEMMA PassStep ==
  ASSUME ClusterInv, TrackInv, PassInv, RestInv, [Next]_vars
  PROVE  PassInv' /\ RestInv'
<1>1. CASE Edit \/ StartPods
  <2>1. queued' = TRUE /\ UNCHANGED <<found, pc, copy, tracked, report>>
    BY <1>1, Zenon DEF Edit, StartPods, pass
  <2> QED  BY <2>1, Zenon DEF PassInv, RestInv, Quiet
<1>2. CASE EditConnection \/ Issue \/ LoseSecret \/ UNCHANGED vars
  <2>1. /\ UNCHANGED <<shard, cluster, found, objects, running, degraded, skipped>>
        /\ UNCHANGED <<pc, copy, tracked, report, again>>
    BY <1>2, Zenon DEF EditConnection, Issue, LoseSecret, vars, world, stack, pass
  <2>2. queued' = queued \/ queued' = (queued \/ shard.storage = PostgreSQL)
    BY <1>2, Zenon DEF EditConnection, Issue, LoseSecret, vars
  <2>3. queued' \in BOOLEAN /\ (~queued' => ~queued)
    BY <2>2, Zenon DEF PassInv
  <2>4. Around
    BY <2>1, <2>3, Zenon DEF Around
  <2> QED  BY <2>4, AroundHolds, Zenon
<1>3. CASE LoseObject
  <2>1. PICK o \in objects : Vanish({o}) /\ queued' = (queued \/ o.kind \in OwnedKinds(found))
    BY <1>3, Zenon DEF LoseObject
  <2>2. UNCHANGED <<shard, cluster, found, degraded, skipped, pc, copy, tracked, report, again>>
    BY <1>3, Zenon DEF LoseObject, world, pass
  <2>3. queued' \in BOOLEAN /\ (~queued' => ~queued /\ o.kind \notin OwnedKinds(found))
    BY <2>1, Zenon
  <2>4. objects' = objects \ {o} /\ running' = running \ {o}
    BY <2>1, Zenon DEF Vanish
  <2>5. {"Deployment", "StatefulSet"} \subseteq OwnedKinds(found)
    BY Zenon DEF OwnedKinds
  <2>6. Around
    BY <2>2, <2>3, <2>4, <2>5, Zenon DEF Around
  <2> QED  BY <2>6, AroundHolds, Zenon
<1>4. CASE RemoveMonitors
  <2>1. UNCHANGED <<shard, found, degraded, skipped, pc, copy, tracked, report, again>>
    BY <1>4, Zenon DEF RemoveMonitors, pass
  <2>2. queued' = queued \/ queued' = (queued \/ found.monitor)
    BY <1>4, Zenon DEF RemoveMonitors
  <2>3. queued' \in BOOLEAN /\ (~queued' => ~queued)
    BY <2>2, Zenon DEF PassInv
  <2>4. ~cluster'.monitor
    BY <1>4, Zenon DEF RemoveMonitors, ClusterInv
  <2>5. /\ objects' = objects \ {o \in objects : o.kind = "ServiceMonitor"}
        /\ running' = running \ {o \in objects : o.kind = "ServiceMonitor"}
    BY <1>4, Zenon DEF RemoveMonitors, Vanish
  <2>6. Around
    BY <2>1, <2>3, <2>4, <2>5, Zenon DEF Around
  <2> QED  BY <2>6, AroundHolds, Zenon
<1>5. CASE Restart \/ StorageFails \/ EstablishFails \/ PublishKubeconfigFails \/ ServeFails \/ CheckHealthFails
  <2>1. pc' = "idle" /\ queued' = TRUE
    BY <1>5, Zenon DEF Restart, StorageFails, EstablishFails, PublishKubeconfigFails, ServeFails,
       CheckHealthFails, ApplyFails, setErrorAndRequeue
  <2> QED  BY <2>1, Zenon DEF PassInv, RestInv, Quiet, AfterCollector
<1>6. CASE Begin
  <2>1. pc' = "storage" /\ copy' = shard' /\ tracked' = {} /\ queued' = FALSE
    BY <1>6, Zenon DEF Begin, world
  <2> QED  BY <2>1, Zenon DEF PassInv, RestInv, Quiet, AfterCollector, Watched
<1>w. Firm(copy, found, cluster) \subseteq Wanted(copy, found)
  BY WantedIs, Zenon
<1>7. CASE Storage
  <2>1. pc = "storage" /\ Apply(reconcileStorage(copy), "collector") /\ UNCHANGED <<world, found>>
    BY <1>7, Zenon DEF Storage
  <2>2. Elements(reconcileStorage(copy)) \subseteq Wanted(copy, found)
    BY <1>w, FirmIs
  <2>3. Applies(Elements(reconcileStorage(copy))) /\ pc' = "collector"
    <3>1. Applies(Elements(reconcileStorage(copy)))
      BY <2>1, <2>2, ApplyStep, Zenon
    <3> QED  BY <2>1, <3>1, Zenon DEF Apply
  <2> QED  BY <2>3, AppliesHolds, Zenon DEF AfterCollector
<1>8. CASE CollectMetrics \/ CollectMetricsFails
  BY <1>8, CollectorStep, Zenon
<1>9. ASSUME NEW refs, NEW next, Apply(refs, next), UNCHANGED <<world, found, report>>,
             Elements(refs) \subseteq Wanted(copy, found),
             pc \in AfterCollector, next \notin {"idle", "cleanup"}
      PROVE  PassInv' /\ RestInv'
  <2>1. pc # "idle" /\ Applies(Elements(refs))
    BY <1>9, ApplyStep, Zenon DEF AfterCollector
  <2>2. /\ copy.monitoring <=> report' # "unset"
        /\ report' = "False" => Collected(copy, found) \subseteq tracked'
    BY <1>9, <2>1, Zenon DEF PassInv, Applies
  <2> QED  BY <2>1, <2>2, AppliesHolds, Zenon
<1>10. CASE Establish
  <2>1. Elements(Foundation(copy, found)) \subseteq Wanted(copy, found)
    BY <1>w, FirmIs
  <2>2. pc \in AfterCollector /\ Apply(Foundation(copy, found), "kubeconfig") /\ UNCHANGED <<world, found, report>>
    BY <1>10, Zenon DEF Establish, AfterCollector
  <2> QED  BY <1>9, <2>1, <2>2, Zenon
<1>11. CASE PublishKubeconfig
  <2>1. Elements(Kubeconfig) \subseteq Wanted(copy, found)
    BY WantedIs, Zenon
  <2>2. pc \in AfterCollector /\ Apply(Kubeconfig, "secondary") /\ UNCHANGED <<world, found, report>>
    BY <1>11, Zenon DEF PublishKubeconfig, AfterCollector
  <2> QED  BY <1>9, <2>1, <2>2, Zenon
<1>12. CASE Serve
  <2> DEFINE refs == reconcileSecondary(copy) \o reconcileMetrics(found, cluster)
  <2>1. Elements(refs) \subseteq Wanted(copy, found)
    BY <1>w, FirmIs
  <2>2. pc \in AfterCollector /\ Apply(refs, "health") /\ UNCHANGED <<world, found, report>>
    BY <1>12, Zenon DEF Serve, AfterCollector
  <2> HIDE DEF refs
  <2> QED  BY <1>9, <2>1, <2>2, Zenon
<1>13. CASE CheckHealth
  <2>1. /\ pc = "health" /\ pc' = "cleanup" /\ again' = ~(Needed(copy) \subseteq running)
        /\ UNCHANGED <<shard, cluster, found, objects, running, queued, copy, tracked, report>>
    BY <1>13, Zenon DEF CheckHealth, world, stack
  <2>2. Watched(tracked)' = Watched(tracked)
    BY <2>1, Zenon DEF Watched
  <2> QED  BY <2>1, <2>2, Zenon DEF PassInv, RestInv, Quiet, AfterCollector
<1>14. CASE CleanupAndReport \/ CleanupAndReportFails
  <2>1. PICK gone \in SUBSET Orphans, written \in BOOLEAN : Finish(gone, written)
    BY <1>14, Zenon DEF CleanupAndReport, CleanupAndReportFails
  <2> QED  BY <2>1, FinishHolds, Zenon
<1> QED
  BY <1>1, <1>2, <1>3, <1>4, <1>5, <1>6, <1>7, <1>8, <1>10, <1>11, <1>12, <1>13, <1>14, Zenon
     DEF Next, Reconcile, User, Misfortune

LEMMA InitHolds ==
  ASSUME Init
  PROVE  ClusterInv /\ TrackInv /\ PassInv /\ RestInv /\ ReportInv
<1>1. pc = "idle" /\ queued = TRUE /\ cluster \in Clusters /\ budgets \in Tally
  BY Zenon DEF Init, Tally
<1> QED
  BY <1>1, ClustersAssumption, Zenon DEF ClusterInv, TrackInv, PassInv, RestInv, ReportInv, Quiet,
     AfterStorage, AfterFoundation, AfterServing, AfterCollector

(* When the controller rests, the shard is provisioned, for any specs and  *)
(* clusters and any number of edits, failed requests, losses and restarts. *)
THEOREM QuietIsProvisioned == Spec => []QuietMeansProvisioned
<1>1. ClusterInv /\ TrackInv /\ PassInv /\ RestInv /\ [Next]_vars
      => ClusterInv' /\ TrackInv' /\ PassInv' /\ RestInv'
  BY ClusterStep, TrackStep, PassStep, Zenon
<1>2. ClusterInv /\ RestInv => QuietMeansProvisioned
  <2> SUFFICES ASSUME ClusterInv, RestInv, Quiet PROVE QuietMeansProvisioned
    BY Zenon DEF QuietMeansProvisioned
  <2>1. {o \in Firm(shard, found, cluster) : o.kind \in OwnedKinds(found)} \subseteq objects
    <3>1. \A o \in Firm(shard, found, cluster) : o.kind = "ServiceMonitor" => cluster.monitor
      BY FirmKinds, Zenon DEF ClusterInv
    <3> QED  BY <3>1, Zenon DEF RestInv, Watched
  <2>2. degraded = "False" =>
          {o \in Collected(shard, found) : o.kind \in OwnedKinds(found) /\
             (o.kind = "ServiceMonitor" => cluster.monitor)} \subseteq objects
    BY Zenon DEF RestInv, Watched
  <2> QED  BY <2>1, <2>2, Zenon DEF QuietMeansProvisioned, RestInv
<1>3. Init => ClusterInv /\ TrackInv /\ PassInv /\ RestInv
  BY InitHolds, Zenon
<1> QED  BY <1>1, <1>2, <1>3, PTL DEF Spec

(* When the controller rests and its last clean-up has not failed, nothing *)
(* of an earlier spec is left.                                             *)
THEOREM NothingLeft == Spec => []NoLeftovers
<1>1. ClusterInv /\ TrackInv /\ PassInv /\ RestInv /\ [Next]_vars
      => ClusterInv' /\ TrackInv' /\ PassInv' /\ RestInv'
  BY ClusterStep, TrackStep, PassStep, Zenon
<1>2. RestInv => NoLeftovers
  BY Zenon DEF RestInv, NoLeftovers, Wanted
<1>3. Init => ClusterInv /\ TrackInv /\ PassInv /\ RestInv
  BY InitHolds, Zenon
<1> QED  BY <1>1, <1>2, <1>3, PTL DEF Spec
-----------------------------------------------------------------------------
LEMMA BudgetsStep ==
  ASSUME budgets \in Tally, [Next]_vars
  PROVE  budgets' \in Tally /\ (budgets'.faults = 0 => budgets.faults = 0)
<1>1. ASSUME NEW kind \in {"faults", "mishaps", "hiccups"}, Trouble(kind)
      PROVE  budgets' \in Tally /\ (budgets'.faults = 0 => budgets.faults = 0)
  <2>1. budgets' = [budgets EXCEPT ![kind] = @ + 1]
    BY <1>1, Zenon DEF Trouble
  <2>2. CASE kind = "faults"  BY <2>1, <2>2 DEF Tally
  <2>3. CASE kind = "mishaps"  BY <2>1, <2>3 DEF Tally
  <2>4. CASE kind = "hiccups"  BY <2>1, <2>4 DEF Tally
  <2> QED  BY <2>2, <2>3, <2>4, Zenon
<1>2. ASSUME MayEdit PROVE budgets' \in Tally /\ (budgets'.faults = 0 => budgets.faults = 0)
  BY <1>2 DEF MayEdit, Tally
<1>3. \/ UNCHANGED budgets \/ MayEdit \/ Trouble("faults") \/ Trouble("mishaps") \/ Trouble("hiccups")
  BY Zenon DEF Next, Reconcile, User, Misfortune, Edit, EditConnection, Issue, StartPods,
     LoseObject, LoseSecret, RemoveMonitors, Restart, Begin, Storage, StorageFails, CollectMetrics,
     CollectMetricsFails, Establish, EstablishFails, PublishKubeconfig, PublishKubeconfigFails,
     Serve, ServeFails, CheckHealth, CheckHealthFails, CleanupAndReport, CleanupAndReportFails,
     Apply, ApplyFails, vars
<1> QED  BY <1>1, <1>2, <1>3, Zenon

(* What is said stays true while the shard and its secret stay the same.   *)
LEMMA StillSays ==
  ASSUME NEW c, Says(c), UNCHANGED <<shard, found>>, UNCHANGED cluster \/ ~cluster'.monitor,
         UNCHANGED connection \/ shard.storage # PostgreSQL,
         budgets'.faults = 0 => budgets.faults = 0
  PROVE  Says(c)'
<1>1. DeployableFor(shard)' <=> DeployableFor(shard)
  BY Zenon DEF DeployableFor
<1> QED  BY <1>1, Zenon DEF Says

LEMMA ReportStep ==
  ASSUME ClusterInv, PassInv, ReportInv, [Next]_vars
  PROVE  ReportInv'
<1>0. budgets' \in Tally /\ (budgets'.faults = 0 => budgets.faults = 0)
  BY BudgetsStep, Zenon DEF ReportInv
<1>1. SUFFICES ASSUME ~queued' PROVE ReportInv'
  BY <1>0, Zenon DEF ReportInv, Quiet
<1>2. CASE Edit \/ StartPods \/ Restart \/ StorageFails \/ EstablishFails \/ PublishKubeconfigFails
           \/ ServeFails \/ CheckHealthFails
  <2>1. queued' = TRUE
    BY <1>2, Zenon
       DEF Edit, StartPods, Restart, StorageFails, EstablishFails, PublishKubeconfigFails,
       ServeFails, CheckHealthFails, ApplyFails, setErrorAndRequeue
  <2> QED  BY <1>1, <2>1, Zenon
<1>3. CASE EditConnection \/ Issue \/ LoseSecret \/ LoseObject \/ RemoveMonitors \/ UNCHANGED vars
  <2>1. /\ UNCHANGED <<shard, found, pc, report, degraded>>
        /\ UNCHANGED connection \/ shard.storage # PostgreSQL
        /\ ~queued
    <3>1. UNCHANGED <<shard, found, pc, report, degraded>>
      BY <1>3, Zenon
         DEF EditConnection, Issue, LoseSecret, LoseObject, RemoveMonitors, vars, world, pass
    <3>2. \/ UNCHANGED connection /\ ~queued
          \/ shard.storage # PostgreSQL /\ ~queued
      BY <1>1, <1>3, Zenon
         DEF EditConnection, Issue, LoseSecret, LoseObject, RemoveMonitors, vars, world
    <3> QED  BY <3>1, <3>2, Zenon
  <2>2. UNCHANGED cluster \/ ~cluster'.monitor
    <3>1. CASE RemoveMonitors
      BY <3>1, Zenon DEF RemoveMonitors, ClusterInv
    <3>2. CASE ~RemoveMonitors
      BY <1>3, <3>2, Zenon DEF EditConnection, Issue, LoseSecret, LoseObject, vars, world
    <3> QED  BY <3>1, <3>2, Zenon
  <2>3. \A c : Says(c) => Says(c)'
    BY <1>0, <2>1, <2>2, StillSays, Zenon
  <2>4. (Says(report) => Says(report)') /\ (Says(degraded) => Says(degraded)')
    BY <2>1, <2>3, Zenon DEF Says
  <2> QED  BY <1>0, <2>1, <2>4, Zenon DEF ReportInv, Quiet
<1>4. CASE Begin
  <2>1. pc' = "storage"
    BY <1>4, Zenon DEF Begin
  <2> QED  BY <1>0, <2>1, Zenon DEF ReportInv, Quiet, AfterStorage, AfterCollector
<1>5. CASE Storage
  <2>1. /\ pc = "storage" /\ pc' = "collector" /\ UNCHANGED <<shard, connection>>
        /\ copy.storage = PostgreSQL => connection # "absent"
    BY <1>5, Zenon DEF Storage, Apply, world
  <2>2. ~queued
    BY <1>1, <1>5, Zenon DEF Storage, Apply
  <2>3. copy = shard
    BY <2>1, <2>2, Zenon DEF PassInv
  <2> QED  BY <1>0, <2>1, <2>3, Zenon DEF ReportInv, Quiet, AfterCollector
<1>6. CASE CollectMetrics \/ CollectMetricsFails
  <2>1. pc = "collector" /\ pc' = "foundation" /\ UNCHANGED <<shard, connection, cluster, found>>
    BY <1>6, Zenon DEF CollectMetrics, CollectMetricsFails, Apply, world
  <2>2. ~queued
    BY <1>1, <1>6, Zenon DEF CollectMetrics, CollectMetricsFails, Apply
  <2>3. copy = shard
    BY <2>1, <2>2, Zenon DEF PassInv
  <2>4. Says(report)'
    <3>0. DeployableFor(shard)' <=> DeployableFor(shard)
      BY <2>1, Zenon DEF DeployableFor
    <3>1. CASE CollectMetrics
      <4>1. report' = IF ~copy.monitoring THEN "unset"
                      ELSE IF copy.monitoring /\ copy.storage # SQLite /\ Deployable THEN "False" ELSE "True"
        BY <3>1, Zenon DEF CollectMetrics
      <4>2. DeployableFor(shard) => shard.storage # SQLite
        BY Zenon DEF DeployableFor, SQLite, PostgreSQL, InClusterPostgreSQL
      <4> QED  BY <2>1, <2>3, <3>0, <4>1, <4>2, Zenon DEF Says, Deployable
    <3>2. CASE CollectMetricsFails
      <4>1. report' = "True"
        BY <3>2, Zenon DEF CollectMetricsFails
      <4>2. Trouble("faults") \/ (found.monitor /\ ~cluster.monitor)
        BY <3>2, Zenon DEF CollectMetricsFails
      <4>3. Trouble("faults") => budgets'.faults # 0
        BY DEF Trouble, ReportInv, Tally
      <4> QED  BY <2>1, <4>1, <4>2, <4>3, Zenon DEF Says
    <3> QED  BY <1>6, <3>1, <3>2, Zenon
  <2> QED  BY <1>0, <2>1, <2>2, <2>4, Zenon DEF ReportInv, Quiet, AfterStorage
<1>7. CASE Establish \/ PublishKubeconfig \/ Serve \/ CheckHealth
  <2>1. /\ pc \in AfterCollector /\ pc' \in AfterCollector
        /\ UNCHANGED <<shard, connection, cluster, found, report>>
    BY <1>7, Zenon
       DEF Establish, PublishKubeconfig, Serve, CheckHealth, Apply, world, AfterCollector
  <2>2. ~queued
    BY <1>1, <1>7, Zenon DEF Establish, PublishKubeconfig, Serve, CheckHealth, Apply
  <2>3. Says(report)'
    <3>1. Says(report)
      BY <2>1, <2>2, Zenon DEF ReportInv
    <3>2. \A c : Says(c) => Says(c)'
      BY <1>0, <2>1, StillSays, Zenon
    <3> QED  BY <2>1, <3>1, <3>2, Zenon DEF Says
  <2> QED  BY <1>0, <2>1, <2>2, <2>3, Zenon DEF ReportInv, Quiet, AfterStorage, AfterCollector
<1>8. CASE CleanupAndReport \/ CleanupAndReportFails
  <2>1. PICK gone \in SUBSET Orphans, written \in BOOLEAN : Finish(gone, written)
    BY <1>8, Zenon DEF CleanupAndReport, CleanupAndReportFails
  <2>2. /\ pc = "cleanup" /\ pc' = "idle" /\ UNCHANGED <<shard, connection, cluster, found>>
        /\ degraded' = IF written THEN report ELSE degraded
    BY <2>1, Zenon DEF Finish, world
  <2>3. ~queued /\ written
    BY <1>1, <2>1, Zenon DEF Finish
  <2>4. Says(degraded)'
    <3>1. Says(report)
      BY <2>2, <2>3, Zenon DEF ReportInv, AfterCollector
    <3>2. \A c : Says(c) => Says(c)'
      BY <1>0, <2>2, StillSays, Zenon
    <3> QED  BY <2>2, <2>3, <3>1, <3>2, Zenon DEF Says
  <2> QED  BY <1>0, <2>2, <2>3, <2>4, Zenon DEF ReportInv, Quiet, AfterStorage, AfterCollector
<1> QED
  BY <1>2, <1>3, <1>4, <1>5, <1>6, <1>7, <1>8, Zenon DEF Next, Reconcile, User, Misfortune

(* When the controller rests, MonitoringDegraded tells of the connection   *)
(* secret as it is, and the secret of an external database is there.       *)
THEOREM ReportHolds == Spec => []ReportIsCurrent
<1>1. ClusterInv /\ TrackInv /\ PassInv /\ RestInv /\ ReportInv /\ [Next]_vars
      => ClusterInv' /\ TrackInv' /\ PassInv' /\ RestInv' /\ ReportInv'
  BY ClusterStep, TrackStep, PassStep, ReportStep, Zenon
<1>2. ReportInv => ReportIsCurrent
  BY Zenon DEF ReportInv, ReportIsCurrent, Says, Quiet
<1>3. Init => ClusterInv /\ TrackInv /\ PassInv /\ RestInv /\ ReportInv
  BY InitHolds, Zenon
<1> QED  BY <1>1, <1>2, <1>3, PTL DEF Spec

-----------------------------------------------------------------------------
(* How the objects of the steps are told apart.                            *)
Pods3 == {"Deployment", "StatefulSet", "Service"}

LEMMA StorageNames ==
  ASSUME NEW s, NEW o \in StorageSet(s)
  PROVE  /\ o.name \in {"kine", "postgresql-credentials", "postgresql-init", "postgresql"}
         /\ o.kind \in Pods3 /\ o.name = "postgresql" => s.storage = InClusterPostgreSQL
<1>1. o \in {Ref("Deployment", "kine"), Ref("PodDisruptionBudget", "kine"), Ref("Service", "kine")}
      \/ (o \in DatabaseSet /\ s.storage = InClusterPostgreSQL)
  BY BudgetListed, Zenon DEF StorageSet, KineSet
<1> QED  BY <1>1 DEF DatabaseSet, Secret, ConfigMap, Ref

LEMMA SecondaryNames ==
  ASSUME NEW s, NEW o \in SecondarySet(s)
  PROVE  o.name = "apiserver"
<1>1. o \in {Ref("Deployment", "apiserver"), Ref("PodDisruptionBudget", "apiserver"),
             Ref("Service", "apiserver")}
  BY BudgetListed, Zenon DEF SecondarySet
<1> QED  BY <1>1 DEF Ref

LEMMA FoundationNames ==
  ASSUME NEW s, NEW f, NEW o \in FoundationSet(s, f)
  PROVE  /\ o.name \notin {"postgresql-metrics", "metrics-reader", "prometheus-discovery"}
         /\ o.kind \notin Pods3
<1> USE DEF Pods3
<1>1. CASE o \in ChainSet
  BY <1>1 DEF ChainSet, BuildSelfSignedIssuer, BuildCACertificate, BuildCAIssuer,
    BuildServingCertificate, BuildAdminClientCertificate, BuildKineSelfSignedIssuer,
    BuildKineCACertificate, BuildKineCAIssuer, BuildKineServingCertificate,
    BuildEtcdClientCertificate, Certificate, buildServingCert, CAIssuer, Issuer, Ref
<1>2. CASE o \in DatabaseChainSet
  BY <1>2 DEF DatabaseChainSet, BuildPostgreSQLSelfSignedIssuer, BuildPostgreSQLCACertificate,
    BuildPostgreSQLCAIssuer, BuildPostgreSQLServingCertificate, Certificate, buildServingCert,
    CAIssuer, Issuer, Ref
<1>3. CASE o \in {ConfigMap("authz-config"), BuildSecondaryServiceAccount, ConfigMap("requestheader-ca")}
  BY <1>3 DEF ConfigMap, BuildSecondaryServiceAccount, Ref
<1>4. CASE o = AuthDelegatorBinding.id \/ o \in SCCSet(f)
  BY <1>4
     DEF SCCSet, AuthDelegatorBinding, Binding, BuildAPIServerSCC, BuildAPIServerSCCClusterRole,
     BuildAPIServerSCCRoleBinding, Ref
<1> QED  BY <1>1, <1>2, <1>3, <1>4, Zenon DEF FoundationSet, CertificateSet

LEMMA MetricsNames ==
  ASSUME NEW f, NEW c, NEW o \in MetricsSet(f, c)
  PROVE  o.name # "postgresql-metrics" /\ o.kind \notin Pods3
<1>1. o \in ReaderSet \/ o \in ScrapedSet
  BY Zenon DEF MetricsSet
<1>2. CASE o \in ReaderSet
  BY <1>2 DEF Pods3, ReaderSet, BuildMetricsReaderServiceAccount, BuildMetricsReaderTokenSecret,
     BuildMetricsReaderClusterRoleBinding, Binding, Secret, Ref
<1>3. CASE o \in ScrapedSet
  BY <1>3 DEF Pods3, ScrapedSet, BuildKineServiceMonitor, BuildSecondaryServiceMonitor, Monitor,
     BuildPrometheusDiscoveryRole, BuildPrometheusDiscoveryRoleBinding, Binding, Ref
<1> QED  BY <1>1, <1>2, <1>3, Zenon

LEMMA CollectorNames ==
  ASSUME NEW s, NEW f, NEW o \in CollectorSet(s, f)
  PROVE  o.name \in {"postgresql-metrics", "postgresql-metrics-credentials",
                     "postgresql-metrics-config-1", "postgresql-metrics-config-2"}
<1>1. o \in {Secret("postgresql-metrics-credentials"), BuildOTelCollectorConfigMap(s),
             Ref("Deployment", "postgresql-metrics"), Ref("Service", "postgresql-metrics"),
             BuildPostgreSQLMetricsServiceMonitor.id}
  BY Zenon DEF CollectorSet
<1> QED  BY <1>1
     DEF Secret, BuildOTelCollectorConfigMap, ConfigMap, BuildPostgreSQLMetricsServiceMonitor,
            Monitor, Ref

(* The collector's objects, in the order in which they are applied.        *)
CollectorDeployment == Ref("Deployment", "postgresql-metrics")
CollectorService == Ref("Service", "postgresql-metrics")
CollectorMonitor == BuildPostgreSQLMetricsServiceMonitor.id
Collects(s, set) ==
  /\ CollectorDeployment \in set =>
       /\ BuildOTelCollectorConfigMap(s) \in set
       /\ s.storage = PostgreSQL => Secret("postgresql-metrics-credentials") \in set
  /\ CollectorService \in set => CollectorDeployment \in set
  /\ CollectorMonitor \in set => CollectorService \in set

LEMMA CollectorApart ==
  /\ \A s : BuildOTelCollectorConfigMap(s) \notin {CollectorDeployment, CollectorService, CollectorMonitor}
  /\ Secret("postgresql-metrics-credentials") \notin {CollectorDeployment, CollectorService, CollectorMonitor}
  /\ CollectorDeployment # CollectorService /\ CollectorDeployment # CollectorMonitor
  /\ CollectorService # CollectorMonitor
  /\ \A o \in {CollectorDeployment, CollectorService, CollectorMonitor} : o.name = "postgresql-metrics"
<1>1. \A s : BuildOTelCollectorConfigMap(s).kind = "ConfigMap"
  BY Zenon DEF BuildOTelCollectorConfigMap, ConfigMap, Ref
<1>2. /\ CollectorDeployment.kind = "Deployment" /\ CollectorService.kind = "Service"
      /\ CollectorMonitor.kind = "ServiceMonitor"
      /\ Secret("postgresql-metrics-credentials").kind = "Secret"
  BY Zenon
     DEF CollectorDeployment, CollectorService, CollectorMonitor, BuildPostgreSQLMetricsServiceMonitor,
     Monitor, Secret, Ref
<1>3. \A o \in {CollectorDeployment, CollectorService, CollectorMonitor} : o.name = "postgresql-metrics"
  BY
     DEF CollectorDeployment, CollectorService, CollectorMonitor, BuildPostgreSQLMetricsServiceMonitor,
     Monitor, Ref
<1> QED  BY <1>1, <1>2, <1>3, Zenon

(* Whatever prefix of the collector's objects is applied.                  *)
LEMMA PrefixCollects ==
  ASSUME NEW s, NEW f, NEW k \in Nat, k <= Len(Collector(s, f))
  PROVE  Collects(s, {Collector(s, f)[i] : i \in 1..k})
<1> DEFINE cm == BuildOTelCollectorConfigMap(s)
           cr == Secret("postgresql-metrics-credentials")
           dep == CollectorDeployment
           svc == CollectorService
           mon == CollectorMonitor
           q == Collector(s, f)
<1>1. \/ s.storage = PostgreSQL /\ (q = <<cr>> \o (<<cm, dep, svc>> \o <<mon>>)
                                   \/ q = <<cr>> \o (<<cm, dep, svc>> \o <<>>))
      \/ s.storage # PostgreSQL /\ (q = <<>> \o (<<cm, dep, svc>> \o <<mon>>)
                                   \/ q = <<>> \o (<<cm, dep, svc>> \o <<>>))
  BY IdsAre, Zenon
     DEF Collector, ensureOTelCredentialSecret, applyOTelCollector, CollectorDeployment,
     CollectorService, CollectorMonitor
<1>2. /\ cm \notin {dep, svc, mon} /\ cr \notin {dep, svc, mon}
      /\ dep # svc /\ dep # mon /\ svc # mon
  BY CollectorApart, Zenon
<1> HIDE DEF cm, cr, dep, svc, mon, q
<1>3. \/ s.storage = PostgreSQL /\ q = <<cr, cm, dep, svc, mon>>
      \/ s.storage = PostgreSQL /\ q = <<cr, cm, dep, svc>>
      \/ s.storage # PostgreSQL /\ q = <<cm, dep, svc, mon>>
      \/ s.storage # PostgreSQL /\ q = <<cm, dep, svc>>
  BY <1>1
<1>4. ASSUME NEW n \in {0, 1}, NEW m \in {0, 1}, n = 1 => q[1] = cr, q[n + 1] = cm, q[n + 2] = dep,
             q[n + 3] = svc, m = 1 => q[n + 4] = mon, Len(q) = n + 3 + m, s.storage = PostgreSQL => n = 1
      PROVE  /\ dep \in {q[i] : i \in 1..k} => cm \in {q[i] : i \in 1..k}
                  /\ (s.storage = PostgreSQL => cr \in {q[i] : i \in 1..k})
             /\ svc \in {q[i] : i \in 1..k} => dep \in {q[i] : i \in 1..k}
             /\ mon \in {q[i] : i \in 1..k} => svc \in {q[i] : i \in 1..k}
  <2>0. k \in 0..5 /\ k <= n + 3 + m
    BY <1>4 DEF q
  <2>1. \A i \in 1..k : (q[i] = dep => i = n + 2) /\ (q[i] = svc => i = n + 3) /\ (q[i] = mon => i = n + 4)
    BY <1>2, <1>4, <2>0
  <2> QED  BY <1>4, <2>0, <2>1
<1>5. CASE s.storage = PostgreSQL /\ q = <<cr, cm, dep, svc, mon>>
  BY <1>4, <1>5 DEF Collects, cm, cr, dep, svc, mon, q
<1>6. CASE s.storage = PostgreSQL /\ q = <<cr, cm, dep, svc>>
  BY <1>4, <1>6 DEF Collects, cm, cr, dep, svc, mon, q
<1>7. CASE s.storage # PostgreSQL /\ q = <<cm, dep, svc, mon>>
  BY <1>4, <1>7 DEF Collects, cm, cr, dep, svc, mon, q
<1>8. CASE s.storage # PostgreSQL /\ q = <<cm, dep, svc>>
  BY <1>4, <1>8 DEF Collects, cm, cr, dep, svc, mon, q
<1> QED  BY <1>3, <1>5, <1>6, <1>7, <1>8, Zenon

(* A role and an account are tracked before what binds them.               *)
Bound(set) ==
  /\ BuildMetricsReaderClusterRoleBinding.id \in set => BuildMetricsReaderServiceAccount \in set
  /\ BuildPrometheusDiscoveryRoleBinding.id \in set => BuildPrometheusDiscoveryRole \in set
Ordered(s, set) == Collects(s, set) /\ Bound(set)

LEMMA UnionOrdered ==
  ASSUME NEW s, NEW A, NEW B, Ordered(s, A), Ordered(s, B)
  PROVE  Ordered(s, A \cup B)
  BY Zenon DEF Ordered, Collects, Bound

LEMMA OthersOrdered ==
  ASSUME NEW s, NEW set, \A o \in set : o.name \notin {"postgresql-metrics", "metrics-reader", "prometheus-discovery"}
  PROVE  Ordered(s, set)
<1>1. /\ BuildMetricsReaderClusterRoleBinding.id.name = "metrics-reader"
      /\ BuildPrometheusDiscoveryRoleBinding.id.name = "prometheus-discovery"
  BY Zenon
     DEF BuildMetricsReaderClusterRoleBinding, BuildPrometheusDiscoveryRoleBinding, Binding, Ref
<1> QED  BY <1>1, CollectorApart, Zenon DEF Ordered, Collects, Bound

LEMMA StepsOrdered ==
  ASSUME NEW s, NEW f, NEW c
  PROVE  /\ Ordered(s, StorageSet(s)) /\ Ordered(s, FoundationSet(s, f))
         /\ Ordered(s, SecondarySet(s) \cup MetricsSet(f, c))
         /\ Ordered(s, Elements(Kubeconfig)) /\ Ordered(s, {})
         /\ \A k \in 0..Len(Collector(s, f)) : Ordered(s, {Collector(s, f)[i] : i \in 1..k})
<1>1. Ordered(s, StorageSet(s))
  <2>1. \A o \in StorageSet(s) : o.name \in {"kine", "postgresql-credentials", "postgresql-init", "postgresql"}
    BY StorageNames, Zenon
  <2> QED  BY <2>1, OthersOrdered, Zenon
<1>2. Ordered(s, FoundationSet(s, f))
  BY FoundationNames, OthersOrdered, Zenon
<1>3. Ordered(s, SecondarySet(s))
  <2>1. \A o \in SecondarySet(s) : o.name = "apiserver"
    BY SecondaryNames, Zenon
  <2> QED  BY <2>1, OthersOrdered, Zenon
<1>4. Ordered(s, MetricsSet(f, c))
  <2>1. Collects(s, MetricsSet(f, c))
    BY MetricsNames, CollectorApart, Zenon DEF Collects
  <2>2. Bound(MetricsSet(f, c))
    <3>1. BuildPrometheusDiscoveryRoleBinding.id \notin ReaderSet
      BY Zenon
         DEF ReaderSet, BuildMetricsReaderServiceAccount, BuildMetricsReaderTokenSecret, Secret,
         BuildMetricsReaderClusterRoleBinding, BuildPrometheusDiscoveryRoleBinding, Binding, Ref
    <3>2. BuildPrometheusDiscoveryRole \in ScrapedSet /\ BuildMetricsReaderServiceAccount \in ReaderSet
      BY Zenon DEF ScrapedSet, ReaderSet
    <3> QED  BY <3>1, <3>2, Zenon DEF MetricsSet, Bound
  <2> QED  BY <2>1, <2>2, Zenon DEF Ordered
<1>5. Ordered(s, SecondarySet(s) \cup MetricsSet(f, c))
  BY <1>3, <1>4, UnionOrdered, Zenon
<1>6. Ordered(s, Elements(Kubeconfig)) /\ Ordered(s, {})
  <2>1. \A o \in Elements(Kubeconfig) : o.name = "admin-kubeconfig"
    BY WantedIs DEF AdminKubeconfig, Secret, Ref
  <2> QED  BY <2>1, OthersOrdered
<1>7. ASSUME NEW k \in 0..Len(Collector(s, f)) PROVE Ordered(s, {Collector(s, f)[i] : i \in 1..k})
  <2> DEFINE set == {Collector(s, f)[i] : i \in 1..k}
  <2>1. Len(Collector(s, f)) \in Nat /\ Elements(Collector(s, f)) = CollectorSet(s, f)
    BY CollectorListed DEF Listed
  <2>2. Collects(s, set)
    BY <2>1, PrefixCollects
  <2>3. set \subseteq CollectorSet(s, f)
    BY <2>1 DEF Elements
  <2> HIDE DEF set
  <2>4. \A o \in set : o.name \notin {"metrics-reader", "prometheus-discovery"}
    BY <2>3, CollectorNames, Zenon
  <2>5. Bound(set)
    BY <2>4, Zenon
       DEF Bound, BuildMetricsReaderClusterRoleBinding, BuildPrometheusDiscoveryRoleBinding, Binding, Ref
  <2> QED  BY <2>2, <2>5, Zenon DEF Ordered, set
<1> QED  BY <1>1, <1>2, <1>5, <1>6, <1>7, Zenon

(* At every moment of a pass, what it has applied so far is in order.      *)
OrderInv == pc # "idle" => Ordered(copy, tracked)

LEMMA OrderStep == OrderInv /\ [Next]_vars => OrderInv'
<1> SUFFICES ASSUME OrderInv, [Next]_vars PROVE OrderInv'
  BY Zenon
<1>0. ASSUME NEW put, Ordered(copy, put), tracked' = tracked \cup put, pc # "idle", UNCHANGED copy
      PROVE  OrderInv'
  BY <1>0, UnionOrdered, Zenon DEF OrderInv
<1>1. CASE \/ Edit \/ EditConnection \/ Issue \/ StartPods \/ LoseObject \/ LoseSecret \/ RemoveMonitors
           \/ UNCHANGED vars \/ CheckHealth
  <2>1. UNCHANGED <<copy, tracked>> /\ (UNCHANGED pc \/ pc = "health")
    BY <1>1, Zenon
       DEF Edit, EditConnection, Issue, StartPods, LoseObject, LoseSecret, RemoveMonitors,
       CheckHealth, vars, pass
  <2> QED  BY <2>1, Zenon DEF OrderInv
<1>2. CASE \/ Restart \/ StorageFails \/ EstablishFails \/ PublishKubeconfigFails
           \/ ServeFails \/ CheckHealthFails \/ CleanupAndReport \/ CleanupAndReportFails
  <2>1. pc' = "idle"
    BY <1>2, Zenon DEF Restart, StorageFails, EstablishFails, PublishKubeconfigFails, ServeFails,
         CheckHealthFails, CleanupAndReport, CleanupAndReportFails, Finish, ApplyFails,
         setErrorAndRequeue
  <2> QED  BY <2>1, Zenon DEF OrderInv
<1>3. CASE Begin
  <2>1. tracked' = {}
    BY <1>3, Zenon DEF Begin
  <2> QED  BY <2>1, StepsOrdered, Zenon DEF OrderInv
<1>4. CASE Storage
  <2>1. /\ pc = "storage" /\ UNCHANGED copy
        /\ tracked' = tracked \cup StorageSet(copy)
    BY <1>4, FirmIs, Zenon DEF Storage, Apply
  <2> QED  BY <1>0, <2>1, StepsOrdered, Zenon
<1>5. CASE CollectMetrics \/ CollectMetricsFails
  <2>1. pc = "collector" /\ UNCHANGED copy
    BY <1>5, Zenon DEF CollectMetrics, CollectMetricsFails, Apply
  <2> DEFINE refs == Collector(copy, found)
  <2>2. Len(refs) \in Nat /\ Elements(refs) = {refs[i] : i \in 1..Len(refs)} /\ Elements(<<>>) = {}
    BY CollectorListed, TuplesListed DEF Listed, Elements
  <2>3. \A k \in 0..Len(refs) : Ordered(copy, {refs[i] : i \in 1..k})
    BY StepsOrdered, Zenon
  <2>4. \/ tracked' = tracked \cup Elements(<<>>)
        \/ tracked' = tracked \cup Elements(refs)
        \/ \E k \in 0..Len(refs) - 1 : tracked' = tracked \cup {refs[i] : i \in 1..k}
    BY <1>5, Zenon DEF CollectMetrics, CollectMetricsFails, Apply
  <2> HIDE DEF refs
  <2>5. \/ tracked' = tracked \cup {}
        \/ \E k \in 0..Len(refs) : tracked' = tracked \cup {refs[i] : i \in 1..k}
    <3>1. Len(refs) \in 0..Len(refs) /\ \A k \in 0..Len(refs) - 1 : k \in 0..Len(refs)
      BY <2>2
    <3> QED  BY <2>2, <2>4, <3>1, Zenon
  <2> QED  BY <1>0, <2>1, <2>3, <2>5, StepsOrdered, Zenon
<1>6. CASE Establish
  <2>1. /\ pc = "foundation" /\ UNCHANGED copy
        /\ tracked' = tracked \cup FoundationSet(copy, found)
    BY <1>6, FirmIs, Zenon DEF Establish, Apply
  <2> QED  BY <1>0, <2>1, StepsOrdered, Zenon
<1>7. CASE PublishKubeconfig
  <2>1. /\ pc = "kubeconfig" /\ UNCHANGED copy
        /\ tracked' = tracked \cup Elements(Kubeconfig)
    BY <1>7, Zenon DEF PublishKubeconfig, Apply
  <2> QED  BY <1>0, <2>1, StepsOrdered, Zenon
<1>8. CASE Serve
  <2>1. /\ pc = "secondary" /\ UNCHANGED copy
        /\ tracked' = tracked \cup Elements(reconcileSecondary(copy) \o reconcileMetrics(found, cluster))
    BY <1>8, Zenon DEF Serve, Apply
  <2>2. tracked' = tracked \cup (SecondarySet(copy) \cup MetricsSet(found, cluster))
    BY <2>1, FirmIs, Zenon
  <2> QED  BY <1>0, <2>1, <2>2, StepsOrdered, Zenon
<1> QED
  BY <1>1, <1>2, <1>3, <1>4, <1>5, <1>6, <1>7, <1>8, Zenon DEF Next, Reconcile, User, Misfortune

-----------------------------------------------------------------------------
(* The manifests, field by field.                                          *)
LEMMA CertificateFields ==
  /\ BuildCACertificate.secret = Secret("ca-keypair")
  /\ BuildCACertificate.issuer = Issuer("selfsigned")
  /\ BuildServingCertificate.secret = Secret("pki")
  /\ BuildServingCertificate.issuer = Issuer("ca-issuer")
  /\ BuildAdminClientCertificate.secret = Secret("admin-client-cert")
  /\ BuildAdminClientCertificate.issuer = Issuer("ca-issuer")
  /\ BuildKineCACertificate.secret = Secret("kine-ca-keypair")
  /\ BuildKineCACertificate.issuer = Issuer("kine-selfsigned")
  /\ BuildKineServingCertificate.secret = Secret("kine-serving-cert")
  /\ BuildKineServingCertificate.issuer = Issuer("kine-ca-issuer")
  /\ BuildEtcdClientCertificate.secret = Secret("etcd-client-cert")
  /\ BuildEtcdClientCertificate.issuer = Issuer("kine-ca-issuer")
  /\ BuildPostgreSQLCACertificate.secret = Secret("postgresql-ca-keypair")
  /\ BuildPostgreSQLCACertificate.issuer = Issuer("postgresql-selfsigned")
  /\ BuildPostgreSQLServingCertificate.secret = Secret("postgresql-serving-cert")
  /\ BuildPostgreSQLServingCertificate.issuer = Issuer("postgresql-ca-issuer")
  BY Zenon DEF BuildCACertificate, BuildServingCertificate, BuildAdminClientCertificate,
     BuildKineCACertificate, BuildKineServingCertificate, BuildEtcdClientCertificate,
     BuildPostgreSQLCACertificate, BuildPostgreSQLServingCertificate, Certificate, buildServingCert

LEMMA IssuerFields ==
  /\ BuildSelfSignedIssuer.id = Issuer("selfsigned") /\ BuildSelfSignedIssuer.secret = Nothing
  /\ BuildCAIssuer.id = Issuer("ca-issuer") /\ BuildCAIssuer.secret = Secret("ca-keypair")
  /\ BuildKineSelfSignedIssuer.id = Issuer("kine-selfsigned")
  /\ BuildKineSelfSignedIssuer.secret = Nothing
  /\ BuildKineCAIssuer.id = Issuer("kine-ca-issuer")
  /\ BuildKineCAIssuer.secret = Secret("kine-ca-keypair")
  /\ BuildPostgreSQLSelfSignedIssuer.id = Issuer("postgresql-selfsigned")
  /\ BuildPostgreSQLSelfSignedIssuer.secret = Nothing
  /\ BuildPostgreSQLCAIssuer.id = Issuer("postgresql-ca-issuer")
  /\ BuildPostgreSQLCAIssuer.secret = Secret("postgresql-ca-keypair")
  BY Zenon DEF BuildSelfSignedIssuer, BuildCAIssuer, BuildKineSelfSignedIssuer, BuildKineCAIssuer,
     BuildPostgreSQLSelfSignedIssuer, BuildPostgreSQLCAIssuer, CAIssuer

LEMMA MountsAre ==
  ASSUME NEW s
  PROVE  /\ BuildKineDeployment(s).mounts = KineVolumes(s)
         /\ BuildKineDeployment(s).account = Nothing
         /\ BuildSecondaryDeployment(s).mounts = SecondaryVolumes
         /\ BuildSecondaryDeployment(s).account = BuildSecondaryServiceAccount
         /\ BuildPostgreSQLStatefulSet.mounts
              = {Secret("postgresql-serving-cert"), Secret("postgresql-credentials")}
         /\ BuildPostgreSQLStatefulSet.account = Nothing
         /\ BuildOTelCollectorDeployment(s).mounts
              = {BuildOTelCollectorConfigMap(s), CollectorParams(s).ca, CollectorParams(s).credentials}
         /\ BuildOTelCollectorDeployment(s).account = Nothing
<1>1. BuildKineDeployment(s).mounts = KineVolumes(s) /\ BuildKineDeployment(s).account = Nothing
  BY Zenon DEF BuildKineDeployment
<1>2. /\ BuildSecondaryDeployment(s).mounts = SecondaryVolumes
      /\ BuildSecondaryDeployment(s).account = BuildSecondaryServiceAccount
  BY Zenon DEF BuildSecondaryDeployment
<1>3. /\ BuildPostgreSQLStatefulSet.mounts
           = {Secret("postgresql-serving-cert"), Secret("postgresql-credentials")}
      /\ BuildPostgreSQLStatefulSet.account = Nothing
  BY Zenon DEF BuildPostgreSQLStatefulSet
<1>4. /\ BuildOTelCollectorDeployment(s).mounts
           = {BuildOTelCollectorConfigMap(s), CollectorParams(s).ca, CollectorParams(s).credentials}
      /\ BuildOTelCollectorDeployment(s).account = Nothing
  BY Zenon DEF BuildOTelCollectorDeployment
<1> QED  BY <1>1, <1>2, <1>3, <1>4, Zenon

-----------------------------------------------------------------------------
(* What a pass that has come to its end has tracked.                       *)
LEMMA WantedOnly ==
  ASSUME NEW s, NEW f, NEW o \in Wanted(s, f)
  PROVE  /\ o \in {Ref("StatefulSet", "postgresql"), Ref("Service", "postgresql")}
              => s.storage = InClusterPostgreSQL
         /\ o.name = "postgresql-metrics" => s.storage # SQLite
         /\ o = BuildAPIServerSCCRoleBinding.id => f.scc
<1>1. \/ o \in StorageSet(s) \/ o \in FoundationSet(s, f) \/ o \in SecondarySet(s)
      \/ o \in MetricsSet(f, [monitor |-> TRUE])
      \/ o \in CollectorSet(s, f) /\ s.storage # SQLite
      \/ o = AdminKubeconfig
  <2>1. Collected(s, f) \subseteq CollectorSet(s, f) /\ (Collected(s, f) # {} => s.storage # SQLite)
    BY CollectorListed, Zenon DEF Collected, Listed
  <2> QED  BY <2>1, FirmIs DEF Wanted
<1>2. BuildAPIServerSCCRoleBinding.id = Ref("RoleBinding", "apiserver-scc")
  BY Zenon DEF BuildAPIServerSCCRoleBinding, Binding
<1>3. CASE o \in StorageSet(s)
  BY <1>2, <1>3, StorageNames DEF Ref, Pods3
<1>4. CASE o \in SecondarySet(s)
  BY <1>2, <1>4, SecondaryNames DEF Ref
<1>5. CASE o \in CollectorSet(s, f) /\ s.storage # SQLite
  BY <1>2, <1>5, CollectorNames DEF Ref
<1>6. CASE o = AdminKubeconfig
  BY <1>2, <1>6 DEF AdminKubeconfig, Secret, Ref
<1>7. CASE o \in FoundationSet(s, f)
  <2>1. o.name # "postgresql-metrics" /\ o.kind \notin Pods3
    BY <1>7, FoundationNames, Zenon
  <2>2. o = BuildAPIServerSCCRoleBinding.id => f.scc
    <3> SUFFICES ASSUME o = Ref("RoleBinding", "apiserver-scc"), ~f.scc PROVE FALSE
      BY <1>2, Zenon
    <3>1. o.kind \notin {"Issuer", "Certificate", "ConfigMap", "ServiceAccount", "ClusterRoleBinding"}
      BY Zenon DEF Ref
    <3>2. SCCSet(f) = {}
      BY Zenon DEF SCCSet
    <3>3. \A x \in ChainSet : x.kind \in {"Issuer", "Certificate"}
      BY DEF ChainSet, BuildSelfSignedIssuer, BuildCACertificate, BuildCAIssuer,
        BuildServingCertificate, BuildAdminClientCertificate,
        BuildKineSelfSignedIssuer, BuildKineCACertificate, BuildKineCAIssuer,
        BuildKineServingCertificate, BuildEtcdClientCertificate, Certificate, buildServingCert,
        CAIssuer, Issuer, Ref
    <3>4. \A x \in DatabaseChainSet : x.kind \in {"Issuer", "Certificate"}
      BY DEF DatabaseChainSet, BuildPostgreSQLSelfSignedIssuer, BuildPostgreSQLCACertificate,
        BuildPostgreSQLCAIssuer, BuildPostgreSQLServingCertificate, Certificate, buildServingCert,
        CAIssuer, Issuer, Ref
    <3>5. /\ ConfigMap("authz-config").kind = "ConfigMap" /\ ConfigMap("requestheader-ca").kind = "ConfigMap"
          /\ BuildSecondaryServiceAccount.kind = "ServiceAccount"
          /\ AuthDelegatorBinding.id.kind = "ClusterRoleBinding"
      BY Zenon DEF ConfigMap, BuildSecondaryServiceAccount, AuthDelegatorBinding, Binding, Ref
    <3> QED  BY <1>7, <3>1, <3>2, <3>3, <3>4, <3>5, Zenon DEF FoundationSet, CertificateSet
  <2> QED  BY <2>1, <2>2 DEF Ref, Pods3
<1>8. CASE o \in MetricsSet(f, [monitor |-> TRUE])
  <2>1. o.name # "postgresql-metrics" /\ o.kind \notin Pods3
    BY <1>8, MetricsNames, Zenon
  <2>2. o \in ReaderSet \/ o \in ScrapedSet
    BY <1>8, Zenon DEF MetricsSet
  <2>3. o # Ref("RoleBinding", "apiserver-scc")
    BY <2>2
       DEF ReaderSet, ScrapedSet, BuildMetricsReaderServiceAccount, BuildMetricsReaderTokenSecret,
       BuildMetricsReaderClusterRoleBinding, BuildKineServiceMonitor, BuildSecondaryServiceMonitor,
       Monitor, BuildPrometheusDiscoveryRole, BuildPrometheusDiscoveryRoleBinding, Binding, Secret, Ref
  <2> QED  BY <1>2, <2>1, <2>3 DEF Ref, Pods3
<1> QED  BY <1>1, <1>3, <1>4, <1>5, <1>6, <1>7, <1>8, Zenon

(* The shard and the copy of it that a pass works on are specs the API    *)
(* server admits.                                                          *)
ShardInv == shard \in Shards /\ copy \in Shards
LEMMA ShardStep == ShardInv /\ [Next]_vars => ShardInv'
<1> SUFFICES ASSUME ShardInv, [Next]_vars PROVE ShardInv'
  BY Zenon
<1>1. CASE Edit
  <2>1. shard' \in Shards /\ UNCHANGED copy
    BY <1>1, Zenon DEF Edit, pass
  <2> QED  BY <2>1, Zenon DEF ShardInv
<1>2. CASE ~Edit
  <2>1. UNCHANGED shard /\ copy' \in {copy, shard}
    BY <1>2, Zenon DEF Next, Reconcile, User, Misfortune, EditConnection, Issue, StartPods,
       LoseObject, LoseSecret, RemoveMonitors, Restart, Begin, Storage, StorageFails, CollectMetrics,
       CollectMetricsFails, Establish, EstablishFails, PublishKubeconfig, PublishKubeconfigFails,
       Serve, ServeFails, CheckHealth, CheckHealthFails, CleanupAndReport, CleanupAndReportFails,
       Finish, Apply, ApplyFails, setErrorAndRequeue, vars, world, pass
  <2> QED  BY <2>1, Zenon DEF ShardInv
<1> QED  BY <1>1, <1>2, Zenon

CompleteInv == TrackInv /\ PassInv /\ OrderInv /\ ShardInv

LEMMA Complete ==
  ASSUME CompleteInv, pc = "cleanup"
  PROVE  /\ copy.storage \in {SQLite, InClusterPostgreSQL, PostgreSQL}
         /\ StorageSet(copy) \cup FoundationSet(copy, found) \cup SecondarySet(copy) \subseteq tracked
         /\ Ref("StatefulSet", "postgresql") \in tracked <=> copy.storage = InClusterPostgreSQL
         /\ Ref("Service", "postgresql") \in tracked <=> copy.storage = InClusterPostgreSQL
         /\ CollectorDeployment \in tracked => copy.storage # SQLite
         /\ BuildAPIServerSCCRoleBinding.id \in tracked => SCCSet(found) \subseteq tracked /\ found.scc
         /\ Ordered(copy, tracked)
<1>1. copy.storage \in {SQLite, InClusterPostgreSQL, PostgreSQL}
  BY ShardsAssumption, Zenon DEF CompleteInv, ShardInv
<1>2. StorageSet(copy) \cup FoundationSet(copy, found) \cup SecondarySet(copy) \subseteq tracked
  BY Zenon DEF CompleteInv, TrackInv, AfterStorage, AfterFoundation, AfterServing
<1>3. tracked \subseteq Wanted(copy, found)
  BY Zenon DEF CompleteInv, PassInv
<1>4. copy.storage = InClusterPostgreSQL => DatabaseSet \subseteq tracked
  BY <1>2, Zenon DEF StorageSet
<1>5. /\ Ref("StatefulSet", "postgresql") \in tracked <=> copy.storage = InClusterPostgreSQL
      /\ Ref("Service", "postgresql") \in tracked <=> copy.storage = InClusterPostgreSQL
  BY <1>3, <1>4, WantedOnly, Zenon DEF DatabaseSet
<1>6. CollectorDeployment \in tracked => copy.storage # SQLite
  BY <1>3, WantedOnly, CollectorApart, Zenon
<1>7. BuildAPIServerSCCRoleBinding.id \in tracked => found.scc
  BY <1>3, WantedOnly, Zenon
<1>8. SCCSet(found) \subseteq tracked
  BY <1>2, Zenon DEF FoundationSet
<1>9. Ordered(copy, tracked)
  BY Zenon DEF CompleteInv, OrderInv
<1> QED  BY <1>1, <1>2, <1>5, <1>6, <1>7, <1>8, <1>9, Zenon

(* Every Certificate is tracked, and so its secret yielded.                *)
LEMMA CertificatesTracked ==
  ASSUME CompleteInv, pc = "cleanup"
  PROVE  /\ \A c \in Certificates(copy) : c.id \in tracked /\ c.secret \in Yielded
         /\ \A i \in Issuers(copy) : i.id \in tracked
<1>1. ChainSet \subseteq tracked /\ (copy.storage = InClusterPostgreSQL => DatabaseChainSet \subseteq tracked)
  BY Complete, Zenon DEF FoundationSet, CertificateSet
<1>2. \A c \in Certificates(copy) : c.id \in tracked
  BY <1>1, Zenon DEF Certificates, ChainSet, DatabaseChainSet
<1>3. \A i \in Issuers(copy) : i.id \in tracked
  BY <1>1, Zenon DEF Issuers, ChainSet, DatabaseChainSet
<1>4. \A c \in Certificates(copy) : c.secret \in Yielded
  BY <1>2, Zenon DEF Yielded
<1> QED  BY <1>2, <1>3, <1>4, Zenon

LEMMA CompleteResolves ==
  ASSUME CompleteInv, pc = "cleanup"
  PROVE  Resolved
<1> DEFINE Had == tracked \cup Yielded \cup {Secret("connection"), Secret("database-ca")}
<1>1. /\ {BuildCACertificate, BuildServingCertificate, BuildAdminClientCertificate,
          BuildKineCACertificate, BuildKineServingCertificate, BuildEtcdClientCertificate}
           \subseteq Certificates(copy)
      /\ copy.storage = InClusterPostgreSQL =>
           {BuildPostgreSQLCACertificate, BuildPostgreSQLServingCertificate} \subseteq Certificates(copy)
  BY Zenon DEF Certificates
<1>2. /\ {Secret("ca-keypair"), Secret("pki"), Secret("admin-client-cert"), Secret("kine-ca-keypair"),
          Secret("kine-serving-cert"), Secret("etcd-client-cert")} \subseteq Yielded
      /\ copy.storage = InClusterPostgreSQL =>
           {Secret("postgresql-ca-keypair"), Secret("postgresql-serving-cert")} \subseteq Yielded
  BY <1>1, CertificatesTracked, CertificateFields, SMTT(30)
<1>3. /\ {ConfigMap("authz-config"), ConfigMap("requestheader-ca"), BuildSecondaryServiceAccount,
          AuthDelegatorBinding.id} \subseteq tracked
      /\ copy.storage = InClusterPostgreSQL => Secret("postgresql-credentials") \in tracked
  BY Complete, Zenon DEF FoundationSet, StorageSet, DatabaseSet
<1>4. ASSUME NEW m \in Workloads(copy), m.id \in tracked
      PROVE  m.mounts \subseteq Had /\ m.account \in tracked \cup {Nothing}
  <2>1. CASE m = BuildKineDeployment(copy)
    <3>1. CASE copy.storage = PostgreSQL
      BY <1>2, <2>1, <3>1, MountsAre, Zenon DEF KineVolumes, PostgreSQL, InClusterPostgreSQL, SQLite
    <3>2. CASE copy.storage = InClusterPostgreSQL
      BY <1>2, <1>3, <2>1, <3>2, MountsAre, ZenonT(30)
         DEF KineVolumes, PostgreSQL, InClusterPostgreSQL, SQLite
    <3>3. CASE copy.storage = SQLite
      BY <1>2, <2>1, <3>3, MountsAre, ZenonT(30) DEF KineVolumes, PostgreSQL, InClusterPostgreSQL, SQLite
    <3> QED  BY <3>1, <3>2, <3>3, Complete, Zenon
  <2>2. CASE m = BuildSecondaryDeployment(copy)
    BY <1>2, <1>3, <2>2, MountsAre, Zenon DEF SecondaryVolumes
  <2>3. CASE m = BuildPostgreSQLStatefulSet
    <3>1. copy.storage = InClusterPostgreSQL
      BY <1>4, <2>3, IdsAre, Complete, Zenon
    <3> QED  BY <1>2, <1>3, <2>3, <3>1, MountsAre, Zenon
  <2>4. CASE m = BuildOTelCollectorDeployment(copy)
    <3>1. CollectorDeployment \in tracked
      BY <1>4, <2>4, IdsAre, Zenon DEF CollectorDeployment
    <3>2. /\ copy.storage # SQLite /\ BuildOTelCollectorConfigMap(copy) \in tracked
          /\ copy.storage = PostgreSQL => Secret("postgresql-metrics-credentials") \in tracked
      BY <3>1, Complete, Zenon DEF Ordered, Collects
    <3>3. CASE copy.storage = InClusterPostgreSQL
      <4>1. CollectorParams(copy).ca = Secret("postgresql-ca-keypair")
            /\ CollectorParams(copy).credentials = Secret("postgresql-credentials")
        BY <3>3, Zenon DEF CollectorParams, BuildPostgreSQLSecret
      <4> QED  BY <1>2, <1>3, <2>4, <3>2, <3>3, <4>1, MountsAre, SMTT(30)
    <3>4. CASE copy.storage = PostgreSQL
      <4>1. CollectorParams(copy).ca = Secret("database-ca")
            /\ CollectorParams(copy).credentials = Secret("postgresql-metrics-credentials")
        BY <3>4, Zenon DEF CollectorParams, PostgreSQL, InClusterPostgreSQL
      <4> QED  BY <2>4, <3>2, <3>4, <4>1, MountsAre, SMTT(30)
    <3> QED  BY <3>2, <3>3, <3>4, Complete, Zenon
  <2> QED  BY <1>4, <2>1, <2>2, <2>3, <2>4, Zenon DEF Workloads
<1>5. \A c \in Certificates(copy) : c.issuer \in tracked
  BY CertificatesTracked, CertificateFields, IssuerFields, SMTT(30) DEF Certificates, Issuers
<1>6. \A i \in Issuers(copy) : i.secret \in Yielded \cup {Nothing}
  BY <1>2, IssuerFields, Zenon DEF Issuers
<1>7. ASSUME NEW b \in {AuthDelegatorBinding, BuildMetricsReaderClusterRoleBinding,
                        BuildPrometheusDiscoveryRoleBinding, BuildAPIServerSCCRoleBinding},
             b.id \in tracked
      PROVE  /\ b.role \in tracked \cup {Ref("ClusterRole", "system:auth-delegator"),
                                        BuildMetricsReaderClusterRole}
             /\ b.account \in tracked \cup {PrometheusServiceAccount}
  <2>1. CASE b = AuthDelegatorBinding
    BY <1>3, <2>1, Zenon DEF AuthDelegatorBinding, Binding
  <2>2. CASE b = BuildMetricsReaderClusterRoleBinding
    <3>1. BuildMetricsReaderServiceAccount \in tracked
      BY <1>7, <2>2, Complete, Zenon DEF Ordered, Bound
    <3> QED  BY <2>2, <3>1, Zenon DEF BuildMetricsReaderClusterRoleBinding, Binding
  <2>3. CASE b = BuildPrometheusDiscoveryRoleBinding
    <3>1. BuildPrometheusDiscoveryRole \in tracked
      BY <1>7, <2>3, Complete, Zenon DEF Ordered, Bound
    <3> QED  BY <2>3, <3>1, Zenon DEF BuildPrometheusDiscoveryRoleBinding, Binding
  <2>4. CASE b = BuildAPIServerSCCRoleBinding
    <3>1. BuildAPIServerSCCClusterRole \in tracked
      BY <1>7, <2>4, Complete, Zenon DEF SCCSet
    <3> QED  BY <1>3, <2>4, <3>1, Zenon DEF BuildAPIServerSCCRoleBinding, Binding
  <2> QED  BY <2>1, <2>2, <2>3, <2>4, Zenon
<1> QED  BY <1>4, <1>5, <1>6, <1>7, Zenon DEF Resolved

-----------------------------------------------------------------------------
(* Which labels have what in common.                                       *)
LEMMA LabelsApart ==
  /\ \A set \in {KineLabels, {<<"name", "kine">>}, {<<"component", "storage">>}} :
       /\ set \subseteq KineLabels /\ ~(set \subseteq APIServerLabels)
       /\ ~(set \subseteq postgresLabels) /\ ~(set \subseteq otelLabels)
  /\ \A set \in {APIServerLabels, {<<"name", "kube-apiserver">>}, {<<"component", "apiserver">>}} :
       /\ set \subseteq APIServerLabels /\ ~(set \subseteq KineLabels)
       /\ ~(set \subseteq postgresLabels) /\ ~(set \subseteq otelLabels)
  /\ /\ ~(postgresLabels \subseteq KineLabels) /\ ~(postgresLabels \subseteq APIServerLabels)
     /\ ~(postgresLabels \subseteq otelLabels)
  /\ \A set \in {otelLabels, {<<"name", "otel-collector">>}} :
       /\ set \subseteq otelLabels /\ ~(set \subseteq KineLabels)
       /\ ~(set \subseteq postgresLabels) /\ ~(set \subseteq APIServerLabels)
  BY DEF KineLabels, APIServerLabels, postgresLabels, otelLabels, Labels

LEMMA WorkloadFields ==
  ASSUME NEW s
  PROVE  /\ BuildKineDeployment(s).labels = KineLabels
         /\ BuildKineDeployment(s).affinity = BuildKineAffinity(s)
         /\ BuildSecondaryDeployment(s).labels = APIServerLabels
         /\ BuildSecondaryDeployment(s).affinity = BuildSecondaryAffinity(s)
         /\ BuildPostgreSQLStatefulSet.labels = postgresLabels
         /\ BuildPostgreSQLStatefulSet.affinity = {}
         /\ BuildOTelCollectorDeployment(s).labels = otelLabels
         /\ BuildOTelCollectorDeployment(s).affinity = {}
<1>1. BuildKineDeployment(s).labels = KineLabels /\ BuildKineDeployment(s).affinity = BuildKineAffinity(s)
  BY Zenon DEF BuildKineDeployment
<1>2. /\ BuildSecondaryDeployment(s).labels = APIServerLabels
      /\ BuildSecondaryDeployment(s).affinity = BuildSecondaryAffinity(s)
  BY Zenon DEF BuildSecondaryDeployment
<1>3. BuildPostgreSQLStatefulSet.labels = postgresLabels /\ BuildPostgreSQLStatefulSet.affinity = {}
  BY Zenon DEF BuildPostgreSQLStatefulSet
<1>4. BuildOTelCollectorDeployment(s).labels = otelLabels /\ BuildOTelCollectorDeployment(s).affinity = {}
  BY Zenon DEF BuildOTelCollectorDeployment
<1> QED  BY <1>1, <1>2, <1>3, <1>4, Zenon

LEMMA ServiceFields ==
  /\ BuildKineService.labels = KineLabels
  /\ BuildKineService.ports = {Port("grpc", KinePort, KinePort),
                               Port("metrics", KineMetricsPort, KineMetricsPort)}
  /\ BuildSecondaryService.labels = APIServerLabels
  /\ BuildSecondaryService.ports = {Port("https", 443, SecondaryPort)}
  /\ BuildPostgreSQLService.labels = postgresLabels
  /\ BuildPostgreSQLService.ports = {Port("tcp", PostgreSQLPort, PostgreSQLPort)}
  /\ BuildOTelCollectorService.labels = otelLabels
  /\ BuildOTelCollectorService.ports = {Port("otel-metrics", OTelMetricsPort, OTelMetricsPort)}
  BY Zenon
     DEF BuildKineService, BuildSecondaryService, BuildPostgreSQLService, BuildOTelCollectorService,
     Service

(* Whom the selectors find.                                                *)
LEMMA SelectedAre ==
  ASSUME CompleteInv, pc = "cleanup"
  PROVE  /\ \A set \in {KineLabels, {<<"component", "storage">>}} :
              Selected(set) = {BuildKineDeployment(copy)}
         /\ \A set \in {APIServerLabels, {<<"component", "apiserver">>}} :
              Selected(set) = {BuildSecondaryDeployment(copy)}
         /\ copy.storage = InClusterPostgreSQL => Selected(postgresLabels) = {BuildPostgreSQLStatefulSet}
         /\ CollectorDeployment \in tracked => Selected(otelLabels) = {BuildOTelCollectorDeployment(copy)}
<1>1. /\ BuildKineDeployment(copy).id \in tracked /\ BuildSecondaryDeployment(copy).id \in tracked
      /\ copy.storage = InClusterPostgreSQL => BuildPostgreSQLStatefulSet.id \in tracked
      /\ CollectorDeployment \in tracked => BuildOTelCollectorDeployment(copy).id \in tracked
  BY Complete, IdsAre, Zenon DEF StorageSet, KineSet, SecondarySet, CollectorDeployment
<1>2. Workloads(copy) = {BuildKineDeployment(copy), BuildSecondaryDeployment(copy),
                         BuildOTelCollectorDeployment(copy), BuildPostgreSQLStatefulSet}
  BY Zenon DEF Workloads
<1>3. ASSUME NEW set \in {KineLabels, {<<"component", "storage">>}}
      PROVE  Selected(set) = {BuildKineDeployment(copy)}
  BY <1>1, <1>2, LabelsApart, WorkloadFields, SMTT(30) DEF Selected
<1>4. ASSUME NEW set \in {APIServerLabels, {<<"component", "apiserver">>}}
      PROVE  Selected(set) = {BuildSecondaryDeployment(copy)}
  BY <1>1, <1>2, LabelsApart, WorkloadFields, SMTT(30) DEF Selected
<1>5. copy.storage = InClusterPostgreSQL => Selected(postgresLabels) = {BuildPostgreSQLStatefulSet}
  BY <1>1, <1>2, LabelsApart, WorkloadFields, SMTT(30) DEF Selected
<1>6. CollectorDeployment \in tracked => Selected(otelLabels) = {BuildOTelCollectorDeployment(copy)}
  BY <1>1, <1>2, LabelsApart, WorkloadFields, SMTT(30) DEF Selected
<1> QED  BY <1>3, <1>4, <1>5, <1>6, Zenon

LEMMA CompleteSelects ==
  ASSUME CompleteInv, pc = "cleanup"
  PROVE  SelectsOwn
<1>1. ASSUME NEW v \in Services, v.id \in tracked
      PROVE  \E m \in Workloads(copy) : Selected(v.labels) = {m}
  <2>1. \E m : Selected(v.labels) = {m}
    <3>1. CASE v = BuildKineService
      <4>1. v.labels = KineLabels
        BY <3>1, ServiceFields, Zenon
      <4> QED  BY <4>1, SelectedAre, Zenon
    <3>2. CASE v = BuildSecondaryService
      <4>1. v.labels = APIServerLabels
        BY <3>2, ServiceFields, Zenon
      <4> QED  BY <4>1, SelectedAre, Zenon
    <3>3. CASE v = BuildPostgreSQLService
      <4>1. v.labels = postgresLabels
        BY <3>3, ServiceFields, Zenon
      <4>2. v.id = Ref("Service", "postgresql")
        BY <3>3, IdsAre, Zenon
      <4>3. copy.storage = InClusterPostgreSQL
        BY <1>1, <4>2, Complete, Zenon
      <4> QED  BY <4>1, <4>3, SelectedAre, Zenon
    <3>4. CASE v = BuildOTelCollectorService
      <4>1. v.labels = otelLabels
        BY <3>4, ServiceFields, Zenon
      <4>2. v.id = Ref("Service", "postgresql-metrics")
        BY <3>4, IdsAre, Zenon
      <4>3. CollectorDeployment \in tracked
        BY <1>1, <4>2, Complete, SMTT(30) DEF Ordered, Collects, CollectorService
      <4> QED  BY <4>1, <4>3, SelectedAre, Zenon
    <3> QED  BY <3>1, <3>2, <3>3, <3>4, Zenon DEF Services
  <2> QED  BY <2>1, Zenon DEF Selected
<1>2. ASSUME NEW b \in BuildPDB("kine", copy.kine, KineLabels)
                  \cup BuildPDB("apiserver", copy.secondary, APIServerLabels)
      PROVE  Ids(Selected(b.selector)) = {Ref("Deployment", b.id.name)}
  <2>1. \/ b = [id |-> Ref("PodDisruptionBudget", "kine"), selector |-> KineLabels]
        \/ b = [id |-> Ref("PodDisruptionBudget", "apiserver"), selector |-> APIServerLabels]
    BY <1>2, Zenon DEF BuildPDB
  <2>2. \/ b.selector = KineLabels /\ b.id.name = "kine"
        \/ b.selector = APIServerLabels /\ b.id.name = "apiserver"
    BY <2>1 DEF Ref
  <2> QED  BY <2>2, SelectedAre, IdsAre, SMTT(30) DEF Ids
<1>3. ASSUME NEW m \in Monitors, m.id \in tracked
      PROVE  \E v \in Services :
               /\ {x \in Services : x.id \in tracked /\ m.selector \subseteq x.labels} = {v}
               /\ \E p \in v.ports : p.name = m.port
  <2>0. Services = {BuildKineService, BuildSecondaryService, BuildPostgreSQLService, BuildOTelCollectorService}
    BY Zenon DEF Services
  <2>1. CASE m = BuildKineServiceMonitor
    <3>1. m.selector = {<<"name", "kine">>} /\ m.port = "metrics"
      BY <2>1, Zenon DEF BuildKineServiceMonitor, Monitor
    <3>2. BuildKineService.id \in tracked
      BY IdsAre, Complete, Zenon DEF StorageSet, KineSet
    <3>3. {x \in Services : x.id \in tracked /\ m.selector \subseteq x.labels} = {BuildKineService}
      BY <2>0, <3>1, <3>2, LabelsApart, ServiceFields, SMTT(30)
    <3>4. \E p \in BuildKineService.ports : p.name = m.port
      BY <3>1, ServiceFields, SMTT(30) DEF Port
    <3> QED  BY <2>0, <3>3, <3>4, Zenon
  <2>2. CASE m = BuildSecondaryServiceMonitor
    <3>1. m.selector = {<<"name", "kube-apiserver">>} /\ m.port = "https"
      BY <2>2, Zenon DEF BuildSecondaryServiceMonitor, Monitor
    <3>2. BuildSecondaryService.id \in tracked
      BY IdsAre, Complete, Zenon DEF SecondarySet
    <3>3. {x \in Services : x.id \in tracked /\ m.selector \subseteq x.labels} = {BuildSecondaryService}
      BY <2>0, <3>1, <3>2, LabelsApart, ServiceFields, SMTT(30)
    <3>4. \E p \in BuildSecondaryService.ports : p.name = m.port
      BY <3>1, ServiceFields, SMTT(30) DEF Port
    <3> QED  BY <2>0, <3>3, <3>4, Zenon
  <2>3. CASE m = BuildPostgreSQLMetricsServiceMonitor
    <3>1. m.selector = {<<"name", "otel-collector">>} /\ m.port = "otel-metrics"
      BY <2>3, Zenon DEF BuildPostgreSQLMetricsServiceMonitor, Monitor
    <3>2. BuildOTelCollectorService.id \in tracked
      BY <1>3, <2>3, IdsAre, Complete, Zenon
         DEF Ordered, Collects, CollectorService, CollectorMonitor
    <3>3. {x \in Services : x.id \in tracked /\ m.selector \subseteq x.labels} = {BuildOTelCollectorService}
      BY <2>0, <3>1, <3>2, LabelsApart, ServiceFields, SMTT(30)
    <3>4. \E p \in BuildOTelCollectorService.ports : p.name = m.port
      BY <3>1, ServiceFields, SMTT(30) DEF Port
    <3> QED  BY <2>0, <3>3, <3>4, Zenon
  <2> QED  BY <2>1, <2>2, <2>3, Zenon DEF Monitors
<1>4. ASSUME NEW m \in Selected({}), NEW a \in m.affinity
      PROVE  Ids(Selected(a.selector)) = IF a.near THEN {BuildKineDeployment(copy).id} ELSE {m.id}
  <2>1. CASE m = BuildKineDeployment(copy)
    <3>1. a = [near |-> FALSE, selector |-> {<<"component", "storage">>}]
      BY <2>1, WorkloadFields, Zenon DEF BuildKineAffinity
    <3>2. ~a.near /\ a.selector = {<<"component", "storage">>}
      BY <3>1, Zenon
    <3> QED  BY <2>1, <3>2, SelectedAre, Zenon DEF Ids
  <2>2. CASE m = BuildSecondaryDeployment(copy)
    <3>1. \/ a = [near |-> FALSE, selector |-> {<<"component", "apiserver">>}]
          \/ a = [near |-> TRUE, selector |-> {<<"component", "storage">>}]
      BY <2>2, WorkloadFields, Zenon DEF BuildSecondaryAffinity
    <3>2. \/ ~a.near /\ a.selector = {<<"component", "apiserver">>}
          \/ a.near /\ a.selector = {<<"component", "storage">>}
      BY <3>1, SMTT(30)
    <3> QED  BY <2>2, <3>2, SelectedAre, ZenonT(30) DEF Ids
  <2>3. CASE m \in {BuildPostgreSQLStatefulSet, BuildOTelCollectorDeployment(copy)}
    BY <2>3, WorkloadFields, Zenon
  <2> QED  BY <2>1, <2>2, <2>3, Zenon DEF Selected, Workloads
<1> QED  BY <1>1, <1>2, <1>3, <1>4, Zenon DEF SelectsOwn

-----------------------------------------------------------------------------
(* No two Certificates write the same secret, and no two Issuers have the  *)
(* same name, so a secret has one CA.                                      *)
LEMMA SecretsApart ==
  ASSUME NEW s
  PROVE  /\ \A c, e \in Certificates(s) : c.secret = e.secret => c = e
         /\ \A i, j \in Issuers(s) : i.id = j.id => i = j
<1>1. /\ BuildCACertificate.secret.name = "ca-keypair"
      /\ BuildServingCertificate.secret.name = "pki"
      /\ BuildAdminClientCertificate.secret.name = "admin-client-cert"
      /\ BuildKineCACertificate.secret.name = "kine-ca-keypair"
      /\ BuildKineServingCertificate.secret.name = "kine-serving-cert"
      /\ BuildEtcdClientCertificate.secret.name = "etcd-client-cert"
      /\ BuildPostgreSQLCACertificate.secret.name = "postgresql-ca-keypair"
      /\ BuildPostgreSQLServingCertificate.secret.name = "postgresql-serving-cert"
  BY CertificateFields DEF Secret, Ref
<1>2. /\ BuildSelfSignedIssuer.id.name = "selfsigned"
      /\ BuildCAIssuer.id.name = "ca-issuer"
      /\ BuildKineSelfSignedIssuer.id.name = "kine-selfsigned"
      /\ BuildKineCAIssuer.id.name = "kine-ca-issuer"
      /\ BuildPostgreSQLSelfSignedIssuer.id.name = "postgresql-selfsigned"
      /\ BuildPostgreSQLCAIssuer.id.name = "postgresql-ca-issuer"
  BY IssuerFields DEF Issuer, Ref
<1>3. Certificates(s) \subseteq
        {BuildCACertificate, BuildServingCertificate, BuildAdminClientCertificate,
         BuildKineCACertificate, BuildKineServingCertificate, BuildEtcdClientCertificate,
         BuildPostgreSQLCACertificate, BuildPostgreSQLServingCertificate}
  BY Zenon DEF Certificates
<1>4. Issuers(s) \subseteq
        {BuildSelfSignedIssuer, BuildCAIssuer, BuildKineSelfSignedIssuer, BuildKineCAIssuer,
         BuildPostgreSQLSelfSignedIssuer, BuildPostgreSQLCAIssuer}
  BY Zenon DEF Issuers
<1>5. \A c, e \in Certificates(s) : c.secret = e.secret => c = e
  BY <1>1, <1>3
<1>6. \A i, j \in Issuers(s) : i.id = j.id => i = j
  BY <1>2, <1>4
<1> QED  BY <1>5, <1>6, Zenon

LEMMA Authority ==
  ASSUME NEW s, NEW e \in Certificates(s), NEW j \in Issuers(s), j.id = e.issuer
  PROVE  CAOf(s, e.secret) = IF j.secret = Nothing THEN e.secret ELSE j.secret
<1> DEFINE c == CHOOSE x \in Certificates(s) : x.secret = e.secret
           i == CHOOSE x \in Issuers(s) : x.id = c.issuer
<1>1. c = e
  <2>1. c \in Certificates(s) /\ c.secret = e.secret
    BY Zenon
  <2> HIDE DEF c
  <2> QED  BY <2>1, SecretsApart, Zenon
<1>2. CAOf(s, e.secret) = IF i.secret = Nothing THEN e.secret ELSE i.secret
  BY Zenon DEF CAOf
<1> HIDE DEF c
<1>3. i = j
  <2>1. i \in Issuers(s) /\ i.id = c.issuer
    BY <1>1, Zenon
  <2> HIDE DEF i
  <2> QED  BY <1>1, <2>1, SecretsApart, Zenon
<1> HIDE DEF i
<1> QED  BY <1>2, <1>3, Zenon

LEMMA Authorities ==
  ASSUME NEW s
  PROVE  /\ CAOf(s, Secret("pki")) = Secret("ca-keypair")
         /\ CAOf(s, Secret("admin-client-cert")) = Secret("ca-keypair")
         /\ CAOf(s, Secret("kine-serving-cert")) = Secret("kine-ca-keypair")
         /\ CAOf(s, Secret("etcd-client-cert")) = Secret("kine-ca-keypair")
         /\ s.storage = InClusterPostgreSQL =>
              /\ CAOf(s, Secret("postgresql-serving-cert")) = Secret("postgresql-ca-keypair")
              /\ CAOf(s, Secret("postgresql-ca-keypair")) = Secret("postgresql-ca-keypair")
<1>1. /\ {BuildServingCertificate, BuildAdminClientCertificate, BuildKineServingCertificate,
          BuildEtcdClientCertificate} \subseteq Certificates(s)
      /\ {BuildCAIssuer, BuildKineCAIssuer} \subseteq Issuers(s)
  BY Zenon DEF Certificates, Issuers
<1>2. \A name : name # "" => Secret(name) # Nothing
  BY Zenon DEF Secret, Nothing, Ref
<1>3. /\ CAOf(s, BuildServingCertificate.secret) = BuildCAIssuer.secret
      /\ CAOf(s, BuildAdminClientCertificate.secret) = BuildCAIssuer.secret
  BY <1>1, <1>2, Authority, CertificateFields, IssuerFields, ZenonT(30)
<1>4. /\ CAOf(s, BuildKineServingCertificate.secret) = BuildKineCAIssuer.secret
      /\ CAOf(s, BuildEtcdClientCertificate.secret) = BuildKineCAIssuer.secret
  BY <1>1, <1>2, Authority, CertificateFields, IssuerFields, ZenonT(30)
<1>5. ASSUME s.storage = InClusterPostgreSQL
      PROVE  /\ CAOf(s, BuildPostgreSQLServingCertificate.secret) = BuildPostgreSQLCAIssuer.secret
             /\ CAOf(s, BuildPostgreSQLCACertificate.secret) = BuildPostgreSQLCACertificate.secret
  <2>1. /\ {BuildPostgreSQLCACertificate, BuildPostgreSQLServingCertificate} \subseteq Certificates(s)
        /\ {BuildPostgreSQLSelfSignedIssuer, BuildPostgreSQLCAIssuer} \subseteq Issuers(s)
    BY <1>5, Zenon DEF Certificates, Issuers
  <2> QED  BY <1>2, <2>1, Authority, CertificateFields, IssuerFields, ZenonT(30)
<1> QED  BY <1>3, <1>4, <1>5, CertificateFields, IssuerFields, Zenon

LEMMA ServesAre ==
  ASSUME NEW s
  PROVE  /\ BuildKineDeployment(s).serves = Secret("kine-serving-cert")
         /\ BuildKineDeployment(s).trusts = Secret("kine-serving-cert")
         /\ BuildKineDeployment(s).ports = {KinePort, KineMetricsPort}
         /\ BuildKineDeployment(s).asks = {KinePort}
         /\ BuildKineDeployment(s).dials = KineEndpoint(s)
         /\ BuildSecondaryDeployment(s).serves = Secret("pki")
         /\ BuildSecondaryDeployment(s).trusts = Secret("pki")
         /\ BuildSecondaryDeployment(s).ports = {SecondaryPort}
         /\ BuildSecondaryDeployment(s).dials
              = {Dial("kine", "cluster", KinePort, Secret("etcd-client-cert"), Secret("etcd-client-cert"))}
         /\ BuildPostgreSQLStatefulSet.serves = Secret("postgresql-serving-cert")
         /\ BuildPostgreSQLStatefulSet.ports = {PostgreSQLPort}
         /\ BuildPostgreSQLStatefulSet.dials = {} /\ BuildPostgreSQLStatefulSet.asks = {}
         /\ BuildSecondaryDeployment(s).asks = {}
         /\ BuildOTelCollectorDeployment(s).dials = CollectorParams(s).dials
<1>1. /\ BuildKineDeployment(s).serves = Secret("kine-serving-cert")
      /\ BuildKineDeployment(s).trusts = Secret("kine-serving-cert")
      /\ BuildKineDeployment(s).ports = {KinePort, KineMetricsPort}
      /\ BuildKineDeployment(s).asks = {KinePort}
      /\ BuildKineDeployment(s).dials = KineEndpoint(s)
  BY Zenon DEF BuildKineDeployment
<1>2. /\ BuildSecondaryDeployment(s).serves = SecondaryArgs.serves
      /\ BuildSecondaryDeployment(s).trusts = SecondaryArgs.trusts
      /\ BuildSecondaryDeployment(s).ports = {SecondaryPort}
      /\ BuildSecondaryDeployment(s).dials = SecondaryArgs.dials
      /\ BuildSecondaryDeployment(s).asks = {}
  BY Zenon DEF BuildSecondaryDeployment
<1>3. /\ SecondaryArgs.serves = Secret("pki") /\ SecondaryArgs.trusts = Secret("pki")
      /\ SecondaryArgs.dials
           = {Dial("kine", "cluster", KinePort, Secret("etcd-client-cert"), Secret("etcd-client-cert"))}
  BY Zenon DEF SecondaryArgs
<1>4. /\ BuildPostgreSQLStatefulSet.serves = Secret("postgresql-serving-cert")
      /\ BuildPostgreSQLStatefulSet.ports = {PostgreSQLPort}
      /\ BuildPostgreSQLStatefulSet.dials = {} /\ BuildPostgreSQLStatefulSet.asks = {}
  BY Zenon DEF BuildPostgreSQLStatefulSet
<1>5. BuildOTelCollectorDeployment(s).dials = CollectorParams(s).dials
  BY Zenon DEF BuildOTelCollectorDeployment
<1> QED  BY <1>1, <1>2, <1>3, <1>4, <1>5, Zenon

(* Whoever dials Kine, the secondary or the database by a name in its      *)
(* certificate, with its CA and with a client certificate of the CA the    *)
(* server trusts, or none where it does not ask, reaches it.               *)
LEMMA ReachedBy ==
  ASSUME NEW d, NEW v \in Services, NEW p \in v.ports, NEW m, NEW c \in Certificates(copy),
         v.id \in tracked, v.id.name = d.host[1], p.number = d.port, Selected(v.labels) = {m},
         p.target \in m.ports, c.secret = m.serves, d.host \in c.hosts,
         CAOf(copy, c.secret) = CAOf(copy, d.ca),
         Accepted(d, p.target, m)
  PROVE  Reached(d)
<1>1. p \in UNION {x.ports : x \in Services}
  BY Zenon
<1>2. m \in Selected({})
  BY Zenon DEF Selected
<1> QED  BY <1>1, <1>2, Zenon DEF Reached

LEMMA HostsAre ==
  /\ BuildServingCertificate.hosts = DNSNames("apiserver")
  /\ BuildKineServingCertificate.hosts = DNSNames("kine")
  /\ BuildPostgreSQLServingCertificate.hosts = DNSNames("postgresql")
  BY Zenon
     DEF BuildServingCertificate, BuildKineServingCertificate, BuildPostgreSQLServingCertificate,
     buildServingCert, Certificate

LEMMA PortsAre ==
  /\ \A n \in {KinePort, KineMetricsPort} : \E p \in BuildKineService.ports : p.number = n /\ p.target = n
  /\ \E p \in BuildSecondaryService.ports : p.number = 443 /\ p.target = SecondaryPort
  /\ \E p \in BuildPostgreSQLService.ports : p.number = PostgreSQLPort /\ p.target = PostgreSQLPort
<1>1. \A name, number, target : Port(name, number, target).number = number
                               /\ Port(name, number, target).target = target
  BY Zenon DEF Port
<1>2. \A n \in {KinePort, KineMetricsPort} : \E p \in BuildKineService.ports : p.number = n /\ p.target = n
  <2>1. /\ Port("grpc", KinePort, KinePort) \in BuildKineService.ports
        /\ Port("metrics", KineMetricsPort, KineMetricsPort) \in BuildKineService.ports
    BY ServiceFields
  <2>2. \E p \in BuildKineService.ports : p.number = KinePort /\ p.target = KinePort
    BY <1>1, <2>1
  <2>3. \E p \in BuildKineService.ports : p.number = KineMetricsPort /\ p.target = KineMetricsPort
    BY <1>1, <2>1
  <2> QED  BY <2>2, <2>3
<1>3. \E p \in BuildSecondaryService.ports : p.number = 443 /\ p.target = SecondaryPort
  <2>1. Port("https", 443, SecondaryPort) \in BuildSecondaryService.ports
    BY ServiceFields
  <2> QED  BY <1>1, <2>1
<1>4. \E p \in BuildPostgreSQLService.ports : p.number = PostgreSQLPort /\ p.target = PostgreSQLPort
  <2>1. Port("tcp", PostgreSQLPort, PostgreSQLPort) \in BuildPostgreSQLService.ports
    BY ServiceFields
  <2> QED  BY <1>1, <2>1
<1> QED  BY <1>2, <1>3, <1>4

LEMMA ServicesTracked ==
  ASSUME CompleteInv, pc = "cleanup"
  PROVE  /\ BuildKineService.id \in tracked /\ BuildSecondaryService.id \in tracked
         /\ copy.storage = InClusterPostgreSQL => BuildPostgreSQLService.id \in tracked
<1>1. StorageSet(copy) \subseteq tracked /\ SecondarySet(copy) \subseteq tracked
  BY Complete, Zenon
<1>2. Ref("Service", "kine") \in StorageSet(copy) /\ Ref("Service", "apiserver") \in SecondarySet(copy)
  BY Zenon DEF StorageSet, KineSet, SecondarySet
<1>3. copy.storage = InClusterPostgreSQL => Ref("Service", "postgresql") \in tracked
  BY Complete, Zenon
<1>4. /\ BuildKineService.id = Ref("Service", "kine")
      /\ BuildSecondaryService.id = Ref("Service", "apiserver")
      /\ BuildPostgreSQLService.id = Ref("Service", "postgresql")
  BY IdsAre, Zenon
<1> QED  BY <1>1, <1>2, <1>3, <1>4, Zenon

LEMMA ServiceNames ==
  /\ BuildKineService.id.name = "kine"
  /\ BuildSecondaryService.id.name = "apiserver"
  /\ BuildPostgreSQLService.id.name = "postgresql"
<1>1. \A kind, name : Ref(kind, name).name = name
  BY Zenon DEF Ref
<1> QED  BY <1>1, IdsAre

LEMMA HostIs ==
  ASSUME NEW service, NEW host \in DNSNames(service)
  PROVE  host[1] = service
  BY Zenon DEF DNSNames

(* The two client certificates.                                            *)
LEMMA ClientsAre ==
  /\ BuildAdminClientCertificate.client = TRUE /\ BuildEtcdClientCertificate.client = TRUE
  /\ BuildAdminClientCertificate.secret = Secret("admin-client-cert")
  /\ BuildEtcdClientCertificate.secret = Secret("etcd-client-cert")
  /\ Secret("admin-client-cert") # Nothing /\ Secret("etcd-client-cert") # Nothing
<1>1. \A name : Secret(name) # Nothing
  BY Zenon DEF Secret, Nothing, Ref
<1> QED  BY <1>1, Zenon DEF BuildAdminClientCertificate, BuildEtcdClientCertificate, Certificate

LEMMA ReachesKine ==
  ASSUME CompleteInv, pc = "cleanup", NEW d, d.host \in DNSNames("kine"), d.port \in {KinePort, KineMetricsPort},
         CAOf(copy, d.ca) = Secret("kine-ca-keypair"),
         (d.cert = Nothing /\ d.port = KineMetricsPort) \/ d.cert = Secret("etcd-client-cert")
  PROVE  Reached(d)
<1>1. PICK p \in BuildKineService.ports : p.number = d.port /\ p.target = d.port
  BY PortsAre
<1>2. BuildKineService \in Services /\ BuildKineServingCertificate \in Certificates(copy)
  BY Zenon DEF Services, Certificates
<1>3. BuildKineService.id \in tracked /\ BuildKineService.id.name = d.host[1]
  BY ServicesTracked, ServiceNames, HostIs, Zenon
<1>4. Selected(BuildKineService.labels) = {BuildKineDeployment(copy)}
  BY SelectedAre, ServiceFields, Zenon
<1>5. /\ BuildKineDeployment(copy).ports = {KinePort, KineMetricsPort}
      /\ BuildKineDeployment(copy).serves = Secret("kine-serving-cert")
      /\ BuildKineDeployment(copy).trusts = Secret("kine-serving-cert")
  BY ServesAre, Zenon
<1>6. BuildKineServingCertificate.secret = Secret("kine-serving-cert")
  BY CertificateFields, Zenon
<1>7. /\ CAOf(copy, Secret("kine-serving-cert")) = Secret("kine-ca-keypair")
      /\ CAOf(copy, Secret("etcd-client-cert")) = Secret("kine-ca-keypair")
  BY Authorities, Zenon
<1>8. p.target \in BuildKineDeployment(copy).ports /\ BuildKineServingCertificate.secret = BuildKineDeployment(copy).serves
  BY <1>1, <1>5, <1>6, Zenon
<1>9. CAOf(copy, BuildKineServingCertificate.secret) = CAOf(copy, d.ca)
  BY <1>6, <1>7, Zenon
<1>11. Accepted(d, p.target, BuildKineDeployment(copy))
  <2>1. KineMetricsPort \notin {KinePort}
    BY DEF KineMetricsPort, KinePort
  <2>2. BuildKineDeployment(copy).asks = {KinePort} /\ BuildEtcdClientCertificate \in Certificates(copy)
    BY ServesAre, Zenon DEF Certificates
  <2>3. CASE d.cert = Nothing /\ d.port = KineMetricsPort
    BY <1>1, <2>1, <2>2, <2>3, Zenon DEF Accepted
  <2>4. CASE d.cert = Secret("etcd-client-cert")
    <3>1. CAOf(copy, d.cert) = CAOf(copy, BuildKineDeployment(copy).trusts)
      BY <1>5, <1>7, <2>4, Zenon
    <3>2. BuildEtcdClientCertificate.secret = d.cert /\ BuildEtcdClientCertificate.client = TRUE
          /\ d.cert # Nothing
      BY <2>4, ClientsAre, Zenon
    <3> QED  BY <2>2, <3>1, <3>2, Zenon DEF Accepted
  <2> QED  BY <2>3, <2>4, Zenon
<1>10. d.host \in BuildKineServingCertificate.hosts
  BY HostsAre, ZenonT(30)
<1> QED  BY <1>1, <1>2, <1>3, <1>4, <1>8, <1>9, <1>10, <1>11, ReachedBy, Zenon

LEMMA ReachesSecondary ==
  ASSUME CompleteInv, pc = "cleanup", NEW d, d.host \in DNSNames("apiserver"), d.port = 443,
         CAOf(copy, d.ca) = Secret("ca-keypair"),
         d.cert \in {Nothing, Secret("admin-client-cert")}
  PROVE  Reached(d)
<1>1. PICK p \in BuildSecondaryService.ports : p.number = d.port /\ p.target = SecondaryPort
  BY PortsAre
<1>2. BuildSecondaryService \in Services /\ BuildServingCertificate \in Certificates(copy)
  BY Zenon DEF Services, Certificates
<1>3. BuildSecondaryService.id \in tracked /\ BuildSecondaryService.id.name = d.host[1]
  BY ServicesTracked, ServiceNames, HostIs
<1>4. Selected(BuildSecondaryService.labels) = {BuildSecondaryDeployment(copy)}
  BY SelectedAre, ServiceFields, ZenonT(30)
<1>5. /\ BuildSecondaryDeployment(copy).ports = {SecondaryPort}
      /\ BuildSecondaryDeployment(copy).serves = Secret("pki")
      /\ BuildSecondaryDeployment(copy).trusts = Secret("pki")
  BY ServesAre, ZenonT(30)
<1>6. BuildServingCertificate.secret = Secret("pki")
  BY CertificateFields, Zenon
<1>7. /\ CAOf(copy, Secret("pki")) = Secret("ca-keypair")
      /\ CAOf(copy, Secret("admin-client-cert")) = Secret("ca-keypair")
  BY Authorities
<1>8. p.target \in BuildSecondaryDeployment(copy).ports /\ BuildServingCertificate.secret = BuildSecondaryDeployment(copy).serves
  BY <1>1, <1>5, <1>6
<1>9. CAOf(copy, BuildServingCertificate.secret) = CAOf(copy, d.ca)
  BY <1>6, <1>7, Zenon
<1>11. Accepted(d, p.target, BuildSecondaryDeployment(copy))
  <2>1. BuildSecondaryDeployment(copy).asks = {} /\ BuildAdminClientCertificate \in Certificates(copy)
    BY ServesAre, Zenon DEF Certificates
  <2>2. CASE d.cert = Nothing
    BY <2>1, <2>2, Zenon DEF Accepted
  <2>3. CASE d.cert = Secret("admin-client-cert")
    <3>1. BuildSecondaryDeployment(copy).trusts = Secret("pki")
      BY <1>5
    <3>2. CAOf(copy, d.cert) = CAOf(copy, BuildSecondaryDeployment(copy).trusts)
      BY <1>7, <2>3, <3>1, ZenonT(30)
    <3>3. BuildAdminClientCertificate.secret = d.cert /\ BuildAdminClientCertificate.client = TRUE
          /\ d.cert # Nothing
      BY <2>3, ClientsAre, ZenonT(30)
    <3> QED  BY <2>1, <3>2, <3>3, ZenonT(30) DEF Accepted
  <2> QED  BY <2>2, <2>3, Zenon
<1>10. d.host \in BuildServingCertificate.hosts
  BY HostsAre, ZenonT(30)
<1> QED  BY <1>1, <1>2, <1>3, <1>4, <1>8, <1>9, <1>10, <1>11, ReachedBy, ZenonT(30)

LEMMA ReachesDatabase ==
  ASSUME CompleteInv, pc = "cleanup", copy.storage = InClusterPostgreSQL
  PROVE  Reached(Dial("postgresql", "svc", PostgreSQLPort, Secret("postgresql-ca-keypair"), Nothing))
<1> DEFINE d == Dial("postgresql", "svc", PostgreSQLPort, Secret("postgresql-ca-keypair"), Nothing)
<1>0. /\ d.host = <<"postgresql", "svc">> /\ d.port = PostgreSQLPort
      /\ d.ca = Secret("postgresql-ca-keypair") /\ d.cert = Nothing
  BY Zenon DEF Dial
<1> HIDE DEF d
<1>1. PICK p \in BuildPostgreSQLService.ports : p.number = PostgreSQLPort /\ p.target = PostgreSQLPort
  BY PortsAre, Zenon
<1>2. BuildPostgreSQLService \in Services /\ BuildPostgreSQLServingCertificate \in Certificates(copy)
  BY Zenon DEF Services, Certificates
<1>3. d.host \in DNSNames("postgresql")
  BY <1>0 DEF DNSNames
<1>4. BuildPostgreSQLService.id \in tracked /\ BuildPostgreSQLService.id.name = d.host[1]
  BY <1>3, ServicesTracked, ServiceNames, HostIs, Zenon
<1>5. Selected(BuildPostgreSQLService.labels) = {BuildPostgreSQLStatefulSet}
  BY SelectedAre, ServiceFields, Zenon
<1>6. /\ BuildPostgreSQLStatefulSet.ports = {PostgreSQLPort}
      /\ BuildPostgreSQLStatefulSet.serves = Secret("postgresql-serving-cert")
      /\ Accepted(d, p.target, BuildPostgreSQLStatefulSet)
  BY <1>0, ServesAre, Zenon DEF Accepted
<1>7. BuildPostgreSQLServingCertificate.secret = Secret("postgresql-serving-cert")
  BY CertificateFields, Zenon
<1>8. /\ CAOf(copy, Secret("postgresql-serving-cert")) = Secret("postgresql-ca-keypair")
      /\ CAOf(copy, Secret("postgresql-ca-keypair")) = Secret("postgresql-ca-keypair")
  BY Authorities, Zenon
<1>9. /\ p.target \in BuildPostgreSQLStatefulSet.ports
      /\ BuildPostgreSQLServingCertificate.secret = BuildPostgreSQLStatefulSet.serves
  BY <1>1, <1>6, <1>7, Zenon
<1>10. CAOf(copy, BuildPostgreSQLServingCertificate.secret) = CAOf(copy, d.ca)
  BY <1>0, <1>7, <1>8, Zenon
<1>11. d.host \in BuildPostgreSQLServingCertificate.hosts
  BY <1>3, HostsAre, Zenon
<1>12. Reached(d)
  BY <1>0, <1>1, <1>2, <1>4, <1>5, <1>6, <1>9, <1>10, <1>11, ReachedBy
<1> QED  BY <1>12, Zenon DEF d

LEMMA DialFields ==
  ASSUME NEW service, NEW form, NEW port, NEW ca, NEW cert
  PROVE  LET d == Dial(service, form, port, ca, cert)
         IN  d.host = <<service, form>> /\ d.port = port /\ d.ca = ca /\ d.cert = cert
  BY Zenon DEF Dial

LEMMA CompleteVerifies ==
  ASSUME CompleteInv, pc = "cleanup"
  PROVE  Verified
<1>0. \A service : \A form \in {"name", "namespace", "svc", "cluster"} : <<service, form>> \in DNSNames(service)
  BY Zenon DEF DNSNames
<1>1. ASSUME NEW m \in Selected({}), NEW d \in m.dials PROVE Reached(d)
  <2>1. CASE m = BuildKineDeployment(copy)
    <3>1. copy.storage = InClusterPostgreSQL /\ d = PostgreSQLDSN
      BY <1>1, <2>1, ServesAre, Zenon DEF KineEndpoint
    <3> QED  BY <3>1, ReachesDatabase, Zenon DEF PostgreSQLDSN
  <2>2. CASE m = BuildSecondaryDeployment(copy)
    <3>1. d = Dial("kine", "cluster", KinePort, Secret("etcd-client-cert"), Secret("etcd-client-cert"))
      BY <1>1, <2>2, ServesAre, Zenon
    <3>2. /\ d.host = <<"kine", "cluster">> /\ d.port = KinePort
          /\ d.ca = Secret("etcd-client-cert") /\ d.cert = Secret("etcd-client-cert")
      BY <3>1, DialFields, SMTT(30)
    <3>3. CAOf(copy, d.ca) = Secret("kine-ca-keypair") /\ CAOf(copy, d.cert) = Secret("kine-ca-keypair")
      BY <3>2, Authorities, Zenon
    <3> QED  BY <1>0, <3>2, <3>3, ReachesKine, Zenon
  <2>3. CASE m = BuildPostgreSQLStatefulSet
    BY <1>1, <2>3, ServesAre, Zenon
  <2>4. CASE m = BuildOTelCollectorDeployment(copy)
    <3>1. copy.storage = InClusterPostgreSQL
          /\ d = Dial("postgresql", "svc", PostgreSQLPort, Secret("postgresql-ca-keypair"), Nothing)
      BY <1>1, <2>4, ServesAre, Zenon DEF CollectorParams
    <3> QED  BY <3>1, ReachesDatabase, Zenon
  <2> QED  BY <2>1, <2>2, <2>3, <2>4, Zenon DEF Selected, Workloads
<1>2. ASSUME NEW m \in Monitors, NEW d \in m.dials PROVE Reached(d)
  <2>1. CASE m = BuildKineServiceMonitor
    <3>1. d = Dial("kine", "svc", KineMetricsPort, Secret("kine-serving-cert"), Nothing)
      BY <1>2, <2>1, Zenon DEF BuildKineServiceMonitor, Monitor
    <3>2. /\ d.host = <<"kine", "svc">> /\ d.port = KineMetricsPort
          /\ d.ca = Secret("kine-serving-cert") /\ d.cert = Nothing
      BY <3>1, DialFields, SMTT(30)
    <3>3. CAOf(copy, d.ca) = Secret("kine-ca-keypair")
      BY <3>2, Authorities, Zenon
    <3> QED  BY <1>0, <3>2, <3>3, ReachesKine, Zenon
  <2>2. CASE m = BuildSecondaryServiceMonitor
    <3>1. d = Dial("apiserver", "svc", 443, Secret("pki"), Nothing)
      BY <1>2, <2>2, Zenon DEF BuildSecondaryServiceMonitor, Monitor
    <3>2. /\ d.host = <<"apiserver", "svc">> /\ d.port = 443
          /\ d.ca = Secret("pki") /\ d.cert = Nothing
      BY <3>1, DialFields, SMTT(30)
    <3>3. CAOf(copy, d.ca) = Secret("ca-keypair")
      BY <3>2, Authorities, ZenonT(30)
    <3> QED  BY <1>0, <3>2, <3>3, ReachesSecondary, ZenonT(30)
  <2>3. CASE m = BuildPostgreSQLMetricsServiceMonitor
    BY <1>2, <2>3, Zenon DEF BuildPostgreSQLMetricsServiceMonitor, Monitor
  <2> QED  BY <2>1, <2>2, <2>3, Zenon DEF Monitors
<1>3. Reached(AdminDial)
  <2>1. /\ AdminDial.host = <<"apiserver", "svc">> /\ AdminDial.port = 443
        /\ AdminDial.ca = Secret("pki") /\ AdminDial.cert = Secret("admin-client-cert")
    BY DialFields, SMTT(30) DEF AdminDial
  <2>2. /\ CAOf(copy, AdminDial.ca) = Secret("ca-keypair")
        /\ CAOf(copy, AdminDial.cert) = Secret("ca-keypair")
    BY <2>1, Authorities, Zenon
  <2> QED  BY <1>0, <2>1, <2>2, ReachesSecondary, Zenon
<1>4. {c \in Certificates(copy) : c.client /\ CAOf(copy, c.secret)
                                   = CAOf(copy, BuildKineDeployment(copy).trusts)}
        = {BuildEtcdClientCertificate}
  <2>1. /\ BuildAdminClientCertificate.client = TRUE /\ BuildEtcdClientCertificate.client = TRUE
        /\ BuildCACertificate.client = FALSE /\ BuildServingCertificate.client = FALSE
        /\ BuildKineCACertificate.client = FALSE /\ BuildKineServingCertificate.client = FALSE
        /\ BuildPostgreSQLCACertificate.client = FALSE
        /\ BuildPostgreSQLServingCertificate.client = FALSE
    BY Zenon DEF BuildCACertificate, BuildServingCertificate, BuildAdminClientCertificate,
       BuildKineCACertificate, BuildKineServingCertificate, BuildEtcdClientCertificate,
       BuildPostgreSQLCACertificate, BuildPostgreSQLServingCertificate, Certificate, buildServingCert
  <2>2. \A c \in Certificates(copy) : c.client => c \in {BuildAdminClientCertificate, BuildEtcdClientCertificate}
    BY <2>1, Zenon DEF Certificates
  <2>3. /\ CAOf(copy, BuildKineDeployment(copy).trusts) = Secret("kine-ca-keypair")
        /\ CAOf(copy, BuildEtcdClientCertificate.secret) = Secret("kine-ca-keypair")
        /\ CAOf(copy, BuildAdminClientCertificate.secret) = Secret("ca-keypair")
    BY ServesAre, CertificateFields, Authorities, Zenon
  <2>4. Secret("ca-keypair") # Secret("kine-ca-keypair") /\ BuildEtcdClientCertificate \in Certificates(copy)
    BY Zenon DEF Secret, Ref, Certificates
  <2> QED  BY <2>1, <2>2, <2>3, <2>4, Zenon
<1> QED  BY <1>1, <1>2, <1>3, <1>4, Zenon DEF Verified

-----------------------------------------------------------------------------
(* The three theorems rest on one inductive invariant.                     *)
ManifestInv == ClusterInv /\ RestInv /\ CompleteInv

LEMMA ManifestHolds == Spec => []ManifestInv
<1>1. ManifestInv /\ [Next]_vars => ManifestInv'
  BY ClusterStep, TrackStep, PassStep, OrderStep, ShardStep, Zenon DEF ManifestInv, CompleteInv
<1>2. Init => ManifestInv
  <2> SUFFICES ASSUME Init PROVE ManifestInv
    BY Zenon
  <2>1. pc = "idle" /\ shard \in Shards /\ copy = shard
    BY Zenon DEF Init
  <2> QED  BY <2>1, InitHolds, Zenon DEF ManifestInv, CompleteInv, OrderInv, ShardInv
<1> QED  BY <1>1, <1>2, PTL DEF Spec

(* A pass that has come to its end has applied whatever its manifests name *)
(* (mounts, issuers, roles, accounts), whichever steps failed before it    *)
(* and even where the collector was given up half-way.                     *)
THEOREM NamesResolve == Spec => []Resolved
<1>1. ManifestInv => Resolved
  BY CompleteResolves, Zenon DEF ManifestInv, Resolved
<1> QED  BY <1>1, ManifestHolds, PTL

(* Every connection the manifests of a finished pass set up leads to a     *)
(* workload whose certificate the caller verifies and which verifies the   *)
(* caller's; only the API server holds a certificate that Kine admits.     *)
THEOREM DialsVerify == Spec => []Verified
<1>1. ManifestInv => Verified
  BY CompleteVerifies, Zenon DEF ManifestInv, Verified
<1> QED  BY <1>1, ManifestHolds, PTL

(* The selectors of a finished pass find what they are meant for and       *)
(* nothing else.                                                           *)
THEOREM SelectorsFindOwn == Spec => []SelectsOwn
<1>1. ManifestInv => SelectsOwn
  BY CompleteSelects, Zenon DEF ManifestInv, SelectsOwn
<1> QED  BY <1>1, ManifestHolds, PTL
=============================================================================
