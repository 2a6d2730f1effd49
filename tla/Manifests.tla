----------------------------- MODULE Manifests -----------------------------
(***************************************************************************)
(* The objects a shard consists of, as the builders of internal/resources  *)
(* and internal/certs make them: the certificate chains, the workloads     *)
(* with what they mount, serve and dial, the Services, PodDisruption-      *)
(* Budgets and ServiceMonitors with what they select, and the bindings.    *)
(* A manifest keeps what ties it to other objects (names, labels, ports,   *)
(* hosts, CAs); images, resources, probes and tuning flags are left out.   *)
(*                                                                         *)
(* A shard is its spec: [storage, kine, secondary, colocate, monitoring,   *)
(* caCert], with the two replica counts, storage.monitoring.enabled, and   *)
(* whether caCertSecret is set.  Names are without the shard's name, which *)
(* prefixes all of them, and without its namespace, which all share.       *)
(***************************************************************************)
EXTENDS Naturals

Ref(kind, name) == [kind |-> kind, name |-> name]
Nothing == Ref("", "")
Secret(name) == Ref("Secret", name)
ConfigMap(name) == Ref("ConfigMap", name)
Issuer(name) == Ref("Issuer", name)

SQLite == "SQLite"
InClusterPostgreSQL == "InClusterPostgreSQL"
PostgreSQL == "PostgreSQL"
-----------------------------------------------------------------------------
(* Certificates.  A host is a Service and the form of its name; a serving  *)
(* certificate is valid for all four.                                      *)
DNSNames(service) == {service} \X {"name", "namespace", "svc", "cluster"}

Certificate(name, secret, issuer, hosts, client) ==
  [id |-> Ref("Certificate", name), secret |-> Secret(secret), issuer |-> Issuer(issuer),
   hosts |-> hosts, client |-> client]

buildServingCert(name, secret, service, issuer) ==
  Certificate(name, secret, issuer, DNSNames(service), FALSE)

BuildCACertificate == Certificate("front-proxy-ca", "ca-keypair", "selfsigned", {}, FALSE)
BuildServingCertificate == buildServingCert("serving-cert", "pki", "apiserver", "ca-issuer")
BuildAdminClientCertificate ==
  Certificate("admin-client", "admin-client-cert", "ca-issuer", {}, TRUE)

BuildKineCACertificate == Certificate("kine-ca", "kine-ca-keypair", "kine-selfsigned", {}, FALSE)
BuildKineServingCertificate ==
  buildServingCert("kine-serving", "kine-serving-cert", "kine", "kine-ca-issuer")

BuildEtcdClientCertificate ==
  Certificate("etcd-client", "etcd-client-cert", "kine-ca-issuer", {}, TRUE)

BuildPostgreSQLCACertificate ==
  Certificate("postgresql-ca", "postgresql-ca-keypair", "postgresql-selfsigned", {}, FALSE)
BuildPostgreSQLServingCertificate ==
  buildServingCert("postgresql-serving", "postgresql-serving-cert", "postgresql",
                   "postgresql-ca-issuer")

(* Issuers: a self-signed one needs no secret, a CA issuer its key pair.   *)
CAIssuer(name, secret) == [id |-> Issuer(name), secret |-> secret]
BuildSelfSignedIssuer == CAIssuer("selfsigned", Nothing)
BuildCAIssuer == CAIssuer("ca-issuer", Secret("ca-keypair"))
BuildKineSelfSignedIssuer == CAIssuer("kine-selfsigned", Nothing)
BuildKineCAIssuer == CAIssuer("kine-ca-issuer", Secret("kine-ca-keypair"))
BuildPostgreSQLSelfSignedIssuer == CAIssuer("postgresql-selfsigned", Nothing)
BuildPostgreSQLCAIssuer == CAIssuer("postgresql-ca-issuer", Secret("postgresql-ca-keypair"))

(* buildCertResources: the PostgreSQL chain comes with in-cluster storage. *)
Certificates(s) ==
  {BuildCACertificate, BuildServingCertificate, BuildAdminClientCertificate,
   BuildKineCACertificate, BuildKineServingCertificate, BuildEtcdClientCertificate}
  \cup (IF s.storage = InClusterPostgreSQL
          THEN {BuildPostgreSQLCACertificate, BuildPostgreSQLServingCertificate} ELSE {})
Issuers(s) ==
  {BuildSelfSignedIssuer, BuildCAIssuer, BuildKineSelfSignedIssuer, BuildKineCAIssuer}
  \cup (IF s.storage = InClusterPostgreSQL
          THEN {BuildPostgreSQLSelfSignedIssuer, BuildPostgreSQLCAIssuer} ELSE {})

(* cert-manager (external) puts the issuer's CA into the ca.crt of what it *)
(* issues: the CA of a secret is the key pair of its issuer, or itself.    *)
CAOf(s, secret) ==
  LET c == CHOOSE c \in Certificates(s) : c.secret = secret
      i == CHOOSE i \in Issuers(s) : i.id = c.issuer
  IN  IF i.secret = Nothing THEN secret ELSE i.secret
-----------------------------------------------------------------------------
(* Labels and ports.                                                       *)
Labels(name, component) == {<<"name", name>>, <<"component", component>>}
KineLabels == Labels("kine", "storage")
APIServerLabels == Labels("kube-apiserver", "apiserver")
postgresLabels == Labels("postgresql", "database")
otelLabels == Labels("otel-collector", "monitoring")

KinePort == 2379
KineMetricsPort == 8080
SecondaryPort == 6443
PostgreSQLPort == 5432
OTelMetricsPort == 9187

Dial(service, form, port, ca, cert) ==
  [host |-> <<service, form>>, port |-> port, ca |-> ca, cert |-> cert]

isColocateEnabled(s) == s.colocate
BuildKineAffinity(s) ==
  IF s.kine > 1 THEN {[near |-> FALSE, selector |-> {<<"component", "storage">>}]} ELSE {}
BuildSecondaryAffinity(s) ==
  (IF s.secondary > 1 THEN {[near |-> FALSE, selector |-> {<<"component", "apiserver">>}]} ELSE {})
  \cup (IF isColocateEnabled(s)
          THEN {[near |-> TRUE, selector |-> {<<"component", "storage">>}]} ELSE {})
-----------------------------------------------------------------------------
(* Workloads: what the pods must mount to start, the secret they serve     *)
(* with and the one whose CA they accept clients of, the ports on which    *)
(* they refuse a client without a certificate, and what they dial.         *)

(* Kine's storage: the mounts of the volumes and environment variables,    *)
(* and the database behind KINE_ENDPOINT.                                  *)
KineVolumes(s) ==
  {Secret("kine-serving-cert")} \cup
  CASE s.storage = PostgreSQL -> {Secret("connection")}
    [] s.storage = InClusterPostgreSQL ->
         {Secret("postgresql-credentials"), Secret("postgresql-ca-keypair")}
    [] s.storage = SQLite -> {}

(* sslmode=verify-full with the mounted CA of the PostgreSQL chain.        *)
PostgreSQLDSN ==
  Dial("postgresql", "svc", PostgreSQLPort, Secret("postgresql-ca-keypair"), Nothing)
KineEndpoint(s) == IF s.storage = InClusterPostgreSQL THEN {PostgreSQLDSN} ELSE {}

BuildKineDeployment(s) ==
  [id |-> Ref("Deployment", "kine"), labels |-> KineLabels, mounts |-> KineVolumes(s),
   account |-> Nothing, ports |-> {KinePort, KineMetricsPort},
   serves |-> Secret("kine-serving-cert"), trusts |-> Secret("kine-serving-cert"),
   asks |-> {KinePort}, dials |-> KineEndpoint(s), affinity |-> BuildKineAffinity(s)]

(* Variant: without --etcd-certfile and --etcd-keyfile.                    *)
SecondaryArgsUncertified ==
  [serves |-> Secret("pki"), trusts |-> Secret("pki"),
   dials |-> {Dial("kine", "cluster", KinePort, Secret("etcd-client-cert"), Nothing)}]

SecondaryArgs ==
  [serves |-> Secret("pki"), trusts |-> Secret("pki"),
   dials |-> {Dial("kine", "cluster", KinePort,
                   Secret("etcd-client-cert"), Secret("etcd-client-cert"))}]
SecondaryVolumes ==
  {Secret("pki"), ConfigMap("authz-config"), ConfigMap("requestheader-ca"),
   Secret("etcd-client-cert")}
BuildSecondaryServiceAccount == Ref("ServiceAccount", "apiserver")

BuildSecondaryDeployment(s) ==
  [id |-> Ref("Deployment", "apiserver"), labels |-> APIServerLabels,
   mounts |-> SecondaryVolumes, account |-> BuildSecondaryServiceAccount,
   ports |-> {SecondaryPort}, serves |-> SecondaryArgs.serves,
   trusts |-> SecondaryArgs.trusts, asks |-> {}, dials |-> SecondaryArgs.dials,
   affinity |-> BuildSecondaryAffinity(s)]

(* The init ConfigMap is mounted with optional, so pods start without it.  *)
BuildPostgreSQLStatefulSet ==
  [id |-> Ref("StatefulSet", "postgresql"), labels |-> postgresLabels,
   mounts |-> {Secret("postgresql-serving-cert"), Secret("postgresql-credentials")},
   account |-> Nothing, ports |-> {PostgreSQLPort},
   serves |-> Secret("postgresql-serving-cert"), trusts |-> Nothing, asks |-> {},
   dials |-> {}, affinity |-> {}]
BuildPostgreSQLSecret == Secret("postgresql-credentials")
BuildPostgreSQLInitConfigMap == ConfigMap("postgresql-init")

(* The collector's connection: that of the in-cluster database, or the one *)
(* of the user's DSN with a secret derived from it.                        *)
CollectorParams(s) ==
  IF s.storage = InClusterPostgreSQL
    THEN [ca |-> Secret("postgresql-ca-keypair"), credentials |-> BuildPostgreSQLSecret,
          dials |-> {Dial("postgresql", "svc", PostgreSQLPort,
                          Secret("postgresql-ca-keypair"), Nothing)}]
    ELSE [ca |-> Secret("database-ca"), credentials |-> Secret("postgresql-metrics-credentials"),
          dials |-> {}]

(* The name of the ConfigMap carries a hash of its contents, which depend  *)
(* on the database.                                                        *)
BuildOTelCollectorConfigMap(s) ==
  ConfigMap(IF s.storage = InClusterPostgreSQL THEN "postgresql-metrics-config-1"
                                               ELSE "postgresql-metrics-config-2")
BuildOTelCollectorDeployment(s) ==
  LET params == CollectorParams(s)
  IN  [id |-> Ref("Deployment", "postgresql-metrics"), labels |-> otelLabels,
       mounts |-> {BuildOTelCollectorConfigMap(s), params.ca, params.credentials},
       account |-> Nothing, ports |-> {OTelMetricsPort},
       serves |-> Nothing, trusts |-> Nothing, asks |-> {}, dials |-> params.dials,
       affinity |-> {}]
-----------------------------------------------------------------------------
(* Services: the pods they select, and their ports by name, number and     *)
(* target.                                                                 *)
Port(name, number, target) == [name |-> name, number |-> number, target |-> target]
Service(name, labels, ports) ==
  [id |-> Ref("Service", name), labels |-> labels, ports |-> ports]

(* Variant: the metrics port of Kine has lost its name.                    *)
BuildKineServiceUnnamed ==
  Service("kine", KineLabels, {Port("grpc", KinePort, KinePort),
                               Port("http", KineMetricsPort, KineMetricsPort)})
BuildKineService ==
  Service("kine", KineLabels, {Port("grpc", KinePort, KinePort),
                               Port("metrics", KineMetricsPort, KineMetricsPort)})
BuildSecondaryService ==
  Service("apiserver", APIServerLabels, {Port("https", 443, SecondaryPort)})
BuildPostgreSQLService ==
  Service("postgresql", postgresLabels, {Port("tcp", PostgreSQLPort, PostgreSQLPort)})
BuildOTelCollectorService ==
  Service("postgresql-metrics", otelLabels,
          {Port("otel-metrics", OTelMetricsPort, OTelMetricsPort)})

(* PodDisruptionBudgets, for two replicas and more.                        *)
BuildPDB(name, replicas, labels) ==
  IF replicas < 2 THEN {}
                  ELSE {[id |-> Ref("PodDisruptionBudget", name), selector |-> labels]}

(* ServiceMonitors select Services, name one of their ports, and verify    *)
(* the server with the CA of a secret where they scrape over HTTPS.        *)
Monitor(name, selector, port, dials, token) ==
  [id |-> Ref("ServiceMonitor", name), selector |-> {<<"name", selector>>}, port |-> port,
   dials |-> dials, token |-> token]
BuildKineServiceMonitor ==
  Monitor("kine-metrics", "kine", "metrics",
          {Dial("kine", "svc", KineMetricsPort, Secret("kine-serving-cert"), Nothing)}, Nothing)
BuildMetricsReaderTokenSecret == Secret("metrics-reader-token")
BuildSecondaryServiceMonitor ==
  Monitor("apiserver-metrics", "kube-apiserver", "https",
          {Dial("apiserver", "svc", 443, Secret("pki"), Nothing)}, BuildMetricsReaderTokenSecret)
BuildPostgreSQLMetricsServiceMonitor ==
  Monitor("postgresql-metrics", "otel-collector", "otel-metrics", {}, Nothing)

(* Role bindings and the role and account they join.  The cluster roles    *)
(* named here that are not applied as owned objects exist in the cluster.  *)
Binding(kind, name, role, account) ==
  [id |-> Ref(kind, name), role |-> role, account |-> account]
AuthDelegatorBinding ==
  Binding("ClusterRoleBinding", "auth-delegator",
          Ref("ClusterRole", "system:auth-delegator"), BuildSecondaryServiceAccount)

BuildMetricsReaderServiceAccount == Ref("ServiceAccount", "metrics-reader")
BuildMetricsReaderClusterRole == Ref("ClusterRole", "kube-shard-metrics-reader")
BuildMetricsReaderClusterRoleBinding ==
  Binding("ClusterRoleBinding", "metrics-reader",
          BuildMetricsReaderClusterRole, BuildMetricsReaderServiceAccount)
BuildPrometheusDiscoveryRole == Ref("Role", "prometheus-discovery")
PrometheusServiceAccount == Ref("ServiceAccount", "prometheus-k8s")
BuildPrometheusDiscoveryRoleBinding ==
  Binding("RoleBinding", "prometheus-discovery",
          BuildPrometheusDiscoveryRole, PrometheusServiceAccount)

BuildAPIServerSCC == Ref("SecurityContextConstraints", "apiserver")
BuildAPIServerSCCClusterRole == Ref("ClusterRole", "apiserver-scc")
BuildAPIServerSCCRoleBinding ==
  Binding("RoleBinding", "apiserver-scc", BuildAPIServerSCCClusterRole,
          BuildSecondaryServiceAccount)

AdminKubeconfig == Secret("admin-kubeconfig")
(* What the kubeconfig makes its holder dial.                              *)
AdminDial == Dial("apiserver", "svc", 443, Secret("pki"), Secret("admin-client-cert"))
=============================================================================
