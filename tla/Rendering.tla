------------------------------ MODULE Rendering ------------------------------
(***************************************************************************)
(* What a TemporalCluster spec is admitted as and what it is rendered to:  *)
(* the admission webhook's defaults and checks, the server configuration,  *)
(* and the objects of every plan phase.  Pure operators over one record of *)
(* spec features; a rendered object keeps the names it has, the names it   *)
(* refers to and the labels it is found by.  A hash is the hashed value.   *)
(***************************************************************************)
EXTENDS Naturals, Sequences, FiniteSets

\* Maps: f and, where f says nothing, g; and the map of one key.
Over(f, g)   == [x \in DOMAIN f \cup DOMAIN g |-> IF x \in DOMAIN f THEN f[x] ELSE g[x]]
Only(key, o) == [x \in {key} |-> o]

\* Names: <<"internode">> is the cluster's name followed by -internode, and so on.
InternodeCertName      == <<"internode">>
FrontendCertName       == <<"frontend-tls">>
UIClientCertName       == <<"ui-client">>
UIName                 == <<"ui">>
ConfigSecretName       == <<"config">>
DynamicConfigMapName   == <<"dynamicconfig">>
FrontendServiceName    == <<"frontend">>
ServiceAccountName     == <<"azure">>
DeploymentName(svc)    == <<svc>>
HeadlessServiceName(c) == <<c, "headless">>

\* A DNS name: a Service's name and the suffix it is asked for with.
DNS(name, suffix) == <<suffix>> \o name

-----------------------------------------------------------------------------
(* The spec: each feature and its values.                                  *)

Features ==
  [version  |-> {31, 32},                       \* minor of 1.31.4, 1.32.1
   image    |-> {"", "default", "custom"},      \* default: spells temporalio/server:<semver>
   shards   |-> {512, 1024},
   mtls     |-> {"off", "noissuer", "ca", "ca2"}, \* no block, or the issuer of the block
   internal |-> BOOLEAN,                        \* services.internalFrontend.enabled
   override |-> {"none", "labels"},             \* a pod template that relabels the component
   azure    |-> BOOLEAN,
   storeTLS |-> BOOLEAN,
   ui       |-> {"off", "plain", "ingress"},
   port     |-> {0, 9090, 9464},                \* metrics.port
   monitor  |-> BOOLEAN,
   dynamic  |-> {"none", "tuned", "retired"},   \* retired: a key 1.32 removed
   metadata |-> {"none", "partial", "dc1", "dc2"},
   auth     |-> {"none", "claim", "noop", "jwt", "passthrough"}]

\* The matrix rows of those two lines.
RemovedDynamicConfig == Over(Only(31, {}), Only(32, {"retired"}))
AllowedFrom          == Over(Only(31, {30}), Only(32, {31}))

-----------------------------------------------------------------------------
(* Rendering the server configuration.                                     *)

Ports ==
  [s \in {"frontend", "internal-frontend", "matching", "history", "worker"} |->
     CASE s = "frontend"          -> [grpc |-> 7233, http |-> 7243]
       [] s = "internal-frontend" -> [grpc |-> 7236, http |-> 7246]
       [] s = "matching"          -> [grpc |-> 7235, http |-> 0]
       [] s = "history"           -> [grpc |-> 7234, http |-> 0]
       [] s = "worker"            -> [grpc |-> 7239, http |-> 0]]

EnabledServices(s) ==
  <<"frontend", "history", "matching", "worker">>
    \o (IF s.internal THEN <<"internal-frontend">> ELSE <<>>)

ServiceSet(s) == {EnabledServices(s)[i] : i \in DOMAIN EnabledServices(s)}

\* A cluster always has a backend for each store once validatePersistence has passed.
DatastoreFiles(s) == IF s.storeTLS THEN {"persistence"} ELSE {}

MTLSEnabled(s) == s.mtls # "off"

\* buildMTLS: the files and server names that go into global.tls.
BuildMTLS(s) ==
  IF ~ MTLSEnabled(s) THEN [files |-> {}, internode |-> <<>>, frontend |-> <<>>]
  ELSE [files     |-> {"internode", "frontend"},
        internode |-> InternodeCertName,
        frontend  |-> DNS(FrontendServiceName, "svc.cluster.local")]

\* buildMetrics: where the servers listen for Prometheus.
BuildMetrics(s) == IF s.port = 0 THEN 9090 ELSE s.port

\* What the passthrough block of the spec sets by itself.
ExtraConfig(s) == IF s.auth = "passthrough" THEN {"claimMapper", "jwtKeyProvider"} ELSE {}

\* buildAuth: the keys written from the modelled fields.  A claim name alone is dropped, key
\* sources bring the defaults along, and what the passthrough sets is left out.
BuildAuth(s) ==
  CASE s.auth \in {"none", "claim"} -> {}
    [] s.auth = "noop" -> {"authorizer"}
    [] OTHER -> {"authorizer", "claimMapper", "permissionsClaimName", "jwtKeyProvider"}
                  \ ExtraConfig(s)

\* RenderDynamicConfig: fails on a key the version has removed.
RenderDynamicConfig(s) ==
  IF s.dynamic \in RemovedDynamicConfig[s.version] THEN "error" ELSE s.dynamic

ClusterName(s) == IF s.metadata \in {"dc1", "dc2"} THEN s.metadata ELSE "active"

\* BuildConfigData and the template.
BuildConfigData(s) ==
  [shards       |-> s.shards,
   tls          |-> BuildMTLS(s),
   stores       |-> DatastoreFiles(s),
   command      |-> s.azure,
   metrics      |-> BuildMetrics(s),
   auth         |-> BuildAuth(s),
   extra        |-> ExtraConfig(s),
   rpc          |-> [svc \in ServiceSet(s) |-> Ports[svc]],
   publicClient |-> IF s.internal THEN <<>> ELSE DNS(FrontendServiceName, "svc"),
   cluster      |-> ClusterName(s)]

-----------------------------------------------------------------------------
(* Admission.                                                              *)

\* Default: a cluster is its spec and the initial-shards annotation (0: none).
Default(c) ==
  [spec   |-> [c.spec EXCEPT !.image = IF @ = "default" THEN "" ELSE @,
                             !.port  = IF @ = 0 THEN 9090 ELSE @],
   stamp  |-> IF c.stamp = 0 THEN c.spec.shards ELSE c.stamp]

\* Mutant: the keys are checked against the oldest supported version.
ValidateDynamicConfigLoosely(s) == RenderDynamicConfig([s EXCEPT !.version = 31]) # "error"

ValidateDynamicConfig(s) == RenderDynamicConfig(s) # "error"

\* validateSpec.
ValidateSpec(s) ==
  /\ s.version \in Features.version
  /\ s.mtls # "noissuer"
  /\ ValidateDynamicConfig(s)
  /\ s.metadata # "partial"

\* validateClusterMetadataImmutable: once there, there to stay, under the same name.
MetadataKept(old, new) == old.metadata # "none" => new.metadata = old.metadata

\* ValidateUpdate, with the schema's own rule that shards do not change.
ValidateUpdate(old, new) ==
  /\ ValidateSpec(new.spec)
  /\ new.spec.shards = old.stamp
  /\ new.spec.shards = old.spec.shards
  /\ new.spec.version # old.spec.version
       => old.spec.version \in AllowedFrom[new.spec.version]
  /\ MetadataKept(old.spec, new.spec)

-----------------------------------------------------------------------------
(* Building the objects.                                                   *)

SelectorLabels(component) == [name |-> "temporal", instance |-> "c", component |-> component]

StandardLabels(component, s) ==
  Over(SelectorLabels(component), [managedBy |-> "temporal-operator", version |-> s.version])

\* What the user's pod template puts on top.
OverrideLabels(s) ==
  IF s.override = "labels" THEN [component |-> "mine", team |-> "t"] ELSE <<>>

\* Mutant: the override's labels win over the selector's.
ApplyPodTemplateLast(labels, s, selector) == Over(OverrideLabels(s), labels)

\* applyPodTemplate: the override wins, then the selector's labels are put back.
ApplyPodTemplate(labels, s, selector) == Over(selector, Over(OverrideLabels(s), labels))

Certificate(name, dnsNames, s) == [secretName |-> name, dnsNames |-> dnsNames, issuer |-> s.mtls]

\* Mutant: the certificate is for the headless Services only.
BuildInternodeCertificateForServices(s) ==
  Certificate(InternodeCertName,
              {DNS(HeadlessServiceName(svc), x) :
                 svc \in ServiceSet(s), x \in {"svc.cluster.local", "svc"}}, s)

BuildInternodeCertificate(s) ==
  Certificate(InternodeCertName,
              {InternodeCertName}
                \cup {DNS(HeadlessServiceName(svc), x) :
                        svc \in ServiceSet(s), x \in {"svc.cluster.local", "svc"}}, s)

BuildFrontendCertificate(s) ==
  Certificate(FrontendCertName,
              {DNS(FrontendServiceName, "svc.cluster.local"), DNS(FrontendServiceName, "svc")}, s)

BuildUIClientCertificate(s) == Certificate(UIClientCertName, {}, s)

PlanMTLS(s) ==
  IF ~ MTLSEnabled(s) THEN <<>>
  ELSE Over(Only(<<"Certificate", InternodeCertName>>, BuildInternodeCertificate(s)),
            Only(<<"Certificate", FrontendCertName>>, BuildFrontendCertificate(s)))

\* The secrets and directories a service's pods mount.
CertMounts(svc, s) ==
  IF ~ MTLSEnabled(s) THEN {}
  ELSE {"internode"} \cup (IF svc \in {"frontend", "internal-frontend"} THEN {"frontend"} ELSE {})

CertSecret(dir) == IF dir = "internode" THEN InternodeCertName ELSE FrontendCertName

\* ApplyAzureServerWorkloadIdentity: account, token volume, init container and refresher.
AzureContainers(s) == IF s.azure THEN {"azure-token", "azure-token-refresher"} ELSE {}
AzureAccount(s)    == IF s.azure THEN {<<"ServiceAccount", ServiceAccountName>>} ELSE {}

\* An image that spells out a version of temporalio/server is as good as none.
ServerImage(s) == IF s.image = "custom" THEN <<"custom">> ELSE <<"temporalio/server", s.version>>

\* serviceProbe: grpc, or tcp where the port wants a client certificate; the worker has none.
ServiceProbe(svc, s) ==
  IF svc = "worker" THEN "none" ELSE IF MTLSEnabled(s) THEN "tcp" ELSE "grpc"

\* BuildDeployment for one service, stamped with a config, a dynamic config and the versions
\* of the certificate secrets.
BuildDeployment(svc, s, config, dynamic, certs) ==
  LET selector == SelectorLabels(svc)
  IN  [selector   |-> selector,
       labels     |-> ApplyPodTemplate(StandardLabels(svc, s), s, selector),
       image      |-> ServerImage(s),
       containers |-> {"temporal"} \cup AzureContainers(s),
       dirs       |-> CertMounts(svc, s),
       refers     |-> {<<"Secret", ConfigSecretName>>, <<"ConfigMap", DynamicConfigMapName>>}
                        \cup {<<"Secret", CertSecret(d)>> : d \in CertMounts(svc, s)}
                        \cup AzureAccount(s),
       probe      |-> ServiceProbe(svc, s),
       config     |-> config, dynamic |-> dynamic, certs |-> certs]

BuildHeadlessService(svc, s) ==
  [selector |-> SelectorLabels(svc), labels |-> StandardLabels(svc, s),
   ports |-> {"grpc", "membership", "metrics"}]

BuildFrontendService(s) ==
  [selector |-> SelectorLabels("frontend"), labels |-> StandardLabels("frontend", s),
   ports |-> {"grpc", "http"}]

BuildPodDisruptionBudget(svc) == [selector |-> SelectorLabels(svc)]

\* PlanServices: the configuration first, then each service's objects in turn.
PlanConfig(s) ==
  Over(Only(<<"Secret", ConfigSecretName>>, BuildConfigData(s)),
       Only(<<"ConfigMap", DynamicConfigMapName>>, RenderDynamicConfig(s)))

ServiceObjects(svcs) ==
  {<<"Deployment", DeploymentName(svc)>> : svc \in svcs}
    \cup {<<"Service", HeadlessServiceName(svc)>> : svc \in svcs}
    \cup {<<"PodDisruptionBudget", <<svc>>>> : svc \in svcs}
    \cup {<<"Service", FrontendServiceName>> : svc \in svcs \cap {"frontend"}}

PlanServices(s, svcs, dynamic, certs) ==
  [key \in ServiceObjects(svcs) |->
     IF key[1] = "Deployment"
       THEN BuildDeployment(key[2][1], s, BuildConfigData(s), dynamic, certs)
     ELSE IF key[1] = "PodDisruptionBudget" THEN BuildPodDisruptionBudget(key[2][1])
     ELSE IF key[2] = FrontendServiceName THEN BuildFrontendService(s)
     ELSE BuildHeadlessService(key[2][1], s)]

BuildUIDeployment(s) ==
  [selector   |-> SelectorLabels("ui"),
   labels     |-> StandardLabels("ui", s),
   serverName |-> IF MTLSEnabled(s) THEN DNS(FrontendServiceName, "svc") ELSE <<>>,
   refers     |-> IF MTLSEnabled(s) THEN {<<"Secret", UIClientCertName>>} ELSE {}]

BuildUIService(s) ==
  [selector |-> SelectorLabels("ui"), labels |-> StandardLabels("ui", s), ports |-> {"http"}]

BuildUIIngress == [backend |-> <<"Service", UIName>>]

PlanUICertificate(s) ==
  IF MTLSEnabled(s) THEN Only(<<"Certificate", UIClientCertName>>, BuildUIClientCertificate(s))
  ELSE <<>>

PlanUIIngress(s) == IF s.ui = "ingress" THEN Only(<<"Ingress", UIName>>, BuildUIIngress) ELSE <<>>

PlanUI(s) ==
  IF s.ui = "off" THEN <<>>
  ELSE Over(PlanUICertificate(s),
            Over(Only(<<"Deployment", UIName>>, BuildUIDeployment(s)),
                 Over(Only(<<"Service", UIName>>, BuildUIService(s)), PlanUIIngress(s))))

BuildServiceMonitor == [selector |-> [name |-> "temporal", instance |-> "c"], port |-> "metrics"]

PlanMonitoring(s) ==
  IF s.monitor THEN Only(<<"ServiceMonitor", <<>>>>, BuildServiceMonitor) ELSE <<>>

\* ensureAzureServiceAccount creates the account, and leaves one that is there alone.
PlanIdentity(s) == [key \in AzureAccount(s) |-> "client-id"]

\* BuildClientCertificate, for a TemporalClusterClient of the cluster.
ClientCertName == <<"client">>
BuildClientCertificate(s) == Certificate(ClientCertName, {}, s)
==============================================================================
