---------------------------- MODULE ClusterObjects ----------------------------
(***************************************************************************)
(* The objects of one TemporalCluster over time: users edit the cluster    *)
(* through admission, passes of the reconciler apply what Rendering plans, *)
(* cert-manager issues and rotates certificates, and the                   *)
(* TemporalClusterClient reconciler keeps a client certificate.            *)
(*                                                                         *)
(* A pass works on the copy it read.  Schema and upgrades are Persistence  *)
(* and TemporalCluster; here the schema becomes ready at some moment and   *)
(* every service runs spec.version.  A pass may begin whenever none runs:  *)
(* events and requeues ask for one, and so does the informers' resync, ten *)
(* hours unless configured, the only thing that always comes.              *)
(***************************************************************************)
EXTENDS Rendering

CONSTANTS
  Bases,       \* the specs a user creates the cluster with
  MaxEvents    \* edits, rotations and faults of a behaviour

ASSUME BasesAssumption == MaxEvents \in Nat /\ \A s \in Bases : DOMAIN s = DOMAIN Features

CertNames == {InternodeCertName, FrontendCertName, UIClientCertName, ClientCertName}
Mounted   == {InternodeCertName, FrontendCertName}
NoPass    == [spec |-> <<>>, certs |-> {}, mtlsReady |-> FALSE]
NotIssued == [of |-> <<>>, version |-> 0, status |-> "none"]

VARIABLES
  cluster,     \* the stored TemporalCluster: spec and initial-shards annotation
  objects,     \* what has been applied, by kind and name
  issued,      \* cert-manager: what each secret was issued for, its version, the status
  seen,        \* the mounted secrets' versions in the operator's cache
  schemaReady, crdInstalled,
  pc, mem, fresh,                      \* the cluster reconciler
  mtlsReady,                           \* the stored MTLSReady condition
  clientReady,                         \* the client's stored Ready condition
  loaded,      \* the dynamic config there was when the frontend's pods were last replaced
  events

passVars   == <<pc, mem, fresh, mtlsReady>>
certVars   == <<issued, seen>>
worldVars  == <<schemaReady, crdInstalled>>
vars == <<cluster, objects, certVars, worldVars, passVars, clientReady, loaded, events>>

Init ==
  /\ \E s \in Bases, n \in Features.shards \cup {0} : \* the user may bring an annotation along
       /\ cluster = Default([spec |-> s, stamp |-> n])
       /\ ValidateSpec(cluster.spec)
  /\ objects = <<>>
  /\ issued = [n \in CertNames |-> NotIssued] /\ seen = [n \in Mounted |-> 0]
  /\ schemaReady = FALSE /\ crdInstalled = FALSE
  /\ pc = "idle" /\ mem = NoPass /\ fresh = FALSE /\ mtlsReady = FALSE
  /\ clientReady = FALSE /\ loaded = "none" /\ events = 0

Event == events < MaxEvents /\ events' = events + 1

-----------------------------------------------------------------------------
(* The cluster reconciler.                                                 *)

\* Server-side apply of a plan, whose value p names: what it has wins, the rest stays.
Apply(planned) == \E p \in {planned} : objects' = Over(p, objects)

\* Reading the object, and the account that reconcilePersistence starts with.
Get ==
  /\ pc = "idle"
  /\ mem' = [NoPass EXCEPT !.spec = cluster.spec]
  /\ objects' = Over(objects, PlanIdentity(cluster.spec))
  /\ pc' = "mtls" /\ fresh' = TRUE
  /\ UNCHANGED <<cluster, certVars, worldVars, mtlsReady, clientReady, loaded, events>>

\* certificatesStatus: both certificates report ready, neither a failure.
CertificatesReady == \A n \in Mounted : issued[n].status = "ready"

ReconcileMTLS ==
  /\ pc = "mtls" /\ pc' = "config"
  /\ Apply(PlanMTLS(mem.spec))
  /\ mem' = [mem EXCEPT !.mtlsReady = IF MTLSEnabled(mem.spec) THEN CertificatesReady ELSE mtlsReady]
  /\ UNCHANGED <<cluster, certVars, worldVars, fresh, mtlsReady, clientReady, loaded, events>>

\* Mutant: the hash covers the secrets' names and not their versions.
CertHashOfNames == {<<n, 1>> : n \in {m \in Mounted : seen[m] > 0}}

\* certHash: names and versions of the secrets the cache holds.
CertHash == {<<n, seen[n]>> : n \in {m \in Mounted : seen[m] > 0}}

MTLSMounts(s) == IF MTLSEnabled(s) THEN CertHash ELSE {}

\* reconcileServices up to the configuration; without a schema it defers.
RenderConfig ==
  /\ pc = "config"
  /\ IF schemaReady
       THEN /\ pc' = "services"
            /\ mem' = [mem EXCEPT !.certs = MTLSMounts(mem.spec)]
            /\ Apply(PlanConfig(mem.spec))
       ELSE pc' = "ui" /\ UNCHANGED <<mem, objects>>
  /\ UNCHANGED <<cluster, certVars, worldVars, fresh, mtlsReady, clientReady, loaded, events>>

\* The services of the list up to the n-th; nothing is passed as DynamicConfigHash.
ApplyFirst(n) ==
  LET s       == mem.spec
      planned == PlanServices(s, {EnabledServices(s)[i] : i \in 1..n}, "", mem.certs)
      key     == <<"Deployment", DeploymentName("frontend")>>
      rolls   == n > 0 /\ (key \in DOMAIN objects => objects[key] # planned[key])
  IN  /\ Apply(planned)
      /\ loaded' = IF rolls THEN objects[<<"ConfigMap", DynamicConfigMapName>>] ELSE loaded

ApplyServices ==
  /\ pc = "services" /\ pc' = "ui"
  /\ ApplyFirst(Len(EnabledServices(mem.spec)))
  /\ UNCHANGED <<cluster, certVars, worldVars, mem, fresh, mtlsReady, clientReady, events>>

\* One of the applies fails: the pass ends, and comes again.
ApplyServicesFails ==
  /\ pc = "services" /\ Event
  /\ \E n \in 0..Len(EnabledServices(mem.spec)) - 1 : ApplyFirst(n)
  /\ pc' = "idle" /\ mem' = NoPass /\ fresh' = FALSE
  /\ UNCHANGED <<cluster, certVars, worldVars, mtlsReady, clientReady>>

\* reconcileUI, then reconcileMonitoring if the ServiceMonitor kind is installed.
ReconcileUI ==
  /\ pc = "ui" /\ pc' = "status"
  /\ Apply(Over(IF crdInstalled THEN PlanMonitoring(mem.spec) ELSE <<>>, PlanUI(mem.spec)))
  /\ UNCHANGED <<cluster, certVars, worldVars, mem, fresh, mtlsReady, clientReady, loaded, events>>

\* The status write; a conflict loses it until the next pass.
UpdateStatus ==
  /\ pc = "status" /\ pc' = "idle"
  /\ mtlsReady' = IF fresh THEN mem.mtlsReady ELSE mtlsReady
  /\ mem' = NoPass /\ fresh' = FALSE
  /\ UNCHANGED <<cluster, objects, certVars, worldVars, clientReady, loaded, events>>

\* Any other call of the pass fails.
AbortPass ==
  /\ pc \notin {"idle", "services"} /\ Event
  /\ pc' = "idle" /\ mem' = NoPass /\ fresh' = FALSE
  /\ UNCHANGED <<cluster, objects, certVars, worldVars, mtlsReady, clientReady, loaded>>

Reconcile ==
  Get \/ ReconcileMTLS \/ RenderConfig \/ ApplyServices \/ ReconcileUI \/ UpdateStatus

-----------------------------------------------------------------------------
(* The client reconciler.                                                  *)

\* Mutant: a certificate that is there is left as it is.
ApplyClientCertificateOnce(s) ==
  objects' = Over(objects, Only(<<"Certificate", ClientCertName>>, BuildClientCertificate(s)))

ApplyClientCertificate(s) ==
  Apply(Only(<<"Certificate", ClientCertName>>, BuildClientCertificate(s)))

\* A pass of the client: no mTLS, not ready; otherwise the certificate is applied and its status
\* reported.  It reads the cluster once: an edit during the pass comes to one after it.
ClientReconcile ==
  /\ IF cluster.spec.mtls \in {"off", "noissuer"}
       THEN clientReady' = FALSE /\ UNCHANGED objects
       ELSE /\ ApplyClientCertificate(cluster.spec)
            /\ clientReady' = (issued[ClientCertName].status = "ready")
  /\ UNCHANGED <<cluster, certVars, worldVars, passVars, loaded, events>>

-----------------------------------------------------------------------------
(* Users, cert-manager, the informers.                                     *)

\* An update passes Default, then ValidateUpdate.
Update(edited) ==
  /\ Event
  /\ Default(edited) # cluster /\ ValidateUpdate(cluster, Default(edited))
  /\ cluster' = Default(edited)
  /\ fresh' = FALSE
  /\ UNCHANGED <<objects, certVars, worldVars, pc, mem, mtlsReady, clientReady, loaded>>

Edit ==
  \E f \in DOMAIN Features : \E x \in Features[f] :
    Update([cluster EXCEPT !.spec[f] = x])

\* The annotation is part of the metadata a user may write.
EditAnnotation == \E n \in Features.shards \cup {0} : Update([cluster EXCEPT !.stamp = n])

Certificates == {n \in CertNames : <<"Certificate", n>> \in DOMAIN objects}

Outdated(n) == issued[n].of # objects[<<"Certificate", n>>] \/ issued[n].status # "ready"

Sign(n) ==
  issued' = [issued EXCEPT ![n] = [of      |-> objects[<<"Certificate", n>>],
                                   version |-> @.version + 1, status |-> "ready"]]

\* cert-manager writes the secret and then the certificate's status.
Issue(n) ==
  /\ n \in Certificates /\ Outdated(n) /\ Sign(n)
  /\ UNCHANGED <<cluster, objects, seen, worldVars, passVars, clientReady, loaded, events>>

IssueFails(n) ==
  /\ n \in Certificates /\ Outdated(n) /\ issued[n].status # "failed" /\ Event
  /\ issued' = [issued EXCEPT ![n].status = "failed"]
  /\ UNCHANGED <<cluster, objects, seen, worldVars, passVars, clientReady, loaded>>

Rotate(n) ==
  /\ n \in Certificates /\ ~ Outdated(n) /\ Event /\ Sign(n)
  /\ UNCHANGED <<cluster, objects, seen, worldVars, passVars, clientReady, loaded>>

\* The secrets come through an informer of their own, and are owned by nobody here.
SyncSecret(n) ==
  /\ seen[n] # issued[n].version /\ seen' = [seen EXCEPT ![n] = issued[n].version]
  /\ UNCHANGED <<cluster, objects, issued, worldVars, passVars, clientReady, loaded, events>>

SchemaDone ==
  /\ ~ schemaReady /\ schemaReady' = TRUE
  /\ UNCHANGED <<cluster, objects, certVars, crdInstalled, passVars, clientReady, loaded, events>>

InstallCRD ==
  /\ ~ crdInstalled /\ Event /\ crdInstalled' = TRUE
  /\ UNCHANGED <<cluster, objects, certVars, schemaReady, passVars, clientReady, loaded>>

Environment ==
  \/ \E n \in CertNames : Issue(n) \/ IssueFails(n) \/ Rotate(n)
  \/ \E n \in Mounted : SyncSecret(n)
  \/ SchemaDone \/ InstallCRD

Next ==
  \/ Reconcile \/ ApplyServicesFails \/ AbortPass
  \/ ClientReconcile \/ Edit \/ EditAnnotation
  \/ Environment

Spec == Init /\ [][Next]_vars

\* The work queues run, cert-manager signs what it can, informers deliver and resync.
Fairness ==
  /\ WF_vars(Reconcile) /\ WF_vars(ClientReconcile)
  /\ \A n \in CertNames : WF_vars(Issue(n))
  /\ \A n \in Mounted : WF_vars(SyncSecret(n))
  /\ WF_vars(SchemaDone)

FairSpec == Spec /\ Fairness

-----------------------------------------------------------------------------
(* Properties.                                                             *)

DeploymentKeys == {k \in DOMAIN objects : k[1] = "Deployment"}

\* Everything a pod template or an Ingress names is there when it is applied and stays, whatever
\* was switched on or off since: secrets (rendered, or a certificate's), config maps, accounts,
\* backends.
Provided(ref) ==
  \/ ref \in DOMAIN objects
  \/ ref[1] = "Secret" /\ \E n \in Certificates : objects[<<"Certificate", n>>].secretName = ref[2]

DNSNames(n) == objects[<<"Certificate", n>>].dnsNames

\* No applied object points at something no pass has made; the certificate a server name is
\* verified against carries that name; and the certificate files the config names are mounted
\* where the service serves with them.
ReferencesExist ==
  /\ \A k \in DeploymentKeys :
       LET d == objects[k]
       IN  /\ \A ref \in d.refers : Provided(ref)
           /\ IF k[2] = UIName
                THEN d.serverName # <<>> => d.serverName \in DNSNames(FrontendCertName)
                ELSE /\ d.config.tls.internode # <<>> =>
                          d.config.tls.internode \in DNSNames(InternodeCertName)
                     /\ d.config.tls.frontend # <<>> =>
                          d.config.tls.frontend \in DNSNames(FrontendCertName)
                     /\ "internode" \in d.config.tls.files => "internode" \in d.dirs
                     /\ "frontend" \in d.config.tls.files /\ k[2][1] \in {"frontend", "internal-frontend"}
                          => "frontend" \in d.dirs
                     /\ d.config.command => "azure-token-refresher" \in d.containers
  /\ \A k \in DOMAIN objects : k[1] = "Ingress" => Provided(objects[k].backend)

Matches(selector, labels) ==
  \A l \in DOMAIN selector : l \in DOMAIN labels /\ labels[l] = selector[l]

\* Whatever labels the user's pod template sets, a Deployment's selector, its Services' and its
\* disruption budget's pick the pods of that component and no other's, and the ServiceMonitor
\* finds a metrics port on every service.
SelectorsMatch ==
  /\ \A k \in DeploymentKeys : Matches(objects[k].selector, objects[k].labels)
  /\ \A k \in DOMAIN objects : k[1] \in {"Service", "PodDisruptionBudget"} =>
       \A d \in DeploymentKeys : Matches(objects[k].selector, objects[d].labels) <=> d[2][1] = k[2][1]
  /\ <<"ServiceMonitor", <<>>>> \in DOMAIN objects =>
       LET m == objects[<<"ServiceMonitor", <<>>>>]
       IN  \A k \in DOMAIN objects : k[1] = "Service" /\ Len(k[2]) = 2 =>
             Matches(m.selector, objects[k].labels) /\ m.port \in objects[k].ports

\* Whatever sequence of updates admission lets through, the stored spec can be rendered (no key
\* its version removed, an issuer for mTLS, no authorization key written twice) and has the
\* shard count it was created with.
AdmittedRenders ==
  LET s == cluster.spec
  IN  /\ RenderDynamicConfig(s) # "error"
      /\ s.mtls # "noissuer"
      /\ BuildAuth(s) \cap ExtraConfig(s) = {}
      /\ \E b \in Bases : s.shards = b.shards

\* Once edits and faults are over, every service's pods are made from the configuration of the
\* stored spec and from the secrets as last rotated, and MTLSReady says so.
RotationReachesPods ==
  <>[](/\ \A svc \in ServiceSet(cluster.spec) :
            LET k == <<"Deployment", DeploymentName(svc)>>
            IN  /\ k \in DOMAIN objects
                /\ objects[k].config = BuildConfigData(cluster.spec)
                /\ MTLSEnabled(cluster.spec) =>
                     objects[k].certs = {<<n, issued[n].version>> :
                                           n \in Mounted}
       /\ MTLSEnabled(cluster.spec) => mtlsReady)

\* Once edits and faults are over, the client's readiness says whether the cluster has mTLS,
\* and its secret is signed by the cluster's present issuer.
ClientServed ==
  <>[](/\ clientReady <=> MTLSEnabled(cluster.spec)
       /\ MTLSEnabled(cluster.spec) => issued[ClientCertName].of.issuer = cluster.spec.mtls)

\* "DynamicConfigHashAnnotation stamps the rendered dynamic-config hash onto pods so
\* dynamic-config changes trigger a rollout": the pods are replaced after the last change.
DynamicConfigRolls ==
  <>[](<<"ConfigMap", DynamicConfigMapName>> \in DOMAIN objects
         /\ loaded = objects[<<"ConfigMap", DynamicConfigMapName>>])
==============================================================================
