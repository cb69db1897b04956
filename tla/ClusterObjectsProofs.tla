------------------------ MODULE ClusterObjectsProofs ------------------------
(***************************************************************************)
(* Proofs about the objects of a TemporalCluster: what is admitted can be  *)
(* rendered, and whatever specs were rendered before, in whole or in part, *)
(* everything an applied object names is there and every selector finds    *)
(* its own pods.  For every set of first specs, any sequence of edits and  *)
(* any number of faults.                                                   *)
(***************************************************************************)
EXTENDS ClusterObjects, TLAPS

ServiceNames == {"frontend", "history", "matching", "worker", "internal-frontend"}

CertKey(name) == <<"Certificate", name>>
ServerCerts   == {CertKey(InternodeCertName), CertKey(FrontendCertName)}
ConfigKeys    == {<<"Secret", ConfigSecretName>>, <<"ConfigMap", DynamicConfigMapName>>}
AccountKey    == <<"ServiceAccount", ServiceAccountName>>

\* An applied object is the rendering of some spec, not necessarily the stored one or its
\* neighbour's, and the objects that spec makes it lean on are among the keys of D.
ServerDeployment(svc, o, D) ==
  \E s, certs :
    /\ o = BuildDeployment(svc, s, BuildConfigData(s), "", certs)
    /\ ConfigKeys \subseteq D
    /\ MTLSEnabled(s) => ServerCerts \subseteq D
    /\ s.azure => AccountKey \in D

UIDeployment(o, D) ==
  \E s : /\ o = BuildUIDeployment(s)
         /\ MTLSEnabled(s) => CertKey(UIClientCertName) \in D /\ CertKey(FrontendCertName) \in D

DeploymentOf(name, o, D) ==
  \/ \E svc \in ServiceNames : name = <<svc>> /\ ServerDeployment(svc, o, D)
  \/ name = UIName /\ UIDeployment(o, D)

ServiceOf(name, o) ==
  \/ \E svc \in ServiceNames :
       name = <<svc, "headless">> /\ \E s : o = BuildHeadlessService(svc, s)
  \/ \E s : name = FrontendServiceName /\ o = BuildFrontendService(s)
  \/ \E s : name = UIName /\ o = BuildUIService(s)

CertificateOf(name, o) ==
  \/ \E s : name = InternodeCertName /\ o = BuildInternodeCertificate(s)
  \/ \E s : name = FrontendCertName /\ o = BuildFrontendCertificate(s)
  \/ \E s : name = UIClientCertName /\ o = BuildUIClientCertificate(s)
  \/ \E s : name = ClientCertName /\ o = BuildClientCertificate(s)

Sound(k, o, D) ==
  /\ k[1] = "Deployment" => DeploymentOf(k[2], o, D)
  /\ k[1] = "Service" => ServiceOf(k[2], o)
  /\ k[1] = "PodDisruptionBudget" => \E svc \in ServiceNames : k[2] = <<svc>> /\ o = BuildPodDisruptionBudget(svc)
  /\ k[1] = "Certificate" => CertificateOf(k[2], o)
  /\ k[1] = "Ingress" => o = BuildUIIngress /\ <<"Service", UIName>> \in D
  /\ k[1] = "ServiceMonitor" => o = BuildServiceMonitor

AllSound(objs, D) == \A k \in DOMAIN objs : Sound(k, objs[k], D)

\* What a pass can count on at each step, for the spec it read.
PassInv ==
  /\ DOMAIN mem = {"spec", "certs", "mtlsReady"}
  /\ pc # "idle" /\ mem.spec.azure => AccountKey \in DOMAIN objects
  /\ pc \in {"config", "services", "ui", "status"} /\ MTLSEnabled(mem.spec) => ServerCerts \subseteq DOMAIN objects
  /\ pc = "services" => ConfigKeys \subseteq DOMAIN objects

ObjectsInv == AllSound(objects, DOMAIN objects) /\ PassInv

AdmittedInv ==
  /\ ValidateSpec(cluster.spec)
  /\ \E b \in Bases : cluster.spec.shards = b.shards

-----------------------------------------------------------------------------
(* Maps.                                                                   *)

LEMMA OverDomain ==
  ASSUME NEW f, NEW g
  PROVE  DOMAIN Over(f, g) = DOMAIN f \cup DOMAIN g
  BY Zenon DEF Over

LEMMA OverFirst ==
  ASSUME NEW f, NEW g, NEW k \in DOMAIN f
  PROVE  k \in DOMAIN Over(f, g) /\ Over(f, g)[k] = f[k]
  BY Zenon DEF Over

LEMMA OverSecond ==
  ASSUME NEW f, NEW g, NEW k \in DOMAIN g, k \notin DOMAIN f
  PROVE  k \in DOMAIN Over(f, g) /\ Over(f, g)[k] = g[k]
  BY Zenon DEF Over

LEMMA OnlyIs ==
  ASSUME NEW k, NEW o
  PROVE  DOMAIN Only(k, o) = {k} /\ Only(k, o)[k] = o
  BY Zenon DEF Only

LEMMA EmptyDomain == DOMAIN <<>> = {}
  OBVIOUS

\* Two sound maps make a sound map, whichever goes over the other.
LEMMA OverSound ==
  ASSUME NEW f, NEW g, NEW D, AllSound(f, D), AllSound(g, D)
  PROVE  AllSound(Over(f, g), D)
  <1> SUFFICES ASSUME NEW k \in DOMAIN Over(f, g)
               PROVE  Sound(k, Over(f, g)[k], D)
    BY Zenon DEF AllSound
  <1>1. CASE k \in DOMAIN f
    BY <1>1, OverFirst, Zenon DEF AllSound
  <1>2. CASE k \notin DOMAIN f
    <2>1. k \in DOMAIN g
      BY <1>2, OverDomain, Zenon
    <2> QED BY <1>2, <2>1, OverSecond DEF AllSound
  <1> QED BY <1>1, <1>2, Zenon

LEMMA OnlySound ==
  ASSUME NEW k, NEW o, NEW D, Sound(k, o, D)
  PROVE  AllSound(Only(k, o), D)
  <1>1. \A x \in DOMAIN Only(k, o) : x = k /\ Only(k, o)[x] = o
    BY Zenon DEF Only
  <1>2. \A x \in DOMAIN Only(k, o) : Sound(x, Only(k, o)[x], D)
    BY <1>1, Zenon
  <1> QED BY <1>2, Zenon DEF AllSound

LEMMA EmptySound ==
  ASSUME NEW D
  PROVE  AllSound(<<>>, D)
  BY EmptyDomain, Zenon DEF AllSound

\* Nothing is ever deleted: what an object leans on stays.
LEMMA SoundMore ==
  ASSUME NEW f, NEW D, NEW E, D \subseteq E, AllSound(f, D)
  PROVE  AllSound(f, E)
  <1> SUFFICES ASSUME NEW k \in DOMAIN f
               PROVE  Sound(k, f[k], E)
    BY Zenon DEF AllSound
  <1>1. Sound(k, f[k], D)
    BY Zenon DEF AllSound
  <1>2. ASSUME NEW svc, ServerDeployment(svc, f[k], D)
        PROVE  ServerDeployment(svc, f[k], E)
    BY <1>2, Zenon DEF ServerDeployment
  <1>3. ASSUME UIDeployment(f[k], D)
        PROVE  UIDeployment(f[k], E)
    BY <1>3, Zenon DEF UIDeployment
  <1>4. ASSUME DeploymentOf(k[2], f[k], D)
        PROVE  DeploymentOf(k[2], f[k], E)
    BY <1>2, <1>3, <1>4, Zenon DEF DeploymentOf
  <1> QED BY <1>1, <1>4, Zenon DEF Sound

-----------------------------------------------------------------------------
(* The plans.                                                              *)

LEMMA Kind ==
  ASSUME NEW kind, NEW name
  PROVE  <<kind, name>>[1] = kind /\ <<kind, name>>[2] = name
  BY Zenon

\* Nothing is asked of an object of another kind.
LEMMA OtherSound ==
  ASSUME NEW kind \in {"Secret", "ConfigMap", "ServiceAccount"}, NEW name, NEW o, NEW D
  PROVE  Sound(<<kind, name>>, o, D)
  BY Kind, Zenon DEF Sound

LEMMA CertificateSound ==
  ASSUME NEW name, NEW o, NEW D, CertificateOf(name, o)
  PROVE  Sound(<<"Certificate", name>>, o, D)
  BY Kind, Zenon DEF Sound

LEMMA ServiceSound ==
  ASSUME NEW name, NEW o, NEW D, ServiceOf(name, o)
  PROVE  Sound(<<"Service", name>>, o, D)
  BY Kind, Zenon DEF Sound

LEMMA DeploymentSound ==
  ASSUME NEW name, NEW o, NEW D, DeploymentOf(name, o, D)
  PROVE  Sound(<<"Deployment", name>>, o, D)
  BY Kind, Zenon DEF Sound

LEMMA PlanIdentitySound ==
  ASSUME NEW s, NEW D
  PROVE  /\ AllSound(PlanIdentity(s), D)
         /\ s.azure => AccountKey \in DOMAIN PlanIdentity(s)
  <1>1. DOMAIN PlanIdentity(s) = AzureAccount(s)
    BY Zenon DEF PlanIdentity
  <1>2. \A k \in AzureAccount(s) : k = <<"ServiceAccount", ServiceAccountName>>
    BY Zenon DEF AzureAccount
  <1>3. \A k \in DOMAIN PlanIdentity(s) : Sound(k, PlanIdentity(s)[k], D)
    BY <1>1, <1>2, OtherSound, Zenon
  <1>4. s.azure => AccountKey \in AzureAccount(s)
    BY Zenon DEF AzureAccount, AccountKey
  <1> QED BY <1>1, <1>3, <1>4, Zenon DEF AllSound

LEMMA PlanMTLSSound ==
  ASSUME NEW s, NEW D
  PROVE  /\ AllSound(PlanMTLS(s), D)
         /\ MTLSEnabled(s) => ServerCerts \subseteq DOMAIN PlanMTLS(s)
  <1> DEFINE f == Only(<<"Certificate", InternodeCertName>>, BuildInternodeCertificate(s))
             g == Only(<<"Certificate", FrontendCertName>>, BuildFrontendCertificate(s))
  <1>1. AllSound(f, D) /\ AllSound(g, D)
    <2>1. CertificateOf(InternodeCertName, BuildInternodeCertificate(s))
          /\ CertificateOf(FrontendCertName, BuildFrontendCertificate(s))
      BY Zenon DEF CertificateOf
    <2> QED BY <2>1, CertificateSound, OnlySound, Zenon
  <1>2. DOMAIN f = {<<"Certificate", InternodeCertName>>} /\ DOMAIN g = {<<"Certificate", FrontendCertName>>}
    BY OnlyIs, Zenon
  <1>3. PlanMTLS(s) = IF ~ MTLSEnabled(s) THEN <<>> ELSE Over(f, g)
    BY Zenon DEF PlanMTLS
  <1> HIDE DEF f, g
  <1>4. CASE MTLSEnabled(s)
    <2>1. PlanMTLS(s) = Over(f, g)
      BY <1>3, <1>4, Zenon
    <2>2. DOMAIN Over(f, g) = DOMAIN f \cup DOMAIN g
      BY OverDomain, Zenon
    <2>3. ServerCerts \subseteq DOMAIN Over(f, g)
      BY <1>2, <2>2, Zenon DEF ServerCerts, CertKey
    <2> QED BY <1>1, <2>1, <2>3, OverSound, Zenon
  <1>5. CASE ~ MTLSEnabled(s)
    BY <1>3, <1>5, EmptySound, Zenon
  <1> QED BY <1>4, <1>5, Zenon

LEMMA PlanConfigSound ==
  ASSUME NEW s, NEW D
  PROVE  /\ AllSound(PlanConfig(s), D)
         /\ ConfigKeys \subseteq DOMAIN PlanConfig(s)
  <1> DEFINE f == Only(<<"Secret", ConfigSecretName>>, BuildConfigData(s))
             g == Only(<<"ConfigMap", DynamicConfigMapName>>, RenderDynamicConfig(s))
  <1>1. AllSound(f, D) /\ AllSound(g, D)
    BY OtherSound, OnlySound, Zenon
  <1>2. DOMAIN f = {<<"Secret", ConfigSecretName>>} /\ DOMAIN g = {<<"ConfigMap", DynamicConfigMapName>>}
    BY OnlyIs, Zenon
  <1>3. PlanConfig(s) = Over(f, g)
    BY Zenon DEF PlanConfig
  <1> HIDE DEF f, g
  <1>4. DOMAIN Over(f, g) = DOMAIN f \cup DOMAIN g
    BY OverDomain, Zenon
  <1> QED BY <1>1, <1>2, <1>3, <1>4, OverSound, Zenon DEF ConfigKeys

LEMMA PlanServicesSound ==
  ASSUME NEW s, NEW svcs \in SUBSET ServiceNames, NEW certs, NEW D, ConfigKeys \subseteq D,
         MTLSEnabled(s) => ServerCerts \subseteq D, s.azure => AccountKey \in D
  PROVE  AllSound(PlanServices(s, svcs, "", certs), D)
  <1> DEFINE f == PlanServices(s, svcs, "", certs)
  <1> SUFFICES ASSUME NEW k \in DOMAIN f
               PROVE  Sound(k, f[k], D)
    BY Zenon DEF AllSound
  <1>0. k \in ServiceObjects(svcs)
    BY Zenon DEF PlanServices
  <1>a. k[1] = "Deployment" => f[k] = BuildDeployment(k[2][1], s, BuildConfigData(s), "", certs)
    BY <1>0, Zenon DEF PlanServices
  <1>b. k[1] = "PodDisruptionBudget" => f[k] = BuildPodDisruptionBudget(k[2][1])
    BY <1>0, Zenon DEF PlanServices
  <1>c. k[1] = "Service" /\ k[2] = FrontendServiceName => f[k] = BuildFrontendService(s)
    BY <1>0, Zenon DEF PlanServices
  <1>d. k[1] = "Service" /\ k[2] # FrontendServiceName => f[k] = BuildHeadlessService(k[2][1], s)
    BY <1>0, Zenon DEF PlanServices
  <1> HIDE DEF f
  <1>2. ASSUME NEW svc \in svcs, k = <<"Deployment", <<svc>>>>
        PROVE  Sound(k, f[k], D)
    <2>1. k[1] = "Deployment" /\ k[2][1] = svc /\ svc \in ServiceNames
      BY <1>2, Zenon
    <2>2. f[k] = BuildDeployment(svc, s, BuildConfigData(s), "", certs)
      BY <1>a, <2>1, Zenon
    <2>3. ServerDeployment(svc, f[k], D)
      BY <2>2, Zenon DEF ServerDeployment
    <2>4. DeploymentOf(<<svc>>, f[k], D)
      BY <2>1, <2>3, Zenon DEF DeploymentOf
    <2> QED BY <1>2, <2>4, DeploymentSound, Zenon
  <1>3. ASSUME NEW svc \in svcs, k = <<"Service", <<svc, "headless">>>>
        PROVE  Sound(k, f[k], D)
    <2>1. k[1] = "Service" /\ k[2] = <<svc, "headless">> /\ k[2][1] = svc /\ svc \in ServiceNames
      BY <1>3, Zenon
    <2>2. k[2] # FrontendServiceName
      BY <2>1 DEF FrontendServiceName
    <2>3. f[k] = BuildHeadlessService(svc, s)
      BY <1>d, <2>1, <2>2, Zenon
    <2>4. ServiceOf(<<svc, "headless">>, f[k])
      BY <2>1, <2>3, Zenon DEF ServiceOf
    <2> QED BY <1>3, <2>4, ServiceSound, Zenon
  <1>4. ASSUME NEW svc \in svcs, k = <<"PodDisruptionBudget", <<svc>>>>
        PROVE  Sound(k, f[k], D)
    <2>1. k[1] = "PodDisruptionBudget" /\ k[2] = <<svc>> /\ k[2][1] = svc /\ svc \in ServiceNames
      BY <1>4, Zenon
    <2>2. f[k] = BuildPodDisruptionBudget(svc)
      BY <1>b, <2>1, Zenon
    <2> QED BY <2>1, <2>2, Zenon DEF Sound
  <1>5. CASE k = <<"Service", FrontendServiceName>>
    <2>1. ServiceOf(FrontendServiceName, BuildFrontendService(s))
      BY Zenon DEF ServiceOf
    <2>2. k[1] = "Service" /\ k[2] = FrontendServiceName
      BY <1>5, Zenon
    <2> QED BY <1>c, <1>5, <2>1, <2>2, ServiceSound, Zenon
  <1> QED BY <1>0, <1>2, <1>3, <1>4, <1>5, Zenon
          DEF ServiceObjects, DeploymentName, HeadlessServiceName

LEMMA PlanUISound ==
  ASSUME NEW s, NEW D, DOMAIN PlanUI(s) \subseteq D, MTLSEnabled(s) => CertKey(FrontendCertName) \in D
  PROVE  AllSound(PlanUI(s), D)
  <1>0. CASE s.ui = "off"
    BY <1>0, EmptySound, Zenon DEF PlanUI
  <1>1. CASE s.ui # "off"
    <2> DEFINE a == PlanUICertificate(s)  b == Only(<<"Deployment", UIName>>, BuildUIDeployment(s))
               c == Only(<<"Service", UIName>>, BuildUIService(s))  d == PlanUIIngress(s)
    <2>1. PlanUI(s) = Over(a, Over(b, Over(c, d)))
      BY <1>1, Zenon DEF PlanUI
    <2>2. DOMAIN c = {<<"Service", UIName>>}
      BY OnlyIs, Zenon
    <2>3. MTLSEnabled(s) => DOMAIN a = {CertKey(UIClientCertName)}
      BY OnlyIs, Zenon DEF PlanUICertificate, CertKey
    <2>4. AllSound(a, D)
      <3>1. CertificateOf(UIClientCertName, BuildUIClientCertificate(s))
        BY Zenon DEF CertificateOf
      <3>2. AllSound(Only(<<"Certificate", UIClientCertName>>, BuildUIClientCertificate(s)), D)
        BY <3>1, CertificateSound, OnlySound, Zenon
      <3> QED BY <3>2, EmptySound, Zenon DEF PlanUICertificate
    <2>5. AllSound(c, D)
      <3>1. ServiceOf(UIName, BuildUIService(s))
        BY Zenon DEF ServiceOf
      <3> QED BY <3>1, ServiceSound, OnlySound, Zenon
    <2>6. DOMAIN a \subseteq D /\ DOMAIN c \subseteq D
      <3> HIDE DEF a, b, c, d
      <3>1. DOMAIN Over(c, d) = DOMAIN c \cup DOMAIN d
        BY OverDomain, Zenon
      <3>2. DOMAIN Over(b, Over(c, d)) = DOMAIN b \cup DOMAIN Over(c, d)
        BY OverDomain, Zenon
      <3>3. DOMAIN Over(a, Over(b, Over(c, d))) = DOMAIN a \cup DOMAIN Over(b, Over(c, d))
        BY OverDomain, Zenon
      <3> QED BY <2>1, <3>1, <3>2, <3>3, Zenon
    <2>7. AllSound(b, D)
      <3>1. MTLSEnabled(s) => CertKey(UIClientCertName) \in D
        BY <2>3, <2>6, Zenon
      <3>2. UIDeployment(BuildUIDeployment(s), D)
        BY <3>1, Zenon DEF UIDeployment
      <3>3. DeploymentOf(UIName, BuildUIDeployment(s), D)
        BY <3>2, Zenon DEF DeploymentOf
      <3> QED BY <3>3, DeploymentSound, OnlySound, Zenon
    <2>8. AllSound(d, D)
      <3>1. <<"Service", UIName>> \in D
        BY <2>2, <2>6, Zenon
      <3>2. Sound(<<"Ingress", UIName>>, BuildUIIngress, D)
        BY <3>1, Kind, Zenon DEF Sound
      <3> QED BY <3>2, OnlySound, EmptySound, Zenon DEF PlanUIIngress
    <2> HIDE DEF a, b, c, d
    <2>9. AllSound(Over(c, d), D)
      BY <2>5, <2>8, OverSound, Zenon
    <2>10. AllSound(Over(b, Over(c, d)), D)
      BY <2>7, <2>9, OverSound, Zenon
    <2> QED BY <2>1, <2>4, <2>10, OverSound, Zenon
  <1> QED BY <1>0, <1>1, Zenon

LEMMA PlanMonitoringSound ==
  ASSUME NEW s, NEW D
  PROVE  AllSound(PlanMonitoring(s), D)
  <1>1. Sound(<<"ServiceMonitor", <<>>>>, BuildServiceMonitor, D)
    BY Kind, Zenon DEF Sound
  <1> QED BY <1>1, OnlySound, EmptySound, Zenon DEF PlanMonitoring

\* EnabledServices lists service names, and so do the first few of the list.
LEMMA ServiceList == ASSUME NEW s PROVE EnabledServices(s) \in Seq(ServiceNames)
  <1> DEFINE a == <<"frontend", "history", "matching", "worker">>
             b == IF s.internal THEN <<"internal-frontend">> ELSE <<>>
  <1>0. b \in Seq(ServiceNames)
    <2>1. <<"internal-frontend">> \in Seq(ServiceNames)
      BY DEF ServiceNames
    <2>2. <<>> \in Seq(ServiceNames)
      OBVIOUS
    <2> QED BY <2>1, <2>2, Zenon
  <1>1. a \in Seq(ServiceNames)
    BY DEF ServiceNames
  <1>2. EnabledServices(s) = a \o b
    BY Zenon DEF EnabledServices
  <1> HIDE DEF a, b
  <1> QED BY <1>0, <1>1, <1>2

LEMMA FirstServices ==
  ASSUME NEW s, NEW n \in 0..Len(EnabledServices(s))
  PROVE  {EnabledServices(s)[i] : i \in 1..n} \in SUBSET ServiceNames
  BY ServiceList

-----------------------------------------------------------------------------
(* The steps.                                                              *)

LEMMA NewDomain ==
  ASSUME NEW objs, NEW planned, NEW new, new = Over(planned, objs) \/ new = Over(objs, planned)
  PROVE  DOMAIN objs \subseteq DOMAIN new /\ DOMAIN planned \subseteq DOMAIN new
  <1>1. DOMAIN Over(planned, objs) = DOMAIN planned \cup DOMAIN objs
    BY OverDomain, Zenon
  <1>2. DOMAIN Over(objs, planned) = DOMAIN objs \cup DOMAIN planned
    BY OverDomain, Zenon
  <1> QED BY <1>1, <1>2, Zenon

LEMMA Grows ==
  ASSUME NEW objs, NEW planned, NEW new, new = Over(planned, objs) \/ new = Over(objs, planned),
         AllSound(objs, DOMAIN objs), AllSound(planned, DOMAIN new)
  PROVE  AllSound(new, DOMAIN new)
  <1>1. DOMAIN objs \subseteq DOMAIN new
    BY NewDomain, Zenon
  <1>2. AllSound(objs, DOMAIN new)
    BY <1>1, SoundMore, Zenon
  <1> QED BY <1>2, OverSound, Zenon

\* Steps that leave the objects and the pass alone, or end the pass.
LEMMA QuietStep ==
  ASSUME ObjectsInv, objects' = objects, UNCHANGED <<pc, mem>> \/ (pc' = "idle" /\ mem' = NoPass)
  PROVE  ObjectsInv'
  <1>1. AllSound(objects, DOMAIN objects)'
    BY Zenon DEF ObjectsInv
  <1>2. CASE UNCHANGED <<pc, mem>>
    <2>1. PassInv'
      BY <1>2, Zenon DEF ObjectsInv, PassInv
    <2> QED BY <1>1, <2>1, Zenon DEF ObjectsInv
  <1>3. CASE pc' = "idle" /\ mem' = NoPass
    <2>1. DOMAIN mem' = {"spec", "certs", "mtlsReady"}
      BY <1>3, Zenon DEF NoPass
    <2>2. PassInv'
      BY <1>3, <2>1, Zenon DEF PassInv
    <2> QED BY <1>1, <2>2 DEF ObjectsInv
  <1> QED BY <1>2, <1>3, Zenon

LEMMA GetStep == ASSUME ObjectsInv, Get PROVE ObjectsInv'
  <1> DEFINE p == PlanIdentity(cluster.spec)
  <1>1. objects' = Over(objects, p) /\ pc' = "mtls" /\ mem' = [NoPass EXCEPT !.spec = cluster.spec]
    BY Zenon DEF Get
  <1>2. AllSound(p, DOMAIN objects') /\ (cluster.spec.azure => AccountKey \in DOMAIN p)
    BY PlanIdentitySound, Zenon
  <1>3. mem'.spec = cluster.spec /\ DOMAIN mem' = {"spec", "certs", "mtlsReady"}
    BY <1>1, Zenon DEF NoPass
  <1> HIDE DEF p
  <1>4. DOMAIN p \subseteq DOMAIN objects'
    BY <1>1, NewDomain, Zenon
  <1>5. AllSound(objects', DOMAIN objects')
    BY <1>1, <1>2, Grows, Zenon DEF ObjectsInv
  <1>6. PassInv'
    BY <1>1, <1>2, <1>3, <1>4, Zenon DEF PassInv
  <1> QED BY <1>5, <1>6, Zenon DEF ObjectsInv

LEMMA MTLSStep == ASSUME ObjectsInv, ReconcileMTLS PROVE ObjectsInv'
  <1> DEFINE p == PlanMTLS(mem.spec)
  <1>1. objects' = Over(p, objects) /\ pc = "mtls" /\ pc' = "config"
    BY Zenon DEF ReconcileMTLS, Apply
  <1>2. AllSound(p, DOMAIN objects') /\ (MTLSEnabled(mem.spec) => ServerCerts \subseteq DOMAIN p)
    BY PlanMTLSSound, Zenon
  <1>3. mem'.spec = mem.spec /\ DOMAIN mem' = {"spec", "certs", "mtlsReady"}
    BY Zenon DEF ReconcileMTLS, ObjectsInv, PassInv
  <1> HIDE DEF p
  <1>4. DOMAIN p \subseteq DOMAIN objects' /\ DOMAIN objects \subseteq DOMAIN objects'
    BY <1>1, NewDomain, Zenon
  <1>5. AllSound(objects', DOMAIN objects')
    BY <1>1, <1>2, Grows, Zenon DEF ObjectsInv
  <1>6. PassInv'
    BY <1>1, <1>2, <1>3, <1>4, Zenon DEF ObjectsInv, PassInv, MTLSEnabled
  <1> QED BY <1>5, <1>6 DEF ObjectsInv

LEMMA ConfigStep == ASSUME ObjectsInv, RenderConfig PROVE ObjectsInv'
  <1> DEFINE p == PlanConfig(mem.spec)
  <1>1. CASE schemaReady
    <2>1. objects' = Over(p, objects) /\ pc = "config" /\ pc' = "services"
      BY <1>1, Zenon DEF RenderConfig, Apply
    <2>2. AllSound(p, DOMAIN objects') /\ ConfigKeys \subseteq DOMAIN p
      BY PlanConfigSound, Zenon
    <2>3. mem'.spec = mem.spec /\ DOMAIN mem' = {"spec", "certs", "mtlsReady"}
      BY <1>1, Zenon DEF RenderConfig, ObjectsInv, PassInv
    <2> HIDE DEF p
    <2>4. DOMAIN p \subseteq DOMAIN objects' /\ DOMAIN objects \subseteq DOMAIN objects'
      BY <2>1, NewDomain, Zenon
    <2>5. AllSound(objects', DOMAIN objects')
      BY <2>1, <2>2, Grows, Zenon DEF ObjectsInv
    <2>6. PassInv'
      BY <2>1, <2>2, <2>3, <2>4, Zenon DEF ObjectsInv, PassInv, MTLSEnabled
    <2> QED BY <2>5, <2>6 DEF ObjectsInv
  <1>2. CASE ~ schemaReady
    <2>1. pc = "config" /\ pc' = "ui" /\ UNCHANGED <<mem, objects>>
      BY <1>2, Zenon DEF RenderConfig
    <2>2. PassInv'
      BY <2>1, Zenon DEF ObjectsInv, PassInv, MTLSEnabled
    <2> QED BY <2>1, <2>2, Zenon DEF ObjectsInv
  <1> QED BY <1>1, <1>2, Zenon

\* However many of the services a pass gets to apply.
LEMMA ServicesApplied ==
  ASSUME ObjectsInv, pc = "services", NEW n \in 0..Len(EnabledServices(mem.spec)), ApplyFirst(n)
  PROVE  AllSound(objects', DOMAIN objects') /\ DOMAIN objects \subseteq DOMAIN objects'
  <1> DEFINE svcs == {EnabledServices(mem.spec)[i] : i \in 1..n}
             p    == PlanServices(mem.spec, svcs, "", mem.certs)
  <1>1. objects' = Over(p, objects)
    BY Zenon DEF ApplyFirst, Apply
  <1>2. svcs \in SUBSET ServiceNames
    BY FirstServices, Zenon
  <1>3. DOMAIN objects \subseteq DOMAIN objects'
    <2> HIDE DEF p
    <2> QED BY <1>1, NewDomain, Zenon
  <1>4. /\ ConfigKeys \subseteq DOMAIN objects
        /\ MTLSEnabled(mem.spec) => ServerCerts \subseteq DOMAIN objects
        /\ mem.spec.azure => AccountKey \in DOMAIN objects
    BY Zenon DEF ObjectsInv, PassInv
  <1>5. /\ ConfigKeys \subseteq DOMAIN objects'
        /\ MTLSEnabled(mem.spec) => ServerCerts \subseteq DOMAIN objects'
        /\ mem.spec.azure => AccountKey \in DOMAIN objects'
    BY <1>3, <1>4, Zenon
  <1>6. AllSound(p, DOMAIN objects')
    <2> HIDE DEF svcs
    <2> QED BY <1>2, <1>5, PlanServicesSound, Zenon
  <1> HIDE DEF p
  <1> QED BY <1>1, <1>3, <1>6, Grows, Zenon DEF ObjectsInv

LEMMA ServicesStep == ASSUME ObjectsInv, ApplyServices \/ ApplyServicesFails PROVE ObjectsInv'
  <1>0. \A s : Len(EnabledServices(s)) \in Nat
    BY ServiceList
  <1>1. CASE ApplyServices
    <2>1. pc = "services" /\ pc' = "ui" /\ mem' = mem /\ ApplyFirst(Len(EnabledServices(mem.spec)))
      BY <1>1, Zenon DEF ApplyServices
    <2>2. AllSound(objects', DOMAIN objects') /\ DOMAIN objects \subseteq DOMAIN objects'
      BY <1>0, <2>1, ServicesApplied
    <2>3. PassInv'
      BY <2>1, <2>2, Zenon DEF ObjectsInv, PassInv, MTLSEnabled
    <2> QED BY <2>2, <2>3, Zenon DEF ObjectsInv
  <1>2. CASE ApplyServicesFails
    <2>1. PICK n \in 0..Len(EnabledServices(mem.spec)) - 1 : ApplyFirst(n)
      BY <1>2, Zenon DEF ApplyServicesFails
    <2>2. pc = "services" /\ pc' = "idle" /\ mem' = NoPass
      BY <1>2, Zenon DEF ApplyServicesFails
    <2>3. n \in 0..Len(EnabledServices(mem.spec))
      BY <1>0, <2>1
    <2>4. AllSound(objects', DOMAIN objects')
      BY <2>1, <2>2, <2>3, ServicesApplied, Zenon
    <2>5. DOMAIN mem' = {"spec", "certs", "mtlsReady"}
      BY <2>2, Zenon DEF NoPass
    <2>6. PassInv'
      BY <2>2, <2>5, Zenon DEF PassInv
    <2> QED BY <2>4, <2>6, Zenon DEF ObjectsInv
  <1> QED BY <1>1, <1>2, Zenon

LEMMA UIStep == ASSUME ObjectsInv, ReconcileUI PROVE ObjectsInv'
  <1> DEFINE m == IF crdInstalled THEN PlanMonitoring(mem.spec) ELSE <<>>
             p == Over(m, PlanUI(mem.spec))
  <1>1. objects' = Over(p, objects) /\ pc = "ui" /\ pc' = "status" /\ mem' = mem
    BY Zenon DEF ReconcileUI, Apply
  <1>2. AllSound(m, DOMAIN objects')
    BY PlanMonitoringSound, EmptySound, Zenon
  <1> HIDE DEF m
  <1>3. DOMAIN PlanUI(mem.spec) \subseteq DOMAIN p
    BY OverDomain, Zenon
  <1>4. DOMAIN p \subseteq DOMAIN objects' /\ DOMAIN objects \subseteq DOMAIN objects'
    <2> HIDE DEF p
    <2> QED BY <1>1, NewDomain, Zenon
  <1>5. MTLSEnabled(mem.spec) => CertKey(FrontendCertName) \in DOMAIN objects'
    BY <1>1, <1>4, Zenon DEF ObjectsInv, PassInv, ServerCerts
  <1>6. DOMAIN PlanUI(mem.spec) \subseteq DOMAIN objects'
    BY <1>3, <1>4, Zenon
  <1>7. AllSound(PlanUI(mem.spec), DOMAIN objects')
    BY <1>5, <1>6, PlanUISound, Zenon
  <1>8. AllSound(p, DOMAIN objects')
    BY <1>2, <1>7, OverSound, Zenon
  <1> HIDE DEF p
  <1>9. AllSound(objects', DOMAIN objects')
    BY <1>1, <1>8, Grows, Zenon DEF ObjectsInv
  <1>10. PassInv'
    BY <1>1, <1>4, Zenon DEF ObjectsInv, PassInv, MTLSEnabled
  <1> QED BY <1>9, <1>10 DEF ObjectsInv

LEMMA ClientStep == ASSUME ObjectsInv, ClientReconcile PROVE ObjectsInv'
  <1>0. pc' = pc /\ mem' = mem
    BY Zenon DEF ClientReconcile, passVars
  <1>1. CASE cluster.spec.mtls \in {"off", "noissuer"}
    <2>1. objects' = objects
      BY <1>1, Zenon DEF ClientReconcile
    <2> QED BY <1>0, <2>1, QuietStep, Zenon
  <1>2. CASE cluster.spec.mtls \notin {"off", "noissuer"}
    <2> DEFINE p == Only(<<"Certificate", ClientCertName>>, BuildClientCertificate(cluster.spec))
    <2>1. objects' = Over(p, objects)
      BY <1>2, Zenon DEF ClientReconcile, ApplyClientCertificate, Apply
    <2>2. CertificateOf(ClientCertName, BuildClientCertificate(cluster.spec))
      BY Zenon DEF CertificateOf
    <2>3. AllSound(p, DOMAIN objects')
      BY <2>2, CertificateSound, OnlySound, Zenon
    <2> HIDE DEF p
    <2>4. DOMAIN objects \subseteq DOMAIN objects'
      BY <2>1, NewDomain, Zenon
    <2>5. AllSound(objects', DOMAIN objects')
      BY <2>1, <2>3, Grows, Zenon DEF ObjectsInv
    <2>6. PassInv'
      BY <1>0, <2>4, Zenon DEF ObjectsInv, PassInv, MTLSEnabled
    <2> QED BY <2>5, <2>6 DEF ObjectsInv
  <1> QED BY <1>1, <1>2, Zenon

LEMMA ObjectsStep == ObjectsInv /\ [Next]_vars => ObjectsInv'
  <1> SUFFICES ASSUME ObjectsInv, [Next]_vars
               PROVE  ObjectsInv'
    BY Zenon
  <1>1. CASE Reconcile \/ ApplyServicesFails
    <2>1. CASE UpdateStatus
      BY <2>1, QuietStep, Zenon DEF UpdateStatus
    <2> QED BY <1>1, <2>1, GetStep, MTLSStep, ConfigStep, ServicesStep, UIStep, Zenon DEF Reconcile
  <1>2. CASE AbortPass
    BY <1>2, QuietStep, Zenon DEF AbortPass
  <1>3. CASE ClientReconcile
    BY <1>3, ClientStep, Zenon
  <1>4. CASE Edit \/ EditAnnotation
    BY <1>4, QuietStep, Zenon DEF Edit, EditAnnotation, Update
  <1>5. CASE Environment
    BY <1>5, QuietStep, Zenon DEF Environment, Issue, IssueFails, Rotate, SyncSecret, SchemaDone, InstallCRD, passVars
  <1>6. CASE UNCHANGED vars
    BY <1>6, QuietStep, Zenon DEF vars, passVars
  <1> QED BY <1>1, <1>2, <1>3, <1>4, <1>5, <1>6, Zenon DEF Next

LEMMA InitObjects == Init => ObjectsInv
  <1> SUFFICES ASSUME Init
               PROVE  ObjectsInv
    BY Zenon
  <1>1. objects = <<>> /\ pc = "idle" /\ mem = NoPass
    BY Zenon DEF Init
  <1>2. AllSound(objects, DOMAIN objects)
    BY <1>1, EmptySound, Zenon
  <1>3. DOMAIN mem = {"spec", "certs", "mtlsReady"}
    BY <1>1, Zenon DEF NoPass
  <1> QED BY <1>1, <1>2, <1>3, Zenon DEF ObjectsInv, PassInv

THEOREM ObjectsInvariance == Spec => []ObjectsInv
  BY InitObjects, ObjectsStep, PTL DEF Spec

-----------------------------------------------------------------------------
(* Selectors.                                                              *)

LEMMA SelectorIs ==
  ASSUME NEW c
  PROVE  /\ DOMAIN SelectorLabels(c) = {"name", "instance", "component"}
         /\ SelectorLabels(c)["name"] = "temporal" /\ SelectorLabels(c)["instance"] = "c"
         /\ SelectorLabels(c)["component"] = c
  BY Zenon DEF SelectorLabels

LEMMA OverMatches ==
  ASSUME NEW f, NEW g
  PROVE  Matches(f, Over(f, g))
  BY OverFirst, Zenon DEF Matches

\* Labels that carry one component's selector carry no other's.
LEMMA MatchesOwn ==
  ASSUME NEW c, NEW e, NEW labels, Matches(SelectorLabels(e), labels)
  PROVE  Matches(SelectorLabels(c), labels) <=> e = c
  <1>1. labels["component"] = e
    BY SelectorIs, Zenon DEF Matches
  <1>2. ASSUME Matches(SelectorLabels(c), labels)
        PROVE  labels["component"] = c
    BY <1>2, SelectorIs, Zenon DEF Matches
  <1> QED BY <1>1, <1>2, Zenon

LEMMA LabelFields ==
  ASSUME NEW svc, NEW s, NEW config, NEW certs
  PROVE  /\ BuildDeployment(svc, s, config, "", certs).selector = SelectorLabels(svc)
         /\ BuildDeployment(svc, s, config, "", certs).labels
              = ApplyPodTemplate(StandardLabels(svc, s), s, SelectorLabels(svc))
  BY Zenon DEF BuildDeployment

LEMMA DeploymentLabels ==
  ASSUME ObjectsInv, NEW k \in DeploymentKeys
  PROVE  /\ objects[k].selector = SelectorLabels(k[2][1])
         /\ Matches(SelectorLabels(k[2][1]), objects[k].labels)
  <1>1. DeploymentOf(k[2], objects[k], DOMAIN objects)
    BY Zenon DEF ObjectsInv, AllSound, Sound, DeploymentKeys
  <1>2. ASSUME NEW svc \in ServiceNames, k[2] = <<svc>>, ServerDeployment(svc, objects[k], DOMAIN objects)
        PROVE  /\ objects[k].selector = SelectorLabels(k[2][1])
               /\ Matches(SelectorLabels(k[2][1]), objects[k].labels)
    <2>1. PICK s, certs : objects[k] = BuildDeployment(svc, s, BuildConfigData(s), "", certs)
      BY <1>2, Zenon DEF ServerDeployment
    <2>2. k[2][1] = svc
      BY <1>2
    <2> DEFINE rest == Over(OverrideLabels(s), StandardLabels(svc, s))
    <2>3. objects[k].selector = SelectorLabels(svc) /\ objects[k].labels = Over(SelectorLabels(svc), rest)
      <3>1. objects[k].labels = ApplyPodTemplate(StandardLabels(svc, s), s, SelectorLabels(svc))
            /\ objects[k].selector = SelectorLabels(svc)
        BY <2>1, LabelFields, Zenon
      <3> QED BY <3>1, Zenon DEF ApplyPodTemplate
    <2> HIDE DEF rest
    <2> QED BY <2>2, <2>3, OverMatches, Zenon
  <1>3. ASSUME k[2] = UIName, UIDeployment(objects[k], DOMAIN objects)
        PROVE  /\ objects[k].selector = SelectorLabels(k[2][1])
               /\ Matches(SelectorLabels(k[2][1]), objects[k].labels)
    <2>1. PICK s : objects[k] = BuildUIDeployment(s)
      BY <1>3, Zenon DEF UIDeployment
    <2>2. k[2][1] = "ui"
      BY <1>3 DEF UIName
    <2> DEFINE rest == [managedBy |-> "temporal-operator", version |-> s.version]
    <2>3. objects[k].selector = SelectorLabels("ui") /\ objects[k].labels = Over(SelectorLabels("ui"), rest)
      BY <2>1 DEF BuildUIDeployment, StandardLabels
    <2> HIDE DEF rest
    <2> QED BY <2>2, <2>3, OverMatches, Zenon
  <1> QED BY <1>1, <1>2, <1>3, Zenon DEF DeploymentOf

LEMMA ServiceSelects ==
  ASSUME ObjectsInv, NEW k \in DOMAIN objects, k[1] \in {"Service", "PodDisruptionBudget"}
  PROVE  objects[k].selector = SelectorLabels(k[2][1])
  <1>0. Sound(k, objects[k], DOMAIN objects)
    BY Zenon DEF ObjectsInv, AllSound
  <1>1. CASE k[1] = "Service"
    <2>0. ServiceOf(k[2], objects[k])
      BY <1>0, <1>1, Zenon DEF Sound
    <2>1. ASSUME NEW svc, NEW s, k[2] = <<svc, "headless">>, objects[k] = BuildHeadlessService(svc, s)
          PROVE  objects[k].selector = SelectorLabels(k[2][1])
      BY <2>1 DEF BuildHeadlessService
    <2>2. ASSUME NEW s, k[2] = FrontendServiceName, objects[k] = BuildFrontendService(s)
          PROVE  objects[k].selector = SelectorLabels(k[2][1])
      BY <2>2 DEF BuildFrontendService, FrontendServiceName
    <2>3. ASSUME NEW s, k[2] = UIName, objects[k] = BuildUIService(s)
          PROVE  objects[k].selector = SelectorLabels(k[2][1])
      BY <2>3 DEF BuildUIService, UIName
    <2> QED BY <2>0, <2>1, <2>2, <2>3, Zenon DEF ServiceOf
  <1>2. CASE k[1] = "PodDisruptionBudget"
    <2>1. PICK svc \in ServiceNames : k[2] = <<svc>> /\ objects[k] = BuildPodDisruptionBudget(svc)
      BY <1>0, <1>2, Zenon DEF Sound
    <2> QED BY <2>1 DEF BuildPodDisruptionBudget
  <1> QED BY <1>1, <1>2, Zenon

\* The ServiceMonitor selects by name and instance, and only headless Services have two
\* parts to their names.
LEMMA MonitorFinds ==
  ASSUME ObjectsInv, NEW k \in DOMAIN objects, k[1] = "Service", Len(k[2]) = 2
  PROVE  /\ Matches([name |-> "temporal", instance |-> "c"], objects[k].labels)
         /\ "metrics" \in objects[k].ports
  <1>0. ServiceOf(k[2], objects[k])
    BY Zenon DEF ObjectsInv, AllSound, Sound
  <1>1. k[2] # FrontendServiceName /\ k[2] # UIName
    BY DEF FrontendServiceName, UIName
  <1>2. PICK svc, s : objects[k] = BuildHeadlessService(svc, s)
    BY <1>0, <1>1, Zenon DEF ServiceOf
  <1> DEFINE rest == [managedBy |-> "temporal-operator", version |-> s.version]
  <1>3. objects[k].labels = Over(SelectorLabels(svc), rest) /\ "metrics" \in objects[k].ports
    BY <1>2 DEF BuildHeadlessService, StandardLabels
  <1> HIDE DEF rest
  <1>4. Matches(SelectorLabels(svc), objects[k].labels)
    BY <1>3, OverMatches, Zenon
  <1>5. /\ "name" \in DOMAIN objects[k].labels /\ objects[k].labels["name"] = "temporal"
        /\ "instance" \in DOMAIN objects[k].labels /\ objects[k].labels["instance"] = "c"
    BY <1>4, SelectorIs DEF Matches
  <1>6. Matches([name |-> "temporal", instance |-> "c"], objects[k].labels)
    BY <1>5 DEF Matches
  <1> QED BY <1>3, <1>6, Zenon

\* Whatever labels pod templates set, and whichever specs the objects are left from, selectors
\* pick the pods of their own component and the ServiceMonitor finds a port.
THEOREM SelectorsAlwaysMatch == Spec => []SelectorsMatch
  <1>1. ASSUME ObjectsInv
        PROVE  SelectorsMatch
    <2>1. \A k \in DeploymentKeys : Matches(objects[k].selector, objects[k].labels)
      BY <1>1, DeploymentLabels, Zenon
    <2>2. ASSUME NEW k \in DOMAIN objects, k[1] \in {"Service", "PodDisruptionBudget"}, NEW d \in DeploymentKeys
          PROVE  Matches(objects[k].selector, objects[d].labels) <=> d[2][1] = k[2][1]
      <3>1. objects[k].selector = SelectorLabels(k[2][1])
        BY <1>1, <2>2, ServiceSelects, Zenon
      <3>2. Matches(SelectorLabels(d[2][1]), objects[d].labels)
        BY <1>1, <2>2, DeploymentLabels, Zenon
      <3> QED BY <3>1, <3>2, MatchesOwn
    <2>3. ASSUME <<"ServiceMonitor", <<>>>> \in DOMAIN objects
          PROVE  objects[<<"ServiceMonitor", <<>>>>] = BuildServiceMonitor
      BY <1>1, <2>3, Kind, Zenon DEF ObjectsInv, AllSound, Sound
    <2>4. BuildServiceMonitor.selector = [name |-> "temporal", instance |-> "c"] /\ BuildServiceMonitor.port = "metrics"
      BY Zenon DEF BuildServiceMonitor
    <2>5. ASSUME <<"ServiceMonitor", <<>>>> \in DOMAIN objects, NEW k \in DOMAIN objects, k[1] = "Service", Len(k[2]) = 2
          PROVE  /\ Matches(objects[<<"ServiceMonitor", <<>>>>].selector, objects[k].labels)
                 /\ objects[<<"ServiceMonitor", <<>>>>].port \in objects[k].ports
      BY <1>1, <2>3, <2>4, <2>5, MonitorFinds, Zenon
    <2> QED BY <2>1, <2>2, <2>5, Zenon DEF SelectorsMatch
  <1> QED BY <1>1, ObjectsInvariance, PTL

-----------------------------------------------------------------------------
(* References.                                                             *)

\* A certificate that is there has the secret it is named after and the names it is verified by.
LEMMA CertificateFacts ==
  ASSUME ObjectsInv, NEW name, CertKey(name) \in DOMAIN objects
  PROVE  /\ name \in CertNames /\ objects[<<"Certificate", name>>].secretName = name
         /\ name = InternodeCertName => InternodeCertName \in DNSNames(name)
         /\ name = FrontendCertName => \A x \in {"svc.cluster.local", "svc"} :
                                         DNS(FrontendServiceName, x) \in DNSNames(name)
  <1> DEFINE o == objects[<<"Certificate", name>>]
  <1>0. CertificateOf(name, o)
    BY Kind, Zenon DEF ObjectsInv, AllSound, Sound, CertKey
  <1>a. DNSNames(name) = o.dnsNames
    BY Zenon DEF DNSNames
  <1> HIDE DEF o
  <1>b. InternodeCertName # FrontendCertName /\ UIClientCertName \notin {InternodeCertName, FrontendCertName}
        /\ ClientCertName \notin {InternodeCertName, FrontendCertName}
    BY Zenon DEF InternodeCertName, FrontendCertName, UIClientCertName, ClientCertName
  <1>1. ASSUME NEW s, name = InternodeCertName, o = BuildInternodeCertificate(s)
        PROVE  o.secretName = name /\ InternodeCertName \in o.dnsNames
    BY <1>1 DEF BuildInternodeCertificate, Certificate
  <1>2. ASSUME NEW s, name = FrontendCertName, o = BuildFrontendCertificate(s)
        PROVE  o.secretName = name /\ \A x \in {"svc.cluster.local", "svc"} :
                                        DNS(FrontendServiceName, x) \in o.dnsNames
    BY <1>2, Zenon DEF BuildFrontendCertificate, Certificate
  <1>3. ASSUME NEW s, name = UIClientCertName, o = BuildUIClientCertificate(s)
        PROVE  o.secretName = name
    BY <1>3, Zenon DEF BuildUIClientCertificate, Certificate
  <1>4. ASSUME NEW s, name = ClientCertName, o = BuildClientCertificate(s)
        PROVE  o.secretName = name
    BY <1>4, Zenon DEF BuildClientCertificate, Certificate
  <1>5. name \in CertNames /\ o.secretName = name
    BY <1>0, <1>1, <1>2, <1>3, <1>4, Zenon DEF CertificateOf, CertNames
  <1>6. name = InternodeCertName => InternodeCertName \in o.dnsNames
    BY <1>0, <1>1, <1>b, Zenon DEF CertificateOf
  <1>7. name = FrontendCertName => \A x \in {"svc.cluster.local", "svc"} : DNS(FrontendServiceName, x) \in o.dnsNames
    BY <1>0, <1>2, <1>b, Zenon DEF CertificateOf
  <1> QED BY <1>a, <1>5, <1>6, <1>7, Zenon DEF o

LEMMA SecretProvided ==
  ASSUME ObjectsInv, NEW name, CertKey(name) \in DOMAIN objects
  PROVE  Provided(<<"Secret", name>>)
  <1>1. name \in Certificates /\ objects[<<"Certificate", name>>].secretName = name
    BY CertificateFacts, Zenon DEF Certificates, CertKey
  <1> QED BY <1>1, Kind, Zenon DEF Provided

LEMMA ConfigFields ==
  ASSUME NEW s
  PROVE  BuildConfigData(s).tls = BuildMTLS(s) /\ BuildConfigData(s).command = s.azure
  BY Zenon DEF BuildConfigData

LEMMA ServerReferences ==
  ASSUME ObjectsInv, NEW svc \in ServiceNames, NEW d, ServerDeployment(svc, d, DOMAIN objects)
  PROVE  /\ \A ref \in d.refers : Provided(ref)
         /\ d.config.tls.internode # <<>> => d.config.tls.internode \in DNSNames(InternodeCertName)
         /\ d.config.tls.frontend # <<>> => d.config.tls.frontend \in DNSNames(FrontendCertName)
         /\ "internode" \in d.config.tls.files => "internode" \in d.dirs
         /\ "frontend" \in d.config.tls.files /\ svc \in {"frontend", "internal-frontend"} => "frontend" \in d.dirs
         /\ d.config.command => "azure-token-refresher" \in d.containers
  <1>1. PICK s, certs : /\ d = BuildDeployment(svc, s, BuildConfigData(s), "", certs)
                        /\ ConfigKeys \subseteq DOMAIN objects
                        /\ MTLSEnabled(s) => ServerCerts \subseteq DOMAIN objects
                        /\ s.azure => AccountKey \in DOMAIN objects
    BY Zenon DEF ServerDeployment
  <1>2. /\ d.containers = {"temporal"} \cup AzureContainers(s)
        /\ d.dirs = CertMounts(svc, s)
        /\ d.config.tls = BuildMTLS(s) /\ d.config.command = s.azure
    <2>1. d = BuildDeployment(svc, s, BuildConfigData(s), "", certs)
      BY <1>1, Zenon
    <2>2. d.containers = {"temporal"} \cup AzureContainers(s)
      BY <2>1, Zenon DEF BuildDeployment
    <2>3. d.dirs = CertMounts(svc, s)
      BY <2>1, Zenon DEF BuildDeployment
    <2>4. d.config = BuildConfigData(s)
      BY <2>1, Zenon DEF BuildDeployment
    <2>5. d.config.tls = BuildMTLS(s) /\ d.config.command = s.azure
      BY <2>4, ConfigFields, Zenon
    <2> QED BY <2>2, <2>3, <2>5, Zenon
  <1>3. \A ref \in d.refers : Provided(ref)
    <2>1. \A ref \in ConfigKeys : Provided(ref)
      BY <1>1, Zenon DEF Provided
    <2>2. \A ref \in AzureAccount(s) : Provided(ref)
      BY <1>1, Zenon DEF Provided, AzureAccount, AccountKey
    <2>3. ASSUME NEW m \in CertMounts(svc, s)
          PROVE  Provided(<<"Secret", CertSecret(m)>>)
      <3>1. MTLSEnabled(s)
        BY <2>3, Zenon DEF CertMounts
      <3>2. CertKey(CertSecret(m)) \in DOMAIN objects
        BY <1>1, <3>1, Zenon DEF ServerCerts, CertSecret
      <3> QED BY <3>2, SecretProvided, Zenon
    <2>4. \A ref \in d.refers : \/ ref \in ConfigKeys \cup AzureAccount(s)
                                \/ \E m \in CertMounts(svc, s) : ref = <<"Secret", CertSecret(m)>>
      <3> DEFINE c == BuildConfigData(s)
      <3>1. d = BuildDeployment(svc, s, c, "", certs)
        BY <1>1, Zenon
      <3> HIDE DEF c
      <3> QED BY <3>1, Zenon DEF BuildDeployment, ConfigKeys
    <2> QED BY <2>1, <2>2, <2>3, <2>4, Zenon
  <1>4. CASE MTLSEnabled(s)
    <2>1. CertKey(InternodeCertName) \in DOMAIN objects /\ CertKey(FrontendCertName) \in DOMAIN objects
      BY <1>1, <1>4, Zenon DEF ServerCerts
    <2>2. /\ InternodeCertName \in DNSNames(InternodeCertName)
          /\ DNS(FrontendServiceName, "svc.cluster.local") \in DNSNames(FrontendCertName)
      BY <2>1, CertificateFacts, Zenon
    <2>3. /\ d.config.tls.internode = InternodeCertName
          /\ d.config.tls.frontend = DNS(FrontendServiceName, "svc.cluster.local")
      BY <1>2, <1>4 DEF BuildMTLS
    <2>4. "internode" \in d.dirs /\ (svc \in {"frontend", "internal-frontend"} => "frontend" \in d.dirs)
      BY <1>2, <1>4, Zenon DEF CertMounts
    <2> QED BY <1>2, <1>3, <2>2, <2>3, <2>4, Zenon DEF AzureContainers
  <1>5. CASE ~ MTLSEnabled(s)
    <2>1. d.config.tls.internode = <<>> /\ d.config.tls.frontend = <<>> /\ d.config.tls.files = {}
      BY <1>2, <1>5 DEF BuildMTLS
    <2> QED BY <1>2, <1>3, <2>1, Zenon DEF AzureContainers
  <1> QED BY <1>4, <1>5, Zenon

LEMMA UIReferences ==
  ASSUME ObjectsInv, NEW d, UIDeployment(d, DOMAIN objects)
  PROVE  /\ \A ref \in d.refers : Provided(ref)
         /\ d.serverName # <<>> => d.serverName \in DNSNames(FrontendCertName)
  <1>1. PICK s : /\ d = BuildUIDeployment(s)
                 /\ MTLSEnabled(s) => CertKey(UIClientCertName) \in DOMAIN objects
                                      /\ CertKey(FrontendCertName) \in DOMAIN objects
    BY Zenon DEF UIDeployment
  <1>2. CASE MTLSEnabled(s)
    <2>1. d.serverName = DNS(FrontendServiceName, "svc") /\ d.refers = {<<"Secret", UIClientCertName>>}
      BY <1>1, <1>2, Zenon DEF BuildUIDeployment
    <2>2. DNS(FrontendServiceName, "svc") \in DNSNames(FrontendCertName)
      BY <1>1, <1>2, CertificateFacts, Zenon
    <2>3. Provided(<<"Secret", UIClientCertName>>)
      BY <1>1, <1>2, SecretProvided, Zenon
    <2> QED BY <2>1, <2>2, <2>3, Zenon
  <1>3. CASE ~ MTLSEnabled(s)
    <2>1. d.serverName = <<>> /\ d.refers = {}
      BY <1>1, <1>3, Zenon DEF BuildUIDeployment
    <2> QED BY <2>1, Zenon
  <1> QED BY <1>2, <1>3, Zenon

\* No applied object points at something that is not there or will not be: the pass makes what
\* a spec leans on first, nothing is ever deleted, and a failed pass leaves a prefix.
THEOREM ReferencesAlwaysExist == Spec => []ReferencesExist
  <1>1. ASSUME ObjectsInv
        PROVE  ReferencesExist
    <2>0. \A svc \in ServiceNames : <<svc>> # UIName /\ <<svc>>[1] = svc
      BY Zenon DEF ServiceNames, UIName
    <2>1. ASSUME NEW k \in DeploymentKeys
          PROVE  DeploymentOf(k[2], objects[k], DOMAIN objects)
      BY <1>1, Zenon DEF ObjectsInv, AllSound, Sound, DeploymentKeys
    <2> DEFINE d(k) == objects[k]
               Good(k) ==
                 /\ \A ref \in d(k).refers : Provided(ref)
                 /\ IF k[2] = UIName
                      THEN d(k).serverName # <<>> => d(k).serverName \in DNSNames(FrontendCertName)
                      ELSE /\ d(k).config.tls.internode # <<>> =>
                                d(k).config.tls.internode \in DNSNames(InternodeCertName)
                           /\ d(k).config.tls.frontend # <<>> =>
                                d(k).config.tls.frontend \in DNSNames(FrontendCertName)
                           /\ "internode" \in d(k).config.tls.files => "internode" \in d(k).dirs
                           /\ "frontend" \in d(k).config.tls.files
                                /\ k[2][1] \in {"frontend", "internal-frontend"} => "frontend" \in d(k).dirs
                           /\ d(k).config.command => "azure-token-refresher" \in d(k).containers
    <2>2. ASSUME NEW k \in DeploymentKeys
          PROVE  Good(k)
      <3>1. ASSUME NEW svc \in ServiceNames, k[2] = <<svc>>, ServerDeployment(svc, objects[k], DOMAIN objects)
            PROVE  Good(k)
        BY <1>1, <2>0, <3>1, ServerReferences
      <3>2. ASSUME k[2] = UIName, UIDeployment(objects[k], DOMAIN objects)
            PROVE  Good(k)
        BY <1>1, <3>2, UIReferences, Zenon
      <3> QED BY <2>1, <2>2, <3>1, <3>2, Zenon DEF DeploymentOf
    <2>3. ASSUME NEW k \in DOMAIN objects, k[1] = "Ingress"
          PROVE  Provided(objects[k].backend)
      <3>1. objects[k] = BuildUIIngress /\ <<"Service", UIName>> \in DOMAIN objects
        BY <1>1, <2>3, Zenon DEF ObjectsInv, AllSound, Sound
      <3> QED BY <3>1 DEF BuildUIIngress, Provided
    <2> QED BY <2>2, <2>3, Zenon DEF ReferencesExist
  <1> QED BY <1>1, ObjectsInvariance, PTL

-----------------------------------------------------------------------------
(* Admission.                                                              *)

LEMMA AuthOnce ==
  ASSUME NEW s
  PROVE  BuildAuth(s) \cap ExtraConfig(s) = {}
  <1>1. CASE s.auth = "passthrough"
    BY <1>1, Zenon DEF BuildAuth
  <1>2. CASE s.auth # "passthrough"
    BY <1>2, Zenon DEF ExtraConfig
  <1> QED BY <1>1, <1>2, Zenon

LEMMA DefaultKeepsShards ==
  ASSUME NEW s \in Bases, NEW n
  PROVE  Default([spec |-> s, stamp |-> n]).spec.shards = s.shards
  <1>1. "shards" \in DOMAIN s
    <2>1. DOMAIN s = DOMAIN Features
      BY BasesAssumption, Zenon
    <2>2. "shards" \in DOMAIN Features
      BY DEF Features
    <2> QED BY <2>1, <2>2, Zenon
  <1> DEFINE image == IF s.image = "default" THEN "" ELSE s.image
             port  == IF s.port = 0 THEN 9090 ELSE s.port
  <1>2. Default([spec |-> s, stamp |-> n]).spec = [s EXCEPT !.image = image, !.port = port]
    BY DEF Default
  <1> HIDE DEF image, port
  <1>3. [s EXCEPT !.image = image, !.port = port].shards = s.shards
    BY <1>1, Zenon
  <1> QED BY <1>2, <1>3, Zenon

\* Whatever edits admission lets through, one at a time and each on its own grounds, the stored
\* spec can be rendered and has the shard count of the cluster's creation.
THEOREM AdmittedAlwaysRenders == Spec => []AdmittedRenders
  <1>1. Init => AdmittedInv
    <2> SUFFICES ASSUME Init
                 PROVE  AdmittedInv
      OBVIOUS
    <2>1. PICK s \in Bases, n \in Features.shards \cup {0} :
            cluster = Default([spec |-> s, stamp |-> n]) /\ ValidateSpec(cluster.spec)
      BY Zenon DEF Init
    <2>2. cluster.spec.shards = s.shards
      BY <2>1, DefaultKeepsShards, Zenon
    <2> QED BY <2>1, <2>2, Zenon DEF AdmittedInv
  <1>2. AdmittedInv /\ [Next]_vars => AdmittedInv'
    <2> SUFFICES ASSUME AdmittedInv, [Next]_vars
                 PROVE  AdmittedInv'
      OBVIOUS
    <2>1. ASSUME NEW edited, Update(edited)
          PROVE  AdmittedInv'
      <3>1. cluster' = Default(edited) /\ ValidateUpdate(cluster, Default(edited))
        BY <2>1, Zenon DEF Update
      <3>2. ValidateSpec(cluster'.spec) /\ cluster'.spec.shards = cluster.spec.shards
        BY <3>1, Zenon DEF ValidateUpdate
      <3> QED BY <3>2, Zenon DEF AdmittedInv
    <2>2. CASE Edit \/ EditAnnotation
      BY <2>1, <2>2, Zenon DEF Edit, EditAnnotation
    <2>3. CASE cluster' = cluster
      BY <2>3, Zenon DEF AdmittedInv
    <2>4. CASE Reconcile \/ ApplyServicesFails \/ AbortPass \/ ClientReconcile
      BY <2>3, <2>4, Zenon DEF Reconcile, Get, ReconcileMTLS, RenderConfig, ApplyServices, ReconcileUI, UpdateStatus,
                        ApplyServicesFails, AbortPass, ClientReconcile
    <2>5. CASE Environment
      BY <2>3, <2>5, Zenon DEF Environment, Issue, IssueFails, Rotate, SyncSecret, SchemaDone, InstallCRD
    <2>6. CASE UNCHANGED vars
      BY <2>3, <2>6, Zenon DEF vars
    <2> QED BY <2>2, <2>4, <2>5, <2>6, Zenon DEF Next
  <1>3. AdmittedInv => AdmittedRenders
    BY AuthOnce, Zenon DEF AdmittedInv, AdmittedRenders, ValidateSpec, ValidateDynamicConfig
  <1> QED BY <1>1, <1>2, <1>3, PTL DEF Spec
=============================================================================
