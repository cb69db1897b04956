----------------------- MODULE TemporalClusterProofs -----------------------
(***************************************************************************)
(* Proofs about TemporalCluster, for every matrix of versions, every set   *)
(* of roles, all replica counts and any number of faults: first that the   *)
(* schema is there before the servers, then that an upgrade rolls one role *)
(* at a time and stamps the running version after the roll.                *)
(***************************************************************************)
EXTENDS TemporalCluster, TLAPS

\* The schema has reached what version v needs (nothing, if there is no version).
Migrated(v) == v # None => schema >= MinSchema[v]

\* What every copy of the object says of the schema: it supports the version
\* recorded as running, the target of an upgrade that rolls, and the target of one
\* that is about to.  No version of the copy is ahead of its spec.
SoundCopy(sp, st) ==
  LET up == st.upgrade
  IN  /\ Migrated(st.version)
      /\ st.version # None => st.version <= sp.version
      /\ up.phase # NoPhase => /\ up.from = st.version /\ up.from # None
                               /\ up.to # None /\ up.to <= sp.version
      /\ up.phase >= RollingFrontend => Migrated(up.to)
      /\ up.phase = SchemaMigrating /\ st.schemaReady => Migrated(up.to)

\* A copy read before the first version was stamped still wants a version whose
\* schema is there.
InstalledSince(o) ==
  status.version # None /\ o.status.version = None => Migrated(o.spec.version)

StoredInv ==
  /\ SoundCopy(spec, status)
  /\ \A s \in Services : dep[s].template # None => dep[s].template <= spec.version

CacheInv ==
  /\ SoundCopy(cache.spec, cache.status)
  /\ InstalledSince(cache)
  /\ cache.spec.version <= spec.version
  /\ synced => cache.spec = spec /\ cache.status = status

\* The pass: what it read is sound, its conditions are about the spec it read, and
\* a fresh pass has read the stored object.
PassInv ==
  /\ pc # "idle" =>
       /\ SoundCopy(mem.spec, mem.status)
       /\ InstalledSince(mem)
       /\ mem.spec.version <= spec.version
  /\ pc \in {"upgrade", "services", "status"}
       /\ mem.status.reachable /\ mem.status.schemaReady => Migrated(mem.spec.version)
  /\ pc = "services" /\ mem.status.upgrade.phase = NoPhase => Settled(mem)
  /\ fresh => /\ synced
              /\ mem.spec = spec
              /\ status.version = None => mem.status.version = None

\* The inductive invariant behind SchemaGate.
SchemaInv == StoredInv /\ CacheInv /\ PassInv /\ SchemaGate

-----------------------------------------------------------------------------
(* Type correctness.                                                       *)

\* Between passes the pass variables are well typed.
LEMMA NoPassType ==
  NoPass \in [spec : SpecType \cup {NoPass.spec}, status : StatusType, requeue : BOOLEAN]
  BY DEF NoPass, NewStatus, NoUpgrade, StatusType, UpgradeType, None, NoPhase, Complete

\* The upgrade a pass works on is well typed.
LEMMA CurrentUpgradeType ==
  ASSUME NEW o, o.spec \in SpecType, o.status \in StatusType
  PROVE  CurrentUpgrade(o) \in UpgradeType
  BY DEF CurrentUpgrade, SpecType, StatusType, UpgradeType, NoPhase, Pending, Complete

\* The phase after a rolling phase is a later rolling phase, or PostUpgrade.
LEMMA NextRollingPhaseType ==
  ASSUME NEW sp, NEW p \in RollingPhases
  PROVE  NextRollingPhase(sp, p) \in (p + 1)..PostUpgrade
  <1> DEFINE later == {s \in EnabledServices(sp) : s > RollingOf(p)}
  <1>1. later \subseteq 1..5
    BY ServicesAssumption, Zenon DEF EnabledServices, CoreServices
  <1>2. CASE later = {}
    BY <1>2 DEF NextRollingPhase, RollingPhases, RollingFrontend, RollingWorker, PostUpgrade
  <1>3. CASE later # {}
    <2>1. PICK m \in later : \A y \in later : m <= y
      BY <1>1, <1>3, SMT
    <2>2. Min(later) \in later
      BY <2>1, Zenon DEF Min
    <2> QED
      BY <1>1, <1>3, <2>2 DEF NextRollingPhase, RollingOf, RollingPhases, RollingFrontend,
           RollingWorker, PostUpgrade, SchemaMigrating
  <1> QED BY <1>2, <1>3, Zenon

\* Every step keeps the types: a pass copies well-typed objects and moves the phase
\* within its range, and pods are only removed where there are some.
LEMMA TypeStep == TypeOK /\ [Next]_vars => TypeOK'
  <1> SUFFICES ASSUME TypeOK, [Next]_vars PROVE TypeOK'
    BY Zenon
  <1> USE DEF TypeOK, object, pass, pods
  <1> DEFINE MemType == [spec : SpecType \cup {NoPass.spec}, status : StatusType, requeue : BOOLEAN]
  <1>a. Fault => faults' \in 0..MaxFaults
    BY FaultsAssumption DEF Fault
  <1>b. ASSUME NEW seen \in 0..schema, ReadsSchema(seen) PROVE faults' \in 0..MaxFaults
    BY <1>a, <1>b, Zenon DEF ReadsSchema
  <1>1. ASSUME NEW v \in Versions, EditVersion(v) PROVE TypeOK'
    BY <1>1, Zenon DEF EditVersion, Touched, SpecType
  <1>2. CASE EditInternalFrontend
    <2>1. spec' \in SpecType
      <3>1. (~ spec.internalFrontend) \in BOOLEAN
        BY Zenon
      <3> QED BY <1>2, <3>1, Zenon DEF EditInternalFrontend, SpecType
    <2> QED BY <1>2, <1>a, <2>1, Zenon DEF EditInternalFrontend, Touched
  <1>3. CASE SyncCache
    BY <1>3, Zenon DEF SyncCache
  <1>4. CASE Get
    BY <1>4, Zenon DEF Get
  <1>5. CASE PersistenceUnreachable
    <2>1. mem' \in MemType /\ mem'.spec = mem.spec
      BY <1>5, Zenon DEF PersistenceUnreachable, StatusType
    <2> QED BY <1>5, <1>a, <2>1, Zenon DEF PersistenceUnreachable
  <1>6. ASSUME NEW seen \in 0..schema, SchemaSatisfied(seen) PROVE TypeOK'
    <2>1. mem' \in MemType /\ mem'.spec = mem.spec
      BY <1>6, Zenon DEF SchemaSatisfied, StatusType
    <2> QED BY <1>6, <1>b, <2>1, Zenon DEF SchemaSatisfied
  <1>7. ASSUME NEW seen \in 0..schema, SchemaBehind(seen) PROVE TypeOK'
    <2>1. mem.spec.version \in Versions
      BY <1>7, Zenon DEF SchemaBehind, SpecType
    <2>2. /\ job' \in [image : Versions \cup {None}, state : {"absent", "running", "succeeded", "failed"}]
          /\ job'.state # "absent" => job'.image \in Versions
      BY <1>7, <2>1, Zenon DEF SchemaBehind, EnsureSchemaJob, NoJob
    <2>3. mem' \in MemType /\ mem'.spec = mem.spec
      <3>1. (job # [image |-> mem.spec.version, state |-> "failed"]) \in BOOLEAN
        BY Zenon
      <3> QED BY <1>7, <3>1, Zenon DEF SchemaBehind, StatusType
    <2> QED
      BY <1>7, <1>b, <2>2, <2>3, Zenon DEF SchemaBehind
  <1>8. ASSUME NEW ver \in Versions \cup {None}, NEW up \in UpgradeType, UpgradeStep(ver, up)
        PROVE  TypeOK'
    <2>1. mem' \in MemType /\ mem'.spec = mem.spec
      BY <1>8, Zenon DEF UpgradeStep, StatusType
    <2>2. EnabledServices(mem.spec) \subseteq Services
      BY Zenon DEF EnabledServices, CoreServices
    <2> QED BY <1>8, <2>1, <2>2, Zenon DEF UpgradeStep
  <1>c. NoUpgrade \in UpgradeType
    BY DEF NoUpgrade, UpgradeType, None, NoPhase, Complete
  <1>9. CASE NoUpgradeNeeded
    <2>1. mem.status.version \in Versions \cup {None}
      BY Zenon DEF StatusType
    <2> QED BY <1>8, <1>9, <1>c, <2>1, Zenon DEF NoUpgradeNeeded
  <1>10. CASE AdvanceUpgrade
    <2> DEFINE cur == CurrentUpgrade(mem)
    <2>1. pc = "upgrade" /\ mem.spec \in SpecType /\ mem.status \in StatusType
      BY <1>10, Zenon DEF AdvanceUpgrade, MoveTo, UpgradeStep
    <2>2. cur \in UpgradeType
      BY <2>1, CurrentUpgradeType, Zenon
    <2>3. ASSUME NEW ph \in NoPhase..Complete, NEW rb \in BOOLEAN, MoveTo(ph, rb) PROVE TypeOK'
      <3>1. [cur EXCEPT !.phase = ph, !.rollbackable = rb] \in UpgradeType
        BY <2>2, Zenon DEF UpgradeType
      <3> QED BY <3>1, <2>1, <2>3, <1>8, Zenon DEF MoveTo, StatusType
    <2>5. CASE cur.phase = Complete /\ UpgradeStep(cur.to, NoUpgrade)
      <3>1. cur.to \in Versions \cup {None}
        BY <2>2, Zenon DEF UpgradeType
      <3> QED BY <2>5, <3>1, <1>8, <1>c, Zenon
    <2>6. cur.rollbackable \in BOOLEAN /\ cur.phase \in NoPhase..Complete
      BY <2>2, Zenon DEF UpgradeType
    <2>7. cur.phase \in RollingPhases => NextRollingPhase(mem.spec, cur.phase) \in NoPhase..Complete
      BY NextRollingPhaseType DEF RollingPhases, RollingFrontend, RollingWorker, PostUpgrade,
           NoPhase, Complete
    <2>8. /\ PreflightChecks \in NoPhase..Complete /\ SchemaMigrating \in NoPhase..Complete
          /\ RollingFrontend \in NoPhase..Complete /\ Complete \in NoPhase..Complete
      BY DEF NoPhase, PreflightChecks, SchemaMigrating, RollingFrontend, Complete
    <2>9. CASE cur.phase = Pending /\ MoveTo(PreflightChecks, cur.rollbackable)
      BY <2>3, <2>6, <2>8, <2>9
    <2>10. CASE IF mem.status.reachable THEN MoveTo(SchemaMigrating, FALSE)
                                        ELSE MoveTo(cur.phase, cur.rollbackable)
      BY <2>3, <2>6, <2>8, <2>10, Zenon
    <2>11. CASE MoveTo(IF mem.status.schemaReady THEN RollingFrontend ELSE cur.phase, FALSE)
      BY <2>3, <2>6, <2>8, <2>11, Zenon
    <2>12. CASE /\ cur.phase \in RollingPhases
                /\ MoveTo(IF ServiceRolledOut(RollingOf(cur.phase), cur.to)
                          THEN NextRollingPhase(mem.spec, cur.phase) ELSE cur.phase,
                          cur.rollbackable)
      BY <2>3, <2>6, <2>7, <2>12
    <2>13. CASE MoveTo(Complete, cur.rollbackable)
      BY <2>3, <2>6, <2>8, <2>13, Zenon
    <2> HIDE DEF TypeOK, cur
    <2> QED
      BY <1>10, <2>5, <2>9, <2>10, <2>11, <2>12, <2>13, Zenon DEF AdvanceUpgrade, cur
  <1>11. ASSUME NEW s \in Services, ApplyDeployment(s) PROVE TypeOK'
    <2>1. ServiceVersion(mem, s) \in Versions \cup {None}
      BY <1>11, Zenon DEF ApplyDeployment, ServiceVersion, SpecType, StatusType, UpgradeType
    <2> QED BY <1>11, <2>1, Zenon DEF ApplyDeployment
  <1>12. CASE RollupServiceStatus
    <2>1. (\A s \in EnabledServices(mem.spec) : SumFunction(rdy[s]) >= 1) \in BOOLEAN
      BY Zenon
    <2>2. mem' \in MemType /\ mem'.spec = mem.spec
      BY <1>12, <2>1, Zenon DEF RollupServiceStatus, StatusType
    <2> QED BY <1>12, <2>2, Zenon DEF RollupServiceStatus
  <1>13. CASE UpdateStatus
    <2>1. ComputeReady(mem) \in StatusType
      BY <1>13, Zenon DEF UpdateStatus, ComputeReady, StatusType, SpecType
    <2> QED BY <1>13, <2>1, NoPassType, Zenon DEF UpdateStatus, EndPass
  <1>14. CASE ConflictOnStatus
    BY <1>14, NoPassType, Zenon DEF ConflictOnStatus, EndPass
  <1>15. CASE AbortPass
    BY <1>15, <1>a, NoPassType, Zenon DEF AbortPass, EndPass
  <1>16. CASE JobMigrates
    BY <1>16, SchemaAssumption, Zenon DEF JobMigrates
  <1>17. CASE JobSucceeds \/ JobFails
    BY <1>17, <1>a, Zenon DEF JobSucceeds, JobFails, JobEnds
  <1>18. CASE JobExpires
    BY <1>18, Zenon DEF JobExpires, NoJob
  <1>19. ASSUME NEW s \in Services, ObserveDeployment(s) PROVE TypeOK'
    BY <1>19 DEF ObserveDeployment
  <1>20. ASSUME NEW s \in Services, ScaleUp(s) PROVE TypeOK'
    BY <1>20 DEF ScaleUp, Rolls
  <1>21. ASSUME NEW s \in Services, NEW v \in Versions, ScaleDown(s, v) PROVE TypeOK'
    <2>1. /\ run' = [run EXCEPT ![s][v] = @ - 1]
          /\ run[s][v] > 0
          /\ UNCHANGED <<object, pass, schema, job, dep, faults>> /\ queued' = TRUE
      BY <1>21, Zenon DEF ScaleDown, Rolls
    <2>2. CASE rdy[s][v] < run[s][v] /\ UNCHANGED rdy
      BY <2>1, <2>2
    <2>3. CASE rdy[s][v] = run[s][v] /\ rdy' = [rdy EXCEPT ![s][v] = @ - 1]
      BY <2>1, <2>3
    <2> QED BY <1>21, <2>2, <2>3, Zenon DEF ScaleDown
  <1>22. ASSUME NEW s \in Services, NEW v \in Versions, PodReady(s, v) PROVE TypeOK'
    BY <1>22 DEF PodReady
  <1>23. ASSUME NEW s \in Services, NEW v \in Versions, PodUnready(s, v) PROVE TypeOK'
    BY <1>23, <1>a DEF PodUnready
  <1>24. CASE UNCHANGED vars
    BY <1>24, Zenon DEF vars
  <1> QED
    BY <1>1, <1>2, <1>3, <1>4, <1>5, <1>6, <1>7, <1>9, <1>10, <1>11, <1>12, <1>13, <1>14,
       <1>15, <1>16, <1>17, <1>18, <1>19, <1>20, <1>21, <1>22, <1>23, <1>24, Zenon
    DEF Next, Reconcile, ReconcilePersistence, ReconcileUpgrade, User, Environment

\* The types hold in every reachable state of the reconciler, however its passes
\* interleave with users, Jobs and pods.
THEOREM TypeCorrect == Spec => []TypeOK
  <1>1. Init => TypeOK
    <2> SUFFICES ASSUME Init PROVE TypeOK
      BY Zenon
    <2>1. NewStatus \in StatusType
      BY DEF NewStatus, StatusType, UpgradeType, NoUpgrade, None, NoPhase, Complete
    <2>2. /\ spec \in SpecType /\ status \in StatusType
          /\ cache \in [spec : SpecType, status : StatusType]
      BY <2>1, Zenon DEF Init, SpecType
    <2>3. /\ run \in [Services -> [Versions -> Nat]]
          /\ rdy \in [Services -> [Versions -> Nat]]
          /\ \A s \in Services, v \in Versions : rdy[s][v] <= run[s][v]
      BY DEF Init
    <2>4. faults \in 0..MaxFaults
      BY FaultsAssumption DEF Init
    <2> QED BY <2>2, <2>3, <2>4, NoPassType, Zenon DEF Init, TypeOK, NoJob
  <1> QED BY <1>1, TypeStep, PTL DEF Spec

-----------------------------------------------------------------------------
(* The schema gate.                                                        *)

\* The webhook lets spec.version move forward only (CanUpgrade).
LEMMA CanUpgradeForward ==
  ASSUME NEW from \in Versions, NEW to \in Versions, CanUpgrade(from, to), to # from
  PROVE  from < to
  BY MatrixAssumption, VersionsAssumption DEF CanUpgrade

\* A schema that supports a version supports the earlier ones.
LEMMA MigratedDown ==
  ASSUME NEW a \in Versions, NEW b \in Versions, a <= b, schema \in Nat, Migrated(b)
  PROVE  Migrated(a)
  BY SchemaAssumption, VersionsAssumption DEF Migrated, None

\* Jobs and pods move under the reconciler: the schema only grows, templates stay.
LEMMA EnvironmentStep ==
  ASSUME TypeOK, TypeOK', SchemaInv, UNCHANGED <<object, pass>>, schema' >= schema,
         \A s \in Services : dep'[s].template = dep[s].template
  PROVE  SchemaInv'
  <1> USE DEF object, pass
  <1>1. ASSUME NEW v \in Versions \cup {None}, Migrated(v) PROVE Migrated(v)'
    BY <1>1, SchemaAssumption DEF Migrated, TypeOK
  <1>2. ASSUME NEW sp, NEW st \in StatusType, SoundCopy(sp, st) PROVE SoundCopy(sp, st)'
    BY <1>1, <1>2, Zenon DEF SoundCopy, StatusType, UpgradeType
  <1>3. StoredInv'
    BY <1>2, Zenon DEF SchemaInv, StoredInv, TypeOK
  <1>4. CacheInv'
    <2>1. cache.spec.version \in Versions
      BY Zenon DEF TypeOK, SpecType
    <2> QED BY <1>1, <1>2, <2>1, Zenon DEF SchemaInv, CacheInv, TypeOK, InstalledSince
  <1>5. PassInv'
    <2>1. mem.spec.version \in Versions \cup {None}
      BY DEF TypeOK, SpecType, NoPass
    <2> QED BY <1>1, <1>2, <2>1, Zenon DEF SchemaInv, PassInv, TypeOK, InstalledSince, Settled
  <1>6. SchemaGate'
    BY SchemaAssumption DEF SchemaInv, SchemaGate, TypeOK
  <1> QED BY <1>3, <1>4, <1>5, <1>6, Zenon DEF SchemaInv

\* Users only move spec.version up, which leaves every copy behind it.
LEMMA UserStep ==
  ASSUME TypeOK, SchemaInv, NEW sp \in SpecType, spec.version <= sp.version, spec' = sp,
         Touched, UNCHANGED <<status, cache, mem, pc, todo, schema, dep>>
  PROVE  SchemaInv'
  <1>1. spec.version \in Nat /\ sp.version \in Nat
    BY VersionsAssumption, Zenon DEF TypeOK, SpecType
  <1>2. \A v \in Versions \cup {None} : v \in Nat /\ (v <= spec.version => v <= sp.version)
    BY <1>1, VersionsAssumption DEF None
  <1>3. StoredInv'
    <2>1. SoundCopy(spec, status)'
      BY <1>2, Zenon DEF SchemaInv, StoredInv, SoundCopy, Migrated, TypeOK, StatusType, UpgradeType
    <2>2. \A s \in Services : dep[s].template \in Versions \cup {None}
      BY Zenon DEF TypeOK
    <2> QED BY <1>2, <2>1, <2>2, Zenon DEF SchemaInv, StoredInv
  <1>4. CacheInv'
    <2>1. cache.spec.version \in Versions
      BY Zenon DEF TypeOK, SpecType
    <2> QED BY <1>2, <2>1, Zenon DEF SchemaInv, CacheInv, SoundCopy, Migrated, InstalledSince, Touched
  <1>5. PassInv'
    <2>1. pc # "idle" => mem.spec.version \in Versions
      BY Zenon DEF TypeOK, SpecType
    <2> QED BY <1>2, <2>1, Zenon
            DEF SchemaInv, PassInv, SoundCopy, Migrated, InstalledSince, Settled, Touched
  <1>6. SchemaGate'
    BY Zenon DEF SchemaInv, SchemaGate
  <1> QED BY <1>3, <1>4, <1>5, <1>6, Zenon DEF SchemaInv

\* The watch makes the cache a copy of the stored object.
LEMMA SyncCacheStep ==
  ASSUME TypeOK, SchemaInv, SyncCache
  PROVE  SchemaInv'
  <1> USE DEF SyncCache, pass
  <1>1. StoredInv' /\ SchemaGate'
    BY Zenon DEF SchemaInv, StoredInv, SoundCopy, Migrated, SchemaGate
  <1>2. CacheInv'
    <2>1. spec.version \in Nat
      BY VersionsAssumption, Zenon DEF TypeOK, SpecType
    <2> QED BY <2>1 DEF SchemaInv, StoredInv, CacheInv, SoundCopy, Migrated, InstalledSince
  <1>3. PassInv'
    BY Zenon DEF SchemaInv, PassInv, SoundCopy, Migrated, InstalledSince, Settled
  <1> QED BY <1>1, <1>2, <1>3, Zenon DEF SchemaInv

\* A step of the pass that writes nothing durable changes PassInv only.
LEMMA PrivateStep ==
  ASSUME SchemaInv, UNCHANGED <<object, schema, dep>>, PassInv'
  PROVE  SchemaInv'
  BY DEF SchemaInv, StoredInv, CacheInv, SchemaGate, SoundCopy, Migrated, InstalledSince, object

\* A pass starts on the cached object.
LEMMA GetStep ==
  ASSUME TypeOK, SchemaInv, Get
  PROVE  SchemaInv'
  <1>1. PassInv'
    BY Zenon DEF Get, object, SchemaInv, CacheInv, PassInv, SoundCopy, Migrated, InstalledSince, Settled
  <1> QED BY <1>1, PrivateStep, Zenon DEF Get

\* A pass that ends leaves nothing behind.
LEMMA EndPassStep ==
  ASSUME EndPass
  PROVE  PassInv'
  BY Zenon DEF EndPass, PassInv

\* Reachable and SchemaReady, once set by this pass, are about the spec it read.
LEMMA PersistenceStep ==
  ASSUME TypeOK, SchemaInv, ReconcilePersistence
  PROVE  SchemaInv'
  <1>0. mem \in [spec : SpecType \cup {NoPass.spec}, status : StatusType, requeue : BOOLEAN]
        /\ schema \in Nat
    BY Zenon DEF TypeOK
  <1>1. CASE PersistenceUnreachable
    <2>1. PassInv'
      BY <1>0, <1>1, Zenon DEF PersistenceUnreachable, object, SchemaInv, PassInv, SoundCopy, Migrated,
         InstalledSince, Settled, StatusType
    <2> QED BY <1>1, <2>1, PrivateStep, Zenon DEF PersistenceUnreachable
  <1>2. ASSUME NEW seen \in 0..schema, SchemaSatisfied(seen) PROVE SchemaInv'
    <2>1. mem.spec.version \in Versions /\ Migrated(mem.spec.version)
      BY <1>0, <1>2, SchemaAssumption DEF SchemaSatisfied, Migrated, TypeOK, SpecType
    <2>2. mem.status.upgrade.phase # NoPhase => Migrated(mem.status.upgrade.to)
      <3>1. mem.status.upgrade.to \in Versions \cup {None}
        BY <1>0, Zenon DEF StatusType, UpgradeType
      <3> QED BY <1>0, <1>2, <2>1, <3>1, MigratedDown, Zenon DEF SchemaSatisfied, SchemaInv, PassInv, SoundCopy
    <2>3. /\ pc = "persistence" /\ pc' = "upgrade"
          /\ mem'.spec = mem.spec
          /\ mem'.status.version = mem.status.version
          /\ mem'.status.upgrade = mem.status.upgrade
          /\ UNCHANGED <<object, fresh, schema>>
      BY <1>0, <1>2, Zenon DEF SchemaSatisfied, StatusType
    <2>4. SoundCopy(mem.spec, mem.status)'
      BY <2>2, <2>3 DEF object, SchemaInv, PassInv, SoundCopy, Migrated, NoPhase, SchemaMigrating
    <2>5. PassInv'
      BY <2>1, <2>3, <2>4, Zenon DEF object, SchemaInv, PassInv, InstalledSince, Migrated
    <2> QED BY <1>2, <2>5, PrivateStep, Zenon DEF SchemaSatisfied
  <1>3. ASSUME NEW seen \in 0..schema, SchemaBehind(seen) PROVE SchemaInv'
    <2>1. PassInv'
      BY <1>0, <1>3, Zenon DEF SchemaBehind, object, SchemaInv, PassInv, SoundCopy, Migrated,
         InstalledSince, Settled, StatusType
    <2> QED BY <1>3, <2>1, PrivateStep, Zenon DEF SchemaBehind
  <1> QED BY <1>1, <1>2, <1>3, Zenon DEF ReconcilePersistence

\* The phase machine reaches a rolling phase only through a pass that saw the store
\* at the level of its own target.
LEMMA UpgradeStepSound ==
  ASSUME TypeOK, SchemaInv, pc = "upgrade",
         NEW ver \in Versions \cup {None}, NEW up \in UpgradeType, UpgradeStep(ver, up),
         ver = None <=> mem.status.version = None,
         SoundCopy(mem.spec, [mem.status EXCEPT !.version = ver, !.upgrade = up]),
         up.phase = NoPhase => ver \in {None, mem.spec.version}
  PROVE  SchemaInv'
  <1>1. /\ mem'.spec = mem.spec
        /\ mem'.status = [mem.status EXCEPT !.version = ver, !.upgrade = up]
        /\ mem'.status.version = ver
        /\ mem'.status.upgrade = up
        /\ mem'.status.reachable = mem.status.reachable
        /\ mem'.status.schemaReady = mem.status.schemaReady
        /\ pc' \in {"services", "status"}
        /\ UNCHANGED <<object, fresh, schema, dep>>
    BY Zenon DEF UpgradeStep, TypeOK, StatusType
  <1>2. SoundCopy(mem.spec, mem.status)'
    BY <1>1, Zenon DEF SoundCopy, Migrated
  <1>3. PassInv'
    BY <1>1, <1>2, Zenon DEF SchemaInv, PassInv, InstalledSince, Migrated, Settled, object
  <1> QED BY <1>1, <1>3, PrivateStep, Zenon

\* A step of reconcileUpgrade keeps the invariant, whichever phase it leaves.
LEMMA UpgradePassStep ==
  ASSUME TypeOK, SchemaInv, ReconcileUpgrade
  PROVE  SchemaInv'
  <1> DEFINE st  == mem.status
             cur == CurrentUpgrade(mem)
  <1>0. /\ pc = "upgrade" /\ mem.spec \in SpecType /\ st \in StatusType
        /\ mem.spec.version \in Versions /\ st.version \in Versions \cup {None}
        /\ schema \in Nat
    BY Zenon DEF ReconcileUpgrade, NoUpgradeNeeded, AdvanceUpgrade, MoveTo, UpgradeStep, TypeOK,
           SpecType, StatusType
  <1>v. mem.spec.version # None /\ mem.spec.version <= mem.spec.version
    <2>1. \A v \in Versions : v # None /\ v <= v
      BY VersionsAssumption DEF None
    <2> QED BY <1>0, <2>1, Zenon
  <1>1. /\ SoundCopy(mem.spec, st)
        /\ st.reachable /\ st.schemaReady => Migrated(mem.spec.version)
    BY <1>0, Zenon DEF SchemaInv, PassInv
  <1>2. CASE NoUpgradeNeeded
    <2>1. NoUpgrade \in UpgradeType /\ NoUpgrade.phase = NoPhase
      BY DEF NoUpgrade, UpgradeType, None, NoPhase, Complete
    <2>2. SoundCopy(mem.spec, [st EXCEPT !.version = st.version, !.upgrade = NoUpgrade])
      BY <1>0, <1>1, <2>1 DEF SoundCopy, StatusType, NoPhase, RollingFrontend, SchemaMigrating
    <2> QED BY <1>0, <1>2, <2>1, <2>2, UpgradeStepSound, Zenon DEF NoUpgradeNeeded, Settled
  <1>3. CASE AdvanceUpgrade
    <2>0. st.version # None /\ cur \in UpgradeType
      BY <1>0, <1>3, CurrentUpgradeType, Zenon DEF AdvanceUpgrade, Settled
    <2>1. /\ cur.from = st.version /\ cur.to = mem.spec.version
          /\ cur.phase # NoPhase
          /\ cur.phase >= RollingFrontend => Migrated(cur.to)
          /\ cur.phase = SchemaMigrating /\ st.schemaReady => Migrated(cur.to)
      BY <1>0, <1>1 DEF CurrentUpgrade, SoundCopy, Pending, NoPhase, RollingFrontend, SchemaMigrating
    <2>2. ASSUME NEW ph \in Pending..Complete, NEW rb \in BOOLEAN, MoveTo(ph, rb),
                 ph >= RollingFrontend => Migrated(cur.to),
                 ph = SchemaMigrating /\ st.schemaReady => Migrated(cur.to)
          PROVE  SchemaInv'
      <3> DEFINE up == [cur EXCEPT !.phase = ph, !.rollbackable = rb]
      <3>0. ph \in NoPhase..Complete /\ ph # NoPhase
        BY DEF Pending, NoPhase, Complete
      <3>1. up \in UpgradeType /\ up.phase = ph /\ up.from = cur.from /\ up.to = cur.to
        BY <2>0, <3>0, Zenon DEF UpgradeType
      <3>2. UpgradeStep(st.version, up)
        BY <2>2, Zenon DEF MoveTo
      <3> HIDE DEF up
      <3>3. SoundCopy(mem.spec, [st EXCEPT !.version = st.version, !.upgrade = up])
        <4>1. cur.to # None /\ cur.to <= mem.spec.version
          BY <1>v, <2>1, Zenon
        <4> QED BY <1>0, <1>1, <2>0, <2>1, <2>2, <3>0, <3>1, <4>1, Zenon DEF SoundCopy, StatusType
      <3> QED BY <1>0, <3>0, <3>1, <3>2, <3>3, UpgradeStepSound, Zenon
    <2>3. cur.phase \in NoPhase..Complete /\ cur.rollbackable \in BOOLEAN
      BY <2>0, Zenon DEF UpgradeType
    <2>p. /\ SchemaMigrating \in Pending..Complete /\ ~ (SchemaMigrating >= RollingFrontend)
          /\ RollingFrontend \in Pending..Complete /\ RollingFrontend # SchemaMigrating
      BY DEF Pending, SchemaMigrating, RollingFrontend, Complete
    <2>t. FALSE \in BOOLEAN
      BY Zenon
    <2>5. CASE /\ cur.phase = PreflightChecks
               /\ IF st.reachable THEN MoveTo(SchemaMigrating, FALSE)
                                  ELSE MoveTo(cur.phase, cur.rollbackable)
      <3>1. CASE st.reachable
        <4>1. MoveTo(SchemaMigrating, FALSE)
          BY <2>5, <3>1, Zenon
        <4>2. st.schemaReady => Migrated(cur.to)
          BY <1>1, <2>1, <3>1, Zenon
        <4> QED BY <2>2, <2>p, <2>t, <4>1, <4>2, Zenon
      <3>2. CASE ~ st.reachable
        BY <2>2, <2>3, <2>5, <3>2
           DEF Pending, PreflightChecks, SchemaMigrating, RollingFrontend, Complete
      <3> QED BY <3>1, <3>2, Zenon
    <2>6. CASE /\ cur.phase = SchemaMigrating
               /\ MoveTo(IF st.schemaReady THEN RollingFrontend ELSE cur.phase, FALSE)
      <3>1. CASE st.schemaReady
        <4>1. MoveTo(RollingFrontend, FALSE)
          BY <2>6, <3>1, Zenon
        <4>2. Migrated(cur.to)
          BY <2>1, <2>6, <3>1, Zenon
        <4> QED BY <2>2, <2>p, <2>t, <4>1, <4>2, Zenon
      <3>2. CASE ~ st.schemaReady
        <4>1. MoveTo(SchemaMigrating, FALSE)
          BY <2>6, <3>2, Zenon
        <4> QED BY <2>2, <2>p, <2>t, <3>2, <4>1, Zenon
      <3> QED BY <3>1, <3>2, Zenon
    <2> USE DEF NoPhase, Pending, PreflightChecks, SchemaMigrating, RollingFrontend, RollingWorker,
                PostUpgrade, Complete, RollingPhases
    <2>4. CASE cur.phase = Pending /\ MoveTo(PreflightChecks, cur.rollbackable)
      BY <2>2, <2>3, <2>4
    <2>7. CASE /\ cur.phase \in RollingPhases
               /\ MoveTo(IF ServiceRolledOut(RollingOf(cur.phase), cur.to)
                         THEN NextRollingPhase(mem.spec, cur.phase) ELSE cur.phase,
                         cur.rollbackable)
      <3>1. NextRollingPhase(mem.spec, cur.phase) \in (cur.phase + 1)..PostUpgrade
        BY <2>7, NextRollingPhaseType, Zenon
      <3> QED BY <2>1, <2>2, <2>3, <2>7, <3>1
    <2>8. CASE cur.phase = PostUpgrade /\ MoveTo(Complete, cur.rollbackable)
      BY <2>1, <2>2, <2>3, <2>8
    <2>9. CASE cur.phase = Complete /\ UpgradeStep(cur.to, NoUpgrade)
      <3>1. NoUpgrade \in UpgradeType /\ NoUpgrade.phase = NoPhase
        BY DEF NoUpgrade, UpgradeType, None
      <3>2. Migrated(cur.to) /\ cur.to # None /\ cur.to <= mem.spec.version
        <4>1. Migrated(cur.to)
          BY <2>1, <2>9
        <4>2. mem.spec.version # None /\ mem.spec.version <= mem.spec.version
          BY <1>v, Zenon
        <4> QED BY <2>1, <4>1, <4>2, Zenon
      <3>3. SoundCopy(mem.spec, [st EXCEPT !.version = cur.to, !.upgrade = NoUpgrade])
        BY <1>0, <3>1, <3>2 DEF SoundCopy, StatusType
      <3> QED BY <1>0, <2>0, <2>1, <2>9, <3>1, <3>2, <3>3, UpgradeStepSound, Zenon
    <2> HIDE DEF SchemaInv, cur
    <2> QED BY <1>3, <2>4, <2>5, <2>6, <2>7, <2>8, <2>9, Zenon DEF AdvanceUpgrade, cur
  <1> QED BY <1>2, <1>3, Zenon DEF ReconcileUpgrade

\* A Deployment is templated at a version the schema supports, unless the cluster
\* is still being installed.
LEMMA ApplyStep ==
  ASSUME TypeOK, TypeOK', SchemaInv, NEW s \in Services, ApplyDeployment(s)
  PROVE  SchemaInv'
  <1> DEFINE v == ServiceVersion(mem, s)
  <1>0. /\ pc = "services" /\ mem.spec.version \in Versions
        /\ mem.spec.version <= spec.version
        /\ SoundCopy(mem.spec, mem.status) /\ InstalledSince(mem)
        /\ mem.status.upgrade.phase = NoPhase => Settled(mem)
        /\ mem.status.upgrade \in UpgradeType
    BY Zenon DEF ApplyDeployment, SchemaInv, PassInv, TypeOK, SpecType, StatusType
  <1>1. UNCHANGED <<object, mem, fresh, pc, schema>> /\ dep' = [dep EXCEPT ![s].template = v]
    BY Zenon DEF ApplyDeployment
  <1>2. v \in Versions /\ v <= mem.spec.version
    <2>1. \A x \in Versions : x \in Nat /\ x <= x
      BY VersionsAssumption
    <2> QED BY <1>0, <2>1, Zenon DEF ServiceVersion, SoundCopy, UpgradeType
  <1>3. status.version # None => Migrated(v)
    <2>1. CASE mem.status.upgrade.phase = NoPhase
      BY <1>0, <2>1, Zenon DEF ServiceVersion, Settled, InstalledSince, SoundCopy
    <2>2. CASE mem.status.upgrade.phase # NoPhase /\ s <= RollingOf(mem.status.upgrade.phase)
      <3>1. mem.status.upgrade.phase >= RollingFrontend
        BY <1>0, <2>2, ServicesAssumption DEF RollingOf, UpgradeType, SchemaMigrating, RollingFrontend
      <3> QED BY <1>0, <2>2, <3>1, Zenon DEF ServiceVersion, SoundCopy
    <2>3. CASE mem.status.upgrade.phase # NoPhase /\ ~ (s <= RollingOf(mem.status.upgrade.phase))
      BY <1>0, <2>3, Zenon DEF ServiceVersion, SoundCopy
    <2> QED BY <2>1, <2>2, <2>3, Zenon
  <1> HIDE DEF v
  <1>4. \A t \in Services : dep'[t].template = IF t = s THEN v ELSE dep[t].template
    BY <1>1 DEF TypeOK
  <1>5. v <= spec.version
    <2>1. spec.version \in Nat /\ mem.spec.version \in Nat /\ v \in Nat
      BY <1>0, <1>2, VersionsAssumption, Zenon DEF TypeOK, SpecType
    <2> QED BY <1>0, <1>2, <2>1
  <1>6. StoredInv'
    BY <1>1, <1>4, <1>5, Zenon DEF object, SchemaInv, StoredInv, SoundCopy, Migrated
  <1>7. CacheInv' /\ PassInv'
    BY <1>1 DEF object, SchemaInv, CacheInv, PassInv, SoundCopy, Migrated, InstalledSince, Settled
  <1>8. SchemaGate'
    BY <1>1, <1>2, <1>3, <1>4, Zenon DEF object, SchemaInv, SchemaGate, Migrated
  <1> QED BY <1>6, <1>7, <1>8, Zenon DEF SchemaInv

\* The version stamped on a fresh install is one the pass saw the schema reach; all
\* templates are at or below it.
LEMMA UpdateStatusStep ==
  ASSUME TypeOK, TypeOK', SchemaInv, UpdateStatus
  PROVE  SchemaInv'
  <1> DEFINE st == ComputeReady(mem)
             stamped == st.ready /\ mem.status.upgrade.phase = NoPhase
  <1>0. /\ pc = "status" /\ fresh /\ synced
        /\ mem.spec = spec /\ cache.spec = spec /\ cache.status = status
        /\ status.version = None => mem.status.version = None
        /\ SoundCopy(spec, mem.status)
        /\ mem.status.reachable /\ mem.status.schemaReady => Migrated(spec.version)
        /\ mem.status \in StatusType /\ spec.version \in Versions /\ schema \in Nat
    BY Zenon DEF UpdateStatus, SchemaInv, PassInv, CacheInv, TypeOK, SpecType
  <1>1. /\ status' = st /\ EndPass
        /\ UNCHANGED <<spec, cache, schema, dep>>
        /\ synced' = (status' = status)
    BY Zenon DEF UpdateStatus
  <1>2. /\ st.upgrade = mem.status.upgrade /\ st.schemaReady = mem.status.schemaReady
        /\ st.ready => mem.status.reachable /\ mem.status.schemaReady
        /\ st.version = IF stamped THEN spec.version ELSE mem.status.version
    BY <1>0, Zenon DEF ComputeReady, StatusType
  <1> HIDE DEF st
  <1>3. stamped => Migrated(spec.version)
    BY <1>0, <1>2, Zenon
  <1>4. \A x \in Versions : x \in Nat /\ x # None
    BY VersionsAssumption, Zenon DEF None
  <1>5. SoundCopy(spec, st)
    BY <1>0, <1>2, <1>3, <1>4 DEF SoundCopy
  <1>6. StoredInv'
    BY <1>1, <1>5, Zenon DEF SchemaInv, StoredInv, SoundCopy, Migrated
  <1>7. st.version # None /\ status.version = None => Migrated(spec.version)
    BY <1>0, <1>2, <1>3, Zenon
  <1>8. CacheInv'
    BY <1>0, <1>1, <1>7, Zenon DEF SchemaInv, CacheInv, SoundCopy, InstalledSince, Migrated
  <1>9. SchemaGate'
    <2>1. CASE status.version # None
      BY <1>1, <2>1, Zenon DEF SchemaInv, SchemaGate
    <2>2. CASE status.version = None /\ st.version # None
      <3>1. ASSUME NEW s \in Services, dep[s].template # None PROVE schema >= MinSchema[dep[s].template]
        <4>1. dep[s].template \in Versions /\ dep[s].template <= spec.version
          BY <3>1, Zenon DEF TypeOK, SchemaInv, StoredInv
        <4> QED BY <1>0, <1>7, <2>2, <3>1, <4>1, MigratedDown, Zenon DEF Migrated
      <3> QED BY <1>1, <3>1, Zenon DEF SchemaGate
    <2>3. CASE st.version = None
      BY <1>1, <2>3, Zenon DEF SchemaGate
    <2> QED BY <2>1, <2>2, <2>3, Zenon
  <1> QED BY <1>1, <1>6, <1>8, <1>9, EndPassStep, Zenon DEF SchemaInv

\* SchemaInv is inductive.
LEMMA SchemaInvStep == TypeOK /\ TypeOK' /\ SchemaInv /\ [Next]_vars => SchemaInv'
  <1> SUFFICES ASSUME TypeOK, TypeOK', SchemaInv, [Next]_vars PROVE SchemaInv'
    BY Zenon
  <1>0. \A a, b \in Versions : a < b \/ a = b => a <= b
    BY VersionsAssumption
  <1>1. ASSUME NEW v \in Versions, EditVersion(v) PROVE SchemaInv'
    <2>1. spec.version \in Versions /\ spec' \in SpecType /\ spec'.version = v
      BY <1>1, Zenon DEF EditVersion, TypeOK, SpecType
    <2>2. spec.version <= v
      <3>1. spec.version < v
        BY <1>1, <2>1, CanUpgradeForward, Zenon DEF EditVersion
      <3> QED BY <1>0, <2>1, <3>1, Zenon
    <2> QED BY <1>1, <2>1, <2>2, UserStep, Zenon DEF EditVersion
  <1>2. CASE EditInternalFrontend
    <2>1. spec' \in SpecType /\ spec'.version = spec.version
      BY <1>2, Zenon DEF EditInternalFrontend, TypeOK, SpecType
    <2>2. spec.version <= spec'.version
      BY <1>0, <2>1, Zenon DEF SpecType
    <2> QED BY <1>2, <2>1, <2>2, UserStep, Zenon DEF EditInternalFrontend
  <1>3. CASE RollupServiceStatus
    <2>1. /\ pc = "services" /\ pc' = "status" /\ mem'.spec = mem.spec
          /\ mem'.status.version = mem.status.version
          /\ mem'.status.upgrade = mem.status.upgrade
          /\ mem'.status.reachable = mem.status.reachable
          /\ mem'.status.schemaReady = mem.status.schemaReady
          /\ UNCHANGED <<object, fresh, schema, dep>>
      BY <1>3, Zenon DEF RollupServiceStatus, TypeOK, StatusType
    <2>2. PassInv'
      BY <2>1, Zenon DEF SchemaInv, PassInv, SoundCopy, Migrated, InstalledSince, object
    <2> QED BY <2>1, <2>2, PrivateStep, Zenon
  <1>4. CASE ConflictOnStatus \/ AbortPass
    BY <1>4, EndPassStep, PrivateStep, Zenon DEF ConflictOnStatus, AbortPass
  <1>5. CASE JobMigrates
    BY <1>5, SchemaAssumption, EnvironmentStep DEF JobMigrates, TypeOK
  <1>6. CASE JobSucceeds \/ JobFails \/ JobExpires
    BY <1>6, EnvironmentStep DEF JobSucceeds, JobFails, JobEnds, JobExpires, TypeOK
  <1>7. ASSUME NEW s \in Services, ObserveDeployment(s) PROVE SchemaInv'
    <2>1. \A t \in Services : dep'[t].template = dep[t].template
      BY <1>7 DEF ObserveDeployment, TypeOK
    <2> QED BY <1>7, <2>1, EnvironmentStep DEF ObserveDeployment, TypeOK
  <1>8. ASSUME NEW s \in Services, ScaleUp(s) \/ \E v \in Versions : ScaleDown(s, v) PROVE SchemaInv'
    BY <1>8, EnvironmentStep DEF ScaleUp, ScaleDown, Rolls, TypeOK
  <1>9. ASSUME NEW s \in Services, NEW v \in Versions, PodReady(s, v) \/ PodUnready(s, v)
        PROVE  SchemaInv'
    BY <1>9, EnvironmentStep DEF PodReady, PodUnready, TypeOK
  <1>10. CASE UNCHANGED vars
    BY <1>10, EnvironmentStep DEF vars, TypeOK
  <1> QED
    BY <1>1, <1>2, <1>3, <1>4, <1>5, <1>6, <1>7, <1>8, <1>9, <1>10, SyncCacheStep, GetStep,
       PersistenceStep, UpgradePassStep, ApplyStep, UpdateStatusStep, Zenon
    DEF Next, Reconcile, User, Environment

\* What every copy says of the schema holds in every reachable state.
THEOREM SchemaInvariance == Spec => []SchemaInv
  <1>1. Init => SchemaInv
    <2> SUFFICES ASSUME Init PROVE SchemaInv
      OBVIOUS
    <2>1. /\ status.version = None /\ status.upgrade.phase = NoPhase
          /\ cache.spec = spec /\ cache.status = status
          /\ pc = "idle" /\ ~ fresh
          /\ \A s \in Services : dep[s].template = None
      BY Zenon DEF Init, NewStatus, NoUpgrade
    <2>2. SoundCopy(spec, status)
      BY <2>1 DEF SoundCopy, Migrated, NoPhase, RollingFrontend, SchemaMigrating
    <2>3. spec.version <= spec.version
      <3>1. \A v \in Versions : v <= v
        BY VersionsAssumption
      <3> QED BY <3>1, Zenon DEF Init
    <2> QED BY <2>1, <2>2, <2>3, Zenon
            DEF SchemaInv, StoredInv, CacheInv, PassInv, SchemaGate, InstalledSince
  <1> QED BY <1>1, TypeCorrect, SchemaInvStep, PTL DEF Spec

\* Schema migrations run before any service of an installed cluster is rolled, for
\* every version matrix, set of roles, interleaving of edits and passes, stale cache
\* and lost pass: reconcileServices never templates a server the schema is behind of.
THEOREM SchemaBeforeServices == Spec => []SchemaGate
  <1>1. SchemaInv => SchemaGate
    BY Zenon DEF SchemaInv
  <1> QED BY <1>1, SchemaInvariance, PTL

-----------------------------------------------------------------------------
(* The upgrade.                                                            *)

\* A cluster that runs one version and is asked for another.
Upgrading == status.version # None /\ status.version # spec.version

Done == Complete + 1

\* How far a copy of the object says the upgrade to the stored spec.version has come: its
\* phase, nothing for a copy with an older spec, past the last for one that is there.
Level(sp, st) ==
  IF sp.version # spec.version THEN 0
  ELSE IF st.version = sp.version THEN Done
  ELSE IF st.upgrade.phase = NoPhase \/ st.upgrade.to # sp.version THEN Pending
  ELSE st.upgrade.phase

Stored == Level(spec, status)
Cached == Level(cache.spec, cache.status)
Passed == Level(mem.spec, mem.status)

\* Service s has been rolled to the requested version.
Rolled(s) == dep[s].template = spec.version /\ run[s][spec.version] = Replicas[s]

\* A level is honest: the services it has left behind are rolled.
Honest(l) == \A s \in CoreServices : SchemaMigrating + s < l => Rolled(s)

\* A service that is always enabled has its turn strictly between two levels.
Gap(k, l) == \E s \in CoreServices : k < SchemaMigrating + s /\ SchemaMigrating + s < l

\* No step skips a service, and no copy is more than a step away from another.
Near(k, l) == ~ Gap(k, l) /\ ~ Gap(l, k)

\* No service is at the requested version that level l could not have brought there, in one
\* more step: a pass at level l takes back what is ahead of it.
Within(l) ==
  \A j \in Services : dep[j].template = spec.version => ~ Gap(l, SchemaMigrating + j)

\* A service is rolled to the requested version after the earlier ones.
InTurn ==
  \A i \in CoreServices, j \in Services : i < j /\ dep[j].template = spec.version => Rolled(i)

-----------------------------------------------------------------------------
\* What holds of the versions in every copy: they never go back, so an older copy is behind.
CopyVersions(o) ==
  /\ o.status.upgrade.phase # NoPhase => o.status.upgrade.from < o.status.upgrade.to
  /\ status.version # None /\ o.status.version = None => o.spec.version <= status.version

StampedBy(o) == o.status.version <= status.version

VersionInv ==
  /\ status.version # None => status.version <= spec.version
  /\ status.upgrade.phase # NoPhase => status.upgrade.from < status.upgrade.to
  /\ CopyVersions(cache) /\ StampedBy(cache)
  /\ pc # "idle" => CopyVersions(mem) /\ mem.spec.version <= cache.spec.version
  /\ pc \in {"persistence", "upgrade"} => StampedBy(mem)
  /\ pc \in {"services", "status"} => StampedBy(mem) \/ mem.status.version = mem.spec.version
  /\ fresh => /\ mem.status.version # status.version => mem.status.version = spec.version
              /\ pc # "idle"
  /\ \A s \in Services :
       dep[s].template # None => /\ dep[s].template <= cache.spec.version
                                 /\ pc # "idle" => dep[s].template <= mem.spec.version

\* A pass without an upgrade applies its version to every service.
UniformInv ==
  /\ pc \in {"services", "status"} /\ mem.status.schemaReady
       /\ mem.status.upgrade.phase = NoPhase =>
       \A s \in CoreServices : s \in todo \/ dep[s].template = mem.spec.version
  /\ pc = "status" => todo = {}
  /\ pc \in {"services", "status"} =>
       \/ mem.status.upgrade.phase = NoPhase /\ Settled(mem)
       \/ /\ mem.status.upgrade.phase # NoPhase /\ ~ Settled(mem)
          /\ mem.status.upgrade.to = mem.spec.version

\* The roll as every copy sees it.
RollInv ==
  Upgrading =>
    /\ InTurn
    /\ Honest(Stored) /\ Honest(Cached) /\ Within(Stored) /\ Within(Cached)
    /\ Near(Stored, Cached) /\ Cached <= Stored
    /\ pc # "idle" => /\ Honest(Passed) /\ Within(Passed)
                      /\ Near(Stored, Passed) /\ Near(Cached, Passed)
    /\ pc \in {"persistence", "upgrade"} => Passed <= Cached
    /\ fresh => Stored <= Passed

UpgradeInv == VersionInv /\ UniformInv /\ RollInv

-----------------------------------------------------------------------------
(* Versions, levels and phases are numbers.                                *)

LEMMA VersionNumbers == \A v \in Versions : v \in Nat /\ v # 0
  BY VersionsAssumption, Zenon

LEMMA CopyNumbers ==
  ASSUME NEW st \in StatusType
  PROVE  /\ st.version \in Nat /\ st.upgrade.from \in Nat /\ st.upgrade.to \in Nat
         /\ st.upgrade.phase \in 0..10
  <1>1. /\ st.version \in Versions \cup {0} /\ st.upgrade \in UpgradeType
    BY Zenon DEF StatusType, None
  <1>2. /\ st.upgrade.from \in Versions \cup {0} /\ st.upgrade.to \in Versions \cup {0}
        /\ st.upgrade.phase \in 0..10
    BY <1>1, Zenon DEF UpgradeType, None, NoPhase, Complete
  <1> QED BY <1>1, <1>2, VersionNumbers

LEMMA Numbers ==
  ASSUME TypeOK
  PROVE  /\ spec.version \in Nat /\ spec.version # 0
         /\ cache.spec.version \in Nat /\ cache.spec.version # 0
         /\ mem.spec.version \in Nat /\ (pc # "idle" => mem.spec.version # 0)
         /\ status \in StatusType /\ cache.status \in StatusType /\ mem.status \in StatusType
         /\ \A s \in Services : dep[s].template \in Nat
  <1>1. spec.version \in Versions /\ cache.spec.version \in Versions
    BY Zenon DEF TypeOK, SpecType
  <1>2. mem.spec \in SpecType \cup {NoPass.spec} /\ (pc # "idle" => mem.spec \in SpecType)
    BY Zenon DEF TypeOK
  <1>3. mem.spec.version \in Versions \cup {0} /\ (pc # "idle" => mem.spec.version \in Versions)
    BY <1>2 DEF SpecType, NoPass, None
  <1>4. \A s \in Services : dep[s].template \in Versions \cup {0}
    BY Zenon DEF TypeOK, None
  <1>5. status \in StatusType /\ cache.status \in StatusType /\ mem.status \in StatusType
    BY Zenon DEF TypeOK
  <1>6. \A v \in Versions \cup {0} : v \in Nat
    BY VersionNumbers
  <1> QED BY <1>1, <1>3, <1>4, <1>5, <1>6, VersionNumbers, Zenon

LEMMA Roles ==
  CoreServices \subseteq 1..5 /\ Services \subseteq 1..5 /\ CoreServices \subseteq Services
  BY ServicesAssumption, Zenon DEF CoreServices

LEMMA LevelType ==
  ASSUME NEW sp, NEW st \in StatusType
  PROVE  Level(sp, st) \in 0..11
  BY CopyNumbers DEF Level, Done, Complete, NoPhase, Pending

\* nextRollingPhase skips no service that is always enabled.
LEMMA NextRollingPhaseNear ==
  ASSUME NEW sp, NEW p \in RollingPhases
  PROVE  ~ Gap(p, NextRollingPhase(sp, p))
  <1> DEFINE later == {s \in EnabledServices(sp) : s > RollingOf(p)}
  <1>1. later \subseteq 1..5 /\ CoreServices \subseteq EnabledServices(sp)
    BY Roles, Zenon DEF EnabledServices
  <1>2. ASSUME NEW s \in CoreServices, p < SchemaMigrating + s PROVE s \in later
    BY <1>1, <1>2, Roles DEF RollingOf, RollingPhases, RollingFrontend, RollingWorker, SchemaMigrating
  <1>3. CASE later = {}
    BY <1>2, <1>3, Zenon DEF Gap
  <1>4. CASE later # {}
    <2>1. PICK m \in later : \A y \in later : m <= y
      BY <1>1, <1>4, SMT
    <2>2. Min(later) \in later /\ \A y \in later : Min(later) <= y
      BY <2>1, Zenon DEF Min
    <2>3. NextRollingPhase(sp, p) = SchemaMigrating + Min(later)
      BY <1>4, Zenon DEF NextRollingPhase
    <2> QED BY <1>1, <1>2, <2>2, <2>3, Roles DEF Gap, SchemaMigrating
  <1> QED BY <1>3, <1>4, Zenon

-----------------------------------------------------------------------------
(* reconcileUpgrade, as far as the roll is concerned.                      *)

\* The upgrade moves on: never back, past no service that is always enabled, and past a
\* service only when it has rolled out.
Advances(p, q) ==
  /\ p <= q /\ q <= Complete /\ ~ Gap(p, q)
  /\ p < q /\ p \in RollingPhases => ServiceRolledOut(RollingOf(p), mem.spec.version)

\* What a pass leaves: no upgrade, a further phase, or the new version.
Outcome ==
  LET st  == mem.status
      st2 == mem'.status
      up  == mem'.status.upgrade
  IN  \/ /\ Settled(mem) /\ st2.version = st.version /\ up.phase = NoPhase
      \/ /\ ~ Settled(mem) /\ st2.version = st.version
         /\ up.from = st.version /\ up.to = mem.spec.version /\ up.phase \in 1..10
         /\ Advances(CurrentUpgrade(mem).phase, up.phase)
      \/ /\ ~ Settled(mem) /\ st2.version = mem.spec.version /\ up.phase = NoPhase
         /\ CurrentUpgrade(mem).phase = Complete

\* The rest of what the step does.
Decided ==
  /\ pc = "upgrade" /\ mem'.spec = mem.spec /\ UNCHANGED <<object, fresh, dep, run>>
  /\ mem'.status.schemaReady = mem.status.schemaReady
  /\ \/ mem.status.schemaReady /\ pc' = "services" /\ todo' = EnabledServices(mem.spec)
     \/ ~ mem.status.schemaReady /\ pc' = "status" /\ todo' = {}

LEMMA UpgradeDecides ==
  ASSUME TypeOK, SchemaInv, ReconcileUpgrade
  PROVE  Decided /\ Outcome
  <1> DEFINE cur == CurrentUpgrade(mem)
  <1>0. mem \in [spec : SpecType \cup {NoPass.spec}, status : StatusType, requeue : BOOLEAN]
    BY Zenon DEF TypeOK
  <1>1. pc = "upgrade"
    BY Zenon DEF ReconcileUpgrade, NoUpgradeNeeded, AdvanceUpgrade, MoveTo, UpgradeStep
  <1>2. mem.spec \in SpecType /\ mem.status \in StatusType /\ cur \in UpgradeType
    BY <1>1, CurrentUpgradeType, Zenon DEF TypeOK
  <1>3. ASSUME NEW ver, NEW up, UpgradeStep(ver, up)
        PROVE  /\ Decided /\ mem'.status.version = ver /\ mem'.status.upgrade = up
    BY <1>0, <1>3, Zenon DEF UpgradeStep, Decided, StatusType, pods
  <1>4. CASE NoUpgradeNeeded
    <2>1. UpgradeStep(mem.status.version, NoUpgrade) /\ Settled(mem)
      BY <1>4, Zenon DEF NoUpgradeNeeded
    <2> QED BY <1>3, <2>1 DEF Outcome, NoUpgrade
  <1>5. CASE AdvanceUpgrade
    <2>1. ~ Settled(mem)
      BY <1>5, Zenon DEF AdvanceUpgrade
    <2>2. cur.to = mem.spec.version /\ cur.from = mem.status.version /\ cur.phase \in 1..10
      <3>1. CASE mem.status.upgrade.phase = NoPhase \/ mem.status.upgrade.to # mem.spec.version
        BY <3>1 DEF CurrentUpgrade, Pending
      <3>2. CASE ~ (mem.status.upgrade.phase = NoPhase \/ mem.status.upgrade.to # mem.spec.version)
        <4>1. cur = mem.status.upgrade
          BY <3>2, Zenon DEF CurrentUpgrade
        <4>2. mem.status.upgrade.from = mem.status.version
          BY <1>1, <3>2, Zenon DEF SchemaInv, PassInv, SoundCopy
        <4> QED BY <1>2, <3>2, <4>1, <4>2, CopyNumbers DEF NoPhase
      <3> QED BY <3>1, <3>2, Zenon
    <2>3. ASSUME NEW ph \in 1..10, NEW rb, MoveTo(ph, rb), Advances(cur.phase, ph)
          PROVE  Decided /\ Outcome
      <3>1. [cur EXCEPT !.phase = ph, !.rollbackable = rb].phase = ph
            /\ [cur EXCEPT !.phase = ph, !.rollbackable = rb].to = cur.to
            /\ [cur EXCEPT !.phase = ph, !.rollbackable = rb].from = cur.from
        BY <1>2, Zenon DEF UpgradeType
      <3>2. /\ Decided /\ mem'.status.version = mem.status.version
            /\ mem'.status.upgrade = [cur EXCEPT !.phase = ph, !.rollbackable = rb]
        BY <1>3, <2>3, Zenon DEF MoveTo
      <3> HIDE DEF cur
      <3> QED BY <2>1, <2>2, <2>3, <3>1, <3>2, Zenon DEF Outcome, cur
    <2>4. \A s \in CoreServices : SchemaMigrating + s \in 4..8
      BY Roles DEF SchemaMigrating
    <2>5. Advances(cur.phase, cur.phase)
      BY <2>2, <2>4 DEF Advances, Gap, Complete
    <2>6. CASE cur.phase = Pending /\ MoveTo(PreflightChecks, cur.rollbackable)
      <3>1. Advances(cur.phase, PreflightChecks)
        BY <2>4, <2>6 DEF Advances, Gap, Pending, PreflightChecks, Complete, RollingPhases, RollingFrontend
      <3> QED BY <2>3, <2>6, <3>1 DEF PreflightChecks
    <2>7. CASE /\ cur.phase = PreflightChecks
               /\ IF mem.status.reachable THEN MoveTo(SchemaMigrating, FALSE)
                                          ELSE MoveTo(cur.phase, cur.rollbackable)
      <3>1. Advances(cur.phase, SchemaMigrating)
        BY <2>4, <2>7 DEF Advances, Gap, SchemaMigrating, PreflightChecks, Complete, RollingPhases, RollingFrontend
      <3>2. SchemaMigrating \in 1..10
        BY DEF SchemaMigrating
      <3> QED BY <2>2, <2>3, <2>5, <2>7, <3>1, <3>2, Zenon
    <2>8. CASE /\ cur.phase = SchemaMigrating
               /\ MoveTo(IF mem.status.schemaReady THEN RollingFrontend ELSE cur.phase, FALSE)
      <3>1. Advances(cur.phase, RollingFrontend)
        BY <2>4, <2>8 DEF Advances, Gap, SchemaMigrating, Complete, RollingPhases, RollingFrontend
      <3>2. RollingFrontend \in 1..10
        BY DEF RollingFrontend
      <3> QED BY <2>2, <2>3, <2>5, <2>8, <3>1, <3>2, Zenon
    <2>9. CASE /\ cur.phase \in RollingPhases
               /\ MoveTo(IF ServiceRolledOut(RollingOf(cur.phase), cur.to)
                         THEN NextRollingPhase(mem.spec, cur.phase) ELSE cur.phase,
                         cur.rollbackable)
      <3> DEFINE nx == NextRollingPhase(mem.spec, cur.phase)
      <3>1. nx \in (cur.phase + 1)..9 /\ ~ Gap(cur.phase, nx)
        BY <2>9, NextRollingPhaseType, NextRollingPhaseNear, Zenon DEF PostUpgrade
      <3>2. cur.phase \in 1..10 /\ nx \in 1..10 /\ cur.phase <= nx /\ nx <= Complete
        BY <2>2, <3>1 DEF Complete
      <3>3. CASE ServiceRolledOut(RollingOf(cur.phase), cur.to)
        <4>1. Advances(cur.phase, nx)
          BY <2>2, <3>1, <3>2, <3>3, Zenon DEF Advances
        <4> QED BY <2>3, <2>9, <3>2, <3>3, <4>1, Zenon
      <3>4. CASE ~ ServiceRolledOut(RollingOf(cur.phase), cur.to)
        BY <2>2, <2>3, <2>5, <2>9, <3>4, Zenon
      <3> QED BY <3>3, <3>4, Zenon
    <2>10. CASE cur.phase = PostUpgrade /\ MoveTo(Complete, cur.rollbackable)
      <3>1. Advances(cur.phase, Complete)
        BY <2>4, <2>10 DEF Advances, Gap, PostUpgrade, Complete, RollingPhases, RollingWorker
      <3>2. Complete \in 1..10
        BY DEF Complete
      <3> QED BY <2>3, <2>10, <3>1, <3>2, Zenon
    <2>11. CASE cur.phase = Complete /\ UpgradeStep(cur.to, NoUpgrade)
      BY <1>3, <2>1, <2>2, <2>11 DEF Outcome, NoUpgrade
    <2> HIDE DEF cur
    <2> QED BY <1>5, <2>6, <2>7, <2>8, <2>9, <2>10, <2>11, Zenon DEF AdvanceUpgrade, cur
  <1> QED BY <1>4, <1>5, Zenon DEF ReconcileUpgrade

-----------------------------------------------------------------------------
(* The other steps, by what they may change.                               *)

\* Jobs and pods: no template changes, and a rolled service stays so, because the
\* Deployment controller takes away pods of other templates only.
Quiet ==
  /\ UNCHANGED <<object, pass>>
  /\ \A s \in Services : dep'[s].template = dep[s].template
  /\ \A s \in Services : Rolled(s) => Rolled(s)'

\* The pass sets conditions.
Conditions ==
  /\ UNCHANGED <<object, fresh, todo, dep, run>> /\ mem'.spec = mem.spec
  /\ mem'.status.version = mem.status.version /\ mem'.status.upgrade = mem.status.upgrade
  /\ \/ pc = "persistence" /\ pc' = "upgrade"
     \/ /\ pc = "services" /\ pc' = "status" /\ todo = {}
        /\ mem'.status.schemaReady = mem.status.schemaReady

\* The pass ends and writes nothing.
Drops == EndPass /\ UNCHANGED <<object, dep, run>>

LEMMA QuietStep ==
  ASSUME TypeOK, Environment \/ UNCHANGED vars
  PROVE  Quiet
  <1> USE DEF object, pass, pods
  <1>0. spec.version \in Versions
    BY Zenon DEF TypeOK, SpecType
  <1>1. CASE JobMigrates \/ JobSucceeds \/ JobFails \/ JobExpires
    BY <1>1, Zenon DEF JobMigrates, JobSucceeds, JobFails, JobEnds, JobExpires, Quiet, Rolled
  <1>2. ASSUME NEW s \in Services, ObserveDeployment(s) PROVE Quiet
    <2>1. \A t \in Services : dep'[t].template = dep[t].template
      BY <1>2 DEF ObserveDeployment, TypeOK
    <2> QED BY <1>2, <2>1, Zenon DEF ObserveDeployment, Quiet, Rolled
  <1>3. ASSUME NEW s \in Services, ScaleUp(s) PROVE Quiet
    <2>1. /\ UNCHANGED <<object, pass, dep>> /\ run[s][dep[s].template] < Replicas[s]
          /\ run' = [run EXCEPT ![s][dep[s].template] = @ + 1]
      BY <1>3, Zenon DEF ScaleUp, Rolls
    <2>2. ASSUME NEW t \in Services, Rolled(t) PROVE t # s
      BY <2>1, <2>2, ReplicasAssumption DEF Rolled
    <2>3. \A t \in Services : Rolled(t) => run'[t] = run[t]
      BY <2>1, <2>2, Zenon DEF TypeOK
    <2> QED BY <2>1, <2>3, Zenon DEF Quiet, Rolled
  <1>4. ASSUME NEW s \in Services, NEW v \in Versions, ScaleDown(s, v) PROVE Quiet
    <2>1. /\ UNCHANGED <<object, pass, dep>> /\ v # dep[s].template
          /\ run' = [run EXCEPT ![s][v] = @ - 1]
      BY <1>4, Zenon DEF ScaleDown, Rolls
    <2>2. ASSUME NEW t \in Services, Rolled(t) PROVE run'[t][spec.version] = run[t][spec.version]
      <3>1. t = s => spec.version # v
        BY <2>1, <2>2, Zenon DEF Rolled
      <3> QED BY <1>0, <2>1, <3>1, Zenon DEF TypeOK
    <2> QED BY <2>1, <2>2, Zenon DEF Quiet, Rolled
  <1>5. ASSUME NEW s \in Services, NEW v \in Versions, PodReady(s, v) \/ PodUnready(s, v)
        PROVE  Quiet
    BY <1>5, Zenon DEF PodReady, PodUnready, Quiet, Rolled
  <1>6. CASE UNCHANGED vars
    BY <1>6, Zenon DEF vars, Quiet, Rolled
  <1> QED BY <1>1, <1>2, <1>3, <1>4, <1>5, <1>6, Zenon DEF Environment

LEMMA ConditionsStep ==
  ASSUME TypeOK, ReconcilePersistence \/ RollupServiceStatus
  PROVE  Conditions
  <1> USE DEF object, pass, pods
  <1>0. mem \in [spec : SpecType \cup {NoPass.spec}, status : StatusType, requeue : BOOLEAN]
    BY Zenon DEF TypeOK
  <1>1. CASE PersistenceUnreachable
    BY <1>0, <1>1, Zenon DEF PersistenceUnreachable, Conditions, StatusType
  <1>2. ASSUME NEW seen \in 0..schema, SchemaSatisfied(seen) PROVE Conditions
    BY <1>0, <1>2, Zenon DEF SchemaSatisfied, Conditions, StatusType
  <1>3. ASSUME NEW seen \in 0..schema, SchemaBehind(seen) PROVE Conditions
    BY <1>0, <1>3, Zenon DEF SchemaBehind, Conditions, StatusType
  <1>4. CASE RollupServiceStatus
    BY <1>0, <1>4, Zenon DEF RollupServiceStatus, Conditions, StatusType
  <1> QED BY <1>1, <1>2, <1>3, <1>4, Zenon DEF ReconcilePersistence

LEMMA Kinds ==
  ASSUME TypeOK, [Next]_vars
  PROVE  \/ Quiet \/ Conditions \/ Drops
         \/ (\E v \in Versions : EditVersion(v)) \/ EditInternalFrontend \/ SyncCache
         \/ Get \/ ReconcileUpgrade \/ (\E s \in Services : ApplyDeployment(s)) \/ UpdateStatus
  <1>1. ConflictOnStatus \/ AbortPass => Drops
    BY Zenon DEF ConflictOnStatus, AbortPass, Drops, pods
  <1> QED BY <1>1, QuietStep, ConditionsStep, Zenon DEF Next, Reconcile, User

\* One apply changes one template, to a version that is not ahead of the copy's spec.
LEMMA ApplyFacts ==
  ASSUME TypeOK, SchemaInv, NEW s \in Services, ApplyDeployment(s)
  PROVE  /\ pc = "services" /\ UNCHANGED <<object, mem, fresh, pc, run>>
         /\ dep'[s].template = ServiceVersion(mem, s)
         /\ \A t \in Services \ {s} : dep'[t].template = dep[t].template
         /\ todo' = todo \ {s}
         /\ ServiceVersion(mem, s) \in Nat /\ ServiceVersion(mem, s) <= mem.spec.version
  <1>1. /\ pc = "services" /\ UNCHANGED <<object, mem, fresh, pc, run>>
        /\ dep' = [dep EXCEPT ![s].template = ServiceVersion(mem, s)] /\ todo' = todo \ {s}
    BY Zenon DEF ApplyDeployment, pods
  <1>2. /\ dep'[s].template = ServiceVersion(mem, s)
        /\ \A t \in Services \ {s} : dep'[t].template = dep[t].template
    BY <1>1, Zenon DEF TypeOK
  <1>3. SoundCopy(mem.spec, mem.status)
    BY <1>1, Zenon DEF SchemaInv, PassInv
  <1>4. ServiceVersion(mem, s) \in Nat /\ ServiceVersion(mem, s) <= mem.spec.version
    BY <1>1, <1>3, Numbers, CopyNumbers DEF ServiceVersion, SoundCopy
  <1> QED BY <1>1, <1>2, <1>4, Zenon

\* What UpdateStatus writes: the pass's upgrade, and its version or the requested one.
LEMMA UpdateFacts ==
  ASSUME TypeOK, SchemaInv, UpdateStatus
  PROVE  /\ pc = "status" /\ fresh /\ synced /\ mem.spec = spec
         /\ cache.spec = spec /\ cache.status = status
         /\ status'.upgrade = mem.status.upgrade
         /\ \/ status'.version = mem.status.version
            \/ /\ status'.version = spec.version
               /\ mem.status.schemaReady /\ mem.status.upgrade.phase = NoPhase
         /\ pc' = "idle" /\ ~ fresh' /\ UNCHANGED <<spec, cache, dep, run>>
  <1>1. /\ pc = "status" /\ fresh /\ status' = ComputeReady(mem) /\ EndPass
        /\ UNCHANGED <<spec, cache, dep, run>>
    BY Zenon DEF UpdateStatus, pods
  <1>2. synced /\ mem.spec = spec /\ cache.spec = spec /\ cache.status = status
    BY <1>1, Zenon DEF SchemaInv, PassInv, CacheInv
  <1>3. mem.status \in StatusType
    BY Numbers, Zenon
  <1>4. /\ status'.upgrade = mem.status.upgrade
        /\ \/ status'.version = mem.status.version
           \/ /\ status'.version = spec.version
              /\ mem.status.schemaReady /\ mem.status.upgrade.phase = NoPhase
    BY <1>1, <1>2, <1>3, Zenon DEF ComputeReady, StatusType
  <1> QED BY <1>1, <1>2, <1>4, Zenon DEF EndPass

-----------------------------------------------------------------------------
(* VersionInv and UniformInv.                                              *)

LEMMA VersionStep ==
  ASSUME TypeOK, TypeOK', SchemaInv, SchemaInv', VersionInv, [Next]_vars
  PROVE  VersionInv'
  <1> USE DEF object, pass, CopyVersions, StampedBy
  <1>n. /\ spec.version \in Nat /\ cache.spec.version \in Nat /\ mem.spec.version \in Nat
        /\ status.version \in Nat /\ cache.status.version \in Nat /\ mem.status.version \in Nat
        /\ \A s \in Services : dep[s].template \in Nat
    BY Numbers, CopyNumbers, Zenon
  <1>1. CASE Quiet
    BY <1>1 DEF Quiet, VersionInv
  <1>2. CASE Conditions
    BY <1>2, Zenon DEF Conditions, VersionInv
  <1>3. CASE Drops
    BY <1>3, Zenon DEF Drops, EndPass, VersionInv
  <1>4. ASSUME NEW v \in Versions, EditVersion(v) PROVE VersionInv'
    <2>1. /\ ~ fresh' /\ UNCHANGED <<status, cache, mem, pc, dep>>
      BY <1>4, Zenon DEF EditVersion, Touched
    <2>2. status.version # None => status'.version <= spec'.version
      BY <2>1, Zenon DEF SchemaInv, StoredInv, SoundCopy
    <2> QED BY <2>1, <2>2, Zenon DEF VersionInv
  <1>5. CASE EditInternalFrontend
    <2>1. /\ ~ fresh' /\ UNCHANGED <<status, cache, mem, pc, dep>> /\ spec'.version = spec.version
      BY <1>5, Zenon DEF EditInternalFrontend, Touched, TypeOK, SpecType
    <2> QED BY <2>1, Zenon DEF VersionInv
  <1>6. CASE SyncCache
    <2>1. /\ cache'.spec = spec /\ cache'.status = status /\ ~ synced
          /\ UNCHANGED <<spec, status, pass, dep>>
      BY <1>6, Zenon DEF SyncCache
    <2>2. ~ fresh /\ (pc # "idle" => mem.spec.version <= spec.version)
      BY <2>1, Zenon DEF SchemaInv, PassInv
    <2>3. \A s \in Services : dep[s].template # None => dep[s].template <= spec.version
      BY Zenon DEF SchemaInv, StoredInv
    <2> QED BY <1>n, <2>1, <2>2, <2>3 DEF VersionInv
  <1>7. CASE Get
    <2>1. /\ mem'.spec = cache.spec /\ mem'.status = cache.status /\ fresh' = synced
          /\ pc' = "persistence" /\ UNCHANGED <<object, dep>>
      BY <1>7, Zenon DEF Get
    <2>2. synced => cache.status = status
      BY Zenon DEF SchemaInv, CacheInv
    <2> QED BY <1>n, <2>1, <2>2 DEF VersionInv
  <1>8. CASE ReconcileUpgrade
    <2>1. Decided /\ Outcome
      BY <1>8, UpgradeDecides, Zenon
    <2>2. /\ pc = "upgrade" /\ pc' \in {"services", "status"} /\ mem'.spec = mem.spec
          /\ UNCHANGED <<object, fresh, dep>>
      BY <2>1, Zenon DEF Decided
    <2>3. SoundCopy(mem.spec, mem.status) /\ (fresh => mem.spec = spec)
      BY <2>2, Zenon DEF SchemaInv, PassInv
    <2>4. CASE mem'.status.version = mem.status.version /\ mem'.status.upgrade.phase = NoPhase
      BY <2>2, <2>4, Zenon DEF VersionInv
    <2>5. CASE /\ ~ Settled(mem) /\ mem'.status.version = mem.status.version
               /\ mem'.status.upgrade.from = mem.status.version
               /\ mem'.status.upgrade.to = mem.spec.version
      <3>1. mem.status.version < mem.spec.version
        BY <1>n, <2>3, <2>5 DEF Settled, SoundCopy
      <3> QED BY <2>2, <2>5, <3>1, Zenon DEF VersionInv
    <2>6. CASE mem'.status.version = mem.spec.version /\ mem'.status.upgrade.phase = NoPhase
      <3>1. mem.spec.version # None
        BY <2>2, Numbers, Zenon DEF None
      <3> QED BY <2>2, <2>3, <2>6, <3>1, Zenon DEF VersionInv
    <2> QED BY <2>1, <2>4, <2>5, <2>6, Zenon DEF Outcome
  <1>9. ASSUME NEW s \in Services, ApplyDeployment(s) PROVE VersionInv'
    <2>1. /\ pc = "services" /\ UNCHANGED <<object, mem, fresh, pc>>
          /\ dep'[s].template <= mem.spec.version
          /\ \A t \in Services \ {s} : dep'[t].template = dep[t].template
          /\ dep'[s].template \in Nat
      BY <1>9, ApplyFacts, Zenon
    <2>2. mem.spec.version <= cache.spec.version
      BY <2>1, Zenon DEF VersionInv
    <2>3. \A t \in Services : dep'[t].template # None =>
            dep'[t].template <= cache.spec.version /\ dep'[t].template <= mem.spec.version
      BY <1>n, <2>1, <2>2 DEF VersionInv
    <2> QED BY <2>1, <2>3, Zenon DEF VersionInv
  <1>10. CASE UpdateStatus
    <2>1. /\ pc = "status" /\ fresh /\ mem.spec = spec /\ cache.spec = spec /\ cache.status = status
          /\ status'.upgrade = mem.status.upgrade
          /\ status'.version = mem.status.version \/ status'.version = spec.version
          /\ pc' = "idle" /\ ~ fresh' /\ UNCHANGED <<spec, cache, dep>>
      BY <1>10, UpdateFacts, Zenon
    <2>2. status'.version = status.version \/ status'.version = spec.version
      BY <2>1, Zenon DEF VersionInv
    <2>3. status.version <= status'.version
      BY <1>n, <2>2 DEF VersionInv, None
    <2>4. status'.version # None => status'.version <= spec.version
      BY <1>n, <2>2 DEF VersionInv
    <2>5. status'.version # None /\ cache.status.version = None => cache.spec.version <= status'.version
      BY <1>n, <2>1, <2>2
    <2> QED BY <2>1, <2>3, <2>4, <2>5, Zenon DEF VersionInv
  <1> QED BY Kinds, <1>1, <1>2, <1>3, <1>4, <1>5, <1>6, <1>7, <1>8, <1>9, <1>10, Zenon

LEMMA UniformStep ==
  ASSUME TypeOK, SchemaInv, UniformInv, [Next]_vars
  PROVE  UniformInv'
  <1> USE DEF object, pass, Settled
  <1>c. CoreServices \subseteq Services
    BY Roles, Zenon
  <1>1. CASE Quiet
    BY <1>1, <1>c, Zenon DEF Quiet, UniformInv
  <1>2. CASE Conditions
    BY <1>2, Zenon DEF Conditions, UniformInv
  <1>3. CASE Drops
    BY <1>3, Zenon DEF Drops, EndPass, UniformInv
  <1>4. ASSUME NEW v \in Versions, EditVersion(v) PROVE UniformInv'
    BY <1>4, Zenon DEF EditVersion, UniformInv
  <1>5. CASE EditInternalFrontend
    BY <1>5, Zenon DEF EditInternalFrontend, UniformInv
  <1>6. CASE SyncCache
    BY <1>6, Zenon DEF SyncCache, UniformInv
  <1>7. CASE Get
    BY <1>7, Zenon DEF Get, UniformInv
  <1>8. CASE ReconcileUpgrade
    <2>1. Decided /\ Outcome
      BY <1>8, UpgradeDecides, Zenon
    <2>2. CoreServices \subseteq EnabledServices(mem.spec)
      BY <1>c, Zenon DEF EnabledServices
    <2>3. mem'.spec = mem.spec /\ mem'.status.schemaReady = mem.status.schemaReady
      BY <2>1, Zenon DEF Decided
    <2>4. \/ mem'.status.upgrade.phase = NoPhase /\ Settled(mem)'
          \/ /\ mem'.status.upgrade.phase # NoPhase /\ ~ Settled(mem)'
             /\ mem'.status.upgrade.to = mem'.spec.version
      BY <2>1, <2>3 DEF Outcome, NoPhase
    <2>5. /\ pc' = "status" => todo' = {}
          /\ mem.status.schemaReady => todo' = EnabledServices(mem.spec)
      BY <2>1, Zenon DEF Decided
    <2> QED BY <2>2, <2>3, <2>4, <2>5, Zenon DEF UniformInv
  <1>9. ASSUME NEW s \in Services, ApplyDeployment(s) PROVE UniformInv'
    <2>1. /\ pc = "services" /\ UNCHANGED <<mem, pc>> /\ todo' = todo \ {s}
          /\ dep'[s].template = ServiceVersion(mem, s)
          /\ \A t \in Services \ {s} : dep'[t].template = dep[t].template
      BY <1>9, ApplyFacts, Zenon
    <2>2. mem.status.upgrade.phase = NoPhase => dep'[s].template = mem.spec.version
      BY <2>1, Zenon DEF ServiceVersion
    <2> QED BY <1>c, <2>1, <2>2, Zenon DEF UniformInv
  <1>10. CASE UpdateStatus
    BY <1>10, UpdateFacts, Zenon DEF UniformInv
  <1> QED BY Kinds, <1>1, <1>2, <1>3, <1>4, <1>5, <1>6, <1>7, <1>8, <1>9, <1>10, Zenon

-----------------------------------------------------------------------------
(* RollInv.                                                                *)

LEMMA LevelNumbers ==
  ASSUME TypeOK
  PROVE  Stored \in 0..11 /\ Cached \in 0..11 /\ Passed \in 0..11
  BY Numbers, LevelType, Zenon DEF Stored, Cached, Passed

\* A new target: no copy knows of it, and no service is templated at it.
LEMMA RollEdit ==
  ASSUME TypeOK, TypeOK', SchemaInv, VersionInv, NEW v \in Versions, EditVersion(v), Upgrading'
  PROVE  RollInv'
  <1>1. /\ spec'.version = v /\ v # spec.version /\ CanUpgrade(spec.version, v)
        /\ ~ fresh' /\ UNCHANGED <<status, cache, mem, pc, dep, run>>
    BY Zenon DEF EditVersion, Touched, pods, TypeOK, SpecType
  <1>2. /\ spec.version \in Versions /\ spec.version \in Nat /\ v \in Nat
        /\ \A s \in Services : dep[s].template \in Nat
        /\ cache.spec.version \in Nat /\ mem.spec.version \in Nat
    BY VersionNumbers, Numbers, Zenon DEF TypeOK, SpecType
  <1>3. spec.version < v
    BY <1>1, <1>2, CanUpgradeForward, Zenon
  <1>4. \A s \in Services : dep'[s].template # spec'.version
    BY <1>1, <1>2, <1>3, Numbers DEF SchemaInv, StoredInv, None
  <1>5. Cached' = 0
    <2>1. cache.spec.version <= spec.version
      BY Zenon DEF SchemaInv, CacheInv
    <2>2. cache.spec.version # v
      BY <1>2, <1>3, <2>1
    <2> QED BY <1>1, <2>2, Zenon DEF Cached, Level
  <1>6. pc # "idle" => Passed' = 0
    <2>1. pc # "idle" => mem.spec.version <= spec.version
      BY Zenon DEF SchemaInv, PassInv
    <2>2. pc # "idle" => mem.spec.version # v
      BY <1>2, <1>3, <2>1
    <2> QED BY <1>1, <2>2, Zenon DEF Passed, Level
  <1>7. Stored' = Pending
    <2>1. status.upgrade.phase # NoPhase => status.upgrade.to # v
      BY <1>2, <1>3, Numbers, CopyNumbers DEF SchemaInv, StoredInv, SoundCopy
    <2> QED BY <1>1, <2>1, Zenon DEF Stored, Level, Upgrading
  <1>8. \A k, l \in {0, 1} : ~ Gap(k, l) /\ Honest(k)'
    BY Roles DEF Gap, Honest, SchemaMigrating
  <1>9. InTurn' /\ Within(Stored)' /\ Within(Cached)' /\ Within(Passed)'
    BY <1>4, Roles, Zenon DEF InTurn, Within
  <1> QED BY <1>1, <1>5, <1>6, <1>7, <1>8, <1>9 DEF RollInv, Near, Pending, Gap, Honest

\* A pass moves its level on, past the service it has seen rolled out.
LEMMA RollUpgrade ==
  ASSUME TypeOK, TypeOK', SchemaInv, VersionInv, RollInv, ReconcileUpgrade, Upgrading'
  PROVE  RollInv'
  <1>1. Decided /\ Outcome
    BY UpgradeDecides, Zenon
  <1>2. /\ pc = "upgrade" /\ pc' \in {"services", "status"} /\ mem'.spec = mem.spec
        /\ UNCHANGED <<spec, status, cache, fresh, dep, run>>
    BY <1>1, Zenon DEF Decided, object
  <1>3. Upgrading /\ status.version # None
    BY <1>2, Zenon DEF Upgrading
  <1>4. Stored' = Stored /\ Cached' = Cached
    BY <1>2, Zenon DEF Stored, Cached, Level
  <1>5. Stored \in 0..11 /\ Cached \in 0..11 /\ Passed \in 0..11 /\ Passed' \in 0..11
    <2>1. mem'.status \in StatusType
      BY Zenon DEF TypeOK
    <2> QED BY <2>1, LevelNumbers, CopyNumbers DEF Passed, Level, Done, Complete, NoPhase, Pending
  <1>6. /\ spec.version \in Nat /\ status.version \in Nat /\ mem.status.version \in Nat
        /\ mem.spec.version \in Nat
    BY Numbers, CopyNumbers, Zenon
  <1>7. /\ Passed <= Passed' /\ ~ Gap(Passed, Passed')
        /\ Passed < Passed' /\ Passed \in RollingPhases => Rolled(RollingOf(Passed))
    <2>1. CASE mem.spec.version # spec.version
      <3>1. Passed = 0 /\ Passed' = 0
        BY <1>2, <2>1, Zenon DEF Passed, Level
      <3> QED BY <3>1, Roles DEF Gap, SchemaMigrating
    <2>2. CASE mem.spec.version = spec.version /\ Settled(mem)
      <3>1. mem.status.version # None
        <4>1. /\ mem.status.version = None => mem.spec.version <= status.version
              /\ status.version <= spec.version
          BY <1>2, <1>3, Zenon DEF VersionInv, CopyVersions
        <4> QED BY <1>3, <1>6, <2>2, <4>1 DEF Upgrading
      <3>2. mem.status.version = mem.spec.version /\ mem'.status.version = mem.status.version
        BY <1>1, <2>2, <3>1, Zenon DEF Settled, Outcome
      <3>3. Passed = Done /\ Passed' = Done
        BY <1>2, <2>2, <3>2, Zenon DEF Passed, Level
      <3> QED BY <3>3, Roles DEF Gap, Done, Complete, SchemaMigrating
    <2>3. CASE mem.spec.version = spec.version /\ ~ Settled(mem)
      <3>1. Passed = CurrentUpgrade(mem).phase
        BY <2>3, Zenon DEF Passed, Level, CurrentUpgrade, Settled
      <3>2. CASE /\ mem'.status.version = mem.status.version
                 /\ mem'.status.upgrade.to = mem.spec.version /\ mem'.status.upgrade.phase \in 1..10
                 /\ Advances(CurrentUpgrade(mem).phase, mem'.status.upgrade.phase)
        <4>1. Passed' = mem'.status.upgrade.phase
          BY <1>2, <2>3, <3>2 DEF Passed, Level, Settled, NoPhase
        <4>2. ServiceRolledOut(RollingOf(Passed), mem.spec.version) => Rolled(RollingOf(Passed))
          BY <2>3, Zenon DEF ServiceRolledOut, Rolled
        <4> QED BY <3>1, <3>2, <4>1, <4>2, Zenon DEF Advances
      <3>3. CASE mem'.status.version = mem.spec.version /\ CurrentUpgrade(mem).phase = Complete
        <4>1. Passed = 10 /\ Passed' = 11
          BY <1>2, <2>3, <3>1, <3>3 DEF Passed, Level, Done, Complete
        <4> QED BY <4>1, Roles DEF Gap, RollingPhases, RollingFrontend, RollingWorker, SchemaMigrating
      <3> QED BY <1>1, <2>3, <3>2, <3>3, Zenon DEF Outcome
    <2> QED BY <2>1, <2>2, <2>3, Zenon
  <1>8. Passed <= Cached /\ Cached <= Stored
    BY <1>2, <1>3, Zenon DEF RollInv
  <1>r. \A s \in Services : Rolled(s)' <=> Rolled(s)
    BY <1>2, Zenon DEF Rolled
  <1>9. Honest(Passed)'
    <2> SUFFICES ASSUME NEW s \in CoreServices, SchemaMigrating + s < Passed' PROVE Rolled(s)
      BY <1>r, Roles, Zenon DEF Honest
    <2>0. s \in 1..5 /\ Honest(Passed)
      BY <1>2, <1>3, Roles, Zenon DEF RollInv
    <2>1. CASE SchemaMigrating + s < Passed
      BY <2>0, <2>1, Zenon DEF Honest
    <2>2. CASE SchemaMigrating + s = Passed
      BY <1>5, <1>7, <2>0, <2>2 DEF RollingPhases, RollingOf, RollingFrontend, RollingWorker, SchemaMigrating
    <2>3. CASE Passed < SchemaMigrating + s
      BY <1>7, <2>3, Zenon DEF Gap
    <2> QED BY <1>5, <2>0, <2>1, <2>2, <2>3 DEF SchemaMigrating
  <1>10. Within(Passed)'
    <2>1. Within(Passed)
      BY <1>2, <1>3, Zenon DEF RollInv
    <2> QED BY <1>2, <1>5, <1>7, <2>1, Roles DEF Within, Gap, SchemaMigrating
  <1>11. Near(Stored, Passed') /\ Near(Cached, Passed')
    <2>1. Near(Stored, Passed) /\ Near(Cached, Passed)
      BY <1>2, <1>3, Zenon DEF RollInv
    <2> QED BY <1>5, <1>7, <1>8, <2>1, Roles DEF Near, Gap, SchemaMigrating
  <1>12. InTurn' /\ Honest(Stored)' /\ Honest(Cached)' /\ Within(Stored)' /\ Within(Cached)'
    BY <1>2, <1>3, <1>4, <1>r, Roles, Zenon DEF RollInv, InTurn, Honest, Within, Gap
  <1>13. fresh' => Stored <= Passed'
    <2>1. fresh => Stored <= Passed
      BY <1>3, Zenon DEF RollInv
    <2>2. Passed <= Passed'
      BY <1>7, Zenon
    <2> QED BY <1>2, <1>5, <2>1, <2>2
  <1>14. Near(Stored, Cached) /\ Cached <= Stored
    BY <1>3, Zenon DEF RollInv
  <1> QED BY <1>2, <1>4, <1>9, <1>10, <1>11, <1>12, <1>13, <1>14, Zenon DEF RollInv, Near, Gap

\* An apply of an outdated pass meets no service at the target.  One of a pass at the target
\* brings a service there in its turn, or takes back one that no other copy could have rolled.
LEMMA RollApply ==
  ASSUME TypeOK, TypeOK', SchemaInv, VersionInv, UniformInv, RollInv,
         NEW s \in Services, ApplyDeployment(s), Upgrading'
  PROVE  RollInv'
  <1>1. /\ pc = "services" /\ UNCHANGED <<spec, status, cache, mem, fresh, pc, run>>
        /\ dep'[s].template = ServiceVersion(mem, s)
        /\ \A t \in Services \ {s} : dep'[t].template = dep[t].template
        /\ ServiceVersion(mem, s) \in Nat /\ ServiceVersion(mem, s) <= mem.spec.version
    BY ApplyFacts, Zenon DEF object
  <1>2. Upgrading /\ status.version # None
    BY <1>1, Zenon DEF Upgrading
  <1>3. Stored' = Stored /\ Cached' = Cached /\ Passed' = Passed
    BY <1>1, Zenon DEF Stored, Cached, Passed, Level
  <1>4. Stored \in 0..11 /\ Cached \in 0..11 /\ Passed \in 0..11
    BY LevelNumbers, Zenon
  <1>5. /\ spec.version \in Nat /\ spec.version # 0 /\ mem.spec.version \in Nat
        /\ status.version \in Nat /\ mem.status.upgrade.phase \in 0..10
        /\ mem.status.upgrade.from \in Nat /\ mem.status.upgrade.to \in Nat
        /\ \A t \in Services : dep[t].template \in Nat
    BY Numbers, CopyNumbers, Zenon
  <1>6. s \in 1..5 /\ CoreServices \subseteq 1..5 /\ Services \subseteq 1..5 /\ CoreServices \subseteq Services
    BY Roles, Zenon
  <1>7. /\ InTurn /\ Honest(Stored) /\ Honest(Cached) /\ Honest(Passed)
        /\ Within(Stored) /\ Within(Cached) /\ Within(Passed)
        /\ Near(Stored, Passed) /\ Near(Cached, Passed) /\ Near(Stored, Cached) /\ Cached <= Stored
        /\ fresh => Stored <= Passed
    BY <1>1, <1>2, Zenon DEF RollInv
  <1> DEFINE Levels == {Stored, Cached, Passed}
  <1>8. SUFFICES InTurn' /\ \A l \in Levels : Honest(l)' /\ Within(l)'
    <2>1. \A l \in Levels : Honest(l)' /\ Within(l)' =>
            /\ (\A t \in CoreServices : SchemaMigrating + t < l => Rolled(t)')
            /\ (\A j \in Services : dep'[j].template = spec'.version => ~ Gap(l, SchemaMigrating + j))
      BY Zenon DEF Honest, Within, Gap
    <2> QED BY <1>1, <1>3, <1>7, <1>8, <2>1, Zenon DEF RollInv, Honest, Within, Near, Gap
  <1>9. CASE mem.spec.version # spec.version
    <2>1. mem.spec.version < spec.version
      <3>1. mem.spec.version <= spec.version
        BY <1>1, Zenon DEF SchemaInv, PassInv
      <3> QED BY <1>5, <1>9, <3>1
    <2>2. \A t \in Services : dep[t].template # spec.version /\ dep'[t].template # spec.version
      <3>1. \A t \in Services : dep[t].template # None => dep[t].template <= mem.spec.version
        BY <1>1, Zenon DEF VersionInv
      <3>2. ASSUME NEW t \in Services PROVE dep[t].template # spec.version
        <4>1. /\ dep[t].template \in Nat /\ mem.spec.version \in Nat
              /\ spec.version \in Nat /\ spec.version # 0
          BY <1>5, Zenon
        <4> QED BY <2>1, <3>1, <4>1 DEF None
      <3>3. dep'[s].template # spec.version
        <4>1. /\ dep'[s].template \in Nat /\ dep'[s].template <= mem.spec.version
              /\ mem.spec.version \in Nat /\ spec.version \in Nat
          BY <1>1, <1>5, Zenon
        <4> QED BY <2>1, <4>1
      <3> QED BY <1>1, <3>2, <3>3, Zenon
    <2> QED BY <1>1, <1>6, <1>7, <2>2, Zenon DEF InTurn, Honest, Within, Rolled
  <1>10. CASE mem.spec.version = spec.version
    <2>1. mem.status.version # None
      <3>1. /\ mem.status.version = None => mem.spec.version <= status.version
            /\ status.version <= spec.version
        BY <1>1, <1>2, Zenon DEF VersionInv, CopyVersions
      <3> QED BY <1>2, <1>5, <1>10, <3>1 DEF Upgrading
    <2>2. dep'[s].template = spec.version <=> SchemaMigrating + s <= Passed
      <3>1. CASE mem.status.upgrade.phase = NoPhase
        <4>0. mem.status.version = mem.spec.version
          BY <1>1, <2>1, <3>1, Zenon DEF UniformInv, Settled
        <4>a. Passed = Done
          BY <1>10, <4>0, Zenon DEF Passed, Level
        <4>1. Passed = 11
          BY <4>a DEF Done, Complete
        <4>2. ServiceVersion(mem, s) = spec.version
          BY <1>10, <3>1, Zenon DEF ServiceVersion
        <4>3. SchemaMigrating + s <= Passed
          BY <1>6, <4>1 DEF SchemaMigrating
        <4> QED BY <1>1, <4>2, <4>3, Zenon
      <3>2. CASE mem.status.upgrade.phase # NoPhase
        <4>1. mem.status.upgrade.to = mem.spec.version /\ ~ Settled(mem)
          BY <1>1, <3>2, Zenon DEF UniformInv
        <4>2. mem.status.upgrade.from # spec.version
          <5>1. mem.status.upgrade.from < mem.status.upgrade.to
            BY <1>1, <3>2, Zenon DEF VersionInv, CopyVersions
          <5> QED BY <1>5, <1>10, <4>1, <5>1
        <4>3. Passed = mem.status.upgrade.phase
          BY <1>10, <3>2, <4>1, Zenon DEF Passed, Level, Settled
        <4>4. s <= RollingOf(mem.status.upgrade.phase) <=> SchemaMigrating + s <= Passed
          BY <1>5, <1>6, <4>3 DEF RollingOf, SchemaMigrating
        <4>5. ServiceVersion(mem, s) = IF SchemaMigrating + s <= Passed THEN spec.version
                                       ELSE mem.status.upgrade.from
          BY <1>10, <3>2, <4>1, <4>4, Zenon DEF ServiceVersion
        <4> QED BY <1>1, <4>2, <4>5, Zenon
      <3> QED BY <3>1, <3>2, Zenon
    <2>3. \A t \in Services \ {s} : Rolled(t) <=> Rolled(t)'
      BY <1>1, Zenon DEF Rolled
    <2>4. CASE SchemaMigrating + s <= Passed
      <3>1. \A t \in Services : Rolled(t) => Rolled(t)'
        BY <1>1, <2>2, <2>3, <2>4, Zenon DEF Rolled
      <3>2. \A l \in Levels : ~ Gap(l, Passed)
        BY <1>4, <1>6, <1>7 DEF Near, Gap, SchemaMigrating
      <3>3. \A l \in Levels : ~ Gap(l, SchemaMigrating + s)
        BY <1>4, <1>6, <2>4, <3>2 DEF Gap, SchemaMigrating
      <3>4. \A l \in Levels : Honest(l) /\ Within(l)
        BY <1>7, Zenon
      <3>5. \A l \in Levels : Honest(l)'
        BY <1>6, <3>1, <3>4, Zenon DEF Honest
      <3>6. \A l \in Levels : Within(l)'
        BY <1>1, <3>3, <3>4, Zenon DEF Within, Gap
      <3>7. \A i \in CoreServices : i < s => Rolled(i)
        BY <1>4, <1>6, <1>7, <2>4 DEF Honest, SchemaMigrating
      <3>8. InTurn'
        BY <1>1, <1>6, <1>7, <3>1, <3>7, Zenon DEF InTurn
      <3> QED BY <3>5, <3>6, <3>8, Zenon
    <2>5. CASE Passed < SchemaMigrating + s
      <3>1. dep'[s].template # spec.version
        BY <1>4, <1>6, <2>2, <2>5 DEF SchemaMigrating
      <3>2. \A l \in Levels : ~ Gap(Passed, l)
        BY <1>4, <1>6, <1>7 DEF Near, Gap, SchemaMigrating
      <3>3. \A l \in Levels : Honest(l) /\ Within(l)
        BY <1>7
      <3>4. \A l \in Levels : s \in CoreServices => ~ (SchemaMigrating + s < l)
        BY <2>5, <3>2, Zenon DEF Gap
      <3>5. \A l \in Levels : Honest(l)'
        BY <1>6, <2>3, <3>3, <3>4, Zenon DEF Honest
      <3>6. \A l \in Levels : Within(l)'
        BY <1>1, <3>1, <3>3, Zenon DEF Within, Gap
      <3>7. \A j \in Services : s \in CoreServices /\ s < j => dep[j].template # spec.version
        BY <1>4, <1>6, <1>7, <2>5 DEF Within, Gap, SchemaMigrating
      <3>8. InTurn'
        BY <1>1, <1>6, <1>7, <2>3, <3>1, <3>7, Zenon DEF InTurn
      <3> QED BY <3>5, <3>6, <3>8
    <2> QED BY <1>4, <1>6, <2>4, <2>5 DEF SchemaMigrating
  <1> QED BY <1>9, <1>10, Zenon

\* A step that keeps the target and the templates and takes nothing from a rolled service
\* keeps what is said of every level.
LEMMA RollKept ==
  ASSUME spec'.version = spec.version,
         \A s \in Services : dep'[s].template = dep[s].template /\ (Rolled(s) => Rolled(s)')
  PROVE  /\ InTurn => InTurn'
         /\ \A l : Honest(l) => Honest(l)'
         /\ \A l : Within(l) => Within(l)'
  <1>1. CoreServices \subseteq Services
    BY Roles, Zenon
  <1>2. InTurn => InTurn'
    BY <1>1, Zenon DEF InTurn
  <1>3. ASSUME NEW l, Honest(l) PROVE Honest(l)'
    BY <1>1, <1>3, Zenon DEF Honest
  <1>4. ASSUME NEW l, Within(l) PROVE Within(l)'
    BY <1>4, Zenon DEF Within, Gap
  <1> QED BY <1>2, <1>3, <1>4, Zenon

\* RollInv after such a step, from what holds of the levels after it.
LEMMA RollAgain ==
  ASSUME InTurn', NEW a, NEW b, NEW c, Stored' = a, Cached' = b, pc' # "idle" => Passed' = c,
         Honest(a)', Honest(b)', Within(a)', Within(b)', Near(a, b), b <= a,
         pc' # "idle" => Honest(c)' /\ Within(c)' /\ Near(a, c) /\ Near(b, c),
         pc' \in {"persistence", "upgrade"} => c <= b,
         fresh' => pc' # "idle" /\ a <= c
  PROVE  RollInv'
  <1>1. /\ Honest(Stored)' /\ Honest(Cached)' /\ (pc' # "idle" => Honest(Passed)')
    BY Zenon DEF Honest
  <1>2. /\ Within(Stored)' /\ Within(Cached)' /\ (pc' # "idle" => Within(Passed)')
    BY Zenon DEF Within, Gap
  <1>3. /\ Near(Stored, Cached)'
        /\ pc' # "idle" => Near(Stored, Passed)' /\ Near(Cached, Passed)'
    BY Zenon DEF Near, Gap
  <1>4. /\ Cached' <= Stored' /\ (pc' \in {"persistence", "upgrade"} => Passed' <= Cached')
        /\ fresh' => Stored' <= Passed'
    BY Zenon
  <1> QED BY <1>1, <1>2, <1>3, <1>4, Zenon DEF RollInv

LEMMA RollStep ==
  ASSUME TypeOK, TypeOK', SchemaInv, UpgradeInv, [Next]_vars
  PROVE  RollInv'
  <1> SUFFICES ASSUME Upgrading' PROVE RollInv'
    BY Zenon DEF RollInv
  <1>u. VersionInv /\ UniformInv /\ RollInv
    BY Zenon DEF UpgradeInv
  <1>l. Stored \in 0..11 /\ Cached \in 0..11 /\ Passed \in 0..11
    BY LevelNumbers, Zenon
  <1>f. fresh => pc # "idle"
    BY <1>u, Zenon DEF VersionInv
  <1>p. PICK a, b, c : a = Stored /\ b = Cached /\ c = Passed
    BY Zenon
  <1>g. Near(a, a) /\ Near(b, b)
    BY <1>l, <1>p, Roles DEF Near, Gap, SchemaMigrating
  <1>o. ASSUME Upgrading
        PROVE  /\ InTurn /\ Honest(a) /\ Honest(b) /\ Within(a) /\ Within(b) /\ Near(a, b) /\ b <= a
               /\ pc # "idle" => Honest(c) /\ Within(c) /\ Near(a, c) /\ Near(b, c)
               /\ pc \in {"persistence", "upgrade"} => c <= b
               /\ fresh => a <= c
    BY <1>o, <1>p, <1>u, Zenon DEF RollInv
  \* Steps that change the object and the Deployments in nothing that matters here.
  <1>k. ASSUME spec'.version = spec.version, status' = status,
               \A s \in Services : dep'[s].template = dep[s].template /\ (Rolled(s) => Rolled(s)')
        PROVE  /\ Upgrading /\ Stored' = a
               /\ InTurn' /\ Honest(a)' /\ Honest(b)' /\ Within(a)' /\ Within(b)'
               /\ pc # "idle" => Honest(c)' /\ Within(c)'
    <2>1. Upgrading /\ Stored' = a
      BY <1>k, <1>p, Zenon DEF Upgrading, Stored, Level
    <2> QED BY <1>k, <1>o, <2>1, RollKept, Zenon
  <1>r. ASSUME spec'.version = spec.version, UNCHANGED <<dep, run>>
        PROVE  \A s \in Services : dep'[s].template = dep[s].template /\ (Rolled(s) => Rolled(s)')
    BY <1>r, Zenon DEF Rolled
  <1>1. CASE Quiet
    <2>1. UNCHANGED <<spec, status, cache, mem, fresh, pc>>
      BY <1>1, Zenon DEF Quiet, object, pass
    <2>2. \A s \in Services : dep'[s].template = dep[s].template /\ (Rolled(s) => Rolled(s)')
      BY <1>1, Zenon DEF Quiet
    <2>3. Cached' = b /\ Passed' = c
      BY <1>p, <2>1, Zenon DEF Cached, Passed, Level
    <2> QED BY <1>f, <1>k, <1>o, <2>1, <2>2, <2>3, RollAgain, Zenon
  <1>2. CASE Conditions
    <2>1. /\ UNCHANGED <<spec, status, cache, fresh, dep, run>> /\ mem'.spec = mem.spec
          /\ mem'.status.version = mem.status.version /\ mem'.status.upgrade = mem.status.upgrade
          /\ pc # "idle" /\ pc' # "idle"
          /\ pc' \in {"persistence", "upgrade"} => pc \in {"persistence", "upgrade"}
      BY <1>2, Zenon DEF Conditions, object
    <2>2. Cached' = b /\ Passed' = c
      BY <1>p, <2>1, Zenon DEF Cached, Passed, Level
    <2> QED BY <1>k, <1>o, <1>r, <2>1, <2>2, RollAgain, Zenon
  <1>3. CASE Drops
    <2>1. UNCHANGED <<spec, status, cache, dep, run>> /\ pc' = "idle" /\ ~ fresh'
      BY <1>3, Zenon DEF Drops, EndPass, object
    <2>2. Cached' = b
      BY <1>p, <2>1, Zenon DEF Cached, Level
    <2> QED BY <1>k, <1>o, <1>r, <2>1, <2>2, RollAgain, Zenon
  <1>4. ASSUME NEW v \in Versions, EditVersion(v) PROVE RollInv'
    BY <1>4, <1>u, RollEdit, Zenon
  <1>5. CASE EditInternalFrontend
    <2>1. /\ spec'.version = spec.version /\ UNCHANGED <<status, cache, mem, pc, dep, run>>
          /\ ~ fresh'
      BY <1>5, Zenon DEF EditInternalFrontend, Touched, TypeOK, SpecType, pods
    <2>2. Cached' = b /\ Passed' = c
      BY <1>p, <2>1, Zenon DEF Cached, Passed, Level
    <2> QED BY <1>k, <1>o, <1>r, <2>1, <2>2, RollAgain, Zenon
  <1>6. CASE SyncCache
    <2>1. /\ UNCHANGED <<spec, status, mem, fresh, pc, dep, run>> /\ ~ synced
          /\ cache'.spec = spec /\ cache'.status = status
      BY <1>6, Zenon DEF SyncCache, pass, pods
    <2>2. Cached' = a /\ Passed' = c
      BY <1>p, <2>1, Zenon DEF Cached, Stored, Passed, Level
    <2>3. ~ fresh'
      BY <2>1, Zenon DEF SchemaInv, PassInv
    <2>4. Upgrading /\ a <= a /\ (pc \in {"persistence", "upgrade"} => c <= a)
      BY <1>k, <1>l, <1>o, <1>p, <1>r, <2>1
    <2> QED BY <1>g, <1>k, <1>o, <1>r, <2>1, <2>2, <2>3, <2>4, RollAgain, Zenon
  <1>7. CASE Get
    <2>1. /\ UNCHANGED <<spec, status, cache, dep, run>> /\ fresh' = synced /\ pc' = "persistence"
          /\ mem'.spec = cache.spec /\ mem'.status = cache.status
      BY <1>7, Zenon DEF Get, object, pods
    <2>2. Cached' = b /\ Passed' = b
      BY <1>p, <2>1, Zenon DEF Cached, Passed, Level
    <2>3. (fresh' => a <= b) /\ b <= b
      <3>1. synced => Cached = Stored
        BY Zenon DEF Cached, Stored, SchemaInv, CacheInv
      <3> QED BY <1>l, <1>p, <2>1, <3>1
    <2> QED BY <1>g, <1>k, <1>o, <1>r, <2>1, <2>2, <2>3, RollAgain, Zenon
  <1>8. CASE ReconcileUpgrade
    BY <1>8, <1>u, RollUpgrade, Zenon
  <1>9. ASSUME NEW s \in Services, ApplyDeployment(s) PROVE RollInv'
    BY <1>9, <1>u, RollApply, Zenon
  <1>10. CASE UpdateStatus
    <2>1. /\ fresh /\ pc = "status" /\ mem.spec = spec /\ status'.upgrade = mem.status.upgrade
          /\ status'.version = mem.status.version \/ status'.version = spec.version
          /\ pc' = "idle" /\ ~ fresh' /\ UNCHANGED <<spec, cache, dep, run>>
      BY <1>10, UpdateFacts, Zenon
    <2>2. status'.version = mem.status.version /\ status'.version = status.version
      BY <1>u, <2>1, Zenon DEF Upgrading, VersionInv
    <2>3. Upgrading /\ Stored' = c /\ Cached' = b
      BY <1>p, <2>1, <2>2, Zenon DEF Upgrading, Stored, Passed, Cached, Level
    <2>4. InTurn' /\ Honest(c)' /\ Honest(b)' /\ Within(c)' /\ Within(b)'
      BY <1>o, <1>r, <2>1, <2>3, RollKept, Zenon
    <2>5. Near(c, b) /\ b <= c
      BY <1>l, <1>o, <1>p, <2>1, <2>3 DEF Near
    <2> QED BY <2>1, <2>3, <2>4, <2>5, RollAgain, Zenon
  <1> QED BY Kinds, <1>1, <1>2, <1>3, <1>4, <1>5, <1>6, <1>7, <1>8, <1>9, <1>10, Zenon

-----------------------------------------------------------------------------
(* Theorems.                                                               *)

\* What every copy of the object says of the versions and of the roll holds in every
\* reachable state of the reconciler, its cache, the Deployments and the users.
THEOREM UpgradeInvariance == Spec => []UpgradeInv
  <1>1. Init => UpgradeInv
    <2> SUFFICES ASSUME Init PROVE UpgradeInv
      OBVIOUS
    <2>1. /\ status.version = None /\ status.upgrade.phase = NoPhase
          /\ cache.spec = spec /\ cache.status = status /\ pc = "idle" /\ ~ fresh
          /\ \A s \in Services : dep[s].template = None
      BY Zenon DEF Init, NewStatus, NoUpgrade
    <2>2. VersionInv
      <3>1. CopyVersions(cache)
        BY <2>1, Zenon DEF CopyVersions
      <3>2. StampedBy(cache)
        BY <2>1 DEF StampedBy, None
      <3> QED BY <2>1, <3>1, <3>2, Zenon DEF VersionInv
    <2>3. UniformInv
      BY <2>1, Zenon DEF UniformInv
    <2>4. RollInv
      BY <2>1, Zenon DEF RollInv, Upgrading
    <2> QED BY <2>2, <2>3, <2>4, Zenon DEF UpgradeInv
  <1>2. TypeOK /\ TypeOK' /\ SchemaInv /\ SchemaInv' /\ UpgradeInv /\ [Next]_vars => UpgradeInv'
    BY VersionStep, UniformStep, RollStep, Zenon DEF UpgradeInv
  <1> QED BY <1>1, <1>2, TypeCorrect, SchemaInvariance, PTL DEF Spec

\* The upgrade goes one role at a time: upgradeServiceVersions templates a service at the
\* target only after serviceRolledOut has held of every earlier, never disabled one, and no
\* pass that works on an older copy of the object undoes what a later one relies on.
THEOREM RolesRollInTurn == Spec => []OneRoleAtATime
  <1>1. TypeOK /\ SchemaInv /\ UpgradeInv => OneRoleAtATime
    <2> SUFFICES ASSUME TypeOK, SchemaInv, UpgradeInv, status.upgrade.phase # NoPhase,
                        status.upgrade.to = spec.version
                 PROVE  InTurn
      BY Zenon DEF OneRoleAtATime, InTurn, Rolled
    <2>1. status.upgrade.from = status.version /\ status.upgrade.from # None
      BY Zenon DEF SchemaInv, StoredInv, SoundCopy
    <2>2. status.upgrade.from < status.upgrade.to
      BY Zenon DEF UpgradeInv, VersionInv
    <2>3. Upgrading
      BY <2>1, <2>2, Numbers, CopyNumbers DEF Upgrading
    <2> QED BY <2>3, Zenon DEF UpgradeInv, RollInv
  <1> QED BY <1>1, TypeCorrect, SchemaInvariance, UpgradeInvariance, PTL

\* status.version moves only to a version every always-enabled service is templated at:
\* completing an upgrade and stamping a first install (computeReadyAndPhase) both come after
\* the Deployments, whatever copy of the object the pass that writes it has read.
THEOREM StampedAfterRoll == Spec => StampAfterRoll
  <1>1. ASSUME TypeOK, SchemaInv, UpgradeInv, [Next]_vars, status'.version # status.version
        PROVE  \A s \in CoreServices : dep'[s].template = status'.version
    <2>1. UpdateStatus
      BY <1>1, Kinds, UpgradeDecides, ApplyFacts, Zenon
      DEF Quiet, Conditions, Drops, EditVersion, EditInternalFrontend, SyncCache, Get, Decided, object
    <2>2. /\ pc = "status" /\ fresh /\ mem.spec = spec /\ UNCHANGED dep
          /\ \/ status'.version = mem.status.version
             \/ /\ status'.version = spec.version
                /\ mem.status.schemaReady /\ mem.status.upgrade.phase = NoPhase
      BY <1>1, <2>1, UpdateFacts, Zenon
    <2>3. CASE /\ status'.version = spec.version
               /\ mem.status.schemaReady /\ mem.status.upgrade.phase = NoPhase
      BY <1>1, <2>2, <2>3, Zenon DEF UpgradeInv, UniformInv
    <2>4. CASE status'.version = mem.status.version
      <3>1. mem.status.version = spec.version /\ mem.status.version # status.version
        BY <1>1, <2>2, <2>4, Zenon DEF UpgradeInv, VersionInv
      <3>2. Upgrading
        BY <1>1, <2>2, <3>1, Numbers, Zenon DEF Upgrading, SchemaInv, PassInv, None
      <3>3. Passed = 11
        <4>1. mem.spec.version = spec.version /\ mem.status.version = mem.spec.version
          BY <2>2, <3>1, Zenon
        <4>2. Passed = Done
          BY <4>1, Zenon DEF Passed, Level
        <4> QED BY <4>2 DEF Done, Complete
      <3>4. Honest(Passed)
        BY <1>1, <2>2, <3>2, Zenon DEF UpgradeInv, RollInv
      <3>5. \A s \in CoreServices : SchemaMigrating + s < Passed
        BY <3>3, Roles DEF SchemaMigrating
      <3>6. \A s \in CoreServices : dep[s].template = spec.version
        BY <3>4, <3>5, Zenon DEF Honest, Rolled
      <3> QED BY <2>2, <2>4, <3>1, <3>6, Zenon
    <2> QED BY <2>2, <2>3, <2>4, Zenon
  <1>2. TypeOK /\ SchemaInv /\ UpgradeInv /\ [Next]_vars =>
          [status'.version # status.version =>
             \A s \in CoreServices : dep'[s].template = status'.version]_vars
    BY <1>1, Zenon
  <1> QED BY <1>2, TypeCorrect, SchemaInvariance, UpgradeInvariance, PTL DEF Spec, StampAfterRoll
=============================================================================
