-------------------------- MODULE TemporalCluster --------------------------
(***************************************************************************)
(* The TemporalCluster reconciler (internal/controller), composed with     *)
(* what it races: user edits admitted by the webhook, the informer         *)
(* cache it reads through, the schema Jobs it starts, the Deployment       *)
(* controller that rolls the pods, and the loss of a pass at any step.     *)
(*                                                                         *)
(* One pass of Reconcile is a sequence of steps (variable pc).  Between    *)
(* two steps every other actor may move.  The pass works on a copy of the  *)
(* object (mem); nothing it decides is durable before Status().Update,     *)
(* while every Deployment it applies on the way is.                        *)
(***************************************************************************)
EXTENDS Integers, FiniteSetsExt, Functions

CONSTANTS
  Versions,     \* the supported server versions, naturals in release order
  Minor,        \* the minor release each version belongs to
  AllowedFrom,  \* AllowedFromVersions: the minors a version may be reached from
  MinSchema,    \* the schema version each server version needs
  Services,     \* the roles of the cluster, numbered by serviceUpgradeOrder: all
                \* five below, or fewer to keep an instance small
  Replicas,     \* spec.services.<name>.replicas
  MaxFaults     \* bound on faults (lost passes, failed probes, pod failures, ...)

None == 0                       \* "" where a version is expected

ServiceFrontend         == 1
ServiceHistory          == 2
ServiceMatching         == 3
ServiceInternalFrontend == 4
ServiceWorker           == 5
CoreServices == Services \ {ServiceInternalFrontend}     \* never disabled

NoPhase                 == 0    \* status.upgrade is nil
Pending                 == 1    \* the upgrade phases, in order: the phase that
PreflightChecks         == 2    \* rolls service s is s + SchemaMigrating
SchemaMigrating         == 3
RollingFrontend         == 4
RollingWorker           == 8
PostUpgrade             == 9
Complete                == 10

ASSUME VersionsAssumption == Versions \subseteq Nat \ {0}

ASSUME MatrixAssumption ==
  /\ Minor \in [Versions -> Nat]
  /\ AllowedFrom \in [Versions -> SUBSET Nat]
  /\ \A a, b \in Versions : Minor[a] < Minor[b] => a < b
  /\ \A v \in Versions : \A m \in AllowedFrom[v] : m < Minor[v]

ASSUME SchemaAssumption ==
  /\ MinSchema \in [Versions -> Nat \ {0}]
  /\ \A a, b \in Versions : a <= b => MinSchema[a] <= MinSchema[b]

ASSUME ServicesAssumption ==
  Services \subseteq 1..5 /\ {ServiceFrontend, ServiceWorker} \subseteq Services

ASSUME ReplicasAssumption == Replicas \in [Services -> Nat \ {0}]

ASSUME FaultsAssumption == MaxFaults \in Nat

VARIABLES
  spec,     \* the stored object's spec: version, internalFrontend
  status,   \* the stored object's status
  cache,    \* the object as the informer cache holds it
  synced,   \* the cache holds the latest stored object
  mem,      \* the pass's copy of the object, and the requeue it will ask for
  fresh,    \* mem's resourceVersion is still the stored one
  pc,       \* the step the pass is at
  todo,     \* the services whose Deployment this pass still has to apply
  queued,   \* the object is in the work queue
  schema,   \* the datastore's schema version (0: empty database)
  job,      \* the schema Job
  dep,      \* Deployments: the templated version, and the one last observed
  run,      \* pods of a service, by the version they run
  rdy,      \* the ready ones among them
  faults    \* faults so far

object == <<spec, status, cache, synced>>
pass   == <<mem, fresh, pc, todo>>
pods   == <<run, rdy>>
vars   == <<object, pass, queued, schema, job, dep, pods, faults>>

NoUpgrade == [from |-> None, to |-> None, phase |-> NoPhase, rollbackable |-> FALSE]

NewStatus == [version |-> None, upgrade |-> NoUpgrade, reachable |-> FALSE,
              schemaReady |-> FALSE, available |-> FALSE, ready |-> FALSE]

NoJob == [image |-> None, state |-> "absent"]

NoPass == [spec |-> [version |-> None, internalFrontend |-> FALSE],
           status |-> NewStatus, requeue |-> FALSE]     \* mem between passes

Fault == faults < MaxFaults /\ faults' = faults + 1

-----------------------------------------------------------------------------
(* The webhook (temporalcluster_webhook.go) and the version matrix.        *)

\* versions.go CanUpgrade: forward within a minor, or from an allowed minor.
CanUpgrade(from, to) ==
  /\ to \in Versions
  /\ IF Minor[to] = Minor[from] THEN to >= from ELSE Minor[from] \in AllowedFrom[to]

\* services.go EnabledServices.
EnabledServices(sp) ==
  IF sp.internalFrontend THEN Services ELSE CoreServices

\* The stored object changes: the cache is behind it, and so is a pass in flight.
Touched == synced' = FALSE /\ fresh' = FALSE

\* A user edits spec.version; ValidateUpdate compares the old spec with the new.
EditVersion(v) ==
  /\ v # spec.version
  /\ CanUpgrade(spec.version, v)
  /\ spec' = [spec EXCEPT !.version = v]
  /\ Touched
  /\ UNCHANGED <<status, cache, mem, pc, todo, queued, schema, job, dep, pods, faults>>

\* A user enables or disables the internal frontend.
EditInternalFrontend ==
  /\ Fault
  /\ spec' = [spec EXCEPT !.internalFrontend = ~ @]
  /\ Touched
  /\ UNCHANGED <<status, cache, mem, pc, todo, queued, schema, job, dep, pods>>

\* The watch delivers the latest object to the cache and queues it.
SyncCache ==
  /\ ~ synced
  /\ cache' = [spec |-> spec, status |-> status]
  /\ synced' = TRUE
  /\ queued' = TRUE
  /\ UNCHANGED <<spec, status, pass, schema, job, dep, pods, faults>>

-----------------------------------------------------------------------------
(* Reconcile, step by step.                                                *)

\* Reconcile starts: the object is read through the informer cache.
Get ==
  /\ pc = "idle"
  /\ queued
  /\ mem' = [spec |-> cache.spec, status |-> cache.status, requeue |-> FALSE]
  /\ fresh' = synced
  /\ queued' = FALSE
  /\ pc' = "persistence"
  /\ UNCHANGED <<object, todo, schema, job, dep, pods, faults>>

\* Mutant: a failed probe leaves the Reachable condition alone.
PersistenceUnreachableUnseen ==
  /\ pc = "persistence"
  /\ Fault
  /\ mem' = [mem EXCEPT !.requeue = TRUE]
  /\ pc' = "upgrade"
  /\ UNCHANGED <<object, fresh, todo, queued, schema, job, dep, pods>>

\* A store cannot be probed, or is still being inspected: Reachable turns False,
\* SchemaReady keeps the value it was read with, and the pass goes on.
PersistenceUnreachable ==
  /\ pc = "persistence"
  /\ Fault
  /\ mem' = [mem EXCEPT !.status.reachable = FALSE, !.requeue = TRUE]
  /\ pc' = "upgrade"
  /\ UNCHANGED <<object, fresh, todo, queued, schema, job, dep, pods>>

\* What SchemaVersion returns: the schema version, or (a failed read, a Job that
\* inspected the store before a migration) one the store has already left.
ReadsSchema(seen) ==
  \/ seen = schema /\ UNCHANGED faults
  \/ seen < schema /\ Fault

\* SchemaSatisfies: the store is at or above what spec.version needs.
SchemaSatisfied(seen) ==
  /\ pc = "persistence"
  /\ ReadsSchema(seen)
  /\ seen >= MinSchema[mem.spec.version]
  /\ mem' = [mem EXCEPT !.status.reachable = TRUE, !.status.schemaReady = TRUE,
                        !.requeue = FALSE]
  /\ pc' = "upgrade"
  /\ UNCHANGED <<object, fresh, todo, queued, schema, job, dep, pods>>

\* Mutant: replacing a Job clears its image and leaves its state.
EnsureSchemaJobKeepsState(v) ==
  job' = IF job.state = "absent" THEN [image |-> v, state |-> "running"]
         ELSE IF job.image # v THEN [job EXCEPT !.image = None]
         ELSE job

\* ensureSchemaJob: create the Job if absent, replace one of another version.
EnsureSchemaJob(v) ==
  job' = IF job.state = "absent" THEN [image |-> v, state |-> "running"]
         ELSE IF job.image # v THEN NoJob
         ELSE job

\* The store is behind: the Job of spec.version is ensured and SchemaReady turns
\* False.  A failed Job asks for no requeue.
SchemaBehind(seen) ==
  /\ pc = "persistence"
  /\ ReadsSchema(seen)
  /\ seen < MinSchema[mem.spec.version]
  /\ EnsureSchemaJob(mem.spec.version)
  /\ mem' = [mem EXCEPT !.status.reachable = TRUE, !.status.schemaReady = FALSE,
                        !.requeue = job # [image |-> mem.spec.version, state |-> "failed"]]
  /\ queued' = (queued \/ job' # job)
  /\ pc' = "upgrade"
  /\ UNCHANGED <<object, fresh, todo, schema, dep, pods>>

ReconcilePersistence ==
  \/ PersistenceUnreachable
  \/ \E seen \in 0..schema : SchemaSatisfied(seen) \/ SchemaBehind(seen)

-----------------------------------------------------------------------------
(* reconcileUpgrade: at most one step of the phase machine per pass.       *)

\* A fresh install, or the version already runs.
Settled(o) == o.status.version \in {None, o.spec.version}

\* Mutant: a retarget keeps the phase of the upgrade it replaces.
CurrentUpgradeKeepsPhase(o) ==
  LET up == o.status.upgrade
  IN  IF up.phase = NoPhase
      THEN [from |-> o.status.version, to |-> o.spec.version,
            phase |-> Pending, rollbackable |-> TRUE]
      ELSE [up EXCEPT !.to = o.spec.version]

\* The upgrade this pass works on: a new one unless one to spec.version is underway.
CurrentUpgrade(o) ==
  LET up == o.status.upgrade
  IN  IF up.phase = NoPhase \/ up.to # o.spec.version
      THEN [from |-> o.status.version, to |-> o.spec.version,
            phase |-> Pending, rollbackable |-> TRUE]
      ELSE up

RollingPhases   == RollingFrontend..RollingWorker
RollingOf(p)    == p - SchemaMigrating       \* rollingPhaseService

\* serviceRolledOut: templated at v, observed by the Deployment controller,
\* UpdatedReplicas and ReadyReplicas as desired.  ReadyReplicas counts the ready
\* pods of every version.
ServiceRolledOut(s, v) ==
  /\ dep[s].template = v
  /\ dep[s].observed = dep[s].template
  /\ run[s][v] = Replicas[s]
  /\ SumFunction(rdy[s]) = Replicas[s]

\* nextRollingPhase, afterMatchingPhase: the next enabled service, if any.
NextRollingPhase(sp, p) ==
  LET later == {s \in EnabledServices(sp) : s > RollingOf(p)}
  IN  IF later = {} THEN PostUpgrade ELSE SchemaMigrating + Min(later)

\* reconcileUpgrade leaves version and upgrade; the services follow unless the
\* schema is not ready, in which case reconcileServices returns at once.
UpgradeStep(version, up) ==
  /\ pc = "upgrade"
  /\ mem' = [mem EXCEPT !.status.version = version, !.status.upgrade = up]
  /\ IF mem.status.schemaReady
     THEN pc' = "services" /\ todo' = EnabledServices(mem.spec)
     ELSE pc' = "status"   /\ todo' = {}
  /\ UNCHANGED <<object, fresh, queued, schema, job, dep, pods, faults>>

MoveTo(phase, rollbackable) ==
  UpgradeStep(mem.status.version,
              [CurrentUpgrade(mem) EXCEPT !.phase = phase, !.rollbackable = rollbackable])

NoUpgradeNeeded ==
  /\ Settled(mem)
  /\ UpgradeStep(mem.status.version, NoUpgrade)

AdvanceUpgrade ==
  LET up == CurrentUpgrade(mem)
  IN  /\ ~ Settled(mem)
      /\ \/ up.phase = Pending /\ MoveTo(PreflightChecks, up.rollbackable)
         \/ /\ up.phase = PreflightChecks
            /\ IF mem.status.reachable THEN MoveTo(SchemaMigrating, FALSE)
                                       ELSE MoveTo(up.phase, up.rollbackable)
         \/ /\ up.phase = SchemaMigrating
            /\ MoveTo(IF mem.status.schemaReady THEN RollingFrontend ELSE up.phase, FALSE)
         \/ /\ up.phase \in RollingPhases
            /\ MoveTo(IF ServiceRolledOut(RollingOf(up.phase), up.to)
                      THEN NextRollingPhase(mem.spec, up.phase) ELSE up.phase,
                      up.rollbackable)
         \/ up.phase = PostUpgrade /\ MoveTo(Complete, up.rollbackable)
         \/ up.phase = Complete /\ UpgradeStep(up.to, NoUpgrade)

ReconcileUpgrade == NoUpgradeNeeded \/ AdvanceUpgrade

-----------------------------------------------------------------------------
(* reconcileServices, and the end of the pass.                             *)

\* upgradeServiceVersions, or uniformVersions when no upgrade is underway.
ServiceVersion(o, s) ==
  LET up == o.status.upgrade
  IN  IF up.phase = NoPhase THEN o.spec.version
      ELSE IF s <= RollingOf(up.phase) THEN up.to ELSE up.from

\* EnabledServices lists the internal frontend last.
IsNext(s) ==
  /\ s \in todo
  /\ \A t \in todo \ {s, ServiceInternalFrontend} : s < t /\ s # ServiceInternalFrontend

\* One server-side apply.  An apply that changes nothing makes no event.
ApplyDeployment(s) ==
  LET v == ServiceVersion(mem, s)
  IN  /\ pc = "services"
      /\ IsNext(s)
      /\ dep' = [dep EXCEPT ![s].template = v]
      /\ todo' = todo \ {s}
      /\ queued' = (queued \/ v # dep[s].template)
      /\ UNCHANGED <<object, mem, fresh, pc, schema, job, pods, faults>>

\* rollupServiceStatus: Available is one ready pod, of whatever version, each.
RollupServiceStatus ==
  /\ pc = "services"
  /\ todo = {}
  /\ mem' = [mem EXCEPT !.status.available =
               \A s \in EnabledServices(mem.spec) : SumFunction(rdy[s]) >= 1]
  /\ pc' = "status"
  /\ UNCHANGED <<object, fresh, todo, queued, schema, job, dep, pods, faults>>

\* Mutant: the version is stamped during an upgrade too.
ComputeReadyStampsUpgrade(o) ==
  LET st    == o.status
      ready == st.reachable /\ st.schemaReady /\ st.available
  IN  [st EXCEPT !.ready = ready, !.version = IF ready THEN o.spec.version ELSE @]

\* computeReadyAndPhase: the Ready condition, and the version stamped with it.
ComputeReady(o) ==
  LET st    == o.status
      ready == st.reachable /\ st.schemaReady /\ st.available
  IN  [st EXCEPT !.ready = ready,
                 !.version = IF ready /\ st.upgrade.phase = NoPhase
                             THEN o.spec.version ELSE @]

EndPass == mem' = NoPass /\ fresh' = FALSE /\ pc' = "idle" /\ todo' = {}

\* Status().Update is accepted: nobody wrote the object since mem was read.
UpdateStatus ==
  /\ pc = "status"
  /\ fresh
  /\ status' = ComputeReady(mem)
  /\ synced' = (status' = status)
  /\ queued' = (queued \/ mem.requeue)
  /\ EndPass
  /\ UNCHANGED <<spec, cache, schema, job, dep, pods, faults>>

\* Status().Update conflicts: everything the pass decided is dropped.
ConflictOnStatus ==
  /\ pc = "status"
  /\ ~ fresh
  /\ queued' = TRUE
  /\ EndPass
  /\ UNCHANGED <<object, schema, job, dep, pods, faults>>

\* The pass is lost: a call fails and Reconcile returns the error, or the operator
\* stops.  The retry, or the restart, queues the object.
AbortPass ==
  /\ pc # "idle"
  /\ Fault
  /\ queued' = TRUE
  /\ EndPass
  /\ UNCHANGED <<object, schema, job, dep, pods>>

Reconcile ==
  \/ Get
  \/ ReconcilePersistence
  \/ ReconcileUpgrade
  \/ \E s \in Services : ApplyDeployment(s)
  \/ RollupServiceStatus
  \/ UpdateStatus
  \/ ConflictOnStatus

-----------------------------------------------------------------------------
(* What the reconciler drives: the schema Job and the Deployments.  Each   *)
(* change of an owned object queues the cluster.                           *)

\* The admin-tools container brings the schema to its version's level.
JobMigrates ==
  /\ job.state = "running"
  /\ schema < MinSchema[job.image]
  /\ schema' = MinSchema[job.image]
  /\ UNCHANGED <<object, pass, queued, job, dep, pods, faults>>

JobEnds(state) ==
  /\ job.state = "running"
  /\ job' = [job EXCEPT !.state = state]
  /\ queued' = TRUE
  /\ UNCHANGED <<object, pass, schema, dep, pods>>

JobSucceeds == JobEnds("succeeded") /\ schema >= MinSchema[job.image] /\ UNCHANGED faults

JobFails == JobEnds("failed") /\ Fault

\* Mutant: the controller does not own Jobs, so their end goes unnoticed.
JobExpiresUnseen ==
  /\ job.state \in {"succeeded", "failed"}
  /\ job' = NoJob
  /\ UNCHANGED <<object, pass, queued, schema, dep, pods, faults>>

\* ttlSecondsAfterFinished.
JobExpires ==
  /\ job.state \in {"succeeded", "failed"}
  /\ job' = NoJob
  /\ queued' = TRUE
  /\ UNCHANGED <<object, pass, schema, dep, pods, faults>>

ObserveDeployment(s) ==
  /\ dep[s].observed # dep[s].template
  /\ dep' = [dep EXCEPT ![s].observed = dep[s].template]
  /\ queued' = TRUE
  /\ UNCHANGED <<object, pass, schema, job, pods, faults>>

\* A step of the Deployment controller on an observed template.
Rolls(s) ==
  /\ dep[s].template # None
  /\ dep[s].observed = dep[s].template
  /\ queued' = TRUE
  /\ UNCHANGED <<object, pass, schema, job, dep, faults>>

\* maxSurge 25% of a handful of replicas: one pod above the desired count.
ScaleUp(s) ==
  LET v == dep[s].template
  IN  /\ Rolls(s)
      /\ run[s][v] < Replicas[s]
      /\ SumFunction(run[s]) <= Replicas[s]
      /\ run' = [run EXCEPT ![s][v] = @ + 1]
      /\ UNCHANGED rdy

\* maxUnavailable 25% of a handful of replicas, none: an old pod goes only when
\* the desired count stays ready, an old unready one when it is in excess.
ScaleDown(s, v) ==
  LET new == dep[s].template
  IN  /\ Rolls(s)
      /\ v # new
      /\ SumFunction(run[s]) - (run[s][new] - rdy[s][new]) > Replicas[s]
      /\ run[s][v] > 0
      /\ run' = [run EXCEPT ![s][v] = @ - 1]
      /\ \/ rdy[s][v] < run[s][v] /\ UNCHANGED rdy
         \/ /\ rdy[s][v] = run[s][v]
            /\ SumFunction(rdy[s]) > Replicas[s]
            /\ rdy' = [rdy EXCEPT ![s][v] = @ - 1]

PodReady(s, v) ==
  /\ rdy[s][v] < run[s][v]
  /\ rdy' = [rdy EXCEPT ![s][v] = @ + 1]
  /\ queued' = TRUE
  /\ UNCHANGED <<object, pass, schema, job, dep, run, faults>>

PodUnready(s, v) ==
  /\ rdy[s][v] > 0
  /\ Fault
  /\ rdy' = [rdy EXCEPT ![s][v] = @ - 1]
  /\ queued' = TRUE
  /\ UNCHANGED <<object, pass, schema, job, dep, run>>

Environment ==
  \/ JobMigrates \/ JobSucceeds \/ JobFails \/ JobExpires
  \/ \E s \in Services : ObserveDeployment(s) \/ ScaleUp(s)
  \/ \E s \in Services, v \in Versions : ScaleDown(s, v) \/ PodReady(s, v) \/ PodUnready(s, v)

User == (\E v \in Versions : EditVersion(v)) \/ EditInternalFrontend

-----------------------------------------------------------------------------

\* A cluster just created: an empty database, no Job and no Deployment.
Init ==
  /\ spec \in [version : Versions, internalFrontend : BOOLEAN]
  /\ status = NewStatus
  /\ cache = [spec |-> spec, status |-> status]
  /\ synced = TRUE
  /\ mem = NoPass
  /\ fresh = FALSE
  /\ pc = "idle"
  /\ todo = {}
  /\ queued = TRUE
  /\ schema = 0
  /\ job = NoJob
  /\ dep = [s \in Services |-> [template |-> None, observed |-> None]]
  /\ run = [s \in Services |-> [v \in Versions |-> 0]]
  /\ rdy = [s \in Services |-> [v \in Versions |-> 0]]
  /\ faults = 0

Next == Reconcile \/ AbortPass \/ SyncCache \/ User \/ Environment

Spec == Init /\ [][Next]_vars

\* The work queue runs every queued object, the watch delivers, Jobs and pods
\* make progress.  Nothing is asked of users, and faults are never required.
Fairness ==
  /\ WF_vars(Reconcile)
  /\ WF_vars(SyncCache)
  /\ WF_vars(JobMigrates) /\ WF_vars(JobSucceeds) /\ WF_vars(JobExpires)
  /\ \A s \in Services :
       /\ WF_vars(ObserveDeployment(s))
       /\ WF_vars(ScaleUp(s))
       /\ \A v \in Versions : WF_vars(ScaleDown(s, v)) /\ WF_vars(PodReady(s, v))

FairSpec == Spec /\ Fairness

-----------------------------------------------------------------------------
(* Properties.                                                             *)

SpecType == [version : Versions, internalFrontend : BOOLEAN]
UpgradeType ==
  [from : Versions \cup {None}, to : Versions \cup {None},
   phase : NoPhase..Complete, rollbackable : BOOLEAN]
StatusType ==
  [version : Versions \cup {None}, upgrade : UpgradeType,
   reachable : BOOLEAN, schemaReady : BOOLEAN, available : BOOLEAN, ready : BOOLEAN]

\* Types of the stored object, of its copies, and of what the reconciler drives.
TypeOK ==
  /\ spec \in SpecType
  /\ status \in StatusType
  /\ cache \in [spec : SpecType, status : StatusType]
  /\ mem \in [spec : SpecType \cup {NoPass.spec}, status : StatusType, requeue : BOOLEAN]
  /\ synced \in BOOLEAN /\ fresh \in BOOLEAN /\ queued \in BOOLEAN
  /\ pc \in {"idle", "persistence", "upgrade", "services", "status"}
  /\ pc # "idle" => mem.spec \in SpecType
  /\ todo \subseteq Services
  /\ schema \in Nat
  /\ job \in [image : Versions \cup {None}, state : {"absent", "running", "succeeded", "failed"}]
  /\ job.state # "absent" => job.image \in Versions
  /\ dep \in [Services -> [template : Versions \cup {None}, observed : Versions \cup {None}]]
  /\ run \in [Services -> [Versions -> Nat]]
  /\ rdy \in [Services -> [Versions -> Nat]]
  /\ \A s \in Services, v \in Versions : rdy[s][v] <= run[s][v]
  /\ faults \in 0..MaxFaults

\* "Schema migrations run before any service is rolled": once the cluster has run
\* a version, no Deployment templates a server whose schema the store lacks,
\* although the condition reconcileServices checks may be one read earlier.
SchemaGate ==
  status.version # None =>
    \A s \in Services : dep[s].template # None => schema >= MinSchema[dep[s].template]

\* The roll goes one role at a time, through lost passes and conflicts: a service
\* is templated at the target only when every earlier, never disabled one is, and
\* the Deployment controller has created all its pods of the target.
OneRoleAtATime ==
  status.upgrade.phase # NoPhase /\ status.upgrade.to = spec.version =>
    \A i \in CoreServices, j \in Services :
      i < j /\ dep[j].template = spec.version =>
        dep[i].template = spec.version /\ run[i][spec.version] = Replicas[i]

\* status.version (the running version) moves only to the version every
\* always-enabled service is templated at, whichever pass writes it.
StampAfterRoll ==
  [][status'.version # status.version =>
       \A s \in CoreServices : dep'[s].template = status'.version]_vars

\* Edits and faults over, the cluster ends up ready at spec.version with no
\* upgrade left: no phase, Job, conflict or lost event wedges the roll.
UpgradeCompletes ==
  <>[](/\ status.version = spec.version /\ status.upgrade = NoUpgrade
       /\ status.ready
       /\ \A s \in EnabledServices(spec) : dep[s].template = spec.version)

=============================================================================
