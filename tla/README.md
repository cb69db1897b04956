# Specifications of temporal-operator

temporal-operator is a Kubernetes operator for Temporal: it installs and upgrades
Temporal clusters and dev servers, connects clusters to each other, and keeps
namespaces, schedules, search attributes, client certificates and one-off workflow runs
in step with custom resources. These TLA+ modules model its reconcilers together with
what they race. TLC checks them on small instances; TLAPS proves the safety properties, and
the one refinement, for every instance.

## The system

Every reconciler has the same skeleton. controller-runtime runs at most one pass
per object at a time. A pass reads the object through an informer cache that may be
behind, works on that copy, calls Kubernetes or Temporal on the way, and ends with
a status write that is refused if anybody wrote the object since it was read.
Errors, `RequeueAfter` and events of watched objects queue the next pass. So what a
pass did outside the object is durable at once, what it learnt is durable only if
the last write succeeds, and what it decided on may be old.

| Part | Module | What is hard about it |
|---|---|---|
| TemporalCluster reconciler, upgrade state machine | TemporalCluster | stale object, status lost after durable applies, retargeting in mid-roll, counts of an older template |
| Persistence stage, drivers, schema and inspector Jobs | Persistence, refining Migration | Job names without version, answers that outlive what they read, two stores |
| Admission webhook, configuration, object builders | Rendering | names one object gives and another uses, labels users override |
| mTLS, UI, monitoring, TemporalClusterClient | ClusterObjects | features switched on and off, rotated certificates, no watch on the cluster |
| TemporalWorkflowRun | WorkflowRun | started but not recorded, adoption, purge, deletion racing start |
| TemporalSchedule | Schedule | sent but not recorded, drift at the service |
| TemporalNamespace | Namespace | failover apart from update, half-done passes, finalizer dropped on error |
| TemporalClusterConnection | ClusterConnection | peers fail one by one, status computed from edited views |
| TemporalDevServer | DevServer | one SQLite file, swallowed conflicts, no requeue |
| TemporalSearchAttribute | SearchAttribute | visible later than added |
| the last two, joined by the readiness watch | DevEnvironment | each reconciler's stale view of the other |

`PROJECT.json` lists all parts with their sources, which lines each definition models,
and the hazards with the line where each bites and the property that would catch it.

## Modules

**TemporalCluster** is the cluster reconciler composed with its environment.
`spec` and `status` are the stored object, `cache`/`synced` the informer's copy,
`mem`/`fresh`/`pc`/`todo` the pass, `queued` the work queue; `schema` and `job` are
the datastore and the migration Job, `dep` the Deployments' templates and what
their controller has observed of them, `run` and `rdy` the pods by version.

| Action | Code |
|---|---|
| `Get` | Reconcile's read through the cache |
| `ReconcilePersistence` | reconcilePersistence, folded into one store and one Job |
| `ReconcileUpgrade` | reconcileUpgrade, advanceUpgrade, serviceRolledOut |
| `ApplyDeployment(s)` | reconcileServices, one Deployment at a time |
| `RollupServiceStatus`, `UpdateStatus` | rollupServiceStatus and computeReadyAndPhase, then the write |
| `ConflictOnStatus`, `AbortPass` | a refused write; any error, or the operator stopping, at any step |
| `EditVersion`, `EditInternalFrontend` | users behind the webhook |
| `Job...`, `ObserveDeployment`, `Scale...`, `Pod...` | Kubernetes and the schema tool (external) |

Versions are naturals in release order with an arbitrary matrix (`Minor`,
`AllowedFrom`, `MinSchema`).

**Persistence** is the persistence stage of the same pass in full. Each of the two stores
has a driver (direct SQL, SQL through an inspector Job, Cassandra, Elasticsearch), a
setup and an update Job, and perhaps an inspector Job with pods that carry its answer;
every read of a store, a Job or a pod is a step. Schema versions are sequences of numbers
and `CompareLess` compares them as CompareSchemaVersions does. Jobs are deleted in the
background, so the pod of a deleted Job may still run its tool or still show its answer.
**Migration** is what the stage promises, without Jobs, drivers or passes: a store is
bootstrapped once, then only ever moves up to what some version needs, and a version is
announced only when every store has what it needs. Persistence implements it under the
refinement mapping at its end (`KeepsPromise`).

**Rendering** has no state: the webhook's defaulting and checks, the sections and files of
the server configuration, and one operator per object builder and plan phase, over one
record of spec features. A rendered object keeps its name, the names it refers to, its
selectors, labels, ports and mounts. A hash is the value hashed. **ClusterObjects** is
the state around it: `cluster` and the pass's copy, the `objects` applied so far (nothing
is ever deleted), the certificates cert-manager `issued`, the secrets as the informer has
them, and a TemporalClusterClient. A pass applies what Rendering plans, in the code's order
and object by object where the order matters; users edit one feature at a time behind
`ValidateUpdate`.

**WorkflowRun** is the TemporalWorkflowRun reconciler with the executions of one
workflow ID at the service: our own, those others start or that continue as new,
running, closed or purged. `Existing` is the service's answer to a start: the
request ID is the object's UID, so a repeated request returns the run it started
as long as that is the current one; otherwise the reuse policy decides.

**Schedule** is the TemporalSchedule reconciler with the service's schedule. A spec
is a body and a paused flag, and the hash tells any two specs apart.

**Namespace** is the TemporalNamespace reconciler with the service's namespace: a body, a
list of clusters and the active one. `gen` and `observed` are the object's generation and
the one its status is about. `Accepted` is what the service demands of an active cluster.

In these three, one call of the service is one step; `FrontendUnavailable` is a call
that fails with a transient code, its effect at the service having happened or not;
`AbortPass` is any other failure or a stop of the operator; `TargetChanges` is the
readiness watch, which queues dependents of a changed target but not of a deleted one.

**ClusterConnection** is the TemporalClusterConnection reconciler: the peers of the spec,
what each local service holds about every other peer (`Holds`), and the views a pass loads
when it dials, edits with every upsert that succeeds, and judges the group by.

**DevServer** and **SearchAttribute** are two reconcilers; **DevEnvironment** composes them:
the attribute's target is the dev server as the operator's cache has it, its service is the
dev server's pod, and the watch between the two queues the attribute when a cached phase or
generation changes. A new pod starts empty unless the storage is persistent.

**MCTemporalCluster**, **MCPersistence** and **MCClusterObjects** hold instances. The modules
ending in `Proofs` hold the theorems.

## Runs

| Run | Checks | Instance |
|---|---|---|
| cluster_install | `TypeOK`, `SchemaGate`, `StampAfterRoll` | fresh install, two minors, frontend and worker, one fault |
| cluster_upgrade | `OneRoleAtATime`, `StampAfterRoll` | running cluster, three minors, three roles with the internal frontend on or off |
| cluster_liveness | `UpgradeCompletes` | running cluster, two minors, one fault |
| persistence | `ReadyMeansMigrated`, `SetupBeforeUpdate`, `SuccessIsCurrent`, `SchemaCompletes`, `KeepsPromise` | two releases, three layouts with every driver, one fault |
| rendering | `ReferencesExist`, `SelectorsMatch`, `AdmittedRenders`, `RotationReachesPods`, `ClientServed` | a plain and a full cluster, one edit, rotation or failure in the middle of anything |
| workflowrun | `TypeOK`, `NoRestart`, `FinishedIsClosed`, `RunIDStable`, `PolicyApplied`, `DeletionCompletes`, `RunFollowed` | Cancel and Terminate, three reuse policies, others' executions only while fewer than two exist, one fault |
| schedule | `TypeOK`, `DeletionHonoured`, `DeletionCompletes`, `Converges` | two edits, one fault |
| namespace | `TypeOK`, `ReadyIsActive`, `DeletionHonoured`, `DeletionCompletes`, `Converges` | local or global over two clusters, two edits, one fault |
| connection | `TypeOK`, `ReadyMeansConnected`, `Connects`, `DeletionCompletes` | two local peers and an external one, one edit, one fault |
| devenvironment | `OneWriter`, `PhaseCatchesUp`, `AttributeRegistered`, `DeletionCompletes` | two images and an unsupported version, one event (edit, lost pod, failed call) |
| finding_orphan, finding_dynamicconfig | one property each, expected to be violated | no fault; one edit |

- *SchemaGate*: once a cluster has run a version, no Deployment is templated at a
  server whose schema the store lacks.
- *OneRoleAtATime*: a role is templated at the target only after the earlier ones
  are and have all their new pods. *StampAfterRoll*: `status.version` moves only to
  the version all roles are templated at.
- *UpgradeCompletes*: edits and faults over, the cluster is ready at `spec.version`.
- *ReadyMeansMigrated*: a SchemaReady of a version means both stores have its schema.
  *SetupBeforeUpdate*: no update runs on a store without bookkeeping. *SuccessIsCurrent*:
  a succeeded update Job is one of this version. *SchemaCompletes*: faults over, both stores
  get there and the condition says so.
- *ReferencesExist*: no applied object names something no pass has made, certificates carry
  the names they are verified against, and the files the configuration names are mounted.
  *SelectorsMatch*: selectors pick the component's pods and no other's. *AdmittedRenders*:
  whatever admission lets through renders and keeps its shard count. *RotationReachesPods*,
  *ClientServed*: pods end up with the present configuration and certificates, clients with
  a certificate of the present issuer.
- *NoRestart*, *RunIDStable*: a start that is repeated starts nothing again, and the
  recorded run never changes. *FinishedIsClosed*: a run reported finished is.
- *PolicyApplied*: the finalizer leaves a running, recorded run only after its policy
  was applied, unless the target is gone. *RunFollowed*: a kept run is started, and its
  end recorded.
- *Converges* (schedule, namespace): the service ends up with the spec. *DeletionHonoured*:
  a pass that reached the service releases an object with allowDeletion only when what it
  manages is gone. *ReadyIsActive*: a Ready of the current generation is right about the
  active cluster.
- *ReadyMeansConnected*: a Ready group has every registration it claims. *Connects*: a kept
  group gets there.
- *OneWriter*: never two pods on the SQLite file. *PhaseCatchesUp*: the phase ends up true
  although conflicts are swallowed. *AttributeRegistered*: a kept attribute is registered,
  visible and reported so.
- *DeletionCompletes* (four modules): finalizers never stay for ever; two named exceptions are
  under the known divergences.

**Bounds.** Two adjacent minors exercise every phase and a migration; the third adds a
retarget in mid-upgrade. Frontend and worker are the first and last role; the
internal frontend is the one that comes and goes. One replica already separates
updated from ready from available pods because of the surge. The two releases of
MCPersistence move one store's schema and not the other's, and have versions that string
order and leading-component order would get wrong. Three peers give a local peer both a
local and an external other. One fault, at any step, is what a retry must survive; a
second one multiplies states without a new kind of race, because a fault ends the pass. The
theorems hold without these bounds.

**Fairness.** Weak fairness of each reconciler's steps: the work queue runs whatever is
queued. Weak fairness of the watches: they deliver. In the cluster and in Persistence, Jobs
end and expire, Deployments roll and the garbage collector collects; in ClusterObjects
cert-manager issues what it can and a pass comes again because informers resync (ten hours
by default), which is all that brings a rotated secret or a changed issuer to a reconciler
that does not watch it; in DevEnvironment pods start, serve and stop, and the service
finishes a registration; in ClusterConnection every target becomes ready in the end. Faults,
edits, changes by others and the end of workflows are never required. `CHECK_DEADLOCK FALSE`:
with nothing queued the operator really is at rest.

## Proofs

All theorems hold for every value of the constants that satisfies the named ASSUMEs: any
versions and matrix, roles, replica counts, policies, clusters, and any number of edits and
faults.

| Module | Theorems |
|---|---|
| TemporalClusterProofs | `TypeCorrect`, `SchemaBeforeServices` (`SchemaGate`), `RolesRollInTurn` (`OneRoleAtATime`), `StampedAfterRoll` (`StampAfterRoll`) |
| PersistenceProofs | `ReadyIsMigrated` (`ReadyMeansMigrated`), `SetupComesFirst` (`SetupBeforeUpdate`), `SuccessMeansCurrent` (`SuccessIsCurrent`), `PromiseKept` (`KeepsPromise`, the refinement of Migration) |
| ClusterObjectsProofs | `ReferencesAlwaysExist` (`ReferencesExist`), `SelectorsAlwaysMatch` (`SelectorsMatch`), `AdmittedAlwaysRenders` (`AdmittedRenders`) |
| WorkflowRunProofs | `TypeCorrect`, `NeverRestarted` (`NoRestart`), `FinishedStaysClosed` (`FinishedIsClosed`), `RunIDIsStable` (`RunIDStable`), `PolicyIsApplied` (`PolicyApplied`) |
| ScheduleProofs | `TypeCorrect`, `DeletionIsHonoured` (`DeletionHonoured`) |
| NamespaceProofs | `TypeCorrect`, `DeletionIsHonoured` (`DeletionHonoured`), `ReadyIsRight` (`ReadyIsActive`) |
| ClusterConnectionProofs | `TypeCorrect`, `ReadyIsConnected` (`ReadyMeansConnected`) |
| DevEnvironmentProofs | `NeverTwoWriters` (`OneWriter`) |

**The cluster.** The assumptions are that versions are positive, the matrix only allows
forward moves, schema requirements are monotone, and frontend and worker exist.
`SchemaGate` is not inductive: a step that templates a Deployment relies on a condition, and
conditions travel through stale copies. `SchemaInv` adds what every copy (stored, cached, the
pass's) says: the schema supports its running version; if its upgrade is at or past
SchemaMigrating, the schema supports the target; no version is ahead of its spec. The first
clause holds because a version is stamped only by a pass that saw it; the second because the
phase machine leaves PreflightChecks only in a pass that set Reachable itself, whose
SchemaReady is then about its own spec. A fresh pass has read the stored object, so its write
keeps these facts. `InstalledSince` covers a copy read before the first version was stamped.

**The upgrade.** `OneRoleAtATime` is about the stored object and the Deployments, but a pass applies
what its own copy says, and three copies may disagree. `Level` maps each of them to one scale: how far
it says the upgrade to the stored `spec.version` has come, 0 for a copy with an older spec.
`RollInv` then says, while the running version is not the requested one: every level is *honest* (the
always-enabled services it has left behind are rolled); two levels are *near* (no such service has its
turn strictly between them, since a pass moves one phase and starts from a copy no further than the
stored one); and no service is at the target that a level could not reach in one more step
(`Within`). An apply that brings a service to the target then does so in its turn, and one that takes
a service back, because its copy is a phase behind, takes back one no copy counts as rolled.
`VersionInv` (versions never go back, so an older copy wants an older version) disposes of passes with
another target, and `UniformInv` (a pass without an upgrade has applied its version everywhere before
it writes the status) gives `StampAfterRoll` for a first install. TLC found no violation
of the conjunction, `UpgradeInv`, on the instances of the cluster runs before it was proved.

**Workflow runs.** `RunInv` says of every copy, however old, that its run is one the service
knows and, if recorded finished, no longer runs (executions never resume, so this survives
staleness); of a copy with the stored resourceVersion, that it agrees with the object on what
users write and has its run; and of the pass, that it starts only without a run and reaches the
finalizer only through the policy. `ExecsStep` collects what any step does to the executions.

**Schedules and namespaces.** `TypeOK` says that the service holds something of ours only for an
object the finalizer protects. By itself that is not inductive; `Protected` adds that the finalizer
is never taken back before the end, so that a copy that has it, however old, proves the object has
it, and that no step that may create is reached without it. `Emptied` and `Fresh` carry
`DeletionHonoured` from the deletion call to the write that drops the finalizer.
`ReadyIsActive` needs more: a stale pass for an older spec may fail the namespace back. `Generations`
is the reason this is not reported as Ready: the stored status is never about a generation the cache
or the running pass has not reached, and copies of one generation have one spec, so any pass running
while the status is current is for the current spec. `Undisturbed` follows the answer of
the service through the pass as long as nothing has failed.

**Persistence and its promise.** `SchemaAssumption` says what the version matrix and the API admit:
schema versions of one or two parts below 1000 (`versions_gen.go`), and an Elasticsearch version that
is never behind what a server requires (the enum v7, v8 of `persistence_types.go`; schema_test.go
holds the matrix to it). `CompareIsNumber` shows that CompareSchemaVersions orders such versions as
the numbers they stand for; the rest is arithmetic. The argument rests on one fact, `Grown`: a store's
schema only moves up. So an answer of any age, an inspector's termination message or a report read
passes ago, is a lower bound of what the store has (`Honest`), and an update Job that succeeded vouches
for the version of its image for as long as it is there: that is `StoreInv`. `PassInv` says that a
pass is past a store only when the store is done or it remembers that it is not, and `ReadyInv` that
the verdict is right, in the stored status and in the pass's. The refinement maps a store to the number
of its schema and the stored status to the version announced; each step is shown to be one of
Migration's or a stutter: only the tools and an in-place template move a store, each up to what some
version needs, and only a status write announces.

**The objects.** What is applied comes from many specs: a pass works on the spec it read, may stop
between any two objects, and nothing is deleted. `Sound(k, o, D)` says of one object that it is what *some* spec
renders for its key, and that what that spec makes it lean on is among the keys D. Keys only
accumulate, so a sound object stays sound, and two sound maps laid over each other are sound; each plan
is shown sound where the pass applies it, `PassInv` recording what the earlier steps have made for the
same spec. References and selectors then follow object by object, without knowing which spec an object
is from. `AdmittedRenders` needs no more than that every update is checked in full.

**Connections.** A pass computes the status from views of the peers that it edits in memory. `CallInv`
says that the calls it has before it are about members, made by peers it dialed; `ViewInv` that every
view is what the peer holds, unless somebody else changed a registration; `CopyInv` that a fresh copy
differs from the object by the verdict alone; and `VerdictInv` that a pass about to store Ready has the
registrations, and that once it is stored every copy in use has the same peers, so that a stale pass
cannot undo it.

**The dev server.** `WriterInv`: a pass writes the Deployment whole, strategy Recreate with it, so the
controller starts a pod only when there is none.

**Only model-checked.** All liveness properties: fairness and ENABLED are out of the prover's reach. The
proofs take no part in the two runs that are expected to be violated.

## Known divergences

Two runs are expected to be violated; `PROJECT.json` quotes the lines.

- *finding_orphan*: an object deleted between Start and the status write loses its run
  ID, and its workflow survives policy Terminate.
- *finding_dynamicconfig*: the reconciler passes no hash of the dynamic configuration, so a change of
  it alone rolls no pods, although labels.go says it does.

Others were met on the way. The properties above are stated so that they hold in spite of them:

- During an installation, before any version was stamped, a failed probe leaves SchemaReady as it
  was for another `spec.version` and services are applied on it (temporalcluster_services.go:43).
  `SchemaGate` starts with the first stamped version.
- ReadyReplicas counts old pods, so a phase may end during the surge, before the new pod is ready
  (temporalcluster_upgrade.go:235). `OneRoleAtATime` asks for new pods, not for ready ones.
- The migration starts in the pass that creates the upgrade, while `rollbackable`, documented as
  whether the upgrade can still be rolled back, is still true (temporalcluster_persistence.go:262).
- The webhook compares specs, not the running version: two quick edits upgrade a cluster over a minor
  the matrix does not allow (temporalcluster_webhook.go:311-320).
- A schedule edit undone while it is being applied stays at the service: the hash of the undone spec
  was never stored (temporalschedule_controller.go:141-142). `Converges` holds with
  `Reverts = FALSE` and fails with `TRUE`.
- A Cassandra read that fails counts as a store without schema, and setup is run against it
  (cassandra.go:64-86); backend.go:36-37 promises an error.
- A namespace that is already gone keeps its deleted object: Delete's error is passed on as it is
  (client.go:213) and only ErrNamespaceNotFound is ignored. `DeletionStuck` names the case; so
  does `RemoveRefused` for a search attribute that is gone.
- A search attribute is not added again when an ephemeral dev server restarts: nothing looks after it
  is registered.
- A connection compares registrations by name and enabled flag: a changed address is never
  registered, a dropped peer never removed; a group with no local peer is never Ready.
- The configuration follows `spec.metrics.port`, the container and the headless Service use 9090;
  the datastore TLS files named by the configuration are mounted by nobody; objects of a feature that
  was switched off stay. `ReferencesExist` speaks of certificate files only and of references,
  not of leftovers.

## What the models leave out

- TemporalCluster: `status.phase` and per-service status, which no decision reads. An update reaches
  exactly the schema its image needs. Only the TemporalCluster object has a stale cache:
  Deployments and Jobs are read as they are. The version label and the image agree.
- Persistence: connections, queries, DSNs and credentials; a Secret that is missing is a failed probe.
  The setup of an existing store does nothing.
- Rendering: the text of `config_template.yaml` and its layout, resources, security contexts and probe
  timings, strategic merge patches of pod specs, the order of environment variables.
- ClusterObjects: the upgrade and the schema (TemporalCluster, Persistence); every service runs
  `spec.version`.
- WorkflowRun: inputs, timeouts and failure details; a finalizer of somebody else.
- Schedule: notes, action times; bodies changed at the service by others, which
  the code does not look for. Create refused because somebody else created the schedule is an
  aborted pass.
- Namespace and SearchAttribute: edits of names, which leave the old one behind; formats.
- ClusterConnection: addresses that change, two connections over one peer.

## Not modelled

The web UI (read-only pages over stored objects), the WASM preview and the generators (offline tools),
the manager's flags and wiring, generated deep copies, and the CRD schemas beyond the fields the
modules use: they have no state of their own and take part in no interleaving. The parsing of version
strings and the formats the webhooks check are functions of one value that the repository's
table tests cover.
