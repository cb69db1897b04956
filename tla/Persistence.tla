---------------------------- MODULE Persistence ----------------------------
(***************************************************************************)
(* The persistence stage of a TemporalCluster pass in full: two stores,    *)
(* each behind its own driver, each with a setup and an update Job, and an *)
(* inspector Job for the stores the operator may not connect to itself.    *)
(* TemporalCluster folds all of this into one schema number and one Job;   *)
(* here every read of a store, a Job or a Job's pod is a step of its own.  *)
(***************************************************************************)
EXTENDS Naturals, Sequences, FiniteSetsExt

CONSTANTS
  Versions,    \* 1..n: the cluster versions, in upgrade order
  MinSchema,   \* version, driver and store -> schema version the server requires
  EsVersion,   \* spec.elasticsearch.version
  Layouts,     \* the assignments of drivers to stores considered
  MaxFaults    \* bound on faults, and on finished Jobs that expire under a pass's eyes

Stores  == {"default", "visibility"}
Actions == {"setup", "update"}                  \* ActionSetup, ActionUpdate
Drivers == {"sql", "inspector", "cassandra", "elasticsearch"}

VARIABLES
  spec,     \* spec.version
  driver,   \* store -> the backend buildSchemaTargets picks for it
  status,   \* the stored conditions PersistenceReachable and SchemaReady
  queued,   \* the cluster is in the work queue
  mem,      \* the pass's copy of the version and the conditions
  fresh,    \* nobody wrote the cluster since the pass read it
  pc, at,   \* the step of the pass, and the store it is at
  report,   \* store -> the inspector's answer this pass has cached
  moving,   \* some store of this pass is not done
  db,       \* store -> schema version of the database
  jobs,     \* store -> action -> schema Job
  stray,    \* store -> versions of update Jobs deleted while their tool ran
  insp,     \* store -> inspector Job, its answer, answers of deleted ones' pods
  faults    \* faults so far

pass == <<mem, fresh, pc, at, report, moving>>
kube == <<jobs, stray, insp>>
vars == <<spec, driver, status, queued, pass, db, kube, faults>>

ASSUME PersistenceAssumption ==
  /\ Versions \subseteq Nat \ {0} /\ \E v \in Versions : \A w \in Versions : v <= w
  /\ MaxFaults \in Nat
  /\ Layouts \subseteq [Stores -> Drivers]

-----------------------------------------------------------------------------
(* Schema versions: sequences of numbers, "" the empty one.                *)

NoSchema   == <<>>
Bootstrap  == <<0, 0>>          \* setup-schema -v 0.0

\* componentAt: a missing component counts as zero.
ComponentAt(v, i) == IF i <= Len(v) THEN v[i] ELSE 0

\* Mutant: only the leading component is compared.
CompareLeading(a, b) == ComponentAt(a, 1) < ComponentAt(b, 1)

\* CompareSchemaVersions(a, b) < 0.
CompareLess(a, b) ==
  \E i \in 1..Max({Len(a), Len(b)}) :
    /\ ComponentAt(a, i) < ComponentAt(b, i)
    /\ \A j \in 1..(i - 1) : ComponentAt(a, j) = ComponentAt(b, j)

SchemaSatisfies(current, required) == current # NoSchema /\ ~ CompareLess(current, required)

\* minSchemaFor: the two SQL stores have version lines of their own.
MinSchemaFor(v, s) == MinSchema[<<v, driver[s], s>>]

\* The reference the comparison is held against: what the store has, by the number a
\* version of one or two parts stands for.
Number(v)       == 1000 * ComponentAt(v, 1) + ComponentAt(v, 2)
Satisfied(s, v) == db[s] # NoSchema /\ Number(db[s]) >= Number(MinSchemaFor(v, s))

\* The versions of the matrix have one or two parts, none of which reaches 1000, and every
\* Elasticsearch version the API admits has what every server requires.
Parts          == 0..999
SchemaVersions == {v \in Seq(Parts) : Len(v) \in 1..2}

ASSUME SchemaAssumption ==
  /\ \A v \in Versions, d \in Drivers, s \in Stores : MinSchema[<<v, d, s>>] \in SchemaVersions
  /\ EsVersion \in SchemaVersions
  /\ \A v \in Versions, s \in Stores :
       Number(EsVersion) >= Number(MinSchema[<<v, "elasticsearch", s>>])

-----------------------------------------------------------------------------
NoJob       == [image |-> 0, state |-> "absent"]
NoInspector == [state |-> "absent", answer |-> {}, old |-> {}]
Unread      == [reachable |-> FALSE, version |-> NoSchema]

NoStatus == [reachable |-> "unknown", schema |-> "unknown", of |-> 0]
NoPass   == [version |-> 0, status |-> NoStatus]

Fault == faults < MaxFaults /\ faults' = faults + 1

\* The backends are built anew in every pass.
EndPass(again) ==
  /\ mem' = NoPass /\ fresh' = FALSE /\ pc' = "idle" /\ at' = "default"
  /\ report' = [s \in Stores |-> Unread] /\ moving' = FALSE
  /\ queued' = (queued \/ again)

\* Mutant: an unreachable store ends the pass without a requeue.
UnreachableForgotten(why) == mem' = [mem EXCEPT !.status.reachable = why] /\ pc' = "status"

\* setReachable(false), setInspecting: the rest of the stage is skipped, SchemaReady
\* stays what it was.
Unreachable(why) == mem' = [mem EXCEPT !.status.reachable = why] /\ pc' = "requeue"

\* ResolveStore, of either store: a Secret or a key that is not there.
ResolveStoreFails ==
  /\ Fault /\ pc' = "requeue"
  /\ mem' = [version |-> spec, status |-> [status EXCEPT !.reachable = "unreachable"]]

\* A pass starts with buildSchemaTargets: the credentials of both stores are read before
\* anything else.
Get ==
  /\ pc = "idle" /\ queued
  /\ queued' = FALSE /\ fresh' = TRUE
  /\ \/ pc' = "probe" /\ mem' = [version |-> spec, status |-> status] /\ UNCHANGED faults
     \/ ResolveStoreFails
  /\ UNCHANGED <<spec, driver, status, at, report, moving, db, kube>>

\* The store answered: on to the next one, or to the schemas.
Probed ==
  \/ at = "default" /\ at' = "visibility" /\ UNCHANGED <<mem, pc>>
  \/ /\ at = "visibility" /\ at' = "default" /\ pc' = "schema"
     /\ mem' = [mem EXCEPT !.status.reachable = "reachable"]

\* sqlBackend, cassandraBackend and esBackend connect to the store.
ProbeDirectly ==
  /\ pc = "probe" /\ driver[at] # "inspector"
  /\ \/ Probed /\ UNCHANGED faults
     \/ Fault /\ Unreachable("unreachable") /\ UNCHANGED at
  /\ UNCHANGED <<spec, driver, status, queued, fresh, report, moving, db, kube>>

\* Delete with background propagation: the Job is gone at once, its pods are not.
DeleteInspector(s) ==
  insp' = IF insp[s].state = "deleting" THEN insp ELSE
          [insp EXCEPT ![s] = [NoInspector EXCEPT !.old = insp[s].old \cup insp[s].answer]]

Terminal(state) == state \in {"complete", "failed"}             \* jobIsTerminal

\* ensureInspectorJob, then the answers of every pod that carries the Job's name, a
\* deleted namesake's included.
InspectorUsable(s) == insp[s].state # "deleting"
InspectorPods(s)   == insp[s].answer \cup insp[s].old

\* BuildInspectorJob: one pod, never retried, under a name that does not change.
BuildInspectorJob(old) == [state |-> "running", answer |-> {}, old |-> old]

EnsureInspectorJob(s) ==
  insp' = IF insp[s].state = "absent" THEN [insp EXCEPT ![s] = BuildInspectorJob(insp[s].old)]
          ELSE insp

ProbeInspected ==
  /\ pc = "probe" /\ driver[at] = "inspector"
  /\ \/ /\ InspectorUsable(at) /\ EnsureInspectorJob(at)
        /\ \E r \in InspectorPods(at) :
             /\ report' = [report EXCEPT ![at] = r]
             /\ \/ r.reachable /\ Probed
                \/ ~ r.reachable /\ Unreachable("unreachable") /\ UNCHANGED at
     \/ /\ InspectorUsable(at) /\ InspectorPods(at) = {}
        /\ IF Terminal(insp[at].state) THEN DeleteInspector(at) ELSE EnsureInspectorJob(at)
        /\ Unreachable("inspecting") /\ UNCHANGED <<at, report>>
     \/ /\ ~ InspectorUsable(at)
        /\ Unreachable("inspecting") /\ UNCHANGED <<at, report, insp>>
  /\ UNCHANGED <<spec, driver, status, queued, fresh, moving, db, jobs, stray, faults>>

\* A call about the inspector fails, or its message does not parse.
ProbeFails ==
  /\ pc = "probe" /\ driver[at] = "inspector"
  /\ Fault /\ Unreachable("unreachable")
  /\ UNCHANGED <<spec, driver, status, queued, fresh, at, report, moving, db, kube>>

-----------------------------------------------------------------------------
(* reconcileStoreSchema and reconcileJobSchema, one store at a time.       *)

SetSchemaReady(how) ==
  mem' = [mem EXCEPT !.status.schema = how, !.status.of = mem.version]

\* Mutant: the visibility store's result is the stage's.
StoreResultLast(done) ==
  \/ /\ at = "default" /\ at' = "visibility" /\ pc' = "schema"
     /\ UNCHANGED <<mem, moving>>
  \/ /\ at = "visibility" /\ UNCHANGED at /\ moving' = ~ done
     /\ \/ moving' /\ SetSchemaReady("migrating") /\ pc' = "requeue"
        \/ ~ moving' /\ SetSchemaReady("ready") /\ pc' = "status"

\* The store's result: both done is SchemaReady, one not done is a requeue.
StoreResult(done) ==
  \/ /\ at = "default" /\ at' = "visibility" /\ pc' = "schema"
     /\ moving' = (moving \/ ~ done)
     /\ UNCHANGED mem
  \/ /\ at = "visibility" /\ UNCHANGED at /\ moving' = (moving \/ ~ done)
     /\ \/ moving' /\ SetSchemaReady("migrating") /\ pc' = "requeue"
        \/ ~ moving' /\ SetSchemaReady("ready") /\ pc' = "status"

\* The drivers' SchemaVersion.  SQL fails with anything but a missing row or table, which
\* AbortPass covers; a Cassandra session or query that fails, whatever the cause, reads as
\* ""; Elasticsearch answers spec.version for a template that is there; the inspector's
\* backend repeats the answer this pass has cached.
SQLVersion(current) == driver[at] = "sql" /\ current = db[at] /\ UNCHANGED faults

CassandraVersion(current) ==
  /\ driver[at] = "cassandra"
  /\ \/ current = db[at] /\ UNCHANGED faults
     \/ current = NoSchema /\ Fault

ElasticsearchVersion(current) ==
  driver[at] = "elasticsearch" /\ current = db[at] /\ UNCHANGED faults

InspectorVersion(current) ==
  driver[at] = "inspector" /\ current = report[at].version /\ UNCHANGED faults

ReadsVersion(current) ==
  \/ SQLVersion(current)
  \/ CassandraVersion(current)
  \/ ElasticsearchVersion(current)
  \/ InspectorVersion(current)

\* esBackend.EnsureSchema puts the index template; the other drivers leave it to Jobs.
EnsureSchemaInline ==
  driver[at] = "elasticsearch" /\ db' = [db EXCEPT ![at] = EsVersion]

\* An index template is put in place within the pass and read again.
ReconcileStoreSchema ==
  /\ pc = "schema"
  /\ \E current \in {db[at], report[at].version, NoSchema} :
       /\ ReadsVersion(current)
       /\ LET min == MinSchemaFor(mem.version, at) IN
          \/ SchemaSatisfies(current, min) /\ StoreResult(TRUE) /\ UNCHANGED db
          \/ /\ ~ SchemaSatisfies(current, min) /\ EnsureSchemaInline
             /\ StoreResult(SchemaSatisfies(EsVersion, min))
          \/ /\ ~ SchemaSatisfies(current, min) /\ driver[at] # "elasticsearch"
             /\ pc' = IF current = NoSchema THEN "setup" ELSE "update"
             /\ UNCHANGED <<mem, at, moving, db>>
  /\ UNCHANGED <<spec, driver, status, queued, fresh, report, kube>>

\* Mutant: a Job of another version is taken for this one's.
JobRunsAnyImage(s, a) == jobs[s][a].state # "absent"

JobRunsImage(s, a) == jobs[s][a].image = mem.version

\* Mutant: a setup Job that is still running is good enough for the update.
ClassifyJobOptimistic(s, a) ==
  IF a = "setup" /\ jobs[s][a].state = "running" THEN "succeeded" ELSE jobs[s][a].state

ClassifyJob(s, a) == jobs[s][a].state

\* BuildSchemaJob: the admin-tools image of the version is all that tells two Jobs apart.
BuildSchemaJob == [image |-> mem.version, state |-> "running"]

\* ensureSchemaJob: create what is absent, wait for what is on its way out, delete what
\* runs another version's tool (its pod may go on for a while), else say how it fares.
EnsureSchemaJob ==
  LET a == pc
      j == jobs[at][a]
  IN  /\ pc \in Actions
      /\ \/ /\ j.state = "absent"
            /\ jobs' = [jobs EXCEPT ![at][a] = BuildSchemaJob]
            /\ StoreResult(FALSE) /\ UNCHANGED stray
         \/ /\ j.state = "deleting" /\ StoreResult(FALSE) /\ UNCHANGED <<jobs, stray>>
         \/ /\ j.state \notin {"absent", "deleting"} /\ ~ JobRunsImage(at, a)
            /\ jobs' = [jobs EXCEPT ![at][a] = NoJob]
            /\ stray' = IF j.state = "running" /\ a = "update"
                        THEN [stray EXCEPT ![at] = @ \cup {j.image}] ELSE stray
            /\ StoreResult(FALSE)
         \/ /\ j.state \notin {"absent", "deleting"} /\ JobRunsImage(at, a)
            /\ \/ ClassifyJob(at, a) = "failed" /\ SetSchemaReady("failed") /\ pc' = "status"
                  /\ UNCHANGED <<at, moving>>
               \/ ClassifyJob(at, a) = "succeeded" /\ UNCHANGED <<mem, at, moving>>
                  /\ pc' = IF a = "setup" THEN "update" ELSE "drop"
               \/ ClassifyJob(at, a) = "running" /\ StoreResult(FALSE)
            /\ UNCHANGED <<jobs, stray>>
      /\ UNCHANGED <<spec, driver, status, queued, fresh, report, db, insp, faults>>

\* deleteInspectorJob: the answer this pass used is older than the migration.
DeleteInspectorJob ==
  /\ pc = "drop"
  /\ DeleteInspector(at)
  /\ StoreResult(FALSE)
  /\ UNCHANGED <<spec, driver, status, queued, fresh, report, db, jobs, stray, faults>>

UpdateStatus ==
  /\ pc \in {"status", "requeue"}
  /\ \/ fresh /\ status' = mem.status /\ EndPass(pc = "requeue")
     \/ ~ fresh /\ EndPass(TRUE) /\ UNCHANGED status
  /\ UNCHANGED <<spec, driver, db, kube, faults>>

\* A call to a store or to the API server fails: nothing is recorded.
AbortPass ==
  /\ pc \notin {"idle", "probe"}
  /\ Fault
  /\ EndPass(TRUE)
  /\ UNCHANGED <<spec, driver, status, db, kube>>

Reconcile ==
  \/ Get
  \/ ProbeDirectly
  \/ ProbeInspected
  \/ ReconcileStoreSchema
  \/ EnsureSchemaJob
  \/ DeleteInspectorJob
  \/ UpdateStatus

-----------------------------------------------------------------------------
(* The tools, the Job controller, the garbage collector and the user.      *)

SetJob(s, a, state) == jobs' = [jobs EXCEPT ![s][a].state = state] /\ queued' = TRUE

\* setup-schema leaves a store that has its bookkeeping as it is; update-schema applies
\* what the store lacks, and nothing to a store without bookkeeping.
ToolResult(s, a, v) ==
  IF a = "setup" THEN IF db[s] = NoSchema THEN Bootstrap ELSE db[s]
  ELSE IF db[s] = NoSchema \/ Satisfied(s, v) THEN db[s] ELSE MinSchemaFor(v, s)

ToolRuns(s, a) ==
  /\ jobs[s][a].state = "running"
  /\ db' = [db EXCEPT ![s] = ToolResult(s, a, jobs[s][a].image)]
  /\ db' # db
  /\ UNCHANGED <<spec, driver, status, queued, pass, kube, faults>>

\* The pod of a deleted update Job gets its work done, or is stopped before.
StrayEnds(s, v) ==
  /\ v \in stray[s]
  /\ stray' = [stray EXCEPT ![s] = @ \ {v}]
  /\ db' \in {db, [db EXCEPT ![s] = ToolResult(s, "update", v)]}
  /\ UNCHANGED <<spec, driver, status, queued, pass, jobs, insp, faults>>

JobSucceeds(s, a) ==
  /\ jobs[s][a].state = "running"
  /\ db[s] # NoSchema
  /\ ToolResult(s, a, jobs[s][a].image) = db[s]
  /\ SetJob(s, a, "succeeded")
  /\ UNCHANGED <<spec, driver, status, pass, db, stray, insp, faults>>

JobFails(s, a) ==
  /\ jobs[s][a].state = "running"
  /\ Fault
  /\ SetJob(s, a, "failed")
  /\ UNCHANGED <<spec, driver, status, pass, db, stray, insp>>

\* ttlSecondsAfterFinished: ten minutes, against passes seconds apart, so that a good Job
\* goes in the middle of things only within the bound.  An inspector Job's is half of it,
\* so that an answer from before a setup does not outlive the setup Job.
JobExpires(s, a) ==
  /\ jobs[s][a].state \in {"succeeded", "failed"}
  /\ a = "setup" /\ db[s] # NoSchema => \A r \in InspectorPods(s) : r.version # NoSchema
  /\ IF jobs[s][a].state = "succeeded" THEN Fault ELSE UNCHANGED faults
  /\ SetJob(s, a, "deleting")
  /\ UNCHANGED <<spec, driver, status, pass, db, stray, insp>>

JobGone(s, a) ==
  /\ jobs[s][a].state = "deleting"
  /\ jobs' = [jobs EXCEPT ![s][a] = NoJob] /\ queued' = TRUE
  /\ UNCHANGED <<spec, driver, status, pass, db, stray, insp, faults>>

SetInspector(s, j) == insp' = [insp EXCEPT ![s] = j] /\ queued' = TRUE

\* InspectSQL: what goes wrong is part of the answer, and a schema that cannot be read is
\* answered as "".
InspectSQL(s, r) ==
  \/ r = [reachable |-> TRUE, version |-> db[s]] /\ UNCHANGED faults
  \/ r = [reachable |-> TRUE, version |-> NoSchema] /\ Fault
  \/ r = [reachable |-> FALSE, version |-> NoSchema] /\ Fault

\* manager inspect: the answer is the pod's termination message, the exit code is 0.
InspectorAnswers(s) ==
  /\ insp[s].state = "running"
  /\ \E r \in [reachable : BOOLEAN, version : {db[s], NoSchema}] :
       /\ InspectSQL(s, r)
       /\ SetInspector(s, [insp[s] EXCEPT !.state = "complete", !.answer = {r}])
  /\ UNCHANGED <<spec, driver, status, pass, db, jobs, stray>>

\* The pod ends without a message (evicted, image missing).  backoffLimit is 0.
InspectorFails(s) ==
  /\ insp[s].state = "running"
  /\ Fault
  /\ SetInspector(s, [insp[s] EXCEPT !.state = "failed"])
  /\ UNCHANGED <<spec, driver, status, pass, db, jobs, stray>>

\* The pod of a finished inspector is collected before its Job.
InspectorPodLost(s) ==
  /\ insp[s].answer # {} /\ insp[s].state = "complete"
  /\ Fault
  /\ insp' = [insp EXCEPT ![s].answer = {}]
  /\ UNCHANGED <<spec, driver, status, queued, pass, db, jobs, stray>>

InspectorExpires(s) ==
  /\ Terminal(insp[s].state)
  /\ IF \E r \in insp[s].answer : r.reachable /\ r.version = db[s] THEN Fault ELSE UNCHANGED faults
  /\ SetInspector(s, [insp[s] EXCEPT !.state = "deleting"])
  /\ UNCHANGED <<spec, driver, status, pass, db, jobs, stray>>

InspectorGone(s) ==
  /\ insp[s].state = "deleting"
  /\ SetInspector(s, [NoInspector EXCEPT !.old = insp[s].old])
  /\ UNCHANGED <<spec, driver, status, pass, db, jobs, stray, faults>>

OldPodsGone(s) ==
  /\ insp[s].old # {}
  /\ insp' = [insp EXCEPT ![s].old = {}]
  /\ UNCHANGED <<spec, driver, status, queued, pass, db, jobs, stray, faults>>

Tools ==
  \/ \E s \in Stores, a \in Actions : ToolRuns(s, a) \/ JobSucceeds(s, a)
                                      \/ JobExpires(s, a) \/ JobGone(s, a)
  \/ \E s \in Stores : \E v \in stray[s] : StrayEnds(s, v)

Inspectors ==
  \E s \in Stores : InspectorAnswers(s) \/ InspectorExpires(s) \/ InspectorGone(s)

GarbageCollector == \E s \in Stores : OldPodsGone(s)

Failures ==
  \/ \E s \in Stores, a \in Actions : JobFails(s, a)
  \/ \E s \in Stores : InspectorFails(s) \/ InspectorPodLost(s)

\* The webhook lets spec.version move to the next release.
EditVersion ==
  /\ spec + 1 \in Versions
  /\ spec' = spec + 1
  /\ fresh' = FALSE /\ queued' = TRUE
  /\ UNCHANGED <<driver, status, mem, pc, at, report, moving, db, kube, faults>>

-----------------------------------------------------------------------------
Init ==
  /\ spec = Min(Versions) /\ driver \in Layouts
  /\ status = NoStatus /\ queued = TRUE
  /\ mem = NoPass /\ fresh = FALSE /\ pc = "idle" /\ at = "default"
  /\ report = [s \in Stores |-> Unread] /\ moving = FALSE
  /\ db = [s \in Stores |-> NoSchema]
  /\ jobs = [s \in Stores |-> [a \in Actions |-> NoJob]]
  /\ stray = [s \in Stores |-> {}]
  /\ insp = [s \in Stores |-> NoInspector]
  /\ faults = 0

Next == Reconcile \/ ProbeFails \/ AbortPass \/ Tools \/ Inspectors \/ GarbageCollector \/ Failures \/ EditVersion

Spec == Init /\ [][Next]_vars

\* The work queue is served, and of what the tools and their Jobs, the inspectors, and the
\* garbage collector can do, some gets done.  The collector needs its own: a pass that
\* finds an old pod's answer deletes the inspector that would have given a new one.
Fairness ==
  /\ WF_vars(Reconcile) /\ WF_vars(Tools) /\ WF_vars(Inspectors) /\ WF_vars(GarbageCollector)

FairSpec == Spec /\ Fairness

-----------------------------------------------------------------------------
(* Properties.                                                             *)

\* A SchemaReady condition set for a version means that both stores have the schema that
\* version's server requires, whatever age the answers it was set from had: an inspector's
\* answer from before a migration, or from the pod of an inspector already deleted.
ReadyMeansMigrated ==
  status.schema = "ready" => \A s \in Stores : Satisfied(s, status.of)

\* update-schema never runs against a store without bookkeeping: the setup Job of this
\* version has succeeded first, and no Job of an earlier version stands in for it.
SetupBeforeUpdate ==
  \A s \in Stores : jobs[s]["update"].state # "absent" => db[s] # NoSchema

\* What reconcileJobSchema concludes from a succeeded update Job, "the schema version is
\* now current", is so: the Job ran the tool of the version this pass is about.
SuccessIsCurrent ==
  pc = "drop" => Satisfied(at, mem.version)

\* Once faults stop, both stores reach the schema of the requested version and the cluster
\* says so, through failed Jobs, inspectors that never answer and answers gone stale.
SchemaCompletes ==
  <>[](status.schema = "ready" /\ status.of = spec /\ status.reachable = "reachable")

Level(v) == IF v = NoSchema THEN 0 ELSE 1 + Number(v)

Promise == INSTANCE Migration WITH
  need   <- [v \in Versions |-> [s \in Stores |-> Level(MinSchemaFor(v, s))]],
  inline <- {s \in Stores : driver[s] = "elasticsearch"},
  level  <- [s \in Stores |-> Level(db[s])],
  told   <- IF status.schema = "ready" THEN status.of ELSE 0

\* The stage implements Migration: a store is set up once, is only ever taken up to what
\* some version needs, and no step announces a version some store is not ready for.
KeepsPromise == Promise!Spec
=============================================================================
