------------------------------ MODULE Schedule ------------------------------
(***************************************************************************)
(* The TemporalSchedule reconciler: one custom resource kept in step with  *)
(* one schedule of a Temporal service.  The service is not asked what it   *)
(* runs: status.lastAppliedSpecHash remembers what was last sent to it,    *)
(* and only the paused flag is compared with the service's.                *)
(*                                                                         *)
(* A pass is a sequence of steps on a copy read through the informer       *)
(* cache, one step per call of the service, as in WorkflowRun.             *)
(***************************************************************************)
EXTENDS Naturals

CONSTANTS
  MaxEdits,   \* bound on edits of the schedule
  MaxFaults,  \* bound on faults
  Reverts     \* users may return to an earlier body

ASSUME ScheduleAssumption == MaxEdits \in Nat /\ MaxFaults \in Nat /\ Reverts \in BOOLEAN

VARIABLES
  cr,      \* the stored TemporalSchedule
  cache,   \* the same as the informer cache holds it
  synced,  \* the cache holds the latest stored object
  mem,     \* the pass's copy
  fresh,   \* the copy's resourceVersion is the stored one
  seen,    \* the target as this pass resolved it
  pc,      \* the step the pass is at
  queued,  \* the object is in the work queue
  target,  \* the cluster or dev server the schedule refers to
  remote,  \* the service's schedule
  edits,   \* edits so far
  faults   \* faults so far

object == <<cr, cache, synced>>
pass   == <<mem, fresh, seen, pc>>
vars   == <<object, pass, queued, target, remote, edits, faults>>

\* What scheduleParams makes of a spec: the calendar, action and policies (body)
\* and the paused flag.  computeSpecHash tells any two of them apart.
Params   == [body : 0..MaxEdits, paused : BOOLEAN]
NoParams == [body |-> 0, paused |-> FALSE, none |-> TRUE]

NewSchedule(allow) ==
  [here |-> TRUE, deleting |-> FALSE, finalizer |-> FALSE, allow |-> allow,
   spec |-> [body |-> 0, paused |-> FALSE], hash |-> NoParams, ready |-> FALSE]

Gone(o) == [o EXCEPT !.here = FALSE]

Missing == [exists |-> FALSE, ready |-> FALSE]

Fault == faults < MaxFaults /\ faults' = faults + 1

-----------------------------------------------------------------------------
(* The steps of a pass.                                                    *)

Goto(step) == pc' = step /\ UNCHANGED <<mem, fresh, seen>>

EndPass(again) ==
  /\ mem' = Gone(NewSchedule(FALSE)) /\ fresh' = FALSE /\ seen' = Missing /\ pc' = "idle"
  /\ queued' = (queued \/ again)

\* Reconcile reads the object through the cache; a missing one needs nothing.
Get ==
  /\ pc = "idle" /\ queued
  /\ queued' = FALSE
  /\ IF cache.here
     THEN mem' = cache /\ fresh' = synced /\ pc' = "resolve" /\ UNCHANGED seen
     ELSE UNCHANGED pass
  /\ UNCHANGED <<object, target, remote, edits, faults>>

\* resolveTarget and the client.  A deleted schedule whose target does not resolve,
\* for whatever reason, is forgotten: removeFinalizerAndForget.
ResolveTarget ==
  /\ pc = "resolve"
  /\ \/ /\ target.exists /\ seen' = target
        /\ pc' = IF mem.deleting THEN "delete" ELSE "finalizer"
        /\ UNCHANGED <<mem, faults>>
     \/ /\ mem.deleting /\ seen' = Missing /\ pc' = "release"
        /\ IF target.exists THEN Fault ELSE UNCHANGED faults
        /\ UNCHANGED mem
     \/ /\ ~ target.exists /\ ~ mem.deleting /\ seen' = Missing /\ pc' = "status"
        /\ mem' = [mem EXCEPT !.ready = FALSE]
        /\ UNCHANGED faults
  /\ UNCHANGED <<object, fresh, queued, target, remote, edits>>

\* A write of the object by the pass: accepted if nobody wrote it since.
Store(o) ==
  /\ fresh
  /\ cr' = o
  /\ synced' = (synced /\ o = cr)
  /\ UNCHANGED cache

\* Mutant: the finalizer is left to the status write.
EnsureFinalizerLater ==
  /\ pc = "finalizer"
  /\ \/ seen.ready /\ mem' = [mem EXCEPT !.finalizer = TRUE] /\ pc' = "describe"
     \/ ~ seen.ready /\ mem' = [mem EXCEPT !.ready = FALSE] /\ pc' = "status"
  /\ UNCHANGED <<object, fresh, seen, queued, target, remote, edits, faults>>

\* The finalizer is there before the service is asked for anything.
EnsureFinalizer ==
  LET o == [mem EXCEPT !.finalizer = TRUE]
  IN  /\ pc = "finalizer"
      /\ \/ mem.finalizer /\ UNCHANGED object
         \/ ~ mem.finalizer /\ Store(o)
      /\ \/ seen.ready /\ mem' = o /\ pc' = "describe"
         \/ ~ seen.ready /\ mem' = [o EXCEPT !.ready = FALSE] /\ pc' = "status"
      /\ UNCHANGED <<fresh, seen, queued, target, remote, edits, faults>>

\* Mutant: equal hashes leave nothing to do.
DescribeScheduleTrusts ==
  /\ pc = "describe"
  /\ \/ remote = NoParams /\ Goto("create")
     \/ remote # NoParams /\ mem.hash # mem.spec /\ Goto("update")
     \/ remote # NoParams /\ mem.hash = mem.spec /\ Goto("observe")
  /\ UNCHANGED <<object, queued, target, remote, edits, faults>>

\* reconcileSchedule asks whether the schedule exists and compares the hashes.
DescribeSchedule ==
  /\ pc = "describe"
  /\ \/ remote = NoParams /\ Goto("create")
     \/ remote # NoParams /\ mem.hash # mem.spec /\ Goto("update")
     \/ remote # NoParams /\ mem.hash = mem.spec /\ Goto("pause")
  /\ UNCHANGED <<object, queued, target, remote, edits, faults>>

\* Create and Update send the whole schedule.
Apply ==
  /\ pc \in {"create", "update"}
  /\ pc = "update" => remote # NoParams
  /\ remote' = mem.spec
  /\ mem' = [mem EXCEPT !.hash = mem.spec]
  /\ pc' = "observe"
  /\ UNCHANGED <<object, fresh, seen, queued, target, edits, faults>>

\* reconcilePause: the hash does not change when somebody pauses at the service.
ReconcilePause ==
  /\ pc = "pause" /\ remote # NoParams
  /\ Goto(IF remote.paused = mem.spec.paused THEN "observe" ELSE "patch")
  /\ UNCHANGED <<object, queued, target, remote, edits, faults>>

Pause ==
  /\ pc = "patch" /\ remote # NoParams
  /\ remote' = [remote EXCEPT !.paused = mem.spec.paused]
  /\ Goto("observe")
  /\ UNCHANGED <<object, queued, target, edits, faults>>

\* The last Describe of reconcileSchedule, which fills the status.
Observe ==
  /\ pc = "observe" /\ remote # NoParams
  /\ mem' = [mem EXCEPT !.ready = TRUE]
  /\ pc' = "status"
  /\ UNCHANGED <<object, fresh, seen, queued, target, remote, edits, faults>>

\* The schedule vanished since the pass described it: an error.
NotFound ==
  /\ pc \in {"update", "pause", "patch", "observe"} /\ remote = NoParams
  /\ EndPass(TRUE)
  /\ UNCHANGED <<object, target, remote, edits, faults>>

\* A frontend that is not serving, or whose answer is lost: Ready turns False and
\* what the pass holds is written.
FrontendUnavailable ==
  /\ pc \in {"describe", "create", "update", "pause", "patch", "observe"}
  /\ Fault
  /\ \/ UNCHANGED remote
     \/ pc = "create" /\ remote' = mem.spec
     \/ pc = "update" /\ remote # NoParams /\ remote' = mem.spec
  /\ mem' = [mem EXCEPT !.ready = FALSE]
  /\ pc' = "status"
  /\ UNCHANGED <<object, fresh, seen, queued, target, edits>>

UpdateStatus ==
  /\ pc = "status"
  /\ Store(mem)
  /\ EndPass(TRUE)
  /\ UNCHANGED <<target, remote, edits, faults>>

\* Mutant: a schedule that is not found fails the deletion.
DeleteScheduleNeedsRemote ==
  /\ pc = "delete"
  /\ IF mem.allow /\ remote = NoParams THEN EndPass(TRUE) ELSE Goto("release") /\ UNCHANGED queued
  /\ remote' = IF mem.allow THEN NoParams ELSE remote
  /\ UNCHANGED <<object, target, edits, faults>>

\* reconcileDelete: the schedule goes only if deletion is allowed.
DeleteSchedule ==
  /\ pc = "delete"
  /\ Goto("release")
  /\ remote' = IF mem.allow THEN NoParams ELSE remote
  /\ UNCHANGED <<object, queued, target, edits, faults>>

\* Mutant: the finalizer is removed whatever the resourceVersion.
RemoveFinalizerUnchecked ==
  /\ pc = "release"
  /\ cr' = Gone(cr)
  /\ synced' = FALSE
  /\ EndPass(FALSE)
  /\ UNCHANGED <<cache, target, remote, edits, faults>>

RemoveFinalizer ==
  /\ pc = "release"
  /\ Store(Gone(mem))
  /\ EndPass(FALSE)
  /\ UNCHANGED <<target, remote, edits, faults>>

\* A write of the pass meets a newer object: the error retries the pass.
Conflict ==
  /\ \/ pc \in {"status", "release"}
     \/ pc = "finalizer" /\ ~ mem.finalizer
  /\ ~ fresh
  /\ EndPass(cr.here)
  /\ UNCHANGED <<object, target, remote, edits, faults>>

\* A call fails otherwise, or the operator stops.
AbortPass ==
  /\ pc # "idle"
  /\ Fault
  /\ EndPass(TRUE)
  /\ UNCHANGED <<object, target, remote, edits>>

Reconcile ==
  \/ Get \/ ResolveTarget \/ EnsureFinalizer \/ DescribeSchedule \/ Apply \/ ReconcilePause
  \/ Pause \/ Observe \/ NotFound \/ UpdateStatus \/ DeleteSchedule \/ RemoveFinalizer
  \/ Conflict

-----------------------------------------------------------------------------
(* Users, the watch, the target and the service.                           *)

UserWrites(o) ==
  /\ cr' = o /\ synced' = FALSE /\ fresh' = FALSE
  /\ UNCHANGED <<cache, mem, seen, pc, queued, target, remote, faults>>

Delete ==
  /\ cr.here /\ ~ cr.deleting
  /\ UserWrites(IF cr.finalizer THEN [cr EXCEPT !.deleting = TRUE] ELSE Gone(cr))
  /\ UNCHANGED edits

\* The webhook lets everything but the ID and the namespace change.
Edit(o) ==
  /\ cr.here /\ edits < MaxEdits
  /\ edits' = edits + 1
  /\ UserWrites(o)

EditSpec(p) ==
  /\ p # cr.spec
  /\ Reverts \/ p.body >= cr.spec.body
  /\ Edit([cr EXCEPT !.spec = p])

EditAllowDeletion == Edit([cr EXCEPT !.allow = ~ @])

SyncCache ==
  /\ ~ synced
  /\ cache' = cr /\ synced' = TRUE /\ queued' = TRUE
  /\ UNCHANGED <<cr, pass, target, remote, edits, faults>>

\* clusterReadinessChanged queues the dependents of a target whose readiness or
\* generation changes, and not those of a deleted one.
TargetChanges(t) ==
  /\ target.exists /\ t # target
  /\ Fault
  /\ target' = t
  /\ queued' = (queued \/ t.exists)
  /\ UNCHANGED <<object, pass, remote, edits>>

\* Somebody pauses, unpauses or deletes the schedule at the service.
OtherChanges ==
  /\ remote # NoParams
  /\ Fault
  /\ \/ remote' = [remote EXCEPT !.paused = ~ @]
     \/ remote' = NoParams
  /\ UNCHANGED <<object, pass, queued, target, edits>>

Environment ==
  \/ Delete \/ SyncCache \/ EditAllowDeletion \/ OtherChanges
  \/ \E p \in Params : EditSpec(p)
  \/ \E ready \in BOOLEAN : TargetChanges([exists |-> TRUE, ready |-> ready])
  \/ TargetChanges(Missing)

Init ==
  /\ \E allow \in BOOLEAN : cr = NewSchedule(allow)
  /\ cache = cr /\ synced = TRUE
  /\ mem = Gone(NewSchedule(FALSE)) /\ fresh = FALSE /\ seen = Missing /\ pc = "idle"
  /\ queued = TRUE
  /\ target \in [exists : {TRUE}, ready : BOOLEAN]
  /\ remote = NoParams
  /\ edits = 0 /\ faults = 0

Next == Reconcile \/ FrontendUnavailable \/ AbortPass \/ Environment

Spec == Init /\ [][Next]_vars

\* Queued objects are reconciled and the watch delivers.
FairSpec == Spec /\ WF_vars(Reconcile) /\ WF_vars(SyncCache)

-----------------------------------------------------------------------------
(* Properties.                                                             *)

ScheduleType ==
  [here : BOOLEAN, deleting : BOOLEAN, finalizer : BOOLEAN, allow : BOOLEAN,
   spec : Params, hash : Params \cup {NoParams}, ready : BOOLEAN]

\* Types, and that the service holds a schedule only for an object that is, or was,
\* protected by the finalizer.
TypeOK ==
  /\ cr \in ScheduleType /\ cache \in ScheduleType /\ mem \in ScheduleType
  /\ synced \in BOOLEAN /\ fresh \in BOOLEAN /\ queued \in BOOLEAN
  /\ {seen, target} \subseteq [exists : BOOLEAN, ready : BOOLEAN]
  /\ pc \in {"idle", "resolve", "finalizer", "describe", "create", "update", "pause", "patch",
             "observe", "status", "delete", "release"}
  /\ remote \in Params \cup {NoParams}
  /\ remote # NoParams => cr.finalizer
  /\ edits \in 0..MaxEdits /\ faults \in 0..MaxFaults

\* A schedule whose deletion is allowed is gone from the service when its finalizer
\* is, if the pass reached the service: whoever changes allowDeletion meanwhile, the
\* value that counts is the one stored when the object goes.
DeletionHonoured ==
  [][cr.here /\ cr.finalizer /\ ~ cr'.here /\ seen.exists /\ cr.allow => remote = NoParams]_vars

\* A deleted object does go away, whatever is lost, refused or missing.
DeletionCompletes == cr.deleting ~> ~ cr.here

\* temporalschedule_types.go: "LastAppliedSpecHash detects spec changes across operator
\* restarts".  On a target that stays ready, the schedule of a kept object ends up as
\* its spec says, paused flag included.
Converges ==
  <>[](cr.here /\ ~ cr.deleting /\ target = [exists |-> TRUE, ready |-> TRUE])
    => <>[](remote = cr.spec)
=============================================================================
