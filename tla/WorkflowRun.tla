---------------------------- MODULE WorkflowRun ----------------------------
(***************************************************************************)
(* The TemporalWorkflowRun reconciler: one custom resource that starts one *)
(* workflow execution on a Temporal service, follows it, and on deletion   *)
(* applies its cancellation policy before the finalizer lets it go.        *)
(*                                                                         *)
(* As in TemporalCluster, a pass is a sequence of steps on a copy of the   *)
(* object read through the informer cache, and only writes with a current  *)
(* resourceVersion are accepted.  The service keeps the executions of the  *)
(* workflow ID in order of start; the last one is the current one.         *)
(***************************************************************************)
EXTENDS Integers, Sequences

CONSTANTS
  Policies,       \* cancellation policies users choose from
  ReusePolicies,  \* workflowIDReusePolicy values users choose from
  MaxRuns,        \* bound on executions others start or continue
  MaxFaults       \* bound on faults

ASSUME WorkflowRunAssumption ==
  /\ Policies \subseteq {"Abandon", "Cancel", "Terminate"}
  /\ ReusePolicies \subseteq {"AllowDuplicate", "RejectDuplicate", "TerminateIfRunning"}
  /\ MaxRuns \in Nat /\ MaxFaults \in Nat

VARIABLES
  cr,      \* the stored TemporalWorkflowRun
  cache,   \* the same as the informer cache holds it
  synced,  \* the cache holds the latest stored object
  mem,     \* the pass's copy
  fresh,   \* the copy's resourceVersion is the stored one
  seen,    \* the target as this pass resolved it
  pc,      \* the step the pass is at
  queued,  \* the object is in the work queue
  target,  \* the cluster or dev server the run refers to
  execs,   \* the service's executions of the workflow ID
  faults   \* faults so far

object == <<cr, cache, synced>>
pass   == <<mem, fresh, seen, pc>>
vars   == <<object, pass, queued, target, execs, faults>>

\* runID is an index into execs, 0 when status.runID is empty.
\* valid: workflowRunParams can map the workflow, which the webhook does not test.
NewRun(policy, ttl, reuse, valid) ==
  [here |-> TRUE, deleting |-> FALSE, finalizer |-> FALSE, policy |-> policy,
   ttl |-> ttl, reuse |-> reuse, valid |-> valid, runID |-> 0,
   completed |-> FALSE, ready |-> FALSE]

Gone(o) == [o EXCEPT !.here = FALSE]

Execution(own) == [own |-> own, state |-> "running", cancel |-> FALSE]

Running(i) == execs[i].state = "running"
Current    == Len(execs)

\* The pass variables between two passes.
NoRun    == Gone(NewRun("Abandon", FALSE, "AllowDuplicate", TRUE))
NoTarget == [exists |-> FALSE, ready |-> FALSE, permits |-> FALSE]
Usable   == [exists |-> TRUE, ready |-> TRUE, permits |-> TRUE]

Fault == faults < MaxFaults /\ faults' = faults + 1

-----------------------------------------------------------------------------
(* The steps of a pass.                                                    *)

Goto(step) == pc' = step /\ UNCHANGED <<mem, fresh, seen>>

EndPass(again) ==
  /\ mem' = NoRun /\ fresh' = FALSE /\ seen' = NoTarget /\ pc' = "idle"
  /\ queued' = (queued \/ again)

\* Reconcile reads the object through the cache; a missing one needs nothing.
Get ==
  /\ pc = "idle" /\ queued
  /\ queued' = FALSE
  /\ IF cache.here
     THEN mem' = cache /\ fresh' = synced /\ pc' = "resolve"
     ELSE UNCHANGED <<mem, fresh, pc>>
  /\ UNCHANGED <<object, seen, target, execs, faults>>

\* What resolveTarget returns.
ResolvedTarget == IF target.exists THEN target ELSE NoTarget

\* Mutant: any failure to resolve the target of a deleted run releases it.
ResolveTargetForgets ==
  /\ pc = "resolve"
  /\ seen' = ResolvedTarget
  /\ \/ target.exists /\ pc' = (IF mem.deleting THEN "delete" ELSE "finalizer")
        /\ UNCHANGED <<mem, faults>>
     \/ mem.deleting /\ pc' = "release" /\ UNCHANGED mem
        /\ IF target.exists THEN Fault ELSE UNCHANGED faults
     \/ ~ target.exists /\ ~ mem.deleting
        /\ mem' = [mem EXCEPT !.ready = FALSE] /\ pc' = "status" /\ UNCHANGED faults
  /\ UNCHANGED <<object, fresh, queued, target, execs>>

\* A target that does not exist releases a deleted run.
ResolveTarget ==
  /\ pc = "resolve"
  /\ seen' = ResolvedTarget
  /\ \/ target.exists /\ pc' = (IF mem.deleting THEN "delete" ELSE "finalizer")
        /\ UNCHANGED mem
     \/ ~ target.exists /\ mem.deleting /\ pc' = "release" /\ UNCHANGED mem
     \/ ~ target.exists /\ ~ mem.deleting
        /\ mem' = [mem EXCEPT !.ready = FALSE] /\ pc' = "status"
  /\ UNCHANGED <<object, fresh, queued, target, execs, faults>>

\* A write of the object by the pass: accepted if nobody wrote it since.
Store(o) ==
  /\ fresh
  /\ cr' = o
  /\ synced' = (synced /\ o = cr)
  /\ UNCHANGED cache

EnsureFinalizer ==
  LET next == IF seen.ready THEN "run" ELSE "status"
      o    == [mem EXCEPT !.finalizer = TRUE]
  IN  /\ pc = "finalizer"
      /\ \/ mem.finalizer /\ UNCHANGED object /\ mem' = [mem EXCEPT !.ready = @ /\ seen.ready]
         \/ ~ mem.finalizer /\ Store(o) /\ mem' = [o EXCEPT !.ready = @ /\ seen.ready]
      /\ pc' = next
      /\ UNCHANGED <<fresh, seen, queued, target, execs, faults>>

\* checkWorkflowRunPolicy and workflowRunParams.
MayStart == seen.permits /\ mem.valid

\* reconcileRun up to its calls of the service.
ReconcileRun ==
  /\ pc = "run"
  /\ \/ mem.completed /\ Goto("ttl")
     \/ ~ mem.completed /\ mem.runID # 0 /\ Goto("describe")
     \/ ~ mem.completed /\ mem.runID = 0 /\ MayStart /\ Goto("start")
     \/ /\ ~ mem.completed /\ mem.runID = 0 /\ ~ MayStart
        /\ mem' = [mem EXCEPT !.ready = FALSE] /\ pc' = "status"
        /\ UNCHANGED <<fresh, seen>>
  /\ UNCHANGED <<object, queued, target, execs, faults>>

\* Mutant: a request ID of its own for every call.
ExistingNewRequest(o) ==
  /\ execs # <<>> /\ execs[Current].state # "purged"
  /\ \/ o.reuse # "TerminateIfRunning" /\ Running(Current)
     \/ o.reuse = "RejectDuplicate"

\* StartWorkflowExecution, as the client asks for it.  The request ID is the
\* object's UID: the service answers a repeated request with the run it started.
\* AlreadyExists is answered by describing the current run.
Existing(o) ==
  /\ execs # <<>> /\ execs[Current].state # "purged"
  /\ \/ execs[Current].own
     \/ o.reuse # "TerminateIfRunning" /\ Running(Current)
     \/ o.reuse = "RejectDuplicate"

StartedExecs(o) ==
  IF Existing(o) THEN execs
  ELSE Append([i \in DOMAIN execs |->
                 IF Running(i) THEN [execs[i] EXCEPT !.state = "closed"] ELSE execs[i]],
              Execution(TRUE))

\* Mutant: an existing run is taken for the next one.
StartMiscounts ==
  /\ pc = "start"
  /\ execs' = StartedExecs(mem)
  /\ mem' = [mem EXCEPT !.runID = Len(execs) + 1, !.ready = TRUE]
  /\ pc' = "describe"
  /\ UNCHANGED <<object, fresh, seen, queued, target, faults>>

Start ==
  /\ pc = "start"
  /\ execs' = StartedExecs(mem)
  /\ mem' = [mem EXCEPT !.runID = Len(execs'), !.ready = TRUE]
  /\ pc' = "describe"
  /\ UNCHANGED <<object, fresh, seen, queued, target, faults>>

\* A frontend that is not serving, or whose answer is lost: Ready turns False and
\* what the pass holds is written.
FrontendUnavailable ==
  /\ pc \in {"start", "describe"}
  /\ Fault
  /\ \/ UNCHANGED execs
     \/ pc = "start" /\ execs' = StartedExecs(mem)
  /\ mem' = [mem EXCEPT !.ready = FALSE]
  /\ pc' = "status"
  /\ UNCHANGED <<object, fresh, seen, queued, target>>

\* PhaseFromStatus and IsTerminalStatus: every status but running ends the run, the
\* one of a run continued as new included.
Terminal(i) == ~ Running(i)

\* Mutant: the status of a running execution counts as terminal.
DescribeTerminal ==
  /\ pc = "describe"
  /\ IF execs[mem.runID].state = "purged" THEN EndPass(TRUE)
     ELSE /\ mem' = [mem EXCEPT !.ready = TRUE, !.completed = TRUE]
          /\ pc' = "status"
          /\ UNCHANGED <<fresh, seen, queued>>
  /\ UNCHANGED <<object, target, execs, faults>>

\* An execution past its retention
\* is not found: the pass ends with an error and is retried.
Describe ==
  /\ pc = "describe"
  /\ IF execs[mem.runID].state = "purged" THEN EndPass(TRUE)
     ELSE /\ mem' = [mem EXCEPT !.ready = TRUE, !.completed = Terminal(mem.runID)]
          /\ pc' = "status"
          /\ UNCHANGED <<fresh, seen, queued>>
  /\ UNCHANGED <<object, target, execs, faults>>

\* Mutant: the status is written whatever the resourceVersion.
UpdateStatusUnchecked ==
  /\ pc = "status"
  /\ cr.here
  /\ cr' = [cr EXCEPT !.runID = mem.runID, !.completed = mem.completed, !.ready = mem.ready]
  /\ synced' = (synced /\ cr' = cr)
  /\ IF mem.completed /\ mem.ready THEN Goto("ttl") /\ UNCHANGED queued ELSE EndPass(TRUE)
  /\ UNCHANGED <<cache, target, execs, faults>>

\* Mutant: a running workflow is not polled.
UpdateStatusNoPoll ==
  /\ pc = "status"
  /\ Store(mem)
  /\ IF mem.completed /\ mem.ready THEN Goto("ttl") /\ UNCHANGED queued ELSE EndPass(~ mem.ready)
  /\ UNCHANGED <<target, execs, faults>>

\* statusUpdate.  The TTL runs only after a run found finished in this pass; what
\* waits for its target, or runs on, is polled; an invalid spec waits for an event.
UpdateStatus ==
  /\ pc = "status"
  /\ Store(mem)
  /\ IF mem.completed /\ mem.ready THEN Goto("ttl") /\ UNCHANGED queued ELSE EndPass(mem.valid \/ seen # Usable)
  /\ UNCHANGED <<target, execs, faults>>

\* ttlCleanup: keep, wait for the deadline, or delete.
TTLCleanup ==
  /\ pc = "ttl"
  /\ \/ ~ mem.ttl /\ EndPass(FALSE) /\ UNCHANGED object
     \/ mem.ttl /\ EndPass(TRUE) /\ UNCHANGED object
     \/ /\ mem.ttl /\ cr.here
        /\ cr' = [cr EXCEPT !.deleting = TRUE]
        /\ synced' = FALSE
        /\ EndPass(FALSE)
        /\ UNCHANGED cache
  /\ UNCHANGED <<target, execs, faults>>

\* Cancel and Terminate of the client; an execution that is closed or not found
\* needs neither.
ApplyPolicy(r) ==
  execs' = CASE mem.policy = "Terminate" /\ Running(r) -> [execs EXCEPT ![r].state = "closed"]
             [] mem.policy = "Cancel" /\ Running(r)    -> [execs EXCEPT ![r].cancel = TRUE]
             [] OTHER                                  -> execs

\* Mutant: an execution that is not found fails the pass.
ReconcileDeleteNeedsRun ==
  LET r == mem.runID
  IN  /\ pc = "delete"
      /\ IF ~ mem.finalizer THEN EndPass(FALSE)
         ELSE IF r # 0 /\ ~ mem.completed /\ execs[r].state = "purged" THEN EndPass(TRUE)
         ELSE Goto("release") /\ UNCHANGED queued
      /\ IF mem.finalizer /\ r # 0 /\ ~ mem.completed
         THEN ApplyPolicy(r) ELSE UNCHANGED execs
      /\ UNCHANGED <<object, target, faults>>

\* reconcileDelete: the policy is applied to a run known to be unfinished.
ReconcileDelete ==
  LET r == mem.runID
  IN  /\ pc = "delete"
      /\ IF ~ mem.finalizer THEN EndPass(FALSE) ELSE Goto("release") /\ UNCHANGED queued
      /\ IF mem.finalizer /\ r # 0 /\ ~ mem.completed
         THEN ApplyPolicy(r) ELSE UNCHANGED execs
      /\ UNCHANGED <<object, target, faults>>

RemoveFinalizer ==
  /\ pc = "release"
  /\ IF mem.finalizer THEN Store(Gone(mem)) ELSE UNCHANGED object
  /\ EndPass(FALSE)
  /\ UNCHANGED <<target, execs, faults>>

\* A write of the pass meets a newer object: the error retries the pass.
Conflict ==
  /\ \/ pc = "status"
     \/ pc = "finalizer" /\ ~ mem.finalizer
     \/ pc = "release" /\ mem.finalizer
  /\ ~ fresh
  /\ EndPass(cr.here)
  /\ UNCHANGED <<object, target, execs, faults>>

\* A call fails otherwise, or the operator stops.
AbortPass ==
  /\ pc # "idle"
  /\ Fault
  /\ EndPass(TRUE)
  /\ UNCHANGED <<object, target, execs>>

Reconcile ==
  \/ Get \/ ResolveTarget \/ EnsureFinalizer \/ ReconcileRun \/ Start \/ Describe
  \/ UpdateStatus \/ TTLCleanup \/ ReconcileDelete \/ RemoveFinalizer \/ Conflict

-----------------------------------------------------------------------------
(* Users, the watch, the target and the service.                           *)

UserWrites(o) ==
  /\ cr' = o /\ synced' = FALSE /\ fresh' = FALSE
  /\ UNCHANGED <<cache, mem, seen, pc, queued, target, execs>>

Delete ==
  /\ cr.here /\ ~ cr.deleting
  /\ UserWrites(IF cr.finalizer THEN [cr EXCEPT !.deleting = TRUE] ELSE Gone(cr))
  /\ UNCHANGED faults

\* The webhook lets the policy change; the workflow itself is immutable.
EditPolicy(p) ==
  /\ cr.here /\ p # cr.policy
  /\ Fault
  /\ UserWrites([cr EXCEPT !.policy = p])

SyncCache ==
  /\ ~ synced
  /\ cache' = cr /\ synced' = TRUE /\ queued' = TRUE
  /\ UNCHANGED <<cr, pass, target, execs, faults>>

\* clusterReadinessChanged queues the dependents of a target whose readiness or
\* generation changes, and not those of a deleted one.
TargetChanges(t) ==
  /\ target.exists /\ t # target
  /\ Fault
  /\ target' = t
  /\ queued' = (queued \/ t.exists)
  /\ UNCHANGED <<object, pass, execs>>

Closes ==
  /\ execs # <<>> /\ Running(Current)
  /\ execs' = [execs EXCEPT ![Current].state = "closed"]
  /\ UNCHANGED <<object, pass, queued, target, faults>>

ContinuesAsNew ==
  /\ execs # <<>> /\ Running(Current) /\ Len(execs) < MaxRuns
  /\ execs' = Append([execs EXCEPT ![Current].state = "continued"], Execution(FALSE))
  /\ UNCHANGED <<object, pass, queued, target, faults>>

\* Somebody else uses the workflow ID.
OtherStarts ==
  /\ Len(execs) < MaxRuns
  /\ execs # <<>> => ~ Running(Current)
  /\ execs' = Append(execs, Execution(FALSE))
  /\ UNCHANGED <<object, pass, queued, target, faults>>

Purge(i) ==
  /\ execs[i].state \in {"closed", "continued"}
  /\ Fault
  /\ execs' = [execs EXCEPT ![i].state = "purged"]
  /\ UNCHANGED <<object, pass, queued, target>>

Targets == [exists : BOOLEAN, ready : BOOLEAN, permits : BOOLEAN]

Environment ==
  \/ Delete \/ SyncCache \/ Closes \/ ContinuesAsNew \/ OtherStarts
  \/ \E p \in Policies : EditPolicy(p)
  \/ \E t \in Targets : TargetChanges(t)
  \/ \E i \in DOMAIN execs : Purge(i)

Init ==
  /\ \E p \in Policies, ttl \in BOOLEAN, u \in ReusePolicies, v \in BOOLEAN :
       cr = NewRun(p, ttl, u, v)
  /\ cache = cr /\ synced = TRUE
  /\ mem = NoRun /\ fresh = FALSE /\ seen = NoTarget /\ pc = "idle" /\ queued = TRUE
  /\ target \in [exists : {TRUE}, ready : BOOLEAN, permits : BOOLEAN]
  /\ execs = <<>>
  /\ faults = 0

Next == Reconcile \/ FrontendUnavailable \/ AbortPass \/ Environment

Spec == Init /\ [][Next]_vars

\* Queued objects are reconciled and the watch delivers.
FairSpec == Spec /\ WF_vars(Reconcile) /\ WF_vars(SyncCache)

-----------------------------------------------------------------------------
(* Properties.                                                             *)

RunType ==
  [here : BOOLEAN, deleting : BOOLEAN, finalizer : BOOLEAN,
   policy : {"Abandon", "Cancel", "Terminate"}, ttl : BOOLEAN,
   reuse : {"AllowDuplicate", "RejectDuplicate", "TerminateIfRunning"},
   valid : BOOLEAN, runID : Nat, completed : BOOLEAN, ready : BOOLEAN]

\* Types, and that every copy's runID names an execution the service knows.
TypeOK ==
  /\ cr \in RunType /\ cache \in RunType /\ mem \in RunType
  /\ \A o \in {cr, cache, mem} : o.runID <= Len(execs)
  /\ synced \in BOOLEAN /\ fresh \in BOOLEAN /\ queued \in BOOLEAN
  /\ pc \in {"idle", "resolve", "finalizer", "run", "start", "describe", "status", "ttl",
             "delete", "release"}
  /\ seen \in Targets /\ target \in Targets
  /\ execs \in Seq([own : BOOLEAN, cancel : BOOLEAN,
                    state : {"running", "closed", "continued", "purged"}])
  /\ faults \in 0..MaxFaults

\* status.runID, once written, never names another execution: passes that read the
\* object before it was written start or adopt a run whose ID they cannot store.
RunIDStable == [][cr.runID # 0 => cr'.runID = cr.runID]_vars

\* A retried start starts nothing again: the service never holds two executions in
\* a row that this object asked for, whatever answers and status writes were lost,
\* while it remembers the first.
NoRestart ==
  \A i \in DOMAIN execs \ {1} :
    execs[i - 1].own /\ execs[i].own => execs[i - 1].state = "purged"

\* The finalizer goes only when the policy has been applied to the run the object
\* names, unless the target is gone: a failing service or resolver only delays it.
PolicyApplied ==
  [][cr.here /\ ~ cr'.here /\ cr.finalizer /\ cr.runID # 0 /\ seen.exists /\ Running(cr.runID) =>
       \/ cr.policy = "Abandon"
       \/ cr.policy = "Cancel" /\ execs[cr.runID].cancel]_vars

\* A run reported finished is: neither TTL clean-up nor a deletion without the
\* policy can meet a run that is still going.
FinishedIsClosed == cr.completed => cr.runID # 0 /\ ~ Running(cr.runID)

\* A deleted run does go away: no conflict, lost pass, missing target or purged
\* execution keeps the finalizer forever.
DeletionCompletes == cr.deleting ~> ~ cr.here

\* On a target that stays ready and permits it, a kept, valid run is started and its end
\* is recorded, unless the service purged it first.
RunFollowed ==
  <>[](/\ cr.here /\ ~ cr.deleting /\ cr.valid /\ target = Usable
       /\ \A i \in DOMAIN execs : execs[i].state # "purged")
    => <>[](cr.runID # 0 /\ (Running(cr.runID) \/ cr.completed))

-----------------------------------------------------------------------------

\* temporalworkflowrun_types.go: CancellationPolicy "controls what happens to a
\* still-running workflow when this CR is deleted": with Terminate, on a target that
\* was never deleted, none of the executions the object started outlives it.
NoOrphan ==
  ~ cr.here /\ cr.policy = "Terminate" /\ target.exists =>
    \A i \in DOMAIN execs : execs[i].own => ~ Running(i)
=============================================================================
