----------------------------- MODULE Namespace -----------------------------
(***************************************************************************)
(* The TemporalNamespace reconciler: one custom resource kept in step with *)
(* one namespace of a Temporal service.  A pass asks the service what it   *)
(* holds, registers what is missing, fails over alone, then updates the    *)
(* rest; each call is a step, and between two steps users, the watch, the  *)
(* target and other clients of the service move.                           *)
(***************************************************************************)
EXTENDS Naturals

CONSTANTS
  Clusters,   \* names of the clusters of the replication group
  Local,      \* the cluster the operator talks to
  MaxEdits,   \* bound on edits of the object
  MaxFaults   \* bound on faults

ASSUME NamespaceAssumption == Local \in Clusters /\ MaxEdits \in Nat /\ MaxFaults \in Nat

VARIABLES
  cr,        \* the stored TemporalNamespace
  cache,     \* the same as the informer cache holds it
  synced,    \* the cache holds the latest stored object
  mem,       \* the pass's copy
  fresh,     \* the copy's resourceVersion is the stored one
  seen,      \* the target as this pass resolved it
  info,      \* the namespace as this pass last described it
  pc,        \* the step the pass is at
  queued,    \* the object is in the work queue
  target,    \* the cluster or dev server the namespace refers to
  remote,    \* the service's namespace
  edits,     \* edits so far
  faults     \* faults so far

object == <<cr, cache, synced>>
pass   == <<mem, fresh, seen, info, pc>>
vars   == <<object, pass, queued, target, remote, edits, faults>>

NoCluster == "none"

\* The description, owner and retention are one value, body.  Clusters are listed
\* without repetition and with the local one among them.
Specs ==
  [body : 0..1, global : BOOLEAN, active : Clusters \cup {NoCluster},
   clusters : {{}} \cup {c \in SUBSET Clusters : Local \in c},
   drift : {"reconcile", "ignore"}, allow : BOOLEAN]

\* The webhook's validateReplication.
ValidateReplication(sp) ==
  IF sp.global THEN sp.active = NoCluster \/ sp.clusters = {} \/ sp.active \in sp.clusters
               ELSE sp.clusters = {} /\ sp.active = NoCluster

\* A described namespace: a registered one always has an active cluster.
Infos == [body : 0..1, active : Clusters \cup {NoCluster}, clusters : SUBSET Clusters]

NotFound == [body |-> 0, active |-> NoCluster, clusters |-> {}]

NewNamespace(sp) ==
  [here |-> TRUE, deleting |-> FALSE, finalizer |-> FALSE, spec |-> sp, gen |-> 0,
   observed |-> 0, ready |-> FALSE, inProgress |-> FALSE, repl |-> NotFound]

LocalSpec ==
  [body |-> 0, global |-> FALSE, active |-> NoCluster, clusters |-> {},
   drift |-> "reconcile", allow |-> FALSE]

Gone(o) == [o EXCEPT !.here = FALSE]

Missing == [exists |-> FALSE, ready |-> FALSE]

Fault == faults < MaxFaults /\ faults' = faults + 1

-----------------------------------------------------------------------------
(* The steps of a pass.                                                    *)

Goto(step) == pc' = step /\ UNCHANGED <<mem, fresh, seen, info>>

EndPass(again) ==
  /\ mem' = Gone(NewNamespace(LocalSpec)) /\ fresh' = FALSE /\ seen' = Missing
  /\ info' = NotFound /\ pc' = "idle"
  /\ queued' = (queued \/ again)

Get ==
  /\ pc = "idle" /\ queued
  /\ queued' = FALSE
  /\ IF cache.here
     THEN mem' = cache /\ fresh' = synced /\ pc' = "resolve" /\ UNCHANGED <<seen, info>>
     ELSE UNCHANGED pass
  /\ UNCHANGED <<object, target, remote, edits, faults>>

\* setReady(False), which also stamps the observed generation.
NotReady(o) == [o EXCEPT !.ready = FALSE, !.observed = o.gen]

\* resolveTarget and the client.  A deleted namespace whose target does not resolve,
\* for whatever reason, is forgotten: removeFinalizerAndForget.
ResolveTarget ==
  /\ pc = "resolve"
  /\ \/ /\ target.exists /\ seen' = target
        /\ pc' = IF mem.deleting THEN "delete" ELSE "finalizer"
        /\ UNCHANGED <<mem, faults>>
     \/ /\ mem.deleting /\ seen' = Missing /\ pc' = "release"
        /\ IF target.exists THEN Fault ELSE UNCHANGED faults
        /\ UNCHANGED mem
     \/ /\ ~ target.exists /\ ~ mem.deleting /\ seen' = Missing /\ pc' = "status"
        /\ mem' = NotReady(mem)
        /\ UNCHANGED faults
  /\ UNCHANGED <<object, fresh, info, queued, target, remote, edits>>

\* A write of the object by the pass: accepted if nobody wrote it since.
Store(o) ==
  /\ fresh
  /\ cr' = o
  /\ synced' = (synced /\ o = cr)
  /\ UNCHANGED cache

\* Mutant: the finalizer is left to the status write.
EnsureFinalizerLater ==
  /\ pc = "finalizer"
  /\ \/ seen.ready /\ mem' = [mem EXCEPT !.finalizer = TRUE] /\ pc' = "describe"
     \/ ~ seen.ready /\ mem' = NotReady(mem) /\ pc' = "status"
  /\ UNCHANGED <<object, fresh, seen, info, queued, target, remote, edits, faults>>

EnsureFinalizer ==
  LET o == [mem EXCEPT !.finalizer = TRUE]
  IN  /\ pc = "finalizer"
      /\ \/ mem.finalizer /\ UNCHANGED object
         \/ ~ mem.finalizer /\ Store(o)
      /\ \/ seen.ready /\ mem' = o /\ pc' = "describe"
         \/ ~ seen.ready /\ mem' = NotReady(o) /\ pc' = "status"
      /\ UNCHANGED <<fresh, seen, info, queued, target, remote, edits, faults>>

\* Mutant: a replication status that is already there saves the call.
DescribeTrustsStatus ==
  /\ pc = "describe"
  /\ info' = IF remote # NotFound /\ mem.repl # NotFound THEN mem.repl ELSE remote
  /\ pc' = IF remote = NotFound THEN "register" ELSE "failover"
  /\ UNCHANGED <<object, mem, fresh, seen, queued, target, remote, edits, faults>>

\* ensureRegistered starts by asking the service.
Describe ==
  /\ pc = "describe"
  /\ info' = remote
  /\ pc' = IF remote = NotFound THEN "register" ELSE "failover"
  /\ UNCHANGED <<object, mem, fresh, seen, queued, target, remote, edits, faults>>

\* What RegisterNamespace stores: the local cluster and the active one are the defaults.
Registered(sp) ==
  LET active == IF sp.active = NoCluster THEN Local ELSE sp.active
  IN  [body |-> sp.body, active |-> active,
       clusters |-> IF sp.clusters = {} THEN {active} ELSE sp.clusters]

Register ==
  /\ pc = "register" /\ remote = NotFound
  /\ remote' = Registered(mem.spec)
  /\ Goto("registered")
  /\ UNCHANGED <<object, queued, target, edits, faults>>

\* The end of a successful pass: applyReplicationStatus and setReady(True).
Finished(seenInfo) ==
  LET sp == mem.spec
  IN  [mem EXCEPT !.ready = TRUE, !.observed = mem.gen,
                  !.repl = IF sp.global THEN seenInfo ELSE @,
                  !.inProgress = IF sp.global THEN sp.active \notin {NoCluster, seenInfo.active}
                                 ELSE @]

\* The Describe after Register must succeed.
DescribeRegistered ==
  /\ pc = "registered" /\ remote # NotFound
  /\ mem' = Finished(remote) /\ info' = remote /\ pc' = "status"
  /\ UNCHANGED <<object, fresh, seen, queued, target, remote, edits, faults>>

WantsFailover == mem.spec.global /\ mem.spec.active \notin {NoCluster, info.active}

\* The service takes only an active cluster among the namespace's clusters.
Accepted(ns) == ns.active \in ns.clusters

FailedOver == [remote EXCEPT !.active = mem.spec.active]

\* A failover is a request of its own, before any other change.
Failover ==
  /\ pc = "failover" /\ WantsFailover
  /\ remote # NotFound /\ Accepted(FailedOver)
  /\ remote' = FailedOver
  /\ Goto("refresh")
  /\ UNCHANGED <<object, queued, target, edits, faults>>

SkipFailover ==
  /\ pc = "failover" /\ ~ WantsFailover
  /\ Goto("update")
  /\ UNCHANGED <<object, queued, target, remote, edits, faults>>

\* namespaceDrifted; an empty list of clusters is not compared.
Drifted ==
  LET sp == mem.spec
  IN  sp.body # info.body \/ sp.clusters \notin {{}, info.clusters}

WantsUpdate == mem.spec.drift # "ignore" /\ Drifted

\* updateNamespaceRequest never carries the active cluster.
Updated ==
  LET sp == mem.spec
  IN  [remote EXCEPT !.body = sp.body, !.clusters = IF sp.clusters = {} THEN @ ELSE sp.clusters]

Update ==
  /\ pc = "update" /\ WantsUpdate
  /\ remote # NotFound /\ Accepted(Updated)
  /\ remote' = Updated
  /\ Goto("updated")
  /\ UNCHANGED <<object, queued, target, edits, faults>>

SkipUpdate ==
  /\ pc = "update" /\ ~ WantsUpdate
  /\ mem' = Finished(info) /\ pc' = "status"
  /\ UNCHANGED <<object, fresh, seen, info, queued, target, remote, edits, faults>>

\* The Describe after Failover or Update; when it fails the pass keeps what it has.
Refresh ==
  /\ pc \in {"refresh", "updated"}
  /\ \/ remote # NotFound /\ info' = remote /\ UNCHANGED faults
     \/ remote = NotFound /\ UNCHANGED <<info, faults>>
     \/ remote # NotFound /\ Fault /\ UNCHANGED info
  /\ IF pc = "refresh" THEN pc' = "update" /\ UNCHANGED mem
                       ELSE pc' = "status" /\ mem' = Finished(info')
  /\ UNCHANGED <<object, fresh, seen, queued, target, remote, edits>>

\* A request the service refuses, or a namespace that came or went since it was
\* described: an error, without a status write.
Refused ==
  /\ \/ pc = "register" /\ remote # NotFound
     \/ pc = "registered" /\ remote = NotFound
     \/ pc = "failover" /\ WantsFailover /\ (remote = NotFound \/ ~ Accepted(FailedOver))
     \/ pc = "update" /\ WantsUpdate /\ (remote = NotFound \/ ~ Accepted(Updated))
     \/ pc = "delete" /\ mem.spec.allow /\ remote = NotFound
  /\ EndPass(TRUE)
  /\ UNCHANGED <<object, target, remote, edits, faults>>

\* A frontend that is not serving, or whose answer is lost: Ready turns False.  A
\* failover issued before a failed update is not recorded.
FrontendUnavailable ==
  /\ \/ pc \in {"describe", "register", "registered"} /\ UNCHANGED remote
     \/ pc = "register" /\ remote = NotFound /\ remote' = Registered(mem.spec)
     \/ pc = "failover" /\ WantsFailover /\ UNCHANGED remote
     \/ pc = "failover" /\ WantsFailover /\ remote # NotFound /\ Accepted(FailedOver)
                         /\ remote' = FailedOver
     \/ pc = "update" /\ WantsUpdate /\ UNCHANGED remote
     \/ pc = "update" /\ WantsUpdate /\ remote # NotFound /\ Accepted(Updated)
                       /\ remote' = Updated
  /\ Fault
  /\ mem' = NotReady(mem)
  /\ pc' = "status"
  /\ UNCHANGED <<object, fresh, seen, info, queued, target, edits>>

\* Mutant: the requeue for drift is forgotten once the namespace is ready.
UpdateStatusNoDriftCheck ==
  /\ pc = "status"
  /\ Store(mem)
  /\ EndPass(~ mem.ready)
  /\ UNCHANGED <<target, remote, edits, faults>>

\* Every status write asks for another pass, in seconds or in minutes.
UpdateStatus ==
  /\ pc = "status"
  /\ Store(mem)
  /\ EndPass(TRUE)
  /\ UNCHANGED <<target, remote, edits, faults>>

\* Mutant: deletion waits for a ready target.
ReconcileDeleteWaits ==
  /\ pc = "delete" /\ (mem.spec.allow => remote # NotFound)
  /\ remote' = IF mem.spec.allow THEN NotFound ELSE remote
  /\ IF seen.ready THEN Goto("release") /\ UNCHANGED queued ELSE EndPass(TRUE)
  /\ UNCHANGED <<object, target, edits, faults>>

\* reconcileDelete: the namespace goes only if deletion is allowed.  Delete reports a
\* missing namespace as any other error (Refused).
ReconcileDelete ==
  /\ pc = "delete" /\ (mem.spec.allow => remote # NotFound)
  /\ remote' = IF mem.spec.allow THEN NotFound ELSE remote
  /\ Goto("release")
  /\ UNCHANGED <<object, queued, target, edits, faults>>

\* Mutant: the finalizer is removed whatever the resourceVersion.
RemoveFinalizerUnchecked ==
  /\ pc = "release"
  /\ cr' = Gone(cr)
  /\ synced' = FALSE
  /\ EndPass(FALSE)
  /\ UNCHANGED <<cache, target, remote, edits, faults>>

RemoveFinalizer ==
  /\ pc = "release"
  /\ Store(Gone(mem))
  /\ EndPass(FALSE)
  /\ UNCHANGED <<target, remote, edits, faults>>

\* A write of the pass meets a newer object: the error retries the pass.
Conflict ==
  /\ \/ pc \in {"status", "release"}
     \/ pc = "finalizer" /\ ~ mem.finalizer
  /\ ~ fresh
  /\ EndPass(cr.here)
  /\ UNCHANGED <<object, target, remote, edits, faults>>

\* A call fails otherwise, or the operator stops.
AbortPass ==
  /\ pc # "idle"
  /\ Fault
  /\ EndPass(TRUE)
  /\ UNCHANGED <<object, target, remote, edits>>

Reconcile ==
  \/ Get \/ ResolveTarget \/ EnsureFinalizer \/ Describe \/ Register \/ DescribeRegistered
  \/ Failover \/ SkipFailover \/ Update \/ SkipUpdate \/ Refresh \/ Refused \/ UpdateStatus
  \/ ReconcileDelete \/ RemoveFinalizer \/ Conflict

-----------------------------------------------------------------------------
(* Users, the watch, the target and the service.                           *)

UserWrites(o) ==
  /\ cr' = [o EXCEPT !.gen = @ + 1] /\ synced' = FALSE /\ fresh' = FALSE
  /\ UNCHANGED <<cache, mem, seen, info, pc, queued, target, remote, faults>>

Delete ==
  /\ cr.here /\ ~ cr.deleting
  /\ UserWrites(IF cr.finalizer THEN [cr EXCEPT !.deleting = TRUE] ELSE Gone(cr))
  /\ UNCHANGED edits

\* ValidateUpdate: isGlobal never changes, the rest is checked as at creation.
Edit(sp) ==
  /\ cr.here /\ sp # cr.spec
  /\ sp.global = cr.spec.global
  /\ ValidateReplication(sp)
  /\ edits < MaxEdits /\ edits' = edits + 1
  /\ UserWrites([cr EXCEPT !.spec = sp])

\* The edits tried: of the body, the replication settings, or allowDeletion.
EditSomething ==
  \/ Edit([cr.spec EXCEPT !.body = 1 - @])
  \/ Edit([cr.spec EXCEPT !.allow = ~ @])
  \/ \E a \in Clusters : Edit([cr.spec EXCEPT !.active = a])
  \/ Edit([cr.spec EXCEPT !.active = NoCluster, !.clusters = {Local}])

SyncCache ==
  /\ ~ synced
  /\ cache' = cr /\ synced' = TRUE /\ queued' = TRUE
  /\ UNCHANGED <<cr, pass, target, remote, edits, faults>>

\* clusterReadinessChanged queues the dependents of a target whose readiness or
\* generation changes, and not those of a deleted one.
TargetChanges(t) ==
  /\ target.exists /\ t # target
  /\ Fault
  /\ target' = t
  /\ queued' = (queued \/ t.exists)
  /\ UNCHANGED <<object, pass, remote, edits>>

\* Somebody changes, fails over or deletes the namespace at the service.
OtherChanges ==
  /\ remote # NotFound
  /\ Fault
  /\ \/ remote' = [remote EXCEPT !.body = 1 - @]
     \/ \E a \in remote.clusters \ {remote.active} : remote' = [remote EXCEPT !.active = a]
     \/ remote' = NotFound
  /\ UNCHANGED <<object, pass, queued, target, edits>>

Environment ==
  \/ Delete \/ EditSomething \/ SyncCache \/ OtherChanges
  \/ \E ready \in BOOLEAN : TargetChanges([exists |-> TRUE, ready |-> ready])
  \/ TargetChanges(Missing)

Init ==
  /\ \E sp \in Specs :
       /\ sp.body = 0 /\ ValidateReplication(sp)
       /\ sp.global => sp.clusters = Clusters /\ sp.allow
       /\ sp.drift = "ignore" => sp.active = Local
       /\ cr = NewNamespace(sp)
  /\ cache = cr /\ synced = TRUE
  /\ mem = Gone(NewNamespace(LocalSpec)) /\ fresh = FALSE /\ seen = Missing
  /\ info = NotFound /\ pc = "idle"
  /\ queued = TRUE
  /\ target = [exists |-> TRUE, ready |-> TRUE]
  /\ remote = NotFound
  /\ edits = 0 /\ faults = 0

Next == Reconcile \/ FrontendUnavailable \/ AbortPass \/ Environment

Spec == Init /\ [][Next]_vars

\* Queued objects are reconciled and the watch delivers.
FairSpec == Spec /\ WF_vars(Reconcile) /\ WF_vars(SyncCache)

-----------------------------------------------------------------------------
(* Properties.                                                             *)

ObjectType ==
  [here : BOOLEAN, deleting : BOOLEAN, finalizer : BOOLEAN, spec : Specs, gen : Nat,
   observed : Nat, ready : BOOLEAN, inProgress : BOOLEAN, repl : Infos]

\* Types, and that the operator registers a namespace only for an object its
\* finalizer protects.
TypeOK ==
  /\ cr \in ObjectType /\ cache \in ObjectType /\ mem \in ObjectType
  /\ synced \in BOOLEAN /\ fresh \in BOOLEAN /\ queued \in BOOLEAN
  /\ {seen, target} \subseteq [exists : BOOLEAN, ready : BOOLEAN]
  /\ {info, remote} \subseteq Infos
  /\ pc \in {"idle", "resolve", "finalizer", "describe", "register", "registered", "failover",
             "refresh", "update", "updated", "status", "delete", "release"}
  /\ remote # NotFound => cr.finalizer
  /\ edits \in 0..MaxEdits /\ faults \in 0..MaxFaults

\* A Ready status for the current generation that says no failover is in progress is
\* right: unless something failed or others changed the service, the namespace is
\* active where the spec wants it, whichever pass, edit or conflict came between.
ReadyIsActive ==
  cr.here /\ cr.ready /\ cr.observed = cr.gen /\ faults = 0 /\ cr.spec.active # NoCluster
    => cr.inProgress \/ remote.active = cr.spec.active

\* A namespace whose deletion is allowed is gone from the service when its finalizer
\* is, if the pass reached the service: the allowDeletion that counts is the one
\* stored when the object goes.
DeletionHonoured ==
  [][cr.here /\ cr.finalizer /\ ~ cr'.here /\ seen.exists /\ cr.spec.allow
       => remote = NotFound]_vars

\* The service has no such namespace while its deletion is asked for: Delete's error
\* is not recognised (temporalnamespace_controller.go:205) and every pass repeats it.
DeletionStuck == cr.deleting /\ cr.spec.allow /\ remote = NotFound

\* A deleted object goes away, whatever is lost, refused or missing - unless its
\* namespace went first.
DeletionCompletes == cr.deleting ~> (~ cr.here \/ DeletionStuck)

\* The first request the spec calls for is one the service refuses: a failover to a
\* cluster it does not have yet, or a list without the active cluster.
Refusable ==
  LET sp == cr.spec
  IN  IF sp.active \notin {NoCluster, remote.active}
      THEN sp.active \notin remote.clusters
      ELSE sp.clusters # {} /\ remote.active \notin sp.clusters

Matches(sp) ==
  /\ sp.active \in {NoCluster, remote.active}
  /\ sp.drift # "ignore" => sp.body = remote.body /\ sp.clusters \in {{}, remote.clusters}

\* On a target that stays ready, the namespace of a kept object ends up as its spec
\* says and the status says so, through drift, failovers by others, lost answers and
\* half-done passes - unless the service refuses what the spec asks for first.
Converges ==
  <>[](cr.here /\ ~ cr.deleting /\ target = [exists |-> TRUE, ready |-> TRUE])
    => <>[](\/ remote # NotFound /\ Matches(cr.spec) /\ cr.ready /\ ~ cr.inProgress
            \/ remote # NotFound /\ Refusable)
=============================================================================
