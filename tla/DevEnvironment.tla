--------------------------- MODULE DevEnvironment ---------------------------
(***************************************************************************)
(* A search attribute on a dev server: the two reconcilers, the pod that   *)
(* holds the attributes, and the watch that joins them.  The attribute's   *)
(* target is the cached dev server, its service is the pod.                *)
(***************************************************************************)
EXTENDS DevServer

VARIABLES cr, cache, synced, mem, fresh, pc, queued, remote

Attribute == INSTANCE SearchAttribute WITH
  target <- [exists |-> TRUE, ready |-> devCache.phase = "Ready"],
  up     <- PodReady,
  faults <- events, MaxFaults <- MaxEvents

attributePass == <<cr, cache, synced, mem, fresh, pc>>
attributeVars == <<attributePass, queued, remote>>
vars          == <<devVars, attributeVars>>

\* clusterReadinessChanged, mapClusterToSearchAttributes: a new generation or a change of
\* the Ready condition, between the two objects the watch holds, queues the attribute.
ClusterReadinessChanged ==
  queued' = (queued \/ devCache.image # dev.image
                    \/ (devCache.phase = "Ready") # (dev.phase = "Ready"))

\* emptyDir goes with its pod, a claim stays.
StoreOfNewPod == remote' = IF storage = "Persistent" THEN remote ELSE "absent"

DevSyncs   == DevSync /\ ClusterReadinessChanged /\ UNCHANGED <<attributePass, remote>>
PodBegins  == PodStarts /\ StoreOfNewPod /\ UNCHANGED <<attributePass, queued>>

DevMoves ==
  /\ \/ DevReconcile \/ DevAbortPass \/ ObserveDeployment
     \/ \E i \in Images \cup {Unsupported} : DevEdit(i)
     \/ \E p \in pods : PodServes(p) \/ PodStops(p)
  /\ UNCHANGED attributeVars

AttributeMoves ==
  /\ \/ Attribute!Reconcile \/ Attribute!AbortPass \/ Attribute!SyncCache
     \/ Attribute!UserDeletes \/ Attribute!BecomesVisible
  /\ UNCHANGED serverVars

\* Two environments: one that keeps its data and its attributes, one that keeps neither.
Init ==
  /\ DevInit /\ Attribute!Init
  /\ cr.allow <=> storage = "Ephemeral"

Next == DevSyncs \/ PodBegins \/ DevMoves \/ AttributeMoves

Spec == Init /\ [][Next]_vars

\* Work queues are served, caches follow, the Deployment controller and the kubelet do
\* their part, and the service finishes what it began.
Fairness ==
  /\ WF_vars(DevReconcile /\ UNCHANGED attributeVars)
  /\ WF_vars(DevSyncs) /\ WF_vars(PodBegins)
  /\ WF_vars(ObserveDeployment /\ UNCHANGED attributeVars)
  /\ WF_vars((\E p \in pods : PodServes(p)) /\ UNCHANGED attributeVars)
  /\ WF_vars((\E p \in pods : p.image # deploy.image /\ PodStops(p)) /\ UNCHANGED attributeVars)
  /\ WF_vars(Attribute!Reconcile /\ UNCHANGED serverVars)
  /\ WF_vars(Attribute!SyncCache /\ UNCHANGED serverVars)
  /\ WF_vars(Attribute!BecomesVisible /\ UNCHANGED serverVars)

FairSpec == Spec /\ Fairness

-----------------------------------------------------------------------------
(* Properties.                                                             *)

\* devserver.go: "SQLite cannot be shared across pods; never roll two pods at once."
OneWriter == Cardinality(pods) <= 1

\* The dev server's phase ends up telling the truth, although statusUpdate swallows
\* conflicts and nothing is ever requeued: every lost write leaves an event behind.
PhaseCatchesUp ==
  <>[](dev.phase = IF dev.image = Unsupported THEN "Failed" ELSE "Ready")

\* An attribute nobody deletes ends up registered, visible and reported so on a dev server
\* that keeps its data, through restarts, version edits and an asynchronous registration.
\* (Ephemeral storage is left out: nothing looks again once an attribute is registered, and
\* a restart between two writes of the phase moves no Ready condition.)
AttributeRegistered ==
  storage = "Persistent" /\ dev.image # Unsupported
    => <>(cr.deleting \/ ~ cr.here \/ dev.image = Unsupported
          \/ (cr.ready /\ remote = "visible"))

\* Remove answers not-found for an attribute that is gone, and reconcileDelete retries it.
RemoveRefused == cr.allow /\ remote = "absent"

\* A deleted attribute's object goes, whether or not it may take the service's attribute
\* with it, unless Remove is refused or there is no dev server to ask.
DeletionCompletes ==
  cr.deleting ~> (~ cr.here \/ RemoveRefused \/ dev.image = Unsupported)
=============================================================================
