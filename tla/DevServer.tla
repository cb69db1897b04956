----------------------------- MODULE DevServer -----------------------------
(***************************************************************************)
(* The TemporalDevServer reconciler and the single pod it runs.  A pass    *)
(* applies the claim, the Service and the Deployment, then copies what the *)
(* cached Deployment says into the status.                                 *)
(***************************************************************************)
EXTENDS Naturals, FiniteSets

CONSTANTS
  Images,      \* the images spec.version or spec.image can resolve to
  MaxEvents    \* bound on edits, failed calls and lost pods together

Unsupported == 0     \* spec.version is not in the version matrix
NoImage     == 0

ASSUME DevServerAssumption ==
  Images \subseteq Nat \ {0} /\ Images # {} /\ MaxEvents \in Nat

VARIABLES
  dev,         \* the stored TemporalDevServer: wanted image, condition Ready as a phase
  devCache,    \* the same in the informer cache
  devSynced,   \* the cache holds the latest one
  devMem,      \* the pass's copy
  devFresh,    \* the copy's resourceVersion is the stored one
  devPc,       \* the step of the pass
  devQueued,   \* the dev server is in the work queue
  storage,     \* spec.storage.type
  objects,     \* the claim and the Service, once applied
  deploy,      \* the Deployment: image of the template and strategy
  seenReady,   \* status.readyReplicas >= 1, as cached
  pods,        \* the Deployment's pods
  events       \* edits, failed calls and lost pods so far

devPass == <<devMem, devFresh, devPc>>
serverVars == <<dev, devCache, devSynced, devPass, devQueued, storage, objects, deploy, seenReady,
                pods>>
devVars == <<serverVars, events>>

Event == events < MaxEvents /\ events' = events + 1

NewDev(i)    == [image |-> i, phase |-> "new"]
NoDeployment == [image |-> NoImage, strategy |-> "none"]
PodReady     == \E p \in pods : p.ready

-----------------------------------------------------------------------------
DevEndPass ==
  devMem' = NewDev(NoImage) /\ devFresh' = FALSE /\ devPc' = "idle"

\* DevServerImage: an unsupported version ends the pass with a Failed status.
DevServerImage(o) ==
  \/ o.image # Unsupported /\ devMem' = o /\ devPc' = "claim"
  \/ o.image = Unsupported /\ devMem' = [o EXCEPT !.phase = "Failed"] /\ devPc' = "status"

DevGet ==
  /\ devPc = "idle" /\ devQueued
  /\ devQueued' = FALSE
  /\ devFresh' = devSynced
  /\ DevServerImage(devCache)
  /\ UNCHANGED <<dev, devCache, devSynced, storage, objects, deploy, seenReady, pods, events>>

\* BuildDevServerPVC (nothing for ephemeral storage), then BuildDevServerService.
Claim == IF storage = "Persistent" THEN {"claim"} ELSE {}

ApplyObjects ==
  /\ devPc = "claim"
  /\ \/ objects' = objects \cup Claim \cup {"service"} /\ devPc' = "deployment"
        /\ UNCHANGED <<devMem, devFresh, devQueued, events>>
     \/ objects' = objects \cup Claim /\ Event /\ DevEndPass /\ devQueued' = TRUE
  /\ UNCHANGED <<dev, devCache, devSynced, storage, deploy, seenReady, pods>>

\* Mutant: the Deployment rolls as Deployments do unless told otherwise.
BuildDevServerDeploymentRolling(image) == [image |-> image, strategy |-> "RollingUpdate"]

\* BuildDevServerDeployment: one replica, never two pods at once.
BuildDevServerDeployment(image) == [image |-> image, strategy |-> "Recreate"]

ApplyDeployment ==
  /\ devPc = "deployment" /\ devPc' = "ready"
  /\ deploy' = BuildDevServerDeployment(devMem.image)
  /\ UNCHANGED <<dev, devCache, devSynced, devMem, devFresh, devQueued, storage, objects, seenReady,
                 pods, events>>

\* deploymentReady: from the cached Deployment, whatever generation its status is about.
DeploymentReady ==
  /\ devPc = "ready" /\ devPc' = "status"
  /\ devMem' = [devMem EXCEPT !.phase = IF seenReady THEN "Ready" ELSE "Pending"]
  /\ UNCHANGED <<dev, devCache, devSynced, devFresh, devQueued, storage, objects, deploy, seenReady,
                 pods, events>>

\* statusUpdate: a conflict is taken for success, and nothing is requeued.
DevUpdateStatus ==
  /\ devPc = "status"
  /\ \/ /\ devFresh
        /\ dev' = devMem /\ devSynced' = (devSynced /\ devMem = dev)
     \/ ~ devFresh /\ UNCHANGED <<dev, devSynced>>
  /\ DevEndPass
  /\ UNCHANGED <<devCache, devQueued, storage, objects, deploy, seenReady, pods, events>>

\* A call of the pass fails: it is retried.
DevAbortPass ==
  /\ devPc # "idle"
  /\ Event
  /\ DevEndPass /\ devQueued' = TRUE
  /\ UNCHANGED <<dev, devCache, devSynced, storage, objects, deploy, seenReady, pods>>

DevReconcile ==
  \/ DevGet
  \/ ApplyObjects
  \/ ApplyDeployment
  \/ DeploymentReady
  \/ DevUpdateStatus

\* The watch on the dev server itself.
DevSync ==
  /\ ~ devSynced
  /\ devCache' = dev /\ devSynced' = TRUE /\ devQueued' = TRUE
  /\ UNCHANGED <<dev, devPass, storage, objects, deploy, seenReady, pods, events>>

DevEdit(i) ==
  /\ Event
  /\ i # dev.image
  /\ dev' = [dev EXCEPT !.image = i]
  /\ devSynced' = FALSE /\ devFresh' = FALSE
  /\ UNCHANGED <<devCache, devMem, devPc, devQueued, storage, objects, deploy, seenReady, pods>>

-----------------------------------------------------------------------------
(* The Deployment controller and the kubelet.                              *)

\* Recreate waits for the old pod to be gone; a claim that is missing keeps a pod waiting.
PodStarts ==
  /\ deploy.image # NoImage
  /\ ~ \E p \in pods : p.image = deploy.image
  /\ deploy.strategy = "Recreate" => pods = {}
  /\ storage = "Persistent" => "claim" \in objects
  /\ pods' = pods \cup {[image |-> deploy.image, ready |-> FALSE]}
  /\ UNCHANGED <<dev, devCache, devSynced, devPass, devQueued, storage, objects, deploy, seenReady, events>>

PodServes(p) ==
  /\ p \in pods /\ ~ p.ready
  /\ pods' = (pods \ {p}) \cup {[p EXCEPT !.ready = TRUE]}
  /\ UNCHANGED <<dev, devCache, devSynced, devPass, devQueued, storage, objects, deploy, seenReady, events>>

\* A pod of another image is stopped, a pod of this one may be lost.
PodStops(p) ==
  /\ p \in pods
  /\ \/ p.image # deploy.image /\ UNCHANGED events
     \/ p.image = deploy.image /\ Event
  /\ pods' = pods \ {p}
  /\ UNCHANGED <<dev, devCache, devSynced, devPass, devQueued, storage, objects, deploy, seenReady>>

\* Mutant: the controller does not own the Deployment's events.
ObserveDeploymentUnwatched ==
  /\ seenReady # PodReady
  /\ seenReady' = PodReady
  /\ UNCHANGED <<dev, devCache, devSynced, devPass, devQueued, storage, objects, deploy, pods, events>>

\* Owns(Deployment): its status reaches the cache, and the work queue with it.
ObserveDeployment ==
  /\ seenReady # PodReady
  /\ seenReady' = PodReady /\ devQueued' = TRUE
  /\ UNCHANGED <<dev, devCache, devSynced, devPass, storage, objects, deploy, pods, events>>

-----------------------------------------------------------------------------
DevInit ==
  /\ dev = NewDev(CHOOSE i \in Images : TRUE)
  /\ devCache = dev /\ devSynced = TRUE
  /\ devMem = NewDev(NoImage) /\ devFresh = FALSE /\ devPc = "idle"
  /\ devQueued = TRUE
  /\ storage \in {"Ephemeral", "Persistent"}
  /\ objects = {} /\ deploy = NoDeployment /\ seenReady = FALSE /\ pods = {}
  /\ events = 0
=============================================================================
