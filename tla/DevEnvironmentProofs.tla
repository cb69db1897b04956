------------------------ MODULE DevEnvironmentProofs ------------------------
(***************************************************************************)
(* Proofs about the dev server of DevEnvironment: its SQLite file never    *)
(* has two writers, for every set of images and any number of edits,       *)
(* failed calls and lost pods.                                             *)
(***************************************************************************)
EXTENDS DevEnvironment, FiniteSetTheorems, TLAPS

\* Every Deployment that a pass has applied is of the strategy that waits for the old pod,
\* and what runs is nothing or one pod.
WriterInv ==
  /\ deploy.image # NoImage => deploy.strategy = "Recreate"
  /\ pods # {} => \E p \in pods : pods = {p}

\* The pass writes the Deployment whole, and never the pods.
LEMMA DeployStep ==
  ASSUME WriterInv, ApplyDeployment
  PROVE  WriterInv'
  <1>1. deploy'.strategy = "Recreate" /\ pods' = pods
    BY DEF ApplyDeployment, BuildDevServerDeployment
  <1> QED BY <1>1 DEF WriterInv

\* Nothing else that the reconcilers, the informers or the users do touches either.
LEMMA OtherStep ==
  ASSUME WriterInv, UNCHANGED <<deploy, pods>>
  PROVE  WriterInv'
  BY DEF WriterInv

\* The Deployment controller replaces pods as the strategy says, the kubelet one at a time.
LEMMA PodStep ==
  ASSUME WriterInv, PodStarts \/ \E p \in pods : PodServes(p) \/ PodStops(p)
  PROVE  WriterInv'
  <1>1. CASE PodStarts
    <2>1. deploy.image # NoImage /\ deploy' = deploy /\ (deploy.strategy = "Recreate" => pods = {})
          /\ pods' = pods \cup {[image |-> deploy.image, ready |-> FALSE]}
      BY <1>1 DEF PodStarts
    <2>2. pods' = {[image |-> deploy.image, ready |-> FALSE]}
      BY <2>1 DEF WriterInv
    <2> QED BY <2>1, <2>2, Zenon DEF WriterInv
  <1>2. ASSUME NEW p \in pods, PodServes(p)
        PROVE  WriterInv'
    <2>1. deploy' = deploy /\ pods' = (pods \ {p}) \cup {[p EXCEPT !.ready = TRUE]}
      BY <1>2 DEF PodServes
    <2>2. pods = {p}
      BY <1>2 DEF WriterInv
    <2>3. pods' = {[p EXCEPT !.ready = TRUE]}
      BY <2>1, <2>2
    <2> QED BY <2>1, <2>3, Zenon DEF WriterInv
  <1>3. ASSUME NEW p \in pods, PodStops(p)
        PROVE  WriterInv'
    <2>1. deploy' = deploy /\ pods' = pods \ {p}
      BY <1>3 DEF PodStops
    <2>2. pods = {p}
      BY <1>3 DEF WriterInv
    <2>3. pods' = {}
      BY <2>1, <2>2
    <2> QED BY <2>1, <2>3 DEF WriterInv
  <1> QED BY <1>1, <1>2, <1>3

LEMMA WriterStep == WriterInv /\ [Next]_vars => WriterInv'
  <1> SUFFICES ASSUME WriterInv, [Next]_vars
               PROVE  WriterInv'
    OBVIOUS
  <1>1. CASE DevSyncs
    BY <1>1, OtherStep DEF DevSyncs, DevSync
  <1>2. CASE PodBegins
    BY <1>2, PodStep DEF PodBegins
  <1>3. CASE DevMoves
    <2>1. CASE DevReconcile
      <3>1. CASE ApplyDeployment
        BY <3>1, DeployStep
      <3>2. CASE DevGet \/ ApplyObjects \/ DeploymentReady \/ DevUpdateStatus
        BY <3>2, OtherStep DEF DevGet, ApplyObjects, DeploymentReady, DevUpdateStatus
      <3> QED BY <2>1, <3>1, <3>2 DEF DevReconcile
    <2>2. CASE DevAbortPass \/ ObserveDeployment
      BY <2>2, OtherStep DEF DevAbortPass, ObserveDeployment
    <2>3. CASE \E i \in Images \cup {Unsupported} : DevEdit(i)
      BY <2>3, OtherStep DEF DevEdit
    <2>4. CASE \E p \in pods : PodServes(p) \/ PodStops(p)
      BY <2>4, PodStep
    <2> QED BY <1>3, <2>1, <2>2, <2>3, <2>4 DEF DevMoves
  <1>4. CASE AttributeMoves
    BY <1>4, OtherStep DEF AttributeMoves, serverVars
  <1>5. CASE UNCHANGED vars
    BY <1>5, OtherStep DEF vars, devVars, serverVars
  <1> QED BY <1>1, <1>2, <1>3, <1>4, <1>5 DEF Next

\* devserver.go, "SQLite cannot be shared across pods; never roll two pods at once": whatever
\* the passes, the edits of the version, the failed calls and the lost pods, there is never a
\* second pod, because a pass writes the Deployment whole, its strategy with it.
THEOREM NeverTwoWriters == Spec => []OneWriter
  <1>1. Init => WriterInv
    BY DEF Init, DevInit, NoDeployment, WriterInv
  <1>2. WriterInv /\ [Next]_vars => WriterInv'
    BY WriterStep
  <1>3. WriterInv => OneWriter
    <2>1. CASE pods = {}
      BY <2>1, FS_EmptySet DEF OneWriter
    <2>2. ASSUME NEW p, pods = {p}
          PROVE  OneWriter
      <3>1. Cardinality(pods) = 1
        BY <2>2, FS_Singleton, Zenon
      <3> QED BY <3>1 DEF OneWriter
    <2> QED BY <2>1, <2>2 DEF WriterInv
  <1> QED BY <1>1, <1>2, <1>3, PTL DEF Spec
=============================================================================
