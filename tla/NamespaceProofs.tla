-------------------------- MODULE NamespaceProofs --------------------------
(***************************************************************************)
(* Proofs about Namespace, for every set of clusters and any number of     *)
(* edits and faults.                                                       *)
(***************************************************************************)
EXTENDS Namespace, TLAPS

Targets == [exists : BOOLEAN, ready : BOOLEAN]

\* TypeOK without what it says of the finalizer.
Typed ==
  /\ cr \in ObjectType /\ cache \in ObjectType /\ mem \in ObjectType
  /\ synced \in BOOLEAN /\ fresh \in BOOLEAN /\ queued \in BOOLEAN
  /\ seen \in Targets /\ target \in Targets
  /\ info \in Infos /\ remote \in Infos
  /\ pc \in {"idle", "resolve", "finalizer", "describe", "register", "registered", "failover",
             "refresh", "update", "updated", "status", "delete", "release"}
  /\ edits \in 0..MaxEdits /\ faults \in 0..MaxFaults

\* The finalizer is never taken back, and no step that may register is reached without it.
Protected ==
  /\ cache.finalizer => cr.finalizer
  /\ mem.finalizer => cr.finalizer
  /\ pc \in {"describe", "register", "registered", "failover", "refresh", "update", "updated"}
       => mem.finalizer
  /\ remote # NotFound => cr.finalizer

\* A copy with the stored resourceVersion agrees with the stored object on what users write.
Fresh ==
  /\ synced => cache = cr
  /\ fresh => /\ mem.here = cr.here /\ mem.deleting = cr.deleting /\ mem.finalizer = cr.finalizer
              /\ mem.spec = cr.spec /\ mem.gen = cr.gen

\* A pass that reached the service and is about to drop the finalizer has deleted what the
\* copy it read allowed it to delete.
Emptied == pc = "release" /\ seen.exists /\ mem.spec.allow => remote = NotFound

NamespaceInv == Typed /\ Protected /\ Fresh /\ Emptied

-----------------------------------------------------------------------------
(* Types.                                                                  *)

LEMMA Constants ==
  /\ NotFound \in Infos /\ Missing \in Targets /\ LocalSpec \in Specs
  /\ \A r \in BOOLEAN : [exists |-> TRUE, ready |-> r] \in Targets
  BY NamespaceAssumption DEF NotFound, Infos, Missing, Targets, LocalSpec, Specs

LEMMA NewNamespaceType ==
  ASSUME NEW sp \in Specs
  PROVE  NewNamespace(sp) \in ObjectType /\ Gone(NewNamespace(sp)) \in ObjectType
  <1>1. NewNamespace(sp) \in ObjectType
    BY Constants, Zenon DEF NewNamespace, ObjectType
  <1> QED BY <1>1, Zenon DEF Gone, ObjectType

LEMMA EndPassInv ==
  ASSUME Typed, NEW again \in BOOLEAN, EndPass(again)
  PROVE  /\ mem' \in ObjectType /\ ~ mem'.finalizer /\ fresh' = FALSE /\ info' \in Infos
         /\ seen' \in Targets /\ pc' = "idle" /\ queued' \in BOOLEAN
  <1>1. mem' \in ObjectType
    BY NewNamespaceType, Constants, Zenon DEF EndPass
  <1>2. ~ mem'.finalizer
    BY Zenon DEF EndPass, NewNamespace, Gone
  <1>3. queued' \in BOOLEAN
    BY Zenon DEF EndPass, Typed
  <1> QED BY <1>1, <1>2, <1>3, Constants, Zenon DEF EndPass

\* What a pass makes of its copy is an object again.
LEMMA CopyTypes ==
  ASSUME NEW o \in ObjectType
  PROVE  /\ NotReady(o) \in ObjectType /\ Gone(o) \in ObjectType
         /\ [o EXCEPT !.finalizer = TRUE] \in ObjectType
         /\ NotReady([o EXCEPT !.finalizer = TRUE]) \in ObjectType
  <1>1. ASSUME NEW x \in ObjectType PROVE NotReady(x) \in ObjectType
    BY Zenon DEF NotReady, ObjectType
  <1>2. Gone(o) \in ObjectType /\ [o EXCEPT !.finalizer = TRUE] \in ObjectType
    BY Zenon DEF Gone, ObjectType
  <1> QED BY <1>1, <1>2, Zenon

LEMMA FinishedType ==
  ASSUME Typed, NEW i \in Infos
  PROVE  Finished(i) \in ObjectType
  <1>1. mem \in ObjectType /\ mem.spec \in Specs
    BY Zenon DEF Typed, ObjectType
  <1>2. (mem.spec.active \notin {NoCluster, i.active}) \in BOOLEAN
    BY Zenon
  <1> QED BY <1>1, <1>2, Zenon DEF Finished, ObjectType

\* What the service stores is a namespace again.
LEMMA RemoteTypes ==
  ASSUME Typed
  PROVE  /\ Registered(mem.spec) \in Infos
         /\ mem.spec.active # NoCluster => FailedOver \in Infos
         /\ Updated \in Infos
  <1>1. mem.spec \in Specs /\ remote \in Infos
    BY Zenon DEF Typed, ObjectType
  <1>2. mem.spec.clusters \subseteq Clusters
    BY <1>1, Zenon DEF Specs
  <1>3. Registered(mem.spec) \in Infos
    BY <1>1, <1>2, NamespaceAssumption, Zenon DEF Registered, Specs, Infos
  <1>4. mem.spec.active # NoCluster => FailedOver \in Infos
    BY <1>1, Zenon DEF FailedOver, Specs, Infos
  <1>5. Updated \in Infos
    BY <1>1, <1>2, Zenon DEF Updated, Specs, Infos
  <1> QED BY <1>3, <1>4, <1>5, Zenon

\* The edits of EditSomething make a spec of a spec.
LEMMA EditTypes ==
  ASSUME NEW sp \in Specs
  PROVE  /\ [sp EXCEPT !.body = 1 - @] \in Specs /\ [sp EXCEPT !.allow = ~ @] \in Specs
         /\ \A a \in Clusters : [sp EXCEPT !.active = a] \in Specs
         /\ [sp EXCEPT !.active = NoCluster, !.clusters = {Local}] \in Specs
  <1>1. (1 - sp.body) \in 0..1
    BY DEF Specs
  <1>2. (~ sp.allow) \in BOOLEAN
    BY Zenon
  <1>3. {Local} \in {c \in SUBSET Clusters : Local \in c}
    BY NamespaceAssumption, Zenon
  <1>4. [sp EXCEPT !.body = 1 - @] \in Specs
    BY <1>1, Zenon DEF Specs
  <1>5. [sp EXCEPT !.allow = ~ @] \in Specs
    BY <1>2, Zenon DEF Specs
  <1>6. ASSUME NEW a \in Clusters PROVE [sp EXCEPT !.active = a] \in Specs
    BY Zenon DEF Specs
  <1>7. [sp EXCEPT !.active = NoCluster, !.clusters = {Local}] \in Specs
    BY <1>3, Zenon DEF Specs
  <1> QED BY <1>4, <1>5, <1>6, <1>7, Zenon

\* A user's write of a well-typed object.
LEMMA UserWritesType ==
  ASSUME Typed, NEW o \in ObjectType, UserWrites(o)
  PROVE  cr' \in ObjectType
  <1>1. o.gen + 1 \in Nat
    BY DEF ObjectType
  <1> QED BY <1>1, Zenon DEF UserWrites, ObjectType

LEMMA EditInv ==
  ASSUME Typed, EditSomething
  PROVE  \E sp \in Specs : Edit(sp)
  <1>1. cr.spec \in Specs
    BY Zenon DEF Typed, ObjectType
  <1> QED BY <1>1, EditTypes, Zenon DEF EditSomething

\* Every step keeps the types.
LEMMA TypedStep == Typed /\ [Next]_vars => Typed'
  <1> SUFFICES ASSUME Typed, [Next]_vars PROVE Typed'
    BY Zenon
  <1> USE DEF Typed, object, pass
  <1>a. Fault => faults' \in 0..MaxFaults
    BY NamespaceAssumption DEF Fault
  <1>1. CASE Get
    BY <1>1, Zenon DEF Get
  <1>2. CASE ResolveTarget
    BY <1>2, <1>a, CopyTypes, Constants, Zenon DEF ResolveTarget
  <1>3. CASE EnsureFinalizer
    <2>1. synced' \in BOOLEAN
      BY <1>3, Zenon DEF EnsureFinalizer, Store
    <2> QED BY <1>3, <2>1, CopyTypes, Zenon DEF EnsureFinalizer, Store
  <1>4. CASE Describe
    BY <1>4, Zenon DEF Describe
  <1>5. CASE Register
    BY <1>5, RemoteTypes, Zenon DEF Register, Goto
  <1>6. CASE DescribeRegistered
    BY <1>6, FinishedType, Zenon DEF DescribeRegistered
  <1>7. CASE Failover
    <2>1. remote' \in Infos
      BY <1>7, RemoteTypes, Zenon DEF Failover, WantsFailover
    <2> QED BY <1>7, <2>1, Zenon DEF Failover, Goto
  <1>8. CASE SkipFailover
    BY <1>8, Zenon DEF SkipFailover, Goto
  <1>9. CASE Update
    BY <1>9, RemoteTypes, Zenon DEF Update, Goto
  <1>10. CASE SkipUpdate
    BY <1>10, FinishedType, Zenon DEF SkipUpdate
  <1>11. CASE Refresh
    <2>1. info' \in Infos /\ faults' \in 0..MaxFaults
      BY <1>11, <1>a, Zenon DEF Refresh
    <2> QED BY <1>11, <2>1, FinishedType, Zenon DEF Refresh
  <1>12. CASE Refused
    BY <1>12, EndPassInv, Zenon DEF Refused
  <1>13. CASE UpdateStatus
    <2>1. synced' \in BOOLEAN
      BY <1>13, Zenon DEF UpdateStatus, Store
    <2> QED BY <1>13, <2>1, EndPassInv, Zenon DEF UpdateStatus, Store
  <1>14. CASE ReconcileDelete
    BY <1>14, Constants, Zenon DEF ReconcileDelete, Goto
  <1>15. CASE RemoveFinalizer
    <2>1. synced' \in BOOLEAN
      BY <1>15, Zenon DEF RemoveFinalizer, Store
    <2> QED BY <1>15, <2>1, EndPassInv, CopyTypes, Zenon DEF RemoveFinalizer, Store
  <1>16. CASE Conflict
    <2>1. cr.here \in BOOLEAN
      BY Zenon DEF ObjectType
    <2> QED BY <1>16, <2>1, EndPassInv, Zenon DEF Conflict
  <1>17. CASE FrontendUnavailable
    <2>1. remote' \in Infos
      BY <1>17, RemoteTypes, Zenon DEF FrontendUnavailable, WantsFailover
    <2> QED BY <1>17, <1>a, <2>1, CopyTypes, Zenon DEF FrontendUnavailable
  <1>18. CASE AbortPass
    BY <1>18, <1>a, EndPassInv, Zenon DEF AbortPass
  <1>19. CASE Delete
    <2>1. [cr EXCEPT !.deleting = TRUE] \in ObjectType
      BY Zenon DEF ObjectType
    <2>2. cr' \in ObjectType
      BY <1>19, <2>1, CopyTypes, UserWritesType, Zenon DEF Delete
    <2> QED BY <1>19, <2>2, Zenon DEF Delete, UserWrites
  <1>20. CASE EditSomething
    <2>1. PICK sp \in Specs : Edit(sp)
      BY <1>20, EditInv, Zenon
    <2>2. [cr EXCEPT !.spec = sp] \in ObjectType
      BY Zenon DEF ObjectType
    <2>3. cr' \in ObjectType
      BY <2>1, <2>2, UserWritesType, Zenon DEF Edit
    <2>4. edits' \in 0..MaxEdits
      BY <2>1, NamespaceAssumption DEF Edit
    <2> QED BY <2>1, <2>3, <2>4, Zenon DEF Edit, UserWrites
  <1>21. CASE SyncCache
    BY <1>21, Zenon DEF SyncCache
  <1>22. CASE OtherChanges
    <2>1. (1 - remote.body) \in 0..1
      BY DEF Infos
    <2>2. [remote EXCEPT !.body = 1 - @] \in Infos
      BY <2>1, Zenon DEF Infos
    <2>3. \A a \in remote.clusters : [remote EXCEPT !.active = a] \in Infos
      BY Zenon DEF Infos
    <2>4. remote' \in Infos
      BY <1>22, <2>2, <2>3, Constants, Zenon DEF OtherChanges
    <2> QED BY <1>22, <1>a, <2>4, Zenon DEF OtherChanges
  <1>23. ASSUME NEW t \in Targets, TargetChanges(t) PROVE Typed'
    <2>1. queued' \in BOOLEAN
      BY <1>23, Zenon DEF TargetChanges
    <2> QED BY <1>23, <1>a, <2>1, Zenon DEF TargetChanges
  <1>24. CASE UNCHANGED vars
    BY <1>24, Zenon DEF vars
  <1> QED
    BY <1>1, <1>2, <1>3, <1>4, <1>5, <1>6, <1>7, <1>8, <1>9, <1>10, <1>11, <1>12, <1>13, <1>14,
       <1>15, <1>16, <1>17, <1>18, <1>19, <1>20, <1>21, <1>22, <1>23, <1>24, Constants, Zenon
    DEF Next, Reconcile, Environment

-----------------------------------------------------------------------------
(* The finalizer and deletion.                                             *)

\* What NotReady and Finished leave alone.
LEMMA CopyFields ==
  ASSUME NEW o \in ObjectType, Typed
  PROVE  /\ \A n : n = NotReady(o) =>
              /\ n.here = o.here /\ n.deleting = o.deleting /\ n.finalizer = o.finalizer
              /\ n.spec = o.spec /\ n.gen = o.gen /\ n.ready = FALSE /\ n.observed = o.gen
         /\ \A i, n : n = Finished(i) =>
              /\ n.here = mem.here /\ n.deleting = mem.deleting /\ n.finalizer = mem.finalizer
              /\ n.spec = mem.spec /\ n.gen = mem.gen /\ n.observed = mem.gen
  BY Zenon DEF NotReady, Finished, Typed, ObjectType

\* Every step keeps the rest of the invariant.
LEMMA NamespaceStep == NamespaceInv /\ [Next]_vars => NamespaceInv'
  <1> SUFFICES ASSUME NamespaceInv, [Next]_vars PROVE Protected' /\ Fresh' /\ Emptied'
    BY TypedStep, Zenon DEF NamespaceInv
  <1> USE DEF Protected, Fresh, Emptied, object, pass
  <1>t. Typed /\ Protected /\ Fresh /\ Emptied
    BY Zenon DEF NamespaceInv
  <1>m. mem \in ObjectType
    BY <1>t, Zenon DEF Typed
  <1>e. ASSUME NEW again \in BOOLEAN, EndPass(again)
        PROVE  ~ mem'.finalizer /\ ~ fresh' /\ pc' = "idle"
    BY <1>t, <1>e, EndPassInv, Zenon
  <1>1. CASE Get
    BY <1>t, <1>1, Zenon DEF Get
  <1>2. CASE ResolveTarget
    <2>1. CASE UNCHANGED mem
      BY <1>t, <1>2, <2>1 DEF ResolveTarget, Missing
    <2>2. CASE mem' = NotReady(mem)
      <3>1. /\ mem'.here = mem.here /\ mem'.deleting = mem.deleting /\ mem'.spec = mem.spec
            /\ mem'.finalizer = mem.finalizer /\ mem'.gen = mem.gen
        BY <1>t, <1>m, <2>2, CopyFields, Zenon
      <3>2. UNCHANGED <<cr, cache, synced, fresh, remote>>
        BY <1>2, Zenon DEF ResolveTarget
      <3>3. pc' = "release" => ~ seen'.exists
        BY <1>2 DEF ResolveTarget, Missing
      <3>4. pc' \in {"delete", "finalizer", "release", "status"}
        BY <1>2, Zenon DEF ResolveTarget
      <3> QED BY <1>t, <3>1, <3>2, <3>3, <3>4, Zenon
    <2> QED BY <1>2, <2>1, <2>2, Zenon DEF ResolveTarget
  <1>3. CASE EnsureFinalizer
    <2> DEFINE o == [mem EXCEPT !.finalizer = TRUE]
    <2>o. /\ o \in ObjectType /\ o.finalizer /\ o.here = mem.here /\ o.deleting = mem.deleting
          /\ o.spec = mem.spec /\ o.gen = mem.gen
      BY <1>m, Zenon DEF ObjectType
    <2> HIDE DEF o
    <2>m. /\ mem'.here = mem.here /\ mem'.deleting = mem.deleting /\ mem'.finalizer
          /\ mem'.spec = mem.spec /\ mem'.gen = mem.gen /\ pc' \in {"describe", "status"}
      BY <1>t, <1>3, <2>o, CopyFields, Zenon DEF EnsureFinalizer, o
    <2>1. CASE mem.finalizer
      <3>1. UNCHANGED <<cr, cache, synced, fresh, remote>>
        BY <1>3, <2>1, Zenon DEF EnsureFinalizer
      <3> QED BY <1>t, <1>m, <2>1, <2>m, <3>1, Zenon DEF Typed, ObjectType
    <2>2. CASE ~ mem.finalizer
      <3>1. cr' = o /\ fresh /\ UNCHANGED <<cache, fresh, remote>>
        BY <1>3, <2>2, Zenon DEF EnsureFinalizer, Store, o
      <3>2. synced' => cache' = cr'
        BY <1>t, <1>3, <2>2, Zenon DEF EnsureFinalizer, Store
      <3> QED BY <1>t, <2>o, <2>m, <3>1, <3>2, Zenon DEF Typed, ObjectType
    <2> QED BY <2>1, <2>2, Zenon
  <1>4. CASE Describe \/ Register \/ Failover \/ SkipFailover \/ Update
    BY <1>t, <1>4 DEF Describe, Register, Failover, SkipFailover, Update, Goto
  <1>5. CASE DescribeRegistered \/ SkipUpdate
    <2>1. PICK i : mem' = Finished(i)
      BY <1>5, Zenon DEF DescribeRegistered, SkipUpdate
    <2>2. /\ mem'.here = mem.here /\ mem'.deleting = mem.deleting /\ mem'.spec = mem.spec
          /\ mem'.finalizer = mem.finalizer /\ mem'.gen = mem.gen
      BY <1>t, <1>m, <2>1, CopyFields, Zenon
    <2> QED BY <1>t, <1>5, <2>2 DEF DescribeRegistered, SkipUpdate
  <1>6. CASE Refresh
    <2>1. CASE pc = "refresh"
      BY <1>t, <1>6, <2>1, Zenon DEF Refresh
    <2>2. CASE pc = "updated"
      BY <1>t, <1>m, <1>6, <2>2, CopyFields, ZenonT(30) DEF Refresh
    <2> QED BY <1>6, <2>1, <2>2, Zenon DEF Refresh
  <1>7. CASE Refused
    BY <1>t, <1>e, <1>7, Zenon DEF Refused
  <1>8. CASE UpdateStatus
    BY <1>t, <1>e, <1>8, Zenon DEF UpdateStatus, Store
  <1>9. CASE ReconcileDelete
    BY <1>t, <1>9, Zenon DEF ReconcileDelete, Goto
  <1>10. CASE RemoveFinalizer
    <2>1. Gone(mem).finalizer = mem.finalizer
      BY <1>m, Zenon DEF Gone, ObjectType
    <2> QED BY <1>t, <1>e, <1>10, <2>1, Zenon DEF RemoveFinalizer, Store
  <1>11. CASE Conflict
    <2>1. cr.here \in BOOLEAN
      BY <1>t, Zenon DEF Typed, ObjectType
    <2> QED BY <1>t, <1>e, <1>11, <2>1, Zenon DEF Conflict
  <1>12. CASE FrontendUnavailable
    BY <1>t, <1>m, <1>12, CopyFields, Zenon DEF FrontendUnavailable
  <1>13. CASE AbortPass
    BY <1>t, <1>e, <1>13, Zenon DEF AbortPass
  <1>14. CASE Delete \/ EditSomething
    <2>1. cr'.finalizer = cr.finalizer /\ ~ synced' /\ ~ fresh' /\ UNCHANGED <<cache, mem, seen, pc, remote>>
      <3>1. CASE Delete
        BY <1>t, <3>1, Zenon DEF Delete, UserWrites, Gone, Typed, ObjectType
      <3>2. CASE EditSomething
        <4>1. PICK sp \in Specs : Edit(sp)
          BY <1>t, <3>2, EditInv, Zenon
        <4> QED BY <1>t, <4>1, Zenon DEF Edit, UserWrites, Typed, ObjectType
      <3> QED BY <1>14, <3>1, <3>2, Zenon
    <2> QED BY <1>t, <2>1, Zenon
  <1>15. CASE SyncCache
    BY <1>t, <1>15, Zenon DEF SyncCache
  <1>16. CASE OtherChanges
    BY <1>t, <1>16, Zenon DEF OtherChanges
  <1>17. ASSUME NEW t, TargetChanges(t) PROVE Protected' /\ Fresh' /\ Emptied'
    BY <1>t, <1>17, Zenon DEF TargetChanges
  <1>18. CASE UNCHANGED vars
    BY <1>t, <1>18, Zenon DEF vars
  <1> QED
    BY <1>1, <1>2, <1>3, <1>4, <1>5, <1>6, <1>7, <1>8, <1>9, <1>10, <1>11, <1>12, <1>13, <1>14,
       <1>15, <1>16, <1>17, <1>18, Zenon
    DEF Next, Reconcile, Environment

LEMMA NamespaceInit == Init => NamespaceInv
  <1> SUFFICES ASSUME Init PROVE NamespaceInv
    BY Zenon
  <1>1. PICK sp \in Specs : cr = NewNamespace(sp)
    BY Zenon DEF Init
  <1>2. cr \in ObjectType /\ mem \in ObjectType /\ cache \in ObjectType
    BY <1>1, NewNamespaceType, Constants, Zenon DEF Init
  <1>3. edits \in 0..MaxEdits /\ faults \in 0..MaxFaults
    BY NamespaceAssumption DEF Init
  <1>4. seen \in Targets /\ target \in Targets /\ info \in Infos /\ remote \in Infos
    BY Constants, Zenon DEF Init
  <1>5. Typed
    BY <1>2, <1>3, <1>4, Zenon DEF Init, Typed
  <1>6. ~ cr.finalizer /\ ~ mem.finalizer
    BY <1>1, Zenon DEF Init, NewNamespace, Gone
  <1> QED BY <1>5, <1>6, Zenon DEF Init, NamespaceInv, Protected, Fresh, Emptied

THEOREM NamespaceInvariance == Spec => []NamespaceInv
  <1> QED BY NamespaceInit, NamespaceStep, PTL DEF Spec

\* TypeOK holds for every group of clusters and any number of edits and faults: a namespace
\* is registered only for an object the finalizer protects.
THEOREM TypeCorrect == Spec => []TypeOK
  <1>1. NamespaceInv => TypeOK
    BY Zenon DEF NamespaceInv, Typed, Protected, TypeOK, Targets
  <1> QED BY <1>1, NamespaceInvariance, PTL

LEMMA DeletionStep ==
  NamespaceInv /\ [Next]_vars =>
    (cr.here /\ cr.finalizer /\ ~ cr'.here /\ seen.exists /\ cr.spec.allow => remote = NotFound)
  <1> SUFFICES ASSUME NamespaceInv, [Next]_vars, cr.here, cr.finalizer, ~ cr'.here, seen.exists,
                      cr.spec.allow
               PROVE  remote = NotFound
    BY Zenon
  <1>t. Typed /\ Fresh /\ Emptied
    BY Zenon DEF NamespaceInv
  <1>1. CASE RemoveFinalizer
    BY <1>t, <1>1, Zenon DEF RemoveFinalizer, Store, Fresh, Emptied
  <1>2. CASE UpdateStatus
    BY <1>t, <1>2, Zenon DEF UpdateStatus, Store, Fresh
  <1>3. CASE EnsureFinalizer
    BY <1>t, <1>3, Zenon DEF EnsureFinalizer, Store, Fresh, object, Typed, ObjectType
  <1>4. CASE Delete
    BY <1>t, <1>4, Zenon DEF Delete, UserWrites, Typed, ObjectType
  <1>5. CASE EditSomething
    <2>1. PICK sp \in Specs : Edit(sp)
      BY <1>t, <1>5, EditInv, Zenon
    <2> QED BY <1>t, <2>1, Zenon DEF Edit, UserWrites, Typed, ObjectType
  <1>6. CASE UNCHANGED cr
    BY <1>6, Zenon
  <1>7. \/ RemoveFinalizer \/ UpdateStatus \/ EnsureFinalizer \/ Delete \/ EditSomething
        \/ UNCHANGED cr
    BY Zenon DEF Next, Reconcile, Environment, vars, object, Get, ResolveTarget, Describe, Register,
       DescribeRegistered, Failover, SkipFailover, Update, SkipUpdate, Refresh, Refused,
       ReconcileDelete, Conflict, FrontendUnavailable, AbortPass, SyncCache, OtherChanges, TargetChanges
  <1> QED BY <1>1, <1>2, <1>3, <1>4, <1>5, <1>6, <1>7, Zenon

\* DeletionHonoured holds for every group of clusters and any number of edits and faults.
THEOREM DeletionIsHonoured == Spec => DeletionHonoured
  <1>1. NamespaceInv /\ [Next]_vars =>
          [cr.here /\ cr.finalizer /\ ~ cr'.here /\ seen.exists /\ cr.spec.allow
             => remote = NotFound]_vars
    BY DeletionStep, Zenon
  <1> QED BY <1>1, NamespaceInvariance, PTL DEF Spec, DeletionHonoured

-----------------------------------------------------------------------------
(* Ready means active where the spec says.                                 *)

\* What holds of every copy by itself: its status is not of a generation to come, a global
\* spec is the only one with an active cluster, and a deletion is newer than its status.
SoundCopy(o) ==
  /\ o.observed <= o.gen
  /\ o.spec.active # NoCluster => o.spec.global
  /\ o.deleting => o.observed < o.gen

\* A copy that is behind the stored object: not of a generation to come, and the same spec
\* when of the same generation.
Behind(o) ==
  /\ o.gen <= cr.gen
  /\ o.gen = cr.gen => o.spec = cr.spec /\ o.deleting = cr.deleting

\* Generations: the stored status is never about a generation the cache or the pass has not
\* reached, so a pass that runs while the status is current works on the current spec.
Generations ==
  /\ SoundCopy(cr) /\ SoundCopy(cache) /\ SoundCopy(mem)
  /\ Behind(cache) /\ cr.observed <= cache.gen
  /\ pc # "idle" => Behind(mem) /\ cr.observed <= mem.gen /\ mem.gen <= cache.gen
  /\ pc = "delete" => mem.deleting
  /\ pc \notin {"idle", "resolve", "delete", "release"} => ~ mem.deleting
  /\ fresh /\ pc \in {"resolve", "finalizer"} => mem = cr

\* While nothing has failed, nobody but the pass changes the service: what it described is
\* what there is, and what it is about to report is so.
Undisturbed ==
  faults = 0 =>
    /\ pc \in {"failover", "update"} => info = remote
    /\ pc \in {"registered", "failover", "refresh", "update", "updated"} => remote # NotFound
    /\ pc = "status" /\ mem.ready /\ mem.spec.active # NoCluster =>
         mem.inProgress \/ remote.active = mem.spec.active

ReadyInv == Generations /\ Undisturbed /\ ReadyIsActive

\* EndPass leaves nothing behind that Generations or Undisturbed speak of.
LEMMA EndPassCopy ==
  ASSUME NEW again, EndPass(again)
  PROVE  SoundCopy(mem') /\ fresh' = FALSE /\ pc' = "idle"
  BY DEF EndPass, NewNamespace, LocalSpec, Gone, SoundCopy

\* The webhook's check is all SoundCopy asks of an edited spec.
LEMMA EditedCopy ==
  ASSUME Typed, Generations, Delete \/ EditSomething
  PROVE  /\ cr' \in ObjectType /\ cr'.gen = cr.gen + 1 /\ cr'.observed = cr.observed /\ SoundCopy(cr')
         /\ ~ fresh' /\ UNCHANGED <<cache, mem, info, pc, remote, faults>>
  <1>0. cr \in ObjectType /\ cr.gen \in Nat /\ cr.observed \in Nat /\ cr.spec \in Specs
    BY Zenon DEF Typed, ObjectType
  <1>1. CASE Delete
    <2>1. PICK o : UserWrites(o) /\ o \in {[cr EXCEPT !.deleting = TRUE], Gone(cr)}
      BY <1>1, Zenon DEF Delete
    <2>o. o \in ObjectType /\ o.gen = cr.gen /\ o.observed = cr.observed /\ o.spec = cr.spec
      BY <1>0, <2>1, Zenon DEF Gone, ObjectType
    <2>2. /\ cr' \in ObjectType /\ cr'.gen = cr.gen + 1 /\ cr'.observed = cr.observed
          /\ cr'.spec = cr.spec
      <3>1. cr' = [o EXCEPT !.gen = o.gen + 1]
        BY <2>1, Zenon DEF UserWrites
      <3>2. cr'.gen = o.gen + 1 /\ cr'.observed = o.observed /\ cr'.spec = o.spec
        BY <2>o, <3>1, Zenon DEF ObjectType
      <3> QED BY <2>1, <2>o, <3>2, UserWritesType, Zenon
    <2>3. SoundCopy(cr')
      BY <1>0, <2>2 DEF Generations, SoundCopy
    <2> QED BY <1>1, <2>1, <2>2, <2>3, Zenon DEF UserWrites
  <1>2. CASE EditSomething
    <2>1. PICK sp \in Specs : Edit(sp)
      BY <1>2, EditInv, Zenon
    <2>2. /\ cr' \in ObjectType /\ cr'.gen = cr.gen + 1 /\ cr'.observed = cr.observed
          /\ cr'.spec = sp
      <3> DEFINE o == [cr EXCEPT !.spec = sp]
      <3>o. o \in ObjectType /\ o.gen = cr.gen /\ o.observed = cr.observed /\ o.spec = sp
        BY <1>0, Zenon DEF ObjectType
      <3>1. UserWrites(o)
        BY <2>1, Zenon DEF Edit
      <3> HIDE DEF o
      <3>2. cr' = [o EXCEPT !.gen = o.gen + 1]
        BY <3>1, Zenon DEF UserWrites
      <3>3. cr'.gen = o.gen + 1 /\ cr'.observed = o.observed /\ cr'.spec = o.spec
        BY <3>o, <3>2, Zenon DEF ObjectType
      <3> QED BY <3>o, <3>1, <3>3, UserWritesType, Zenon
    <2>3. sp.active # NoCluster => sp.global
      BY <2>1, Zenon DEF Edit, ValidateReplication
    <2>4. SoundCopy(cr')
      BY <1>0, <2>2, <2>3 DEF Generations, SoundCopy
    <2> QED BY <2>1, <2>2, <2>4, Zenon DEF Edit, UserWrites
  <1> QED BY <1>1, <1>2, Zenon

\* A pass that does not write the object keeps Generations as long as its copy keeps what
\* users write and does not report for a deleted object.
LEMMA PassKeepsGenerations ==
  ASSUME Typed, Generations, UNCHANGED <<cr, cache>>, pc # "idle",
         mem'.gen = mem.gen, mem'.spec = mem.spec, mem'.deleting = mem.deleting,
         mem'.observed = mem.observed \/ (mem'.observed = mem.gen /\ ~ mem.deleting),
         pc' # "resolve",
         fresh' /\ pc' = "finalizer" => mem' = cr,
         pc' = "delete" => mem.deleting,
         pc' \notin {"idle", "resolve", "delete", "release"} => ~ mem.deleting
  PROVE  Generations'
  <1>1. mem.gen \in Nat /\ mem.observed \in Nat
    BY Zenon DEF Typed, ObjectType
  <1>2. SoundCopy(mem)'
    BY <1>1 DEF Generations, SoundCopy
  <1> QED BY <1>2 DEF Generations, SoundCopy, Behind

LEMMA GenerationsStep ==
  ASSUME NamespaceInv, Generations, [Next]_vars
  PROVE  Generations'
  <1>t. Typed /\ Fresh
    BY Zenon DEF NamespaceInv
  <1>m. mem \in ObjectType /\ cr \in ObjectType /\ cache \in ObjectType
    BY <1>t, Zenon DEF Typed
  <1>n. mem.gen \in Nat /\ mem.observed \in Nat /\ cr.gen \in Nat /\ cr.observed \in Nat
        /\ cache.gen \in Nat /\ cache.observed \in Nat
    BY <1>m, Zenon DEF ObjectType
  <1> USE DEF object, pass
  <1>i. ASSUME UNCHANGED <<cr, cache>>, SoundCopy(mem'), fresh' = FALSE, pc' = "idle"
        PROVE  Generations'
    BY <1>i, Zenon DEF Generations, SoundCopy, Behind
  <1>1. CASE Get
    <2>1. CASE cache.here
      BY <1>t, <1>n, <1>1, <2>1 DEF Get, Generations, SoundCopy, Behind, Fresh
    <2>2. CASE ~ cache.here
      BY <1>1, <2>2, Zenon DEF Get, Generations, SoundCopy, Behind
    <2> QED BY <2>1, <2>2, Zenon
  <1>2. CASE ResolveTarget
    <2>1. /\ mem'.gen = mem.gen /\ mem'.spec = mem.spec /\ mem'.deleting = mem.deleting
          /\ mem'.observed = mem.observed \/ (mem'.observed = mem.gen /\ ~ mem.deleting)
      BY <1>t, <1>m, <1>2, CopyFields, Zenon DEF ResolveTarget
    <2>2. fresh' /\ pc' = "finalizer" => mem' = cr
      BY <1>2, Zenon DEF ResolveTarget, Generations
    <2>3. /\ UNCHANGED <<cr, cache>> /\ pc # "idle" /\ pc' # "resolve"
          /\ pc' = "delete" => mem.deleting
          /\ pc' \notin {"idle", "resolve", "delete", "release"} => ~ mem.deleting
      BY <1>2, Zenon DEF ResolveTarget
    <2> QED BY <1>t, <2>1, <2>2, <2>3, PassKeepsGenerations, Zenon
  <1>3. CASE EnsureFinalizer
    <2> DEFINE o == [mem EXCEPT !.finalizer = TRUE]
    <2>o. /\ o \in ObjectType /\ o.spec = mem.spec /\ o.gen = mem.gen /\ o.deleting = mem.deleting
          /\ o.observed = mem.observed
      BY <1>m, Zenon DEF ObjectType
    <2> HIDE DEF o
    <2>d. ~ mem.deleting
      BY <1>3, Zenon DEF EnsureFinalizer, Generations
    <2>1. /\ mem'.gen = mem.gen /\ mem'.spec = mem.spec /\ mem'.deleting = mem.deleting
          /\ mem'.observed \in {mem.observed, mem.gen} /\ pc' \in {"describe", "status"}
      BY <1>t, <1>3, <2>o, CopyFields, Zenon DEF EnsureFinalizer, o
    <2>2. cr'.gen = cr.gen /\ cr'.spec = cr.spec /\ cr'.deleting = cr.deleting
          /\ cr'.observed = cr.observed /\ cache' = cache
      <3>1. CASE mem.finalizer
        BY <1>3, <3>1, Zenon DEF EnsureFinalizer
      <3>2. CASE ~ mem.finalizer
        BY <1>3, <2>o, <3>2, Zenon DEF EnsureFinalizer, Store, Generations, o
      <3> QED BY <3>1, <3>2, Zenon
    <2> QED BY <1>n, <1>3, <2>d, <2>1, <2>2 DEF EnsureFinalizer, Generations, SoundCopy, Behind
  <1>4. CASE Describe \/ Register \/ Failover \/ SkipFailover \/ Update \/ ReconcileDelete
    <2>1. /\ UNCHANGED <<cr, cache, mem>> /\ pc # "idle" /\ pc' \notin {"resolve", "finalizer", "delete"}
          /\ pc' \notin {"idle", "resolve", "delete", "release"} => ~ mem.deleting
      BY <1>4, Zenon DEF Describe, Register, Failover, SkipFailover, Update, ReconcileDelete, Goto, Generations
    <2> QED BY <1>t, <2>1, PassKeepsGenerations, Zenon
  <1>5. CASE DescribeRegistered \/ SkipUpdate \/ Refresh \/ FrontendUnavailable
    <2>1. /\ UNCHANGED <<cr, cache>> /\ pc \notin {"idle", "resolve", "delete", "release"}
          /\ pc' \in {"status", "update"}
      BY <1>5, Zenon DEF DescribeRegistered, SkipUpdate, Refresh, FrontendUnavailable
    <2>2. ~ mem.deleting
      BY <2>1, Zenon DEF Generations
    <2>3. mem' = mem \/ mem' = NotReady(mem) \/ \E i : mem' = Finished(i)
      BY <1>5, Zenon DEF DescribeRegistered, SkipUpdate, Refresh, FrontendUnavailable
    <2>4. /\ mem'.gen = mem.gen /\ mem'.spec = mem.spec /\ mem'.deleting = mem.deleting
          /\ mem'.observed = mem.observed \/ mem'.observed = mem.gen
      <3>1. CASE mem' = mem
        BY <3>1, Zenon
      <3>2. CASE mem' = NotReady(mem)
        BY <1>t, <1>m, <3>2, CopyFields, Zenon
      <3>3. ASSUME NEW i, mem' = Finished(i)
            PROVE  /\ mem'.gen = mem.gen /\ mem'.spec = mem.spec /\ mem'.deleting = mem.deleting
                   /\ mem'.observed = mem.gen
        BY <1>t, <1>m, <3>3, CopyFields, Zenon
      <3> QED BY <2>3, <3>1, <3>2, <3>3, Zenon
    <2> QED BY <1>t, <2>1, <2>2, <2>4, PassKeepsGenerations, Zenon
  <1>6. CASE Refused \/ Conflict \/ AbortPass
    <2>1. UNCHANGED <<cr, cache>> /\ \E again : EndPass(again)
      BY <1>6, Zenon DEF Refused, Conflict, AbortPass
    <2> QED BY <1>i, <2>1, EndPassCopy, Zenon
  <1>7. CASE UpdateStatus
    <2>1. fresh /\ cr' = mem /\ cache' = cache /\ pc = "status"
      BY <1>7, Zenon DEF UpdateStatus, Store
    <2>2. mem.gen = cr.gen /\ mem.spec = cr.spec /\ mem.deleting = cr.deleting
      BY <1>t, <2>1, Zenon DEF Fresh
    <2>3. SoundCopy(mem') /\ fresh' = FALSE /\ pc' = "idle"
      BY <1>7, EndPassCopy, Zenon DEF UpdateStatus
    <2> QED BY <1>n, <2>1, <2>2, <2>3 DEF Generations, SoundCopy, Behind
  <1>8. CASE RemoveFinalizer
    <2>1. fresh /\ cr' = Gone(mem) /\ cache' = cache /\ pc = "release"
      BY <1>8, Zenon DEF RemoveFinalizer, Store
    <2>2. /\ cr'.gen = mem.gen /\ cr'.spec = mem.spec /\ cr'.deleting = mem.deleting
          /\ cr'.observed = mem.observed
      BY <1>m, <2>1, Zenon DEF Gone, ObjectType
    <2>3. mem.gen = cr.gen /\ mem.spec = cr.spec /\ mem.deleting = cr.deleting
      BY <1>t, <2>1, Zenon DEF Fresh
    <2>4. SoundCopy(mem') /\ fresh' = FALSE /\ pc' = "idle"
      BY <1>8, EndPassCopy, Zenon DEF RemoveFinalizer
    <2> QED BY <1>n, <2>1, <2>2, <2>3, <2>4 DEF Generations, SoundCopy, Behind
  <1>9. CASE Delete \/ EditSomething
    BY <1>t, <1>n, <1>9, EditedCopy DEF Generations, SoundCopy, Behind
  <1>10. CASE SyncCache
    BY <1>n, <1>10 DEF SyncCache, Generations, SoundCopy, Behind
  <1>11. CASE OtherChanges \/ (\E t : TargetChanges(t)) \/ UNCHANGED vars
    <2>1. UNCHANGED <<cr, cache, mem, fresh, pc>>
      BY <1>11, Zenon DEF OtherChanges, TargetChanges, vars
    <2> QED BY <2>1 DEF Generations, SoundCopy, Behind
  <1> QED
    BY <1>1, <1>2, <1>3, <1>4, <1>5, <1>6, <1>7, <1>8, <1>9, <1>10, <1>11, Zenon
    DEF Next, Reconcile, Environment

\* What a pass reports when it has described the service as it is.
LEMMA FinishedIsRight ==
  ASSUME NamespaceInv, Generations, NEW n, n = Finished(remote), n.spec.active # NoCluster
  PROVE  n.inProgress \/ remote.active = n.spec.active
  <1>1. mem \in ObjectType /\ n.spec = mem.spec
    BY CopyFields, Zenon DEF NamespaceInv, Typed
  <1>2. mem.spec.global
    BY <1>1, Zenon DEF Generations, SoundCopy
  <1>3. n.inProgress = (mem.spec.active \notin {NoCluster, remote.active})
    BY <1>1, <1>2, Zenon DEF Finished, ObjectType
  <1> QED BY <1>1, <1>3, Zenon

\* A step after which nothing has failed is not a fault, and nothing had failed before.
LEMMA NoFault ==
  ASSUME Typed, [Next]_vars, faults' = 0
  PROVE  ~ Fault /\ faults = 0
  <1>1. ~ Fault
    BY DEF Fault, Typed
  <1>2. faults' = faults
    BY <1>1, Zenon DEF Next, Reconcile, Environment, vars, Get, ResolveTarget, EnsureFinalizer, Describe,
       Register, DescribeRegistered, Failover, SkipFailover, Update, SkipUpdate, Refresh, Refused,
       UpdateStatus, ReconcileDelete, RemoveFinalizer, Conflict, FrontendUnavailable, AbortPass,
       Delete, EditSomething, Edit, UserWrites, SyncCache, OtherChanges, TargetChanges
  <1> QED BY <1>1, <1>2, Zenon

LEMMA UndisturbedStep ==
  ASSUME NamespaceInv, Generations, Undisturbed, [Next]_vars
  PROVE  Undisturbed'
  <1> SUFFICES ASSUME faults' = 0
               PROVE  /\ pc' \in {"failover", "update"} => info' = remote'
                      /\ pc' \in {"registered", "failover", "refresh", "update", "updated"}
                           => remote' # NotFound
                      /\ pc' = "status" /\ mem'.ready /\ mem'.spec.active # NoCluster =>
                           mem'.inProgress \/ remote'.active = mem'.spec.active
    BY Zenon DEF Undisturbed
  <1>t. Typed /\ mem \in ObjectType /\ mem.spec \in Specs /\ remote \in Infos
    BY Zenon DEF NamespaceInv, Typed, ObjectType
  <1>f. ~ Fault /\ faults = 0
    BY <1>t, NoFault, Zenon
  <1> USE DEF object, pass
  <1>u. /\ pc \in {"failover", "update"} => info = remote
        /\ pc \in {"registered", "failover", "refresh", "update", "updated"} => remote # NotFound
        /\ pc = "status" /\ mem.ready /\ mem.spec.active # NoCluster =>
             mem.inProgress \/ remote.active = mem.spec.active
    BY <1>f, Zenon DEF Undisturbed
  <1>1. CASE Get \/ Describe
    BY <1>1, Zenon DEF Get, Describe
  <1>2. CASE ResolveTarget \/ EnsureFinalizer
    <2>1. pc' \in {"delete", "finalizer", "release", "describe", "status"}
      BY <1>2, Zenon DEF ResolveTarget, EnsureFinalizer
    <2>2. pc' = "status" => \E o \in ObjectType : mem' = NotReady(o)
      BY <1>t, <1>2, CopyTypes, Zenon DEF ResolveTarget, EnsureFinalizer
    <2>3. pc' = "status" => ~ mem'.ready
      BY <1>t, <2>2, CopyFields, Zenon
    <2> QED BY <2>1, <2>3, Zenon
  <1>3. CASE Register
    <2>1. remote'.active # NoCluster \/ remote'.clusters # {}
      BY <1>3, NamespaceAssumption, Zenon DEF Register, Registered
    <2>2. remote' # NotFound
      BY <2>1 DEF NotFound
    <2> QED BY <1>3, <2>2, Zenon DEF Register, Goto
  <1>4. CASE DescribeRegistered
    <2>1. mem' = Finished(remote) /\ remote' = remote /\ pc' = "status"
      BY <1>4, Zenon DEF DescribeRegistered
    <2> QED BY <2>1, FinishedIsRight, Zenon
  <1>5. CASE Failover
    <2>1. remote'.active = mem.spec.active /\ mem.spec.active # NoCluster
      BY <1>t, <1>5, Zenon DEF Failover, FailedOver, WantsFailover, Infos
    <2>2. remote' # NotFound
      BY <2>1 DEF NotFound
    <2> QED BY <1>5, <2>2, Zenon DEF Failover, Goto
  <1>6. CASE SkipFailover
    BY <1>u, <1>6, Zenon DEF SkipFailover, Goto
  <1>7. CASE Update
    <2>1. remote'.active \in remote'.clusters
      BY <1>7, Zenon DEF Update, Accepted
    <2>2. remote' # NotFound
      BY <2>1 DEF NotFound
    <2> QED BY <1>7, <2>2, Zenon DEF Update, Goto
  <1>8. CASE SkipUpdate
    <2>1. mem' = Finished(remote) /\ remote' = remote /\ pc' = "status"
      BY <1>u, <1>8, Zenon DEF SkipUpdate
    <2> QED BY <2>1, FinishedIsRight
  <1>9. CASE Refresh
    <2>1. info' = remote /\ remote' = remote /\ remote # NotFound
      BY <1>u, <1>f, <1>9, Zenon DEF Refresh
    <2>2. CASE pc = "refresh"
      BY <1>9, <2>1, <2>2, Zenon DEF Refresh
    <2>3. CASE pc = "updated"
      <3>1. mem' = Finished(remote) /\ pc' = "status"
        BY <1>9, <2>1, <2>3, Zenon DEF Refresh
      <3> QED BY <2>1, <3>1, FinishedIsRight, Zenon
    <2> QED BY <1>9, <2>2, <2>3, Zenon DEF Refresh
  <1>10. CASE Refused \/ UpdateStatus \/ RemoveFinalizer \/ Conflict
    BY <1>10, Zenon DEF Refused, UpdateStatus, RemoveFinalizer, Conflict, EndPass
  <1>11. CASE ReconcileDelete
    BY <1>11, Zenon DEF ReconcileDelete, Goto
  <1>12. CASE UNCHANGED <<mem, info, pc, remote>>
    BY <1>u, <1>12, Zenon
  <1>13. CASE Delete \/ EditSomething \/ SyncCache \/ UNCHANGED vars
    BY <1>12, <1>13, Zenon DEF Delete, EditSomething, Edit, UserWrites, SyncCache, vars
  <1>14. ~ (FrontendUnavailable \/ AbortPass \/ OtherChanges \/ \E t : TargetChanges(t))
    BY <1>f, Zenon DEF FrontendUnavailable, AbortPass, OtherChanges, TargetChanges
  <1> QED
    BY <1>1, <1>2, <1>3, <1>4, <1>5, <1>6, <1>7, <1>8, <1>9, <1>10, <1>11, <1>13, <1>14, Zenon
    DEF Next, Reconcile, Environment

LEMMA ReadyIsActiveStep ==
  ASSUME NamespaceInv, ReadyInv, [Next]_vars
  PROVE  ReadyIsActive'
  <1> SUFFICES ASSUME cr'.here, cr'.ready, cr'.observed = cr'.gen, faults' = 0,
                      cr'.spec.active # NoCluster
               PROVE  cr'.inProgress \/ remote'.active = cr'.spec.active
    BY Zenon DEF ReadyIsActive
  <1>t. Typed /\ Fresh /\ Generations /\ Undisturbed /\ ReadyIsActive
    BY Zenon DEF NamespaceInv, ReadyInv
  <1>m. /\ mem \in ObjectType /\ cr \in ObjectType /\ mem.gen \in Nat /\ cr.gen \in Nat
        /\ cr.observed \in Nat /\ remote \in Infos
    BY <1>t, Zenon DEF Typed, ObjectType
  <1>f. ~ Fault /\ faults = 0
    BY <1>t, NoFault, Zenon
  <1> USE DEF object, pass
  <1>1. CASE UNCHANGED <<cr, remote>>
    BY <1>t, <1>f, <1>1, Zenon DEF ReadyIsActive
  <1>2. CASE Register \/ Failover \/ Update \/ ReconcileDelete
    <2>1. cr' = cr /\ pc # "idle"
      BY <1>2, Zenon DEF Register, Failover, Update, ReconcileDelete
    <2>2. mem.gen = cr.gen
      BY <1>t, <1>m, <2>1 DEF Generations, Behind
    <2>3. mem.spec = cr.spec /\ mem.deleting = cr.deleting /\ ~ cr.deleting
      BY <1>t, <1>m, <2>1, <2>2 DEF Generations, Behind, SoundCopy
    <2>4. cr.inProgress \/ remote.active = cr.spec.active
      BY <1>t, <1>f, <2>1, Zenon DEF ReadyIsActive
    <2>5. CASE Register
      BY <2>1, <2>3, <2>5, Zenon DEF Register, Registered
    <2>6. CASE Failover
      <3>1. remote'.active = mem.spec.active
        BY <1>m, <2>6, Zenon DEF Failover, FailedOver, Infos
      <3> QED BY <2>1, <2>3, <3>1, Zenon
    <2>7. CASE Update
      <3>1. remote'.active = remote.active
        BY <1>m, <2>7, Zenon DEF Update, Updated, Infos
      <3> QED BY <2>1, <2>4, <3>1, Zenon
    <2>8. CASE ReconcileDelete
      BY <1>t, <2>3, <2>8, Zenon DEF ReconcileDelete, Generations
    <2> QED BY <1>2, <2>5, <2>6, <2>7, <2>8, Zenon
  <1>3. CASE EnsureFinalizer
    <2>1. /\ cr'.here = cr.here /\ cr'.ready = cr.ready /\ cr'.observed = cr.observed
          /\ cr'.gen = cr.gen /\ cr'.spec = cr.spec /\ cr'.inProgress = cr.inProgress
          /\ remote' = remote
      <3>1. CASE mem.finalizer
        BY <1>3, <3>1, Zenon DEF EnsureFinalizer
      <3>2. CASE ~ mem.finalizer
        BY <1>t, <1>m, <1>3, <3>2, Zenon DEF EnsureFinalizer, Store, Generations, ObjectType
      <3> QED BY <3>1, <3>2, Zenon
    <2> QED BY <1>t, <1>f, <2>1, Zenon DEF ReadyIsActive
  <1>4. CASE UpdateStatus
    BY <1>t, <1>f, <1>4, Zenon DEF UpdateStatus, Store, Undisturbed
  <1>5. CASE RemoveFinalizer
    <2>1. ~ Gone(mem).here
      BY <1>m, Zenon DEF Gone, ObjectType
    <2> QED BY <1>5, <2>1, Zenon DEF RemoveFinalizer, Store
  <1>6. CASE Delete \/ EditSomething
    BY <1>t, <1>m, <1>6, EditedCopy DEF Generations, SoundCopy
  <1>7. \/ UNCHANGED <<cr, remote>>
        \/ Register \/ Failover \/ Update \/ ReconcileDelete \/ EnsureFinalizer \/ UpdateStatus
        \/ RemoveFinalizer \/ Delete \/ EditSomething
    BY <1>f, Zenon DEF Next, Reconcile, Environment, vars, Get, ResolveTarget, Describe, DescribeRegistered,
       SkipFailover, SkipUpdate, Refresh, Refused, Conflict, FrontendUnavailable, AbortPass, SyncCache,
       OtherChanges, TargetChanges
  <1> QED BY <1>1, <1>2, <1>3, <1>4, <1>5, <1>6, <1>7, Zenon

LEMMA ReadyInit == Init => ReadyInv
  <1> SUFFICES ASSUME Init PROVE ReadyInv
    OBVIOUS
  <1>1. PICK sp \in Specs : cr = NewNamespace(sp) /\ ValidateReplication(sp)
    BY Zenon DEF Init
  <1>2. /\ cr.spec = sp /\ cr.gen = 0 /\ cr.observed = 0 /\ cr.deleting = FALSE /\ cr.ready = FALSE
    BY <1>1, Zenon DEF NewNamespace
  <1>3. sp.active # NoCluster => sp.global
    BY <1>1, Zenon DEF ValidateReplication
  <1>4. SoundCopy(cr)
    BY <1>2, <1>3 DEF SoundCopy
  <1>5. SoundCopy(mem)
    BY DEF Init, NewNamespace, LocalSpec, Gone, SoundCopy
  <1> QED BY <1>2, <1>4, <1>5 DEF Init, ReadyInv, Generations, Behind, Undisturbed, ReadyIsActive

\* ReadyIsActive holds for every group of clusters and any number of edits: a Ready status of
\* the current generation is right about where the namespace is active.
THEOREM ReadyIsRight == Spec => []ReadyIsActive
  <1>1. NamespaceInv /\ ReadyInv /\ [Next]_vars => ReadyInv'
    BY GenerationsStep, UndisturbedStep, ReadyIsActiveStep, Zenon DEF ReadyInv
  <1>2. ReadyInv => ReadyIsActive
    BY Zenon DEF ReadyInv
  <1> QED BY <1>1, <1>2, ReadyInit, NamespaceInvariance, PTL DEF Spec
=============================================================================
