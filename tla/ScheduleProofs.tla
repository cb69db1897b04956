--------------------------- MODULE ScheduleProofs ---------------------------
(***************************************************************************)
(* Proofs about Schedule, for any number of edits and faults.              *)
(***************************************************************************)
EXTENDS Schedule, TLAPS

Targets == [exists : BOOLEAN, ready : BOOLEAN]

\* TypeOK without what it says of the finalizer, which is not inductive by itself.
Typed ==
  /\ cr \in ScheduleType /\ cache \in ScheduleType /\ mem \in ScheduleType
  /\ synced \in BOOLEAN /\ fresh \in BOOLEAN /\ queued \in BOOLEAN
  /\ seen \in Targets /\ target \in Targets
  /\ pc \in {"idle", "resolve", "finalizer", "describe", "create", "update", "pause", "patch",
             "observe", "status", "delete", "release"}
  /\ remote \in Params \cup {NoParams}
  /\ edits \in 0..MaxEdits /\ faults \in 0..MaxFaults

\* What the finalizer protects: it is never taken back, so a copy that has it, however
\* old, shows that the object has it, and no step that may send a schedule is reached
\* without it.
Protected ==
  /\ cache.finalizer => cr.finalizer
  /\ mem.finalizer => cr.finalizer
  /\ pc \in {"describe", "create", "update", "pause", "patch", "observe"} => mem.finalizer
  /\ remote # NoParams => cr.finalizer

\* A copy with the stored resourceVersion agrees with the stored object on everything
\* users write.
Fresh ==
  /\ synced => cache = cr
  /\ fresh => /\ mem.here = cr.here /\ mem.deleting = cr.deleting
              /\ mem.finalizer = cr.finalizer /\ mem.allow = cr.allow

\* A pass that reached the service and is about to drop the finalizer has deleted what
\* the copy it read allowed it to delete.
Emptied == pc = "release" /\ seen.exists /\ mem.allow => remote = NoParams

ScheduleInv == Typed /\ Protected /\ Fresh /\ Emptied

-----------------------------------------------------------------------------
LEMMA NewScheduleType ==
  ASSUME NEW allow \in BOOLEAN
  PROVE  NewSchedule(allow) \in ScheduleType /\ Gone(NewSchedule(allow)) \in ScheduleType
  <1>1. [body |-> 0, paused |-> FALSE] \in Params
    BY ScheduleAssumption DEF Params
  <1>2. NewSchedule(allow) \in ScheduleType
    BY <1>1 DEF NewSchedule, ScheduleType
  <1> QED BY <1>2, Zenon DEF Gone, ScheduleType

LEMMA ScheduleInit == Init => ScheduleInv
  <1> SUFFICES ASSUME Init PROVE ScheduleInv
    OBVIOUS
  <1> USE ScheduleAssumption DEF Init
  <1>1. PICK allow \in BOOLEAN : cr = NewSchedule(allow)
    OBVIOUS
  <1>2. Typed
    <2>1. cr \in ScheduleType /\ cache \in ScheduleType /\ mem \in ScheduleType
      BY <1>1, NewScheduleType, Zenon
    <2>2. seen \in Targets /\ target \in Targets
      BY Zenon DEF Missing, Targets
    <2>3. edits \in 0..MaxEdits /\ faults \in 0..MaxFaults
      OBVIOUS
    <2>4. remote \in Params \cup {NoParams}
      OBVIOUS
    <2> QED BY <2>1, <2>2, <2>3, <2>4, Zenon DEF Typed
  <1>3. ~ cr.finalizer /\ ~ mem.finalizer
    BY <1>1 DEF NewSchedule, Gone
  <1> QED BY <1>2, <1>3, Zenon DEF ScheduleInv, Protected, Fresh, Emptied

\* EndPass leaves the pass variables as they are between two passes.
LEMMA EndPassInv ==
  ASSUME Typed, NEW again \in BOOLEAN, EndPass(again)
  PROVE  /\ mem' \in ScheduleType /\ ~ mem'.finalizer /\ ~ fresh' /\ fresh' \in BOOLEAN
         /\ seen' \in Targets /\ pc' = "idle" /\ queued' \in BOOLEAN
  <1>1. mem' \in ScheduleType
    BY NewScheduleType, Zenon DEF EndPass
  <1>2. ~ mem'.finalizer
    BY DEF EndPass, NewSchedule, Gone
  <1>3. seen' \in Targets
    BY DEF EndPass, Missing, Targets
  <1>4. queued' \in BOOLEAN
    BY Zenon DEF EndPass, Typed
  <1> QED BY <1>1, <1>2, <1>3, <1>4, Zenon DEF EndPass

LEMMA FaultType ==
  ASSUME faults \in 0..MaxFaults, Fault
  PROVE  faults' \in 0..MaxFaults
  BY ScheduleAssumption DEF Fault

\* Every step keeps the types.
LEMMA TypedStep == Typed /\ [Next]_vars => Typed'
  <1> SUFFICES ASSUME Typed, [Next]_vars PROVE Typed'
    OBVIOUS
  <1> USE DEF Typed, object, pass
  <1>a. Fault => faults' \in 0..MaxFaults
    BY FaultType
  <1>1. CASE Get
    BY <1>1, Zenon DEF Get
  <1>2. CASE ResolveTarget
    <2>1. mem' \in ScheduleType
      BY <1>2, Zenon DEF ResolveTarget, ScheduleType
    <2>2. seen' \in Targets
      <3>1. Missing \in Targets
        BY DEF Missing, Targets
      <3> QED BY <1>2, <3>1 DEF ResolveTarget
    <2> QED BY <1>2, <1>a, <2>1, <2>2 DEF ResolveTarget
  <1>3. CASE EnsureFinalizer
    <2>1. mem' \in ScheduleType /\ cr' \in ScheduleType
      BY <1>3, Zenon DEF EnsureFinalizer, Store, ScheduleType
    <2>2. synced' \in BOOLEAN
      BY <1>3, Zenon DEF EnsureFinalizer, Store
    <2> QED BY <1>3, <2>1, <2>2 DEF EnsureFinalizer, Store
  <1>4. CASE DescribeSchedule
    BY <1>4 DEF DescribeSchedule, Goto
  <1>5. CASE Apply
    <2>1. mem' \in ScheduleType /\ remote' \in Params
      BY <1>5 DEF Apply, ScheduleType
    <2> QED BY <1>5, <2>1 DEF Apply
  <1>6. CASE ReconcilePause
    BY <1>6 DEF ReconcilePause, Goto
  <1>7. CASE Pause
    <2>1. remote' \in Params
      BY <1>7 DEF Pause, ScheduleType, Params
    <2> QED BY <1>7, <2>1 DEF Pause, Goto
  <1>8. CASE Observe
    <2>1. mem' \in ScheduleType
      BY <1>8, Zenon DEF Observe, ScheduleType
    <2> QED BY <1>8, <2>1 DEF Observe
  <1>9. CASE NotFound
    BY <1>9, EndPassInv, Zenon DEF NotFound
  <1>10. CASE UpdateStatus
    <2>1. synced' \in BOOLEAN
      BY <1>10, Zenon DEF UpdateStatus, Store
    <2> QED BY <1>10, <2>1, EndPassInv, Zenon DEF UpdateStatus, Store
  <1>11. CASE DeleteSchedule
    BY <1>11 DEF DeleteSchedule, Goto
  <1>12. CASE RemoveFinalizer
    <2>1. cr' \in ScheduleType
      BY <1>12, Zenon DEF RemoveFinalizer, Store, Gone, ScheduleType
    <2>2. synced' \in BOOLEAN
      BY <1>12, Zenon DEF RemoveFinalizer, Store
    <2> QED BY <1>12, <2>1, <2>2, EndPassInv, Zenon DEF RemoveFinalizer, Store
  <1>13. CASE Conflict
    <2>1. cr.here \in BOOLEAN
      BY DEF ScheduleType
    <2> QED BY <1>13, <2>1, EndPassInv DEF Conflict
  <1>14. CASE FrontendUnavailable
    <2>1. mem' \in ScheduleType /\ mem.spec \in Params
      BY <1>14, Zenon DEF FrontendUnavailable, ScheduleType
    <2> QED BY <1>14, <1>a, <2>1 DEF FrontendUnavailable
  <1>15. CASE AbortPass
    BY <1>15, <1>a, EndPassInv, Zenon DEF AbortPass
  <1>16. CASE Delete
    <2>1. cr' \in ScheduleType
      BY <1>16, Zenon DEF Delete, UserWrites, Gone, ScheduleType
    <2> QED BY <1>16, <2>1, Zenon DEF Delete, UserWrites
  <1>17. CASE SyncCache
    BY <1>17 DEF SyncCache
  <1>18. CASE EditAllowDeletion
    <2>1. (~ cr.allow) \in BOOLEAN
      OBVIOUS
    <2>2. cr' \in ScheduleType
      BY <1>18, <2>1, Zenon DEF EditAllowDeletion, Edit, UserWrites, ScheduleType
    <2>3. edits' \in 0..MaxEdits
      BY <1>18, ScheduleAssumption DEF EditAllowDeletion, Edit
    <2> QED BY <1>18, <2>2, <2>3, Zenon DEF EditAllowDeletion, Edit, UserWrites
  <1>19. CASE OtherChanges
    <2>1. (~ remote.paused) \in BOOLEAN
      OBVIOUS
    <2>2. remote' \in Params \cup {NoParams}
      BY <1>19, <2>1, Zenon DEF OtherChanges, Params
    <2> QED BY <1>19, <1>a, <2>2 DEF OtherChanges
  <1>20. ASSUME NEW p \in Params, EditSpec(p) PROVE Typed'
    <2>1. cr' \in ScheduleType
      BY <1>20 DEF EditSpec, Edit, UserWrites, ScheduleType
    <2>2. edits' \in 0..MaxEdits
      BY <1>20, ScheduleAssumption DEF EditSpec, Edit
    <2> QED BY <1>20, <2>1, <2>2, Zenon DEF EditSpec, Edit, UserWrites
  <1>21. ASSUME NEW t \in Targets, TargetChanges(t) PROVE Typed'
    <2>1. queued' \in BOOLEAN
      BY <1>21, Zenon DEF TargetChanges
    <2> QED BY <1>21, <1>a, <2>1 DEF TargetChanges
  <1>22. Missing \in Targets /\ \A r \in BOOLEAN : [exists |-> TRUE, ready |-> r] \in Targets
    BY DEF Missing, Targets
  <1>23. CASE UNCHANGED vars
    BY <1>23 DEF vars
  <1> QED
    BY <1>1, <1>2, <1>3, <1>4, <1>5, <1>6, <1>7, <1>8, <1>9, <1>10, <1>11, <1>12, <1>13, <1>14,
       <1>15, <1>16, <1>17, <1>18, <1>19, <1>20, <1>21, <1>22, <1>23, Zenon
    DEF Next, Reconcile, Environment

\* Every step keeps the rest of the invariant: the finalizer is only ever added, a write
\* of the pass needs the stored resourceVersion, and nothing but a pass that has the
\* finalizer sends a schedule to the service.
LEMMA ScheduleStep == ScheduleInv /\ [Next]_vars => ScheduleInv'
  <1> SUFFICES ASSUME ScheduleInv, [Next]_vars PROVE Protected' /\ Fresh' /\ Emptied'
    BY TypedStep DEF ScheduleInv
  <1> USE DEF Protected, Fresh, Emptied, object, pass
  <1>t. Typed /\ Protected /\ Fresh /\ Emptied
    BY DEF ScheduleInv
  <1>e. ASSUME NEW again \in BOOLEAN, EndPass(again)
        PROVE  ~ mem'.finalizer /\ ~ fresh' /\ pc' = "idle"
    BY <1>t, <1>e, EndPassInv
  <1>1. CASE Get
    BY <1>t, <1>1 DEF Get
  <1>2. CASE ResolveTarget
    BY <1>t, <1>2 DEF ResolveTarget, Missing, Typed, ScheduleType
  <1>3. CASE EnsureFinalizer
    <2>m. /\ mem'.here = mem.here /\ mem'.deleting = mem.deleting /\ mem'.finalizer
          /\ mem'.allow = mem.allow /\ pc' \in {"describe", "status"}
      BY <1>t, <1>3, Zenon DEF EnsureFinalizer, Typed, ScheduleType
    <2>1. CASE mem.finalizer
      <3>1. UNCHANGED <<cr, cache, synced, fresh, remote>>
        BY <1>3, <2>1 DEF EnsureFinalizer, Store
      <3> QED BY <1>t, <2>1, <2>m, <3>1, Zenon DEF Typed, ScheduleType
    <2>2. CASE ~ mem.finalizer
      <3>1. cr'.finalizer /\ cr' = [mem EXCEPT !.finalizer = TRUE] /\ fresh /\ UNCHANGED <<cache, fresh, remote>>
        BY <1>t, <1>3, <2>2 DEF EnsureFinalizer, Store, Typed, ScheduleType
      <3>2. synced' => cache' = cr'
        BY <1>t, <1>3, <2>2, Zenon DEF EnsureFinalizer, Store
      <3> QED BY <1>t, <2>m, <3>1, <3>2 DEF Typed, ScheduleType
    <2> QED BY <2>1, <2>2
  <1>4. CASE DescribeSchedule
    BY <1>t, <1>4 DEF DescribeSchedule, Goto
  <1>5. CASE Apply
    BY <1>t, <1>5 DEF Apply, Typed, ScheduleType
  <1>6. CASE ReconcilePause
    BY <1>t, <1>6 DEF ReconcilePause, Goto
  <1>7. CASE Pause
    BY <1>t, <1>7 DEF Pause, Goto
  <1>8. CASE Observe
    BY <1>t, <1>8 DEF Observe, Typed, ScheduleType
  <1>9. CASE NotFound
    BY <1>t, <1>e, <1>9, Zenon DEF NotFound
  <1>10. CASE UpdateStatus
    BY <1>t, <1>e, <1>10, Zenon DEF UpdateStatus, Store
  <1>11. CASE DeleteSchedule
    BY <1>t, <1>11 DEF DeleteSchedule, Goto
  <1>12. CASE RemoveFinalizer
    BY <1>t, <1>e, <1>12, Zenon DEF RemoveFinalizer, Store, Gone, Typed, ScheduleType
  <1>13. CASE Conflict
    <2>1. cr.here \in BOOLEAN
      BY <1>t DEF Typed, ScheduleType
    <2> QED BY <1>t, <1>e, <1>13, <2>1 DEF Conflict
  <1>14. CASE FrontendUnavailable
    BY <1>t, <1>14 DEF FrontendUnavailable, Typed, ScheduleType
  <1>15. CASE AbortPass
    BY <1>t, <1>e, <1>15, Zenon DEF AbortPass
  <1>16. CASE Delete
    BY <1>t, <1>16, Zenon DEF Delete, UserWrites, Gone, Typed, ScheduleType
  <1>17. CASE SyncCache
    BY <1>t, <1>17 DEF SyncCache
  <1>18. CASE EditAllowDeletion
    BY <1>t, <1>18 DEF EditAllowDeletion, Edit, UserWrites, Typed, ScheduleType
  <1>19. CASE OtherChanges
    BY <1>t, <1>19 DEF OtherChanges
  <1>20. ASSUME NEW p \in Params, EditSpec(p) PROVE Protected' /\ Fresh' /\ Emptied'
    BY <1>t, <1>20 DEF EditSpec, Edit, UserWrites, Typed, ScheduleType
  <1>21. ASSUME NEW t, TargetChanges(t) PROVE Protected' /\ Fresh' /\ Emptied'
    BY <1>t, <1>21 DEF TargetChanges
  <1>22. CASE UNCHANGED vars
    BY <1>t, <1>22 DEF vars
  <1> QED
    BY <1>1, <1>2, <1>3, <1>4, <1>5, <1>6, <1>7, <1>8, <1>9, <1>10, <1>11, <1>12, <1>13, <1>14,
       <1>15, <1>16, <1>17, <1>18, <1>19, <1>20, <1>21, <1>22, Zenon
    DEF Next, Reconcile, Environment

\* The only step that makes an object with a finalizer disappear is the pass that drops
\* the finalizer, and it holds the stored object's copy.
LEMMA DeletionStep ==
  ScheduleInv /\ [Next]_vars =>
    (cr.here /\ cr.finalizer /\ ~ cr'.here /\ seen.exists /\ cr.allow => remote = NoParams)
  <1> SUFFICES ASSUME ScheduleInv, [Next]_vars, cr.here, cr.finalizer, ~ cr'.here, seen.exists,
                      cr.allow
               PROVE  remote = NoParams
    OBVIOUS
  <1>t. Typed /\ Protected /\ Fresh /\ Emptied
    BY DEF ScheduleInv
  <1>1. CASE RemoveFinalizer
    BY <1>t, <1>1, Zenon DEF RemoveFinalizer, Store, Fresh, Emptied
  <1>2. CASE UpdateStatus
    BY <1>t, <1>2, Zenon DEF UpdateStatus, Store, Fresh
  <1>3. CASE EnsureFinalizer
    BY <1>t, <1>3, Zenon DEF EnsureFinalizer, Store, Fresh, object, Typed, ScheduleType
  <1>4. CASE Delete \/ EditAllowDeletion \/ \E p \in Params : EditSpec(p)
    BY <1>t, <1>4 DEF Delete, EditAllowDeletion, EditSpec, Edit, UserWrites, Typed, ScheduleType
  <1>5. CASE UNCHANGED cr
    BY <1>5
  <1>6. \/ RemoveFinalizer \/ UpdateStatus \/ EnsureFinalizer
        \/ Delete \/ EditAllowDeletion \/ \E p \in Params : EditSpec(p)
        \/ UNCHANGED cr
    BY Zenon DEF Next, Reconcile, Environment, vars, object, Get, ResolveTarget, DescribeSchedule, Apply,
       ReconcilePause, Pause, Observe, NotFound, DeleteSchedule, Conflict, FrontendUnavailable,
       AbortPass, SyncCache, OtherChanges, TargetChanges
  <1> QED BY <1>1, <1>2, <1>3, <1>4, <1>5, <1>6

THEOREM ScheduleInvariance == Spec => []ScheduleInv
  <1>1. Init => ScheduleInv
    BY ScheduleInit
  <1>2. ScheduleInv /\ [Next]_vars => ScheduleInv'
    BY ScheduleStep
  <1> QED BY <1>1, <1>2, PTL DEF Spec

\* TypeOK holds for any number of edits and faults, and with it: the service holds a
\* schedule only for an object the finalizer protects.
THEOREM TypeCorrect == Spec => []TypeOK
  <1>1. ScheduleInv => TypeOK
    BY DEF ScheduleInv, Typed, Protected, TypeOK, Targets
  <1> QED BY <1>1, ScheduleInvariance, PTL

\* DeletionHonoured holds for any number of edits and faults, reverted specs included.
THEOREM DeletionIsHonoured == Spec => DeletionHonoured
  <1>1. ScheduleInv /\ [Next]_vars =>
          [cr.here /\ cr.finalizer /\ ~ cr'.here /\ seen.exists /\ cr.allow => remote = NoParams]_vars
    BY DeletionStep
  <1> QED BY <1>1, ScheduleInvariance, PTL DEF Spec, DeletionHonoured
=============================================================================
