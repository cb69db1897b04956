------------------------- MODULE WorkflowRunProofs -------------------------
(***************************************************************************)
(* Proofs about WorkflowRun, for every set of policies, any number of      *)
(* executions others start and any number of faults.                       *)
(***************************************************************************)
EXTENDS WorkflowRun, TLAPS

States   == {"running", "closed", "continued", "purged"}
ExecType == [own : BOOLEAN, cancel : BOOLEAN, state : States]

\* The types of everything but execs, and the bounds of TypeOK left out.
Typed ==
  /\ cr \in RunType /\ cache \in RunType /\ mem \in RunType
  /\ synced \in BOOLEAN /\ fresh \in BOOLEAN /\ queued \in BOOLEAN
  /\ pc \in {"idle", "resolve", "finalizer", "run", "start", "describe", "status", "ttl",
             "delete", "release"}
  /\ seen \in Targets /\ target \in Targets
  /\ faults \in 0..MaxFaults

\* The service's executions: no two in a row of the object's own, unless the service has
\* forgotten the first.
ExecsInv == execs \in Seq(ExecType) /\ NoRestart

\* What every copy of the object, however old, says of its run: it is one the service
\* knows, and once recorded finished it no longer runs.
Sound(o) == o.runID <= Len(execs) /\ (o.completed => o.runID # 0 /\ ~ Running(o.runID))

Copies == Sound(cr) /\ Sound(cache) /\ Sound(mem)

\* A copy with the stored resourceVersion agrees with the stored object on what users
\* write, and has the run the object names.
Fresh ==
  /\ synced => cache = cr
  /\ fresh => /\ mem.here = cr.here /\ mem.finalizer = cr.finalizer /\ mem.policy = cr.policy
              /\ cr.runID # 0 => mem.runID = cr.runID

\* Where the pass is: it starts a workflow only without a run, describes one only with a
\* run, and comes to drop the finalizer through the policy if it reached the service.
Steps ==
  /\ pc = "start" => mem.runID = 0
  /\ pc = "describe" => mem.runID # 0
  /\ pc = "release" /\ seen.exists /\ mem.finalizer /\ mem.runID # 0 /\ Running(mem.runID) =>
       \/ mem.policy = "Abandon"
       \/ mem.policy = "Cancel" /\ execs[mem.runID].cancel

RunInv == Typed /\ ExecsInv /\ Copies /\ Fresh /\ Steps

-----------------------------------------------------------------------------
\* What a step may do to the service's executions: they are never forgotten entirely, none
\* resumes, and a request to cancel is kept.
Grows ==
  /\ execs' \in Seq(ExecType)
  /\ Len(execs) <= Len(execs')
  /\ \A i \in 1..Len(execs) : /\ execs'[i].state = "running" => execs[i].state = "running"
                              /\ execs[i].cancel => execs'[i].cancel

\* A function on the indices of a sequence is a sequence of the same length.
LEMMA SameLength ==
  ASSUME NEW T, NEW s \in Seq(T), NEW U, NEW f \in [1..Len(s) -> U]
  PROVE  f \in Seq(U) /\ Len(f) = Len(s)
  OBVIOUS

LEMMA ExecutionType ==
  ASSUME NEW own \in BOOLEAN
  PROVE  /\ Execution(own) \in ExecType /\ Execution(own).own = own
         /\ Execution(own).state = "running"
  BY Zenon DEF Execution, ExecType, States

\* Closing, purging or cancelling one execution keeps the service's record in order.
LEMMA OneChanges ==
  ASSUME ExecsInv, NEW i \in DOMAIN execs, NEW e \in ExecType,
         execs' = [execs EXCEPT ![i] = e],
         e.own = execs[i].own, execs[i].cancel => e.cancel,
         e.state = "running" => execs[i].state = "running",
         execs[i].state = "purged" => e.state = "purged"
  PROVE  Grows /\ NoRestart'
  <1>1. execs' \in Seq(ExecType) /\ Len(execs') = Len(execs)
    BY DEF ExecsInv
  <1>2. \A j \in 1..Len(execs) : execs'[j] = IF j = i THEN e ELSE execs[j]
    BY DEF ExecsInv
  <1>3. \A j \in 1..Len(execs) : execs'[j].own = execs[j].own
                                 /\ (execs[j].state = "purged" => execs'[j].state = "purged")
    BY <1>2, Zenon
  <1>4. NoRestart'
    BY <1>1, <1>3 DEF ExecsInv, NoRestart
  <1> QED BY <1>1, <1>2, <1>4 DEF Grows, ExecsInv

\* What Append does, element by element.
LEMMA Appended ==
  ASSUME NEW T, NEW s \in Seq(T), NEW e \in T
  PROVE  /\ Append(s, e) \in Seq(T) /\ Len(Append(s, e)) = Len(s) + 1
         /\ \A j \in 1..Len(s) : Append(s, e)[j] = s[j]
         /\ Append(s, e)[Len(s) + 1] = e
  OBVIOUS

\* A new execution does not follow in a row of the object's own, unless the last one of
\* them is forgotten.
LEMMA OneAppended ==
  ASSUME NEW s \in Seq(ExecType), Len(s) = Len(execs), ExecsInv, NEW e \in ExecType,
         execs' = Append(s, e),
         \A j \in 1..Len(s) : /\ s[j].own = execs[j].own
                              /\ execs[j].state = "purged" => s[j].state = "purged"
                              /\ s[j].state = "running" => execs[j].state = "running"
                              /\ execs[j].cancel => s[j].cancel,
         e.own /\ Len(s) # 0 /\ s[Len(s)].own => s[Len(s)].state = "purged"
  PROVE  Grows /\ NoRestart'
  <1>1. /\ execs' \in Seq(ExecType) /\ Len(execs') = Len(s) + 1
        /\ \A j \in 1..Len(s) : execs'[j] = s[j]
        /\ execs'[Len(s) + 1] = e
    BY Appended
  <1>2. ASSUME NEW i \in DOMAIN execs' \ {1}, execs'[i - 1].own, execs'[i].own
        PROVE  execs'[i - 1].state = "purged"
    <2>0. Len(s) \in Nat /\ i \in 2..(Len(s) + 1) /\ i - 1 \in 1..Len(s)
      BY <1>1
    <2>1. CASE i = Len(s) + 1
      BY <1>1, <1>2, <2>0, <2>1
    <2>2. CASE i # Len(s) + 1
      <3>1. i \in 1..Len(s) /\ i \in DOMAIN execs \ {1}
        BY <2>0, <2>2 DEF ExecsInv
      <3>2. execs[i - 1].own /\ execs[i].own
        BY <1>1, <1>2, <2>0, <3>1
      <3>3. execs[i - 1].state = "purged"
        BY <3>1, <3>2, Zenon DEF ExecsInv, NoRestart
      <3> QED BY <1>1, <2>0, <3>3
    <2> QED BY <2>1, <2>2, Zenon
  <1>3. NoRestart'
    BY <1>2, Zenon DEF NoRestart
  <1> QED BY <1>1, <1>3 DEF Grows, ExecsInv

\* Starting a workflow adds at most one execution, and closes those that run.
LEMMA StartAppends ==
  ASSUME ExecsInv, NEW o, execs' = StartedExecs(o)
  PROVE  Grows /\ NoRestart' /\ Len(execs') # 0
  <1>1. CASE Existing(o)
    <2>1. execs' = execs
      BY <1>1, Zenon DEF StartedExecs
    <2>2. execs # <<>> /\ Len(execs) # 0
      BY <1>1 DEF Existing, ExecsInv
    <2> QED BY <2>1, <2>2 DEF Grows, ExecsInv, NoRestart
  <1>2. CASE ~ Existing(o)
    <2> DEFINE closed == [i \in DOMAIN execs |->
                            IF Running(i) THEN [execs[i] EXCEPT !.state = "closed"] ELSE execs[i]]
    <2>1. closed \in [1..Len(execs) -> ExecType]
      <3>1. ASSUME NEW i \in 1..Len(execs) PROVE [execs[i] EXCEPT !.state = "closed"] \in ExecType
        <4>1. execs[i] \in ExecType
          BY DEF ExecsInv
        <4> QED BY <4>1, Zenon DEF ExecType, States
      <3>2. DOMAIN execs = 1..Len(execs) /\ \A i \in 1..Len(execs) : execs[i] \in ExecType
        BY DEF ExecsInv
      <3> QED BY <3>1, <3>2, Zenon
    <2>2. closed \in Seq(ExecType) /\ Len(closed) = Len(execs)
      BY <2>1, SameLength, Zenon DEF ExecsInv
    <2>3. \A j \in 1..Len(execs) :
            /\ closed[j].own = execs[j].own /\ closed[j].cancel = execs[j].cancel
            /\ closed[j].state = IF execs[j].state = "running" THEN "closed" ELSE execs[j].state
      BY DEF ExecsInv, Running, ExecType
    <2>4. execs' = Append(closed, Execution(TRUE))
      BY <1>2, Zenon DEF StartedExecs
    <2>5. Len(closed) # 0 /\ closed[Len(closed)].own => closed[Len(closed)].state = "purged"
      <3> SUFFICES ASSUME Len(closed) # 0, closed[Len(closed)].own
                   PROVE  closed[Len(closed)].state = "purged"
        BY Zenon
      <3>1. Len(execs) \in 1..Len(execs) /\ execs # <<>>
        BY <2>2 DEF ExecsInv
      <3>2. execs[Len(execs)].own
        BY <2>2, <2>3, <3>1, Zenon
      <3>3. execs[Len(execs)].state = "purged"
        BY <1>2, <3>1, <3>2, Zenon DEF Existing, Current
      <3> QED BY <2>2, <2>3, <3>1, <3>3, Zenon
    <2> HIDE DEF closed
    <2>6. Execution(TRUE) \in ExecType
      BY ExecutionType, Zenon
    <2>7. Grows /\ NoRestart'
      BY <2>2, <2>3, <2>4, <2>5, <2>6, OneAppended, Zenon
    <2>8. Len(execs') = Len(closed) + 1
      BY <2>2, <2>4, <2>6, Appended
    <2> QED BY <2>2, <2>7, <2>8 DEF ExecsInv
  <1> QED BY <1>1, <1>2, Zenon

\* No step forgets an execution, resumes one, or starts a second one of the object's own.
LEMMA ExecsStep ==
  ASSUME Typed, ExecsInv, Sound(mem), [Next]_vars
  PROVE  Grows /\ NoRestart'
  <1>1. CASE UNCHANGED execs
    BY <1>1 DEF Grows, ExecsInv, NoRestart
  <1>2. CASE Start
    BY <1>2, StartAppends, Zenon DEF Start
  <1>3. CASE FrontendUnavailable
    BY <1>1, <1>3, StartAppends, Zenon DEF FrontendUnavailable
  <1>4. CASE ReconcileDelete
    <2> DEFINE r == mem.runID
    <2>1. CASE r # 0 /\ Running(r) /\ mem.policy = "Terminate" /\ execs' # execs
      <3>1. r \in DOMAIN execs
        BY <2>1 DEF Typed, RunType, Sound, ExecsInv
      <3>2. execs' = [execs EXCEPT ![r] = [execs[r] EXCEPT !.state = "closed"]]
        BY <1>4, <2>1, Zenon DEF ReconcileDelete, ApplyPolicy
      <3>3. execs[r] \in ExecType
        BY <3>1 DEF ExecsInv
      <3>4. [execs[r] EXCEPT !.state = "closed"] \in ExecType
        BY <3>3, Zenon DEF ExecType, States
      <3> QED BY <2>1, <3>1, <3>2, <3>3, <3>4, OneChanges, Zenon DEF Running, ExecType
    <2>2. CASE r # 0 /\ Running(r) /\ mem.policy = "Cancel" /\ execs' # execs
      <3>1. r \in DOMAIN execs
        BY <2>2 DEF Typed, RunType, Sound, ExecsInv
      <3>2. execs' = [execs EXCEPT ![r] = [execs[r] EXCEPT !.cancel = TRUE]]
        BY <1>4, <2>2, Zenon DEF ReconcileDelete, ApplyPolicy
      <3>3. execs[r] \in ExecType
        BY <3>1 DEF ExecsInv
      <3>4. [execs[r] EXCEPT !.cancel = TRUE] \in ExecType
        BY <3>3, Zenon DEF ExecType
      <3> QED BY <2>2, <3>1, <3>2, <3>3, <3>4, OneChanges, Zenon DEF ExecType
    <2>3. CASE execs' = execs
      BY <1>1, <2>3, Zenon
    <2> QED BY <1>4, <2>1, <2>2, <2>3, Zenon DEF ReconcileDelete, ApplyPolicy
  <1>5. CASE Closes
    <2>1. Current \in DOMAIN execs /\ execs[Current] \in ExecType
      BY <1>5 DEF Closes, Current, ExecsInv
    <2>2. execs' = [execs EXCEPT ![Current] = [execs[Current] EXCEPT !.state = "closed"]]
      BY <1>5, Zenon DEF Closes
    <2>3. [execs[Current] EXCEPT !.state = "closed"] \in ExecType
      BY <2>1, Zenon DEF ExecType, States
    <2> QED BY <1>5, <2>1, <2>2, <2>3, OneChanges, Zenon DEF Closes, Running, ExecType
  <1>6. CASE ContinuesAsNew
    <2> DEFINE s == [execs EXCEPT ![Current].state = "continued"]
    <2>1. Current \in DOMAIN execs /\ execs[Current] \in ExecType /\ execs[Current].state = "running"
      BY <1>6 DEF ContinuesAsNew, Current, Running, ExecsInv
    <2>2. [execs[Current] EXCEPT !.state = "continued"] \in ExecType
      BY <2>1, Zenon DEF ExecType, States
    <2>3. s \in Seq(ExecType) /\ Len(s) = Len(execs)
      BY <2>1, <2>2 DEF ExecsInv
    <2>4. \A j \in 1..Len(s) : /\ s[j].own = execs[j].own
                               /\ execs[j].state = "purged" => s[j].state = "purged"
                               /\ s[j].state = "running" => execs[j].state = "running"
                               /\ execs[j].cancel => s[j].cancel
      BY <2>1, <2>3 DEF ExecsInv, ExecType
    <2>5. execs' = Append(s, Execution(FALSE))
      BY <1>6, Zenon DEF ContinuesAsNew
    <2> HIDE DEF s
    <2> QED BY <2>3, <2>4, <2>5, ExecutionType, OneAppended, Zenon
  <1>7. CASE OtherStarts
    BY <1>7, ExecutionType, OneAppended, Zenon DEF OtherStarts, ExecsInv
  <1>8. ASSUME NEW i \in DOMAIN execs, Purge(i) PROVE Grows /\ NoRestart'
    <2>1. execs[i] \in ExecType
      BY <1>8 DEF ExecsInv
    <2>2. execs' = [execs EXCEPT ![i] = [execs[i] EXCEPT !.state = "purged"]]
      BY <1>8, Zenon DEF Purge
    <2>3. [execs[i] EXCEPT !.state = "purged"] \in ExecType
      BY <2>1, Zenon DEF ExecType, States
    <2> QED BY <1>8, <2>1, <2>2, <2>3, OneChanges, Zenon DEF Purge, ExecType
  <1>9. \/ UNCHANGED execs \/ Start \/ FrontendUnavailable \/ ReconcileDelete \/ Closes
        \/ ContinuesAsNew \/ OtherStarts \/ \E i \in DOMAIN execs : Purge(i)
    BY Zenon DEF Next, Reconcile, Environment, vars, Get, ResolveTarget, EnsureFinalizer, ReconcileRun,
       Describe, UpdateStatus, TTLCleanup, RemoveFinalizer, Conflict, AbortPass, Delete, SyncCache,
       EditPolicy, UserWrites, TargetChanges
  <1> QED BY <1>1, <1>2, <1>3, <1>4, <1>5, <1>6, <1>7, <1>8, <1>9, Zenon

-----------------------------------------------------------------------------
\* EndPass leaves the pass variables as they are between two passes.
LEMMA EndPassInv ==
  ASSUME Typed, NEW again \in BOOLEAN, EndPass(again)
  PROVE  /\ mem' \in RunType /\ mem'.runID = 0 /\ ~ mem'.completed
         /\ fresh' = FALSE /\ seen' \in Targets /\ pc' = "idle" /\ queued' \in BOOLEAN
  <1>1. NoRun \in RunType /\ NoRun.runID = 0 /\ ~ NoRun.completed
    BY Zenon DEF NoRun, Gone, NewRun, RunType
  <1>2. NoTarget \in Targets
    BY Zenon DEF NoTarget, Targets
  <1>3. queued' \in BOOLEAN
    BY Zenon DEF EndPass, Typed
  <1> QED BY <1>1, <1>2, <1>3, Zenon DEF EndPass

\* Every step keeps the types.
LEMMA TypedStep ==
  ASSUME Typed, ExecsInv, [Next]_vars
  PROVE  Typed'
  <1> USE DEF Typed, object, pass
  <1>a. Fault => faults' \in 0..MaxFaults
    BY WorkflowRunAssumption DEF Fault
  <1>1. CASE Get
    BY <1>1, Zenon DEF Get
  <1>2. CASE ResolveTarget
    <2>1. mem' \in RunType
      BY <1>2, Zenon DEF ResolveTarget, RunType
    <2>2. seen' \in Targets
      <3>1. NoTarget \in Targets
        BY Zenon DEF NoTarget, Targets
      <3> QED BY <1>2, <3>1, Zenon DEF ResolveTarget, ResolvedTarget
    <2> QED BY <1>2, <2>1, <2>2, Zenon DEF ResolveTarget
  <1>3. CASE EnsureFinalizer
    <2>0. (mem.ready /\ seen.ready) \in BOOLEAN
      BY Zenon
    <2>1. mem' \in RunType /\ cr' \in RunType
      BY <1>3, <2>0, ZenonT(30) DEF EnsureFinalizer, Store, RunType
    <2>2. synced' \in BOOLEAN
      BY <1>3, Zenon DEF EnsureFinalizer, Store
    <2> QED BY <1>3, <2>1, <2>2, Zenon DEF EnsureFinalizer, Store
  <1>4. CASE ReconcileRun
    <2>1. mem' \in RunType
      BY <1>4, Zenon DEF ReconcileRun, Goto, RunType
    <2> QED BY <1>4, <2>1, Zenon DEF ReconcileRun, Goto
  <1>5. CASE Start
    <2>1. Len(execs') \in Nat
      BY <1>5, StartAppends DEF Start, Grows
    <2>2. mem' \in RunType
      BY <1>5, <2>1, Zenon DEF Start, RunType
    <2> QED BY <1>5, <2>2, Zenon DEF Start
  <1>6. CASE FrontendUnavailable
    <2>1. mem' \in RunType
      BY <1>6, Zenon DEF FrontendUnavailable, RunType
    <2> QED BY <1>6, <1>a, <2>1, Zenon DEF FrontendUnavailable
  <1>7. CASE Describe
    <2>1. CASE execs[mem.runID].state = "purged"
      BY <1>7, <2>1, EndPassInv, Zenon DEF Describe
    <2>2. CASE execs[mem.runID].state # "purged"
      <3>1. Terminal(mem.runID) \in BOOLEAN
        BY Zenon DEF Terminal, Running
      <3>2. mem' \in RunType
        BY <1>7, <2>2, <3>1, ZenonT(30) DEF Describe, RunType
      <3> QED BY <1>7, <2>2, <3>2, Zenon DEF Describe
    <2> QED BY <2>1, <2>2, Zenon
  <1>8. CASE UpdateStatus
    <2>1. synced' \in BOOLEAN
      BY <1>8, Zenon DEF UpdateStatus, Store
    <2>2. (mem.valid \/ seen # Usable) \in BOOLEAN
      BY Zenon
    <2> QED BY <1>8, <2>1, <2>2, EndPassInv, Zenon DEF UpdateStatus, Store, Goto
  <1>9. CASE TTLCleanup
    <2>1. cr' \in RunType
      BY <1>9, Zenon DEF TTLCleanup, RunType
    <2> QED BY <1>9, <2>1, EndPassInv, Zenon DEF TTLCleanup
  <1>10. CASE ReconcileDelete
    BY <1>10, EndPassInv, Zenon DEF ReconcileDelete, Goto
  <1>11. CASE RemoveFinalizer
    <2>1. cr' \in RunType
      BY <1>11, ZenonT(30) DEF RemoveFinalizer, Store, Gone, RunType
    <2>2. synced' \in BOOLEAN
      BY <1>11, Zenon DEF RemoveFinalizer, Store
    <2> QED BY <1>11, <2>1, <2>2, EndPassInv, Zenon DEF RemoveFinalizer, Store
  <1>12. CASE Conflict
    <2>1. cr.here \in BOOLEAN
      BY Zenon DEF RunType
    <2> QED BY <1>12, <2>1, EndPassInv, Zenon DEF Conflict
  <1>13. CASE AbortPass
    BY <1>13, <1>a, EndPassInv, Zenon DEF AbortPass
  <1>14. CASE Delete
    <2>1. cr' \in RunType
      BY <1>14, Zenon DEF Delete, UserWrites, Gone, RunType
    <2> QED BY <1>14, <2>1, Zenon DEF Delete, UserWrites
  <1>15. CASE SyncCache
    BY <1>15, Zenon DEF SyncCache
  <1>16. ASSUME NEW p \in Policies, EditPolicy(p) PROVE Typed'
    <2>1. cr' \in RunType
      BY <1>16, WorkflowRunAssumption, Zenon DEF EditPolicy, UserWrites, RunType
    <2> QED BY <1>16, <1>a, <2>1, Zenon DEF EditPolicy, UserWrites
  <1>17. ASSUME NEW t \in Targets, TargetChanges(t) PROVE Typed'
    <2>1. queued' \in BOOLEAN
      BY <1>17, Zenon DEF TargetChanges
    <2> QED BY <1>17, <1>a, <2>1, Zenon DEF TargetChanges
  <1>18. ASSUME NEW i, Purge(i) PROVE Typed'
    BY <1>18, <1>a, Zenon DEF Purge
  <1>19. CASE Closes \/ ContinuesAsNew \/ OtherStarts
    BY <1>19, Zenon DEF Closes, ContinuesAsNew, OtherStarts
  <1>20. CASE UNCHANGED vars
    BY <1>20, Zenon DEF vars
  <1> QED
    BY <1>1, <1>2, <1>3, <1>4, <1>5, <1>6, <1>7, <1>8, <1>9, <1>10, <1>11, <1>12, <1>13, <1>14,
       <1>15, <1>16, <1>17, <1>18, <1>19, <1>20, Zenon
    DEF Next, Reconcile, Environment

-----------------------------------------------------------------------------
\* What a copy says of its run stays true: no execution is lost or resumes.
LEMMA SoundKept ==
  ASSUME ExecsInv, Grows, NEW o \in RunType, Sound(o)
  PROVE  o.runID <= Len(execs') /\ (o.completed => o.runID # 0 /\ execs'[o.runID].state # "running")
  <1>1. o.runID \in Nat /\ Len(execs) \in Nat /\ Len(execs') \in Nat
    BY DEF ExecsInv, Grows, RunType
  <1>2. o.runID <= Len(execs')
    BY <1>1 DEF Sound, Grows
  <1>3. ASSUME o.completed PROVE o.runID # 0 /\ execs'[o.runID].state # "running"
    <2>1. o.runID \in 1..Len(execs)
      BY <1>1, <1>3 DEF Sound
    <2> QED BY <1>3, <2>1, Zenon DEF Sound, Grows, Running
  <1> QED BY <1>2, <1>3, Zenon

\* The copies after a step say of the executions before it what they may.
Kept == Sound(cr') /\ Sound(cache') /\ Sound(mem')

LEMMA CopiesKept ==
  ASSUME ExecsInv, Grows, Typed', Kept
  PROVE  Copies'
  <1>1. cr' \in RunType /\ cache' \in RunType /\ mem' \in RunType
    BY Zenon DEF Typed
  <1> QED BY <1>1, SoundKept, Zenon DEF Kept, Copies, Sound, Running

\* While nothing but the service moves, the policy stays applied.
LEMMA PolicyKept ==
  ASSUME RunInv, Grows, UNCHANGED <<mem, seen, pc>>
  PROVE  Steps'
  <1>1. CASE pc = "release" /\ mem.runID # 0
    <2>1. mem.runID \in 1..Len(execs)
      BY <1>1 DEF RunInv, Typed, ExecsInv, Copies, Sound, RunType
    <2>2. /\ Running(mem.runID)' => Running(mem.runID)
          /\ execs[mem.runID].cancel => execs'[mem.runID].cancel
      BY <2>1, Zenon DEF Grows, Running
    <2> QED BY <1>1, <2>2, Zenon DEF RunInv, Steps
  <1>2. CASE ~ (pc = "release" /\ mem.runID # 0)
    BY <1>2, Zenon DEF RunInv, Steps
  <1> QED BY <1>1, <1>2, Zenon

\* Every step keeps what copies say, what a fresh copy is and where the pass may be.
LEMMA RunStep == RunInv /\ [Next]_vars => RunInv'
  <1> SUFFICES ASSUME RunInv, [Next]_vars PROVE (Kept \/ Copies') /\ Fresh' /\ Steps'
    BY TypedStep, ExecsStep, CopiesKept, Zenon DEF RunInv, ExecsInv, Copies, Grows
  <1>t. Typed /\ ExecsInv /\ Copies /\ Fresh /\ Steps
    BY Zenon DEF RunInv
  <1>g. Grows /\ Typed'
    BY <1>t, ExecsStep, TypedStep, Zenon DEF Copies
  <1> USE DEF Fresh, object, pass
  <1>n. ASSUME NEW again \in BOOLEAN, EndPass(again)
        PROVE  Sound(mem') /\ ~ fresh' /\ Steps'
    <2>1. mem'.runID = 0 /\ ~ mem'.completed /\ ~ fresh' /\ pc' = "idle"
      BY <1>t, <1>n, EndPassInv, Zenon
    <2>2. Len(execs) \in Nat
      BY <1>t DEF ExecsInv
    <2> QED BY <2>1, <2>2 DEF Sound, Steps
  <1>1. CASE Get
    BY <1>t, <1>1, Zenon DEF Get, Kept, Copies, Steps
  <1>2. CASE ResolveTarget
    <2>1. mem'.runID = mem.runID /\ mem'.completed = mem.completed /\ mem'.here = mem.here
          /\ mem'.finalizer = mem.finalizer /\ mem'.policy = mem.policy
      BY <1>t, <1>2, Zenon DEF ResolveTarget, Typed, RunType
    <2>2. pc' \notin {"start", "describe"} /\ (pc' = "release" => ~ seen'.exists)
      BY <1>2, Zenon DEF ResolveTarget, ResolvedTarget, NoTarget
    <2> QED BY <1>t, <1>2, <2>1, <2>2, Zenon DEF ResolveTarget, Kept, Copies, Sound, Steps
  <1>3. CASE EnsureFinalizer
    <2>1. mem'.runID = mem.runID /\ mem'.completed = mem.completed /\ mem'.here = mem.here
          /\ mem'.finalizer /\ mem'.policy = mem.policy /\ pc' \in {"run", "status"}
      BY <1>t, <1>3, Zenon DEF EnsureFinalizer, Typed, RunType
    <2>2. CASE mem.finalizer
      <3>1. UNCHANGED <<cr, cache, synced, fresh, execs>>
        BY <1>3, <2>2, Zenon DEF EnsureFinalizer
      <3> QED BY <1>t, <2>1, <2>2, <3>1, Zenon DEF Kept, Copies, Sound, Steps, Typed, RunType
    <2>3. CASE ~ mem.finalizer
      <3>1. /\ fresh /\ UNCHANGED <<cache, fresh, execs>>
            /\ cr'.finalizer /\ cr'.runID = mem.runID /\ cr'.completed = mem.completed
            /\ cr'.here = mem.here /\ cr'.policy = mem.policy
        BY <1>t, <1>3, <2>3, Zenon DEF EnsureFinalizer, Store, Typed, RunType
      <3>2. synced' => cache' = cr'
        BY <1>t, <1>3, <2>3, Zenon DEF EnsureFinalizer, Store
      <3> QED BY <1>t, <2>1, <3>1, <3>2, Zenon DEF Kept, Copies, Sound, Steps
    <2> QED BY <2>2, <2>3, Zenon
  <1>4. CASE ReconcileRun
    <2>1. mem'.runID = mem.runID /\ mem'.completed = mem.completed /\ mem'.here = mem.here
          /\ mem'.finalizer = mem.finalizer /\ mem'.policy = mem.policy
      BY <1>t, <1>4, Zenon DEF ReconcileRun, Goto, Typed, RunType
    <2> QED BY <1>t, <1>4, <2>1 DEF ReconcileRun, Goto, Kept, Copies, Sound, Steps
  <1>5. CASE Start
    <2>1. /\ mem.runID = 0 /\ mem'.runID = Len(execs') /\ mem'.completed = mem.completed
          /\ mem'.here = mem.here /\ mem'.finalizer = mem.finalizer /\ mem'.policy = mem.policy
          /\ pc' = "describe" /\ UNCHANGED <<cr, cache, synced, fresh>>
      BY <1>t, <1>5, Zenon DEF Start, Steps, Typed, RunType
    <2>2. Len(execs') # 0 /\ Len(execs') \in Nat
      BY <1>t, <1>5, StartAppends DEF Start, Grows
    <2>3. ~ mem.completed
      BY <1>t, <2>1, Zenon DEF Copies, Sound
    <2>4. Sound(cr)' /\ Sound(cache)'
      <3>1. cr \in RunType /\ cache \in RunType /\ Sound(cr) /\ Sound(cache)
        BY <1>t, Zenon DEF Typed, Copies
      <3> QED BY <1>t, <1>g, <2>1, <3>1, SoundKept, Zenon DEF Sound, Running
    <2>5. Sound(mem)'
      BY <2>1, <2>2, <2>3 DEF Sound
    <2> QED BY <1>t, <2>1, <2>2, <2>4, <2>5, Zenon DEF Copies, Steps
  <1>6. CASE FrontendUnavailable
    <2>1. /\ mem'.runID = mem.runID /\ mem'.completed = mem.completed /\ mem'.here = mem.here
          /\ mem'.finalizer = mem.finalizer /\ mem'.policy = mem.policy /\ pc' = "status"
          /\ UNCHANGED <<cr, cache, synced, fresh>>
      BY <1>t, <1>6, Zenon DEF FrontendUnavailable, Typed, RunType
    <2> QED BY <1>t, <2>1, Zenon DEF Kept, Copies, Sound, Steps
  <1>7. CASE Describe
    <2>1. CASE execs[mem.runID].state = "purged"
      BY <1>t, <1>7, <1>n, <2>1, Zenon DEF Describe, Kept, Copies
    <2>2. CASE execs[mem.runID].state # "purged"
      <3>1. /\ mem'.runID = mem.runID /\ mem.runID # 0 /\ mem'.here = mem.here
            /\ mem'.completed = Terminal(mem.runID)
            /\ mem'.finalizer = mem.finalizer /\ mem'.policy = mem.policy /\ pc' = "status"
            /\ UNCHANGED <<cr, cache, synced, fresh, execs>>
        BY <1>t, <1>7, <2>2, Zenon DEF Describe, Steps, Typed, RunType
      <3> QED BY <1>t, <3>1, Zenon DEF Kept, Copies, Sound, Steps, Terminal
    <2> QED BY <2>1, <2>2, Zenon
  <1>8. CASE UpdateStatus
    <2>1. cr' = mem /\ fresh /\ UNCHANGED <<cache, execs>> /\ (synced' => cache' = cr')
      BY <1>t, <1>8, Zenon DEF UpdateStatus, Store
    <2>2. CASE mem.completed /\ mem.ready
      BY <1>t, <1>8, <2>1, <2>2, Zenon DEF UpdateStatus, Goto, Kept, Copies, Steps
    <2>3. CASE ~ (mem.completed /\ mem.ready)
      <3>1. (mem.valid \/ seen # Usable) \in BOOLEAN
        BY Zenon
      <3>2. EndPass(mem.valid \/ seen # Usable)
        BY <1>8, <2>3, Zenon DEF UpdateStatus
      <3>3. Sound(mem') /\ ~ fresh' /\ Steps'
        BY <1>n, <3>1, <3>2, Zenon
      <3> QED BY <1>t, <2>1, <3>3, Zenon DEF Kept, Copies
    <2> QED BY <2>2, <2>3, Zenon
  <1>9. CASE TTLCleanup
    <2>1. Sound(mem') /\ ~ fresh' /\ Steps' /\ cache' = cache
      BY <1>9, <1>n, Zenon DEF TTLCleanup
    <2>2. cr'.runID = cr.runID /\ cr'.completed = cr.completed
      BY <1>t, <1>9, Zenon DEF TTLCleanup, Typed, RunType
    <2>3. synced' => cr' = cr /\ synced
      BY <1>9, Zenon DEF TTLCleanup
    <2> QED BY <1>t, <2>1, <2>2, <2>3, Zenon DEF Kept, Copies, Sound
  <1>10. CASE ReconcileDelete
    <2>1. CASE ~ mem.finalizer
      BY <1>t, <1>10, <1>n, <2>1, Zenon DEF ReconcileDelete, Kept, Copies
    <2>2. CASE mem.finalizer
      <3>1. UNCHANGED <<cr, cache, synced, mem, fresh, seen>> /\ pc' = "release"
        BY <1>10, <2>2, Zenon DEF ReconcileDelete, Goto
      <3>2. ASSUME mem.runID # 0, Running(mem.runID)'
            PROVE  mem.policy = "Abandon" \/ (mem.policy = "Cancel" /\ execs'[mem.runID].cancel)
        <4>1. mem.runID \in DOMAIN execs /\ mem.runID \in 1..Len(execs)
          BY <1>t, <3>2 DEF Typed, ExecsInv, Copies, Sound, RunType
        <4>2. Running(mem.runID)
          BY <1>g, <3>1, <3>2, <4>1, Zenon DEF Grows, Running
        <4>3. ~ mem.completed
          BY <1>t, <4>2, Zenon DEF Copies, Sound
        <4>4. ApplyPolicy(mem.runID)
          BY <1>10, <2>2, <3>2, <4>3, Zenon DEF ReconcileDelete
        <4>5. mem.policy \in {"Abandon", "Cancel", "Terminate"}
          BY <1>t, Zenon DEF Typed, RunType
        <4>6. execs[mem.runID] \in ExecType
          BY <1>t, <4>1 DEF ExecsInv
        <4>7. CASE mem.policy = "Terminate"
          <5>1. execs' = [execs EXCEPT ![mem.runID].state = "closed"]
            BY <4>2, <4>4, <4>7, Zenon DEF ApplyPolicy
          <5>2. execs'[mem.runID].state = "closed"
            BY <4>1, <4>6, <5>1, Zenon DEF ExecType
          <5> QED BY <3>1, <3>2, <5>2, Zenon DEF Running
        <4>8. CASE mem.policy = "Cancel"
          <5>1. execs' = [execs EXCEPT ![mem.runID].cancel = TRUE]
            BY <4>2, <4>4, <4>8, Zenon DEF ApplyPolicy
          <5>2. execs'[mem.runID].cancel
            BY <4>1, <4>6, <5>1, Zenon DEF ExecType
          <5> QED BY <4>8, <5>2, Zenon
        <4> QED BY <4>5, <4>7, <4>8, Zenon
      <3>3. Steps'
        BY <3>1, <3>2, Zenon DEF Steps
      <3> QED BY <1>t, <3>1, <3>3, Zenon DEF Kept, Copies
    <2> QED BY <2>1, <2>2, Zenon
  <1>11. CASE RemoveFinalizer
    <2>1. Sound(mem') /\ ~ fresh' /\ Steps' /\ cache' = cache
      BY <1>11, <1>n, Zenon DEF RemoveFinalizer, Store
    <2>2. CASE mem.finalizer
      <3>1. cr'.runID = mem.runID /\ cr'.completed = mem.completed
        BY <1>t, <1>11, <2>2, Zenon DEF RemoveFinalizer, Store, Gone, Typed, RunType
      <3>2. synced' => cache' = cr'
        BY <1>t, <1>11, <2>2, Zenon DEF RemoveFinalizer, Store
      <3> QED BY <1>t, <2>1, <3>1, <3>2, Zenon DEF Kept, Copies, Sound
    <2>3. CASE ~ mem.finalizer
      BY <1>t, <1>11, <2>1, <2>3, Zenon DEF RemoveFinalizer, Kept, Copies
    <2> QED BY <2>2, <2>3
  <1>12. CASE Conflict
    <2>1. cr.here \in BOOLEAN
      BY <1>t, Zenon DEF Typed, RunType
    <2> QED BY <1>t, <1>12, <1>n, <2>1, Zenon DEF Conflict, Kept, Copies
  <1>13. CASE AbortPass
    BY <1>t, <1>13, <1>n, Zenon DEF AbortPass, Kept, Copies
  <1>14. CASE Delete \/ \E p \in Policies : EditPolicy(p)
    <2>1. /\ cr'.runID = cr.runID /\ cr'.completed = cr.completed
          /\ ~ synced' /\ ~ fresh' /\ UNCHANGED <<cache, mem, seen, pc, execs>>
      BY <1>t, <1>14, Zenon DEF Delete, EditPolicy, UserWrites, Gone, Typed, RunType
    <2>2. Steps'
      BY <1>g, <2>1, PolicyKept, Zenon
    <2> QED BY <1>t, <2>1, <2>2, Zenon DEF Kept, Copies, Sound
  <1>15. CASE SyncCache
    <2>1. Steps'
      BY <1>g, <1>15, PolicyKept, Zenon DEF SyncCache
    <2> QED BY <1>t, <1>15, <2>1, Zenon DEF SyncCache, Kept, Copies
  <1>16. CASE UNCHANGED <<object, pass>>
    <2>1. Steps'
      BY <1>g, <1>16, PolicyKept, Zenon
    <2> QED BY <1>t, <1>16, <2>1, Zenon DEF Kept, Copies
  <1>17. CASE \/ Closes \/ ContinuesAsNew \/ OtherStarts \/ UNCHANGED vars
              \/ \E t \in Targets : TargetChanges(t)
              \/ \E i \in DOMAIN execs : Purge(i)
    BY <1>16, <1>17, Zenon DEF Closes, ContinuesAsNew, OtherStarts, TargetChanges, Purge, vars
  <1> QED
    BY <1>1, <1>2, <1>3, <1>4, <1>5, <1>6, <1>7, <1>8, <1>9, <1>10, <1>11, <1>12, <1>13, <1>14,
       <1>15, <1>17, Zenon
    DEF Next, Reconcile, Environment

LEMMA RunInit == Init => RunInv
  <1> SUFFICES ASSUME Init PROVE RunInv
    BY Zenon
  <1>1. PICK p \in Policies, ttl \in BOOLEAN, u \in ReusePolicies, v \in BOOLEAN :
          cr = NewRun(p, ttl, u, v)
    BY Zenon DEF Init
  <1>2. cr \in RunType /\ cr.runID = 0 /\ ~ cr.completed
    BY <1>1, WorkflowRunAssumption, Zenon DEF NewRun, RunType
  <1>3. mem \in RunType /\ mem.runID = 0 /\ ~ mem.completed
    BY Zenon DEF Init, NoRun, Gone, NewRun, RunType
  <1>4. seen \in Targets /\ target \in Targets
    BY Zenon DEF Init, NoTarget, Targets
  <1>5. faults \in 0..MaxFaults
    BY WorkflowRunAssumption DEF Init
  <1>6. Typed
    BY <1>2, <1>3, <1>4, <1>5, Zenon DEF Init, Typed
  <1>7. ExecsInv /\ Len(execs) = 0
    BY DEF Init, ExecsInv, NoRestart
  <1> QED BY <1>2, <1>3, <1>6, <1>7 DEF Init, RunInv, Copies, Sound, Fresh, Steps

THEOREM RunInvariance == Spec => []RunInv
  <1> QED BY RunInit, RunStep, PTL DEF Spec

\* TypeOK holds for any number of executions and faults: the run ID in every copy of the
\* object is that of an execution the service knows.
THEOREM TypeCorrect == Spec => []TypeOK
  <1>1. RunInv => TypeOK
    BY Zenon DEF RunInv, Typed, ExecsInv, Copies, Sound, TypeOK, ExecType, States
  <1> QED BY <1>1, RunInvariance, PTL

\* NoRestart holds whatever answers, status writes and passes are lost.
THEOREM NeverRestarted == Spec => []NoRestart
  <1>1. RunInv => NoRestart
    BY Zenon DEF RunInv, ExecsInv
  <1> QED BY <1>1, RunInvariance, PTL

\* FinishedIsClosed holds: what any copy recorded as finished never runs again.
THEOREM FinishedStaysClosed == Spec => []FinishedIsClosed
  <1>1. RunInv => FinishedIsClosed
    BY Zenon DEF RunInv, Copies, Sound, FinishedIsClosed
  <1> QED BY <1>1, RunInvariance, PTL

-----------------------------------------------------------------------------
\* The steps that write the stored object.
LEMMA Writers ==
  ASSUME [Next]_vars
  PROVE  \/ UNCHANGED cr \/ EnsureFinalizer \/ UpdateStatus \/ TTLCleanup \/ RemoveFinalizer
         \/ Delete \/ \E p \in Policies : EditPolicy(p)
  BY Zenon DEF Next, Reconcile, Environment, vars, object, Get, ResolveTarget, ReconcileRun, Start,
     Describe, ReconcileDelete, Conflict, FrontendUnavailable, AbortPass, SyncCache, Closes,
     ContinuesAsNew, OtherStarts, TargetChanges, Purge

LEMMA RunIDStep ==
  RunInv /\ [Next]_vars => (cr.runID # 0 => cr'.runID = cr.runID)
  <1> SUFFICES ASSUME RunInv, [Next]_vars, cr.runID # 0 PROVE cr'.runID = cr.runID
    BY Zenon
  <1>t. Typed /\ Fresh
    BY Zenon DEF RunInv
  <1>1. CASE EnsureFinalizer
    BY <1>t, <1>1, Zenon DEF EnsureFinalizer, Store, object, Fresh, Typed, RunType
  <1>2. CASE UpdateStatus
    BY <1>t, <1>2, Zenon DEF UpdateStatus, Store, Fresh
  <1>3. CASE TTLCleanup
    BY <1>t, <1>3, Zenon DEF TTLCleanup, object, Typed, RunType
  <1>4. CASE RemoveFinalizer
    BY <1>t, <1>4, Zenon DEF RemoveFinalizer, Store, Gone, object, Fresh, Typed, RunType
  <1>5. CASE Delete \/ \E p \in Policies : EditPolicy(p)
    BY <1>t, <1>5, Zenon DEF Delete, EditPolicy, UserWrites, Gone, Typed, RunType
  <1> QED BY <1>1, <1>2, <1>3, <1>4, <1>5, Writers, Zenon

\* RunIDStable holds: a pass that started or adopted a run from an older copy cannot
\* store it over the recorded one.
THEOREM RunIDIsStable == Spec => RunIDStable
  <1>1. RunInv /\ [Next]_vars => [cr.runID # 0 => cr'.runID = cr.runID]_vars
    BY RunIDStep, Zenon
  <1> QED BY <1>1, RunInvariance, PTL DEF Spec, RunIDStable

LEMMA PolicyStep ==
  RunInv /\ [Next]_vars =>
    (cr.here /\ ~ cr'.here /\ cr.finalizer /\ cr.runID # 0 /\ seen.exists /\ Running(cr.runID) =>
       \/ cr.policy = "Abandon"
       \/ cr.policy = "Cancel" /\ execs[cr.runID].cancel)
  <1> SUFFICES ASSUME RunInv, [Next]_vars, cr.here, ~ cr'.here, cr.finalizer, cr.runID # 0,
                      seen.exists, Running(cr.runID)
               PROVE  \/ cr.policy = "Abandon"
                      \/ cr.policy = "Cancel" /\ execs[cr.runID].cancel
    BY Zenon
  <1>t. Typed /\ Fresh /\ Steps
    BY Zenon DEF RunInv
  <1>1. CASE EnsureFinalizer
    BY <1>t, <1>1, Zenon DEF EnsureFinalizer, Store, object, Fresh, Typed, RunType
  <1>2. CASE UpdateStatus
    BY <1>t, <1>2, Zenon DEF UpdateStatus, Store, Fresh
  <1>3. CASE TTLCleanup
    BY <1>t, <1>3, Zenon DEF TTLCleanup, object, Typed, RunType
  <1>4. CASE RemoveFinalizer
    <2>1. fresh /\ mem.finalizer /\ pc = "release"
      BY <1>4, Zenon DEF RemoveFinalizer, Store, object
    <2>2. mem.runID = cr.runID /\ mem.policy = cr.policy
      BY <1>t, <2>1, Zenon DEF Fresh
    <2> QED BY <1>t, <2>1, <2>2, Zenon DEF Steps
  <1>5. CASE Delete \/ \E p \in Policies : EditPolicy(p)
    BY <1>t, <1>5 DEF Delete, EditPolicy, UserWrites, Typed, RunType
  <1> QED BY <1>1, <1>2, <1>3, <1>4, <1>5, Writers, Zenon

\* PolicyApplied holds: the pass that drops the finalizer has the stored policy and run,
\* and has applied the one to the other.
THEOREM PolicyIsApplied == Spec => PolicyApplied
  <1>1. RunInv /\ [Next]_vars =>
          [cr.here /\ ~ cr'.here /\ cr.finalizer /\ cr.runID # 0 /\ seen.exists /\ Running(cr.runID) =>
             \/ cr.policy = "Abandon"
             \/ cr.policy = "Cancel" /\ execs[cr.runID].cancel]_vars
    BY PolicyStep, Zenon
  <1> QED BY <1>1, RunInvariance, PTL DEF Spec, PolicyApplied
=============================================================================
