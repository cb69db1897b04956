---------------------- MODULE ClusterConnectionProofs ----------------------
(***************************************************************************)
(* Proofs about ClusterConnection, for any peers, any number of edits and  *)
(* any number of faults.                                                   *)
(***************************************************************************)
EXTENDS ClusterConnection, TLAPS

\* The stored object says Ready of its present generation.
SaysReady == cr.here /\ ~ cr.deleting /\ cr.ready /\ cr.observed = cr.gen

\* Every local peer that o enables holds every other one it enables.
Connected(o) ==
  \A l \in Enabled(o) \cap Locals : \A p \in Enabled(o) \ {l} :
    remote[l][p] = "enabled" \/ meddled

\* The copies of the object.  A deletion is never taken back, a pass on an object being
\* deleted has found its finalizer, and a fresh copy differs from the object by the
\* verdict of the pass alone.
CopyInv ==
  /\ cr.gen <= edits /\ cr.observed <= cr.gen /\ (synced => cache = cr)
  /\ cache.deleting \/ mem.deleting => cr.deleting
  /\ mem.deleting => mem.finalizer
  /\ pc = "status" => mem.observed = mem.gen
  /\ fresh => /\ cache.want = cr.want
              /\ mem.want = cr.want /\ mem.gen = cr.gen
              /\ mem.here = cr.here /\ mem.deleting = cr.deleting
              /\ mem.finalizer = cr.finalizer
              /\ pc # "status" => mem.ready = cr.ready /\ mem.observed = cr.observed

\* The calls a pass has before it are about members, and their callers about dialed ones.
CallInv ==
  /\ pc = "idle" => views = NoView /\ ~ fresh
  /\ pc = "finalizer" => DOMAIN views = {}
  /\ pc \in {"finalizer", "dial"} =>
       \A pr \in todo : pr[1] = pr[2] /\ pr[1] \in Members(mem) \cap Locals \cap addressed
  /\ pc \in {"upsert", "remove"} => todo \subseteq Pairs(DOMAIN views, mem)
  /\ pc = "remove" => mem.deleting

\* What a pass knows of the peers: every external member and every dialed peer has an
\* address, and a view is what the service holds.
ViewInv ==
  /\ pc # "idle" => DOMAIN views \cup (Members(mem) \cap Externals) \subseteq addressed
  /\ pc \in {"dial", "upsert", "status"} =>
       \A l \in DOMAIN views : \A p \in Peers : views[l][p] = remote[l][p] \/ meddled

\* A verdict is kept: whoever reads the object after it was stored has the same peers, and
\* a pass that is about to store one has the registrations.
VerdictInv ==
  /\ SaysReady => /\ cache.want = cr.want /\ (pc # "idle" => mem.want = cr.want)
                  /\ Connected(cr)
  /\ pc = "status" /\ mem.ready => Connected(mem)

ConnectionInv == CopyInv /\ CallInv /\ ViewInv /\ VerdictInv

-----------------------------------------------------------------------------
(* Type correctness.                                                       *)

\* The object at the start, and the copy between passes.
LEMMA EndPassType ==
  {NewConnection, Gone(NewConnection)} \subseteq Connections
  <1>1. NewConnection.want = [p \in Peers |-> "enabled"] /\ NewConnection.want \in [Peers -> Wants]
    BY Zenon DEF NewConnection, Wants
  <1>2. NewConnection \in Connections
    BY <1>1, ConnectionAssumption DEF NewConnection, Connections
  <1>3. Gone(NewConnection) \in Connections /\ Gone(NewConnection).want = NewConnection.want
    BY <1>2, Zenon DEF Gone, Connections
  <1> QED BY <1>2, <1>3, Zenon

\* A member's want is a registration.
LEMMA MemberHolds ==
  ASSUME NEW o \in Connections, NEW p \in Members(o)
  PROVE  p \in Peers /\ o.want[p] \in Holds
  BY Zenon DEF Connections, Members, Wants, Holds

\* One registration changed.
LEMMA Registers ==
  ASSUME NEW f \in [Locals -> [Peers -> Holds]], NEW l \in Locals, NEW p \in Peers, NEW h \in Holds
  PROVE  [f EXCEPT ![l][p] = h] \in [Locals -> [Peers -> Holds]]
  <1>1. [f[l] EXCEPT ![p] = h] \in [Peers -> Holds]
    BY Zenon
  <1>2. [f EXCEPT ![l] = [f[l] EXCEPT ![p] = h]] \in [Locals -> [Peers -> Holds]]
    BY <1>1, Zenon
  <1> QED BY <1>2, Zenon

LEMMA FaultType == ASSUME TypeOK, Fault PROVE faults' \in 0..MaxFaults
  BY ConnectionAssumption DEF Fault, TypeOK

\* The end of a pass, whatever is written with it.
LEMMA EndPassTypeOK ==
  ASSUME TypeOK, NEW again \in BOOLEAN, EndPass(again), cr' \in Connections, cache' \in Connections,
         synced' \in BOOLEAN, UNCHANGED <<target, remote, edits, meddled>>, faults' \in 0..MaxFaults,
         cr'.here /\ cr'.deleting => cr'.finalizer
  PROVE  TypeOK'
  <1>1. mem' \in Connections
    BY EndPassType, Zenon DEF EndPass
  <1>2. DOMAIN views' = {}
    BY DEF EndPass, NoView
  <1>3. queued' \in BOOLEAN
    BY Zenon DEF EndPass, TypeOK
  <1> QED BY <1>1, <1>2, <1>3, Zenon DEF EndPass, TypeOK

LEMMA TypeStep ==
  ASSUME TypeOK, CopyInv, CallInv, [Next]_vars
  PROVE  TypeOK'
  <1> USE DEF object, pass
  <1>0. cr \in Connections /\ cache \in Connections /\ mem \in Connections
    BY Zenon DEF TypeOK
  <1>1. CASE Get /\ UNCHANGED meddled
    <2>1. mem' \in {mem, cache} /\ fresh' \in BOOLEAN /\ addressed' \subseteq Peers
          /\ todo' \subseteq Locals \X Peers /\ pc' \in {"idle", "dial", "finalizer"}
      BY <1>1 DEF Get, TypeOK, Members, Peers
    <2>2. DOMAIN views' = {}
      BY <1>1 DEF Get, CallInv, NoView
    <2> QED BY <1>0, <1>1, <2>1, <2>2, Zenon DEF Get, TypeOK
  <1>2. CASE EnsureFinalizer /\ UNCHANGED meddled
    <2> DEFINE o == [mem EXCEPT !.finalizer = TRUE]
    <2>1. o \in Connections /\ o.want = mem.want /\ o.finalizer
      BY <1>0, Zenon DEF Connections
    <2>2. mem' = o /\ cr' \in {cr, o} /\ cache' = cache /\ synced' \in BOOLEAN
      BY <1>2, Zenon DEF EnsureFinalizer, Store, TypeOK
    <2>3. Members(mem') = Members(mem)
      BY <2>1, <2>2, Zenon DEF Members
    <2> QED BY <1>0, <1>2, <2>1, <2>2, <2>3, Zenon DEF EnsureFinalizer, TypeOK
  <1>3. ASSUME NEW l \in Locals, DialLocal(l), UNCHANGED meddled PROVE TypeOK'
    <2>1. faults' \in 0..MaxFaults
      BY <1>3, FaultType, Zenon DEF DialLocal, TypeOK
    <2>2. l \in Members(mem)
      BY <1>3, Zenon DEF DialLocal, CallInv
    <2>3. /\ DOMAIN views' \subseteq DOMAIN views \cup {l}
          /\ \A k \in DOMAIN views' : views'[k] \in [Peers -> Holds]
      BY <1>3, Zenon DEF DialLocal, TypeOK
    <2> QED BY <1>3, <2>1, <2>2, <2>3, Zenon DEF DialLocal, TypeOK
  <1>4. CASE Dialed /\ UNCHANGED meddled
    <2>1. todo' \subseteq Pairs(DOMAIN views, mem)
      BY <1>4, Zenon DEF Dialed
    <2>2. todo' \subseteq Locals \X Peers
      BY <2>1, Zenon DEF Pairs, Members, TypeOK
    <2> QED BY <1>4, <2>2, Zenon DEF Dialed, TypeOK
  <1>5. ASSUME NEW l \in Locals, NEW p \in Peers, UpsertRemote(l, p), UNCHANGED meddled PROVE TypeOK'
    <2>1. l \in DOMAIN views /\ mem.want[p] \in Holds
      BY <1>0, <1>5, MemberHolds, Zenon DEF UpsertRemote, CallInv, Pairs
    <2>2. faults' \in 0..MaxFaults
      BY <1>5, FaultType, Zenon DEF UpsertRemote, UpsertFailed, TypeOK
    <2>a. remote \in [Locals -> [Peers -> Holds]] /\ \A k \in DOMAIN views : views[k] \in [Peers -> Holds]
      BY Zenon DEF TypeOK
    <2>b. \/ UNCHANGED <<views, remote>>
          \/ /\ remote' = [remote EXCEPT ![l][p] = mem.want[p]]
             /\ views' = [views EXCEPT ![l][p] = mem.want[p]]
      BY <1>5, Zenon DEF UpsertRemote, UpsertFailed
    <2>3. remote' \in [Locals -> [Peers -> Holds]]
      <3>1. [remote EXCEPT ![l][p] = mem.want[p]] \in [Locals -> [Peers -> Holds]]
        BY <2>1, <2>a, Registers, Zenon
      <3> QED BY <2>a, <2>b, <3>1, Zenon
    <2>4. DOMAIN views' = DOMAIN views /\ \A k \in DOMAIN views' : views'[k] \in [Peers -> Holds]
      <3>1. CASE UNCHANGED views
        BY <2>a, <3>1, Zenon
      <3>2. CASE views' = [views EXCEPT ![l][p] = mem.want[p]]
        <4>1. DOMAIN views' = DOMAIN views
          BY <3>2, Zenon
        <4>2. ASSUME NEW k \in DOMAIN views, k # l PROVE views'[k] = views[k]
          BY <3>2, <4>2, Zenon
        <4>3. views'[l] = [views[l] EXCEPT ![p] = mem.want[p]]
          BY <2>1, <3>2, Zenon
        <4>4. [views[l] EXCEPT ![p] = mem.want[p]] \in [Peers -> Holds]
          BY <2>1, <2>a, Zenon
        <4> QED BY <2>a, <4>1, <4>2, <4>3, <4>4, Zenon
      <3> QED BY <2>b, <3>1, <3>2, Zenon
    <2> QED BY <1>5, <2>2, <2>3, <2>4, Zenon DEF UpsertRemote, TypeOK
  <1>6. ASSUME NEW l \in Locals, NEW p \in Peers, RemoveRemote(l, p), UNCHANGED meddled PROVE TypeOK'
    <2>1. faults' \in 0..MaxFaults
      BY <1>6, FaultType, Zenon DEF RemoveRemote, TypeOK
    <2>2. remote' \in [Locals -> [Peers -> Holds]]
      BY <1>6 DEF RemoveRemote, TypeOK, Holds
    <2> QED BY <1>6, <2>1, <2>2, Zenon DEF RemoveRemote, TypeOK
  <1>7. CASE BuildStatuses /\ UNCHANGED meddled
    <2>1. AllReady \in BOOLEAN
      BY Zenon DEF AllReady
    <2>2. mem' \in Connections /\ mem'.want = mem.want
      BY <1>0, <1>7, <2>1, Zenon DEF BuildStatuses, Connections
    <2>3. Members(mem') = Members(mem)
      BY <2>2, Zenon DEF Members
    <2> QED BY <1>7, <2>2, <2>3, Zenon DEF BuildStatuses, TypeOK
  <1>8. CASE UpdateStatus /\ UNCHANGED meddled
    <2>1. PICK again \in BOOLEAN : EndPass(again)
      BY <1>0, <1>8, Zenon DEF UpdateStatus, Connections
    <2>2. cr' \in {cr, mem} /\ cache' = cache /\ synced' \in BOOLEAN
      BY <1>8, Zenon DEF UpdateStatus, Store, TypeOK
    <2>3. cr'.here /\ cr'.deleting => cr'.finalizer
      BY <2>2, Zenon DEF TypeOK, CopyInv
    <2> QED BY <1>0, <1>8, <2>1, <2>2, <2>3, EndPassTypeOK, Zenon DEF UpdateStatus, TypeOK
  <1>9. CASE RemoveFinalizer /\ UNCHANGED meddled
    <2>1. EndPass(FALSE) /\ cr' = Gone(mem) /\ cache' = cache /\ synced' \in BOOLEAN
      BY <1>9, Zenon DEF RemoveFinalizer, Store, TypeOK
    <2>2. cr' \in Connections /\ ~ cr'.here
      BY <1>0, <2>1, Zenon DEF Gone, Connections
    <2> QED BY <1>0, <1>9, <2>1, <2>2, EndPassTypeOK, Zenon DEF RemoveFinalizer, TypeOK
  <1>10. CASE Conflict /\ UNCHANGED meddled
    BY <1>0, <1>10, EndPassTypeOK, Zenon DEF Conflict, TypeOK
  <1>11. CASE AbortPass /\ UNCHANGED meddled
    BY <1>0, <1>11, EndPassTypeOK, FaultType, Zenon DEF AbortPass, TypeOK
  <1>12. CASE SyncCache /\ UNCHANGED meddled
    BY <1>0, <1>12, Zenon DEF SyncCache, TypeOK
  <1>13. CASE UserDeletes /\ UNCHANGED meddled
    <2>1. cr' \in Connections /\ (cr'.here /\ cr'.deleting => cr'.finalizer)
      BY <1>0, <1>13, Zenon DEF UserDeletes, UserWrites, Gone, Connections
    <2> QED BY <1>0, <1>13, <2>1, Zenon DEF UserDeletes, UserWrites, TypeOK
  <1>14. ASSUME NEW p \in Peers, NEW w \in Wants, EditPeer(p, w), UNCHANGED meddled PROVE TypeOK'
    <2>1. edits' \in 0..MaxEdits /\ cr.gen + 1 \in 0..MaxEdits
      BY <1>0, <1>14, ConnectionAssumption DEF EditPeer, TypeOK, CopyInv, Connections
    <2>2. cr' \in Connections /\ cr'.finalizer = cr.finalizer /\ cr'.deleting = cr.deleting
                              /\ cr'.here = cr.here
      BY <1>0, <1>14, <2>1, Zenon DEF EditPeer, UserWrites, Connections
    <2> QED BY <1>0, <1>14, <2>1, <2>2, Zenon DEF EditPeer, UserWrites, TypeOK
  <1>15. ASSUME NEW l \in Locals, TargetReady(l) \/ TargetFails(l), UNCHANGED meddled PROVE TypeOK'
    <2>1. faults' \in 0..MaxFaults
      BY <1>15, FaultType, Zenon DEF TargetReady, TargetFails, TypeOK
    <2> QED BY <1>15, <2>1, Zenon DEF TargetReady, TargetFails, TypeOK
  <1>16. ASSUME NEW l \in Locals, NEW p \in Peers, OtherRemoves(l, p) PROVE TypeOK'
    <2>1. faults' \in 0..MaxFaults /\ remote' \in [Locals -> [Peers -> Holds]]
      BY <1>16, FaultType, Zenon DEF OtherRemoves, TypeOK, Holds
    <2> QED BY <1>16, <2>1, Zenon DEF OtherRemoves, TypeOK
  <1>17. CASE UNCHANGED vars
    BY <1>17, Zenon DEF vars, TypeOK
  <1> QED BY <1>1, <1>2, <1>3, <1>4, <1>5, <1>6, <1>7, <1>8, <1>9, <1>10, <1>11, <1>12, <1>13, <1>14,
             <1>15, <1>16, <1>17, Zenon DEF Next, Operator, Reconcile, Environment

-----------------------------------------------------------------------------
(* The copies.                                                             *)

\* What is left of a pass once it has ended.
LEMMA Ended ==
  ASSUME NEW again, EndPass(again)
  PROVE  /\ pc' = "idle" /\ ~ fresh' /\ views' = NoView /\ todo' = {} /\ ~ mem'.deleting
         /\ ~ mem'.here
  BY Zenon DEF EndPass, Gone, NewConnection

LEMMA CopyStep ==
  ASSUME TypeOK, CopyInv, CallInv, [Next]_vars
  PROVE  CopyInv'
  <1> USE DEF object, pass
  <1>0. /\ cr \in Connections /\ cache \in Connections /\ mem \in Connections
        /\ edits \in Nat /\ cr.gen \in Nat /\ cr.observed \in Nat
    BY ConnectionAssumption DEF TypeOK, Connections
  <1>1. CASE Get /\ UNCHANGED meddled
    BY <1>1, Zenon DEF Get, CopyInv, CallInv
  <1>2. CASE EnsureFinalizer /\ UNCHANGED meddled
    <2> DEFINE o == [mem EXCEPT !.finalizer = TRUE]
    <2>1. /\ o.want = mem.want /\ o.gen = mem.gen /\ o.here = mem.here /\ o.deleting = mem.deleting
          /\ o.ready = mem.ready /\ o.observed = mem.observed /\ o.finalizer = TRUE
      BY <1>0, Zenon DEF Connections
    <2>2. mem' = o /\ pc = "finalizer" /\ pc' = "dial" /\ UNCHANGED <<fresh, cache, edits>>
      BY <1>2, Zenon DEF EnsureFinalizer, Store
    <2> HIDE DEF o
    <2>3. CASE mem.finalizer /\ UNCHANGED object
      <3>1. mem.finalizer = TRUE
        BY <1>0, <2>3, Zenon DEF Connections
      <3> QED BY <2>1, <2>2, <2>3, <3>1, Zenon DEF CopyInv
    <2>4. CASE Store(o)
      <3>1. cr' = o /\ fresh /\ (synced' => o = cr /\ synced)
        BY <2>4, Zenon DEF Store
      <3> QED BY <2>1, <2>2, <3>1, Zenon DEF CopyInv
    <2> QED BY <1>2, <2>3, <2>4, Zenon DEF EnsureFinalizer, o
  <1>3. ASSUME NEW l \in Locals, DialLocal(l), UNCHANGED meddled PROVE CopyInv'
    BY <1>3, Zenon DEF DialLocal, CopyInv
  <1>4. CASE Dialed /\ UNCHANGED meddled
    BY <1>4, Zenon DEF Dialed, CopyInv
  <1>5. ASSUME NEW l \in Locals, NEW p \in Peers, UpsertRemote(l, p), UNCHANGED meddled PROVE CopyInv'
    BY <1>5, Zenon DEF UpsertRemote, CopyInv
  <1>6. ASSUME NEW l \in Locals, NEW p \in Peers, RemoveRemote(l, p), UNCHANGED meddled PROVE CopyInv'
    BY <1>6, Zenon DEF RemoveRemote, CopyInv
  <1>7. CASE BuildStatuses /\ UNCHANGED meddled
    <2>1. /\ mem'.want = mem.want /\ mem'.gen = mem.gen /\ mem'.here = mem.here
          /\ mem'.deleting = mem.deleting /\ mem'.finalizer = mem.finalizer
          /\ mem'.observed = mem.gen
      BY <1>0, <1>7, Zenon DEF BuildStatuses, Connections
    <2> QED BY <1>7, <2>1, Zenon DEF BuildStatuses, CopyInv
  <1>8. CASE UpdateStatus /\ UNCHANGED meddled
    <2>1. UNCHANGED edits /\ pc' = "idle" /\ ~ fresh' /\ ~ mem'.deleting
      BY <1>8, Ended, Zenon DEF UpdateStatus
    <2>2. CASE UNCHANGED object
      BY <2>1, <2>2, Zenon DEF CopyInv
    <2>3. CASE Store(mem)
      <3>1. cr' = mem /\ cache' = cache /\ (synced' => mem = cr /\ synced) /\ fresh
        BY <2>3, Zenon DEF Store
      <3>2. mem.observed = mem.gen
        BY <1>8, Zenon DEF UpdateStatus, CopyInv
      <3>3. mem.gen \in Nat /\ mem.observed <= mem.gen
        BY <1>0, <3>2 DEF Connections
      <3> QED BY <2>1, <3>1, <3>2, <3>3, Zenon DEF CopyInv
    <2> QED BY <1>8, <2>2, <2>3, Zenon DEF UpdateStatus
  <1>9. CASE RemoveFinalizer /\ UNCHANGED meddled
    <2>1. UNCHANGED <<edits, cache>> /\ pc' = "idle" /\ ~ fresh' /\ ~ mem'.deleting /\ fresh /\ cr' = Gone(mem)
          /\ (synced' => cr' = cr /\ synced)
      BY <1>9, Ended, Zenon DEF RemoveFinalizer, Store
    <2>2. cr'.gen = mem.gen /\ cr'.observed = mem.observed /\ cr'.deleting = mem.deleting
      BY <1>0, <2>1, Zenon DEF Gone, Connections
    <2> QED BY <1>9, <2>1, <2>2, Zenon DEF RemoveFinalizer, CopyInv
  <1>10. CASE (Conflict \/ AbortPass) /\ UNCHANGED meddled
    <2>1. UNCHANGED <<object, edits>> /\ pc' = "idle" /\ ~ fresh' /\ ~ mem'.deleting
      BY <1>10, Ended, Zenon DEF Conflict, AbortPass
    <2> QED BY <2>1, Zenon DEF CopyInv
  <1>12. CASE SyncCache /\ UNCHANGED meddled
    BY <1>12, Zenon DEF SyncCache, CopyInv
  <1>13. CASE UserDeletes /\ UNCHANGED meddled
    <2>1. cr'.gen = cr.gen /\ cr'.observed = cr.observed /\ ~ cr.deleting
      BY <1>0, <1>13, Zenon DEF UserDeletes, UserWrites, Gone, Connections
    <2>2. ~ fresh' /\ ~ synced' /\ UNCHANGED <<cache, mem, pc, edits>>
      BY <1>13, Zenon DEF UserDeletes, UserWrites
    <2> QED BY <2>1, <2>2, Zenon DEF CopyInv
  <1>14. ASSUME NEW p \in Peers, NEW w \in Wants, EditPeer(p, w), UNCHANGED meddled PROVE CopyInv'
    <2>1. cr'.gen = cr.gen + 1 /\ cr'.observed = cr.observed /\ cr'.deleting = cr.deleting
      BY <1>0, <1>14, Zenon DEF EditPeer, UserWrites, Connections
    <2>2. ~ fresh' /\ ~ synced' /\ UNCHANGED <<cache, mem, pc>> /\ edits' = edits + 1
      BY <1>14, Zenon DEF EditPeer, UserWrites
    <2>3. cr'.gen <= edits' /\ cr'.observed <= cr'.gen
      BY <1>0, <2>1, <2>2 DEF CopyInv
    <2> QED BY <2>1, <2>2, <2>3, Zenon DEF CopyInv
  <1>15. ASSUME NEW l \in Locals, TargetReady(l) \/ TargetFails(l), UNCHANGED meddled PROVE CopyInv'
    BY <1>15 DEF TargetReady, TargetFails, CopyInv
  <1>16. ASSUME NEW l \in Locals, NEW p \in Peers, OtherRemoves(l, p) PROVE CopyInv'
    BY <1>16, Zenon DEF OtherRemoves, CopyInv
  <1>17. CASE UNCHANGED vars
    BY <1>17, Zenon DEF vars, CopyInv
  <1> QED BY <1>1, <1>2, <1>3, <1>4, <1>5, <1>6, <1>7, <1>8, <1>9, <1>10, <1>12, <1>13, <1>14,
             <1>15, <1>16, <1>17, Zenon DEF Next, Operator, Reconcile, Environment

-----------------------------------------------------------------------------
(* The calls and the views.                                                *)

LEMMA CallStep ==
  ASSUME TypeOK, CopyInv, CallInv, [Next]_vars
  PROVE  CallInv'
  <1> USE DEF object, pass
  <1>0. cr \in Connections /\ cache \in Connections /\ mem \in Connections
    BY DEF TypeOK
  <1>1. CASE Get /\ UNCHANGED meddled
    <2>1. pc = "idle" /\ DOMAIN views = {} /\ UNCHANGED views
      BY <1>1 DEF Get, CallInv, NoView
    <2>2. CASE UNCHANGED pass
      BY <2>2, Zenon DEF CallInv
    <2>3. CASE /\ mem' = cache /\ pc' \in {"dial", "finalizer"}
               /\ addressed' = {p \in Members(cache) : p \in Locals => target[p] # "missing"}
               /\ todo' = {<<p, p>> : p \in {q \in Members(cache) \cap Locals : target[q] = "ready"}}
      BY <2>1, <2>3 DEF CallInv
    <2> QED BY <1>1, <2>2, <2>3, Zenon DEF Get
  <1>2. CASE EnsureFinalizer /\ UNCHANGED meddled
    <2>1. mem'.want = mem.want
      BY <1>0, <1>2, Zenon DEF EnsureFinalizer, Connections
    <2>2. Members(mem') = Members(mem)
      BY <2>1, Zenon DEF Members
    <2> QED BY <1>2, <2>2, Zenon DEF EnsureFinalizer, CallInv
  <1>3. ASSUME NEW l \in Locals, DialLocal(l), UNCHANGED meddled PROVE CallInv'
    BY <1>3, Zenon DEF DialLocal, CallInv
  <1>4. CASE Dialed /\ UNCHANGED meddled
    BY <1>4, Zenon DEF Dialed, CallInv
  <1>5. ASSUME NEW l \in Locals, NEW p \in Peers, UpsertRemote(l, p), UNCHANGED meddled PROVE CallInv'
    <2>1. DOMAIN views' = DOMAIN views
      BY <1>5, Zenon DEF UpsertRemote, UpsertFailed
    <2> QED BY <1>5, <2>1, Zenon DEF UpsertRemote, CallInv
  <1>6. ASSUME NEW l \in Locals, NEW p \in Peers, RemoveRemote(l, p), UNCHANGED meddled PROVE CallInv'
    BY <1>6, Zenon DEF RemoveRemote, CallInv
  <1>7. CASE BuildStatuses /\ UNCHANGED meddled
    BY <1>7, Zenon DEF BuildStatuses, CallInv
  <1>8. CASE (UpdateStatus \/ RemoveFinalizer \/ Conflict \/ AbortPass) /\ UNCHANGED meddled
    <2>1. pc' = "idle" /\ views' = NoView /\ ~ fresh'
      BY <1>8, Ended, Zenon DEF UpdateStatus, RemoveFinalizer, Conflict, AbortPass
    <2> QED BY <2>1, Zenon DEF CallInv
  <1>12. CASE SyncCache /\ UNCHANGED meddled
    BY <1>12, Zenon DEF SyncCache, CallInv
  <1>13. CASE UserDeletes /\ UNCHANGED meddled
    BY <1>13, Zenon DEF UserDeletes, UserWrites, CallInv
  <1>14. ASSUME NEW p \in Peers, NEW w \in Wants, EditPeer(p, w), UNCHANGED meddled PROVE CallInv'
    BY <1>14, Zenon DEF EditPeer, UserWrites, CallInv
  <1>15. ASSUME NEW l \in Locals, TargetReady(l) \/ TargetFails(l), UNCHANGED meddled PROVE CallInv'
    BY <1>15 DEF TargetReady, TargetFails, CallInv
  <1>16. ASSUME NEW l \in Locals, NEW p \in Peers, OtherRemoves(l, p) PROVE CallInv'
    BY <1>16, Zenon DEF OtherRemoves, CallInv
  <1>17. CASE UNCHANGED vars
    BY <1>17, Zenon DEF vars, CallInv
  <1> QED BY <1>1, <1>2, <1>3, <1>4, <1>5, <1>6, <1>7, <1>8, <1>12, <1>13, <1>14,
             <1>15, <1>16, <1>17, Zenon DEF Next, Operator, Reconcile, Environment

\* What a call writes into a service and what the pass writes into its view of it.
LEMMA UpsertEffect ==
  ASSUME TypeOK, CallInv, NEW l \in Locals, NEW p \in Peers, UpsertRemote(l, p)
  PROVE  /\ DOMAIN views' = DOMAIN views
         /\ \/ UNCHANGED <<views, remote>>
            \/ /\ \A k \in Locals, q \in Peers :
                    remote'[k][q] = IF k = l /\ q = p THEN mem.want[p] ELSE remote[k][q]
               /\ \A k \in DOMAIN views, q \in Peers :
                    views'[k][q] = IF k = l /\ q = p THEN mem.want[p] ELSE views[k][q]
  <1>1. \/ UNCHANGED <<views, remote>>
        \/ /\ remote' = [remote EXCEPT ![l] = [remote[l] EXCEPT ![p] = mem.want[p]]]
           /\ views' = [views EXCEPT ![l] = [views[l] EXCEPT ![p] = mem.want[p]]]
    BY Zenon DEF UpsertRemote, UpsertFailed
  <1>2. remote \in [Locals -> [Peers -> Holds]] /\ \A k \in DOMAIN views : views[k] \in [Peers -> Holds]
    BY Zenon DEF TypeOK
  <1>3. DOMAIN views' = DOMAIN views
    BY <1>1, Zenon
  <1>4. ASSUME NEW r, remote' = [remote EXCEPT ![l] = r], r = [remote[l] EXCEPT ![p] = mem.want[p]],
               NEW k \in Locals, NEW q \in Peers
        PROVE  remote'[k][q] = IF k = l /\ q = p THEN mem.want[p] ELSE remote[k][q]
    BY <1>2, <1>4, Zenon
  <1>5. ASSUME NEW r, views' = [views EXCEPT ![l] = r], r = [views[l] EXCEPT ![p] = mem.want[p]],
               NEW k \in DOMAIN views, NEW q \in Peers
        PROVE  views'[k][q] = IF k = l /\ q = p THEN mem.want[p] ELSE views[k][q]
    BY <1>2, <1>5, Zenon
  <1> QED BY <1>1, <1>3, <1>4, <1>5, Zenon

LEMMA ViewStep ==
  ASSUME TypeOK, CopyInv, CallInv, ViewInv, [Next]_vars
  PROVE  ViewInv'
  <1> USE DEF object, pass
  <1>0. cr \in Connections /\ cache \in Connections /\ mem \in Connections
        /\ DOMAIN views \subseteq Locals
    BY Zenon DEF TypeOK
  <1>1. CASE Get /\ UNCHANGED meddled
    <2>1. pc = "idle" /\ DOMAIN views = {} /\ UNCHANGED views
      BY <1>1 DEF Get, CallInv, NoView
    <2>2. CASE UNCHANGED pass
      BY <2>1, <2>2, Zenon DEF ViewInv
    <2>3. CASE /\ mem' = cache
               /\ addressed' = {p \in Members(cache) : p \in Locals => target[p] # "missing"}
      BY <2>1, <2>3, ConnectionAssumption, Zenon DEF ViewInv
    <2> QED BY <1>1, <2>2, <2>3, Zenon DEF Get
  <1>2. CASE EnsureFinalizer /\ UNCHANGED meddled
    <2>1. mem'.want = mem.want
      BY <1>0, <1>2, Zenon DEF EnsureFinalizer, Connections
    <2>2. Members(mem') = Members(mem)
      BY <2>1, Zenon DEF Members
    <2>3. DOMAIN views' = {}
      BY <1>2, Zenon DEF EnsureFinalizer, CallInv
    <2> QED BY <1>2, <2>2, <2>3, Zenon DEF EnsureFinalizer, ViewInv
  <1>3. ASSUME NEW l \in Locals, DialLocal(l), UNCHANGED meddled PROVE ViewInv'
    <2>1. l \in addressed
      BY <1>3, Zenon DEF DialLocal, CallInv
    <2> QED BY <1>3, <2>1 DEF DialLocal, ViewInv
  <1>4. CASE Dialed /\ UNCHANGED meddled
    BY <1>4, Zenon DEF Dialed, ViewInv
  <1>5. ASSUME NEW l \in Locals, NEW p \in Peers, UpsertRemote(l, p), UNCHANGED meddled PROVE ViewInv'
    <2>1. pc = "upsert" /\ UNCHANGED <<mem, addressed, pc>>
      BY <1>5, Zenon DEF UpsertRemote
    <2> QED BY <1>0, <1>5, <2>1, UpsertEffect DEF ViewInv
  <1>6. ASSUME NEW l \in Locals, NEW p \in Peers, RemoveRemote(l, p), UNCHANGED meddled PROVE ViewInv'
    BY <1>6, Zenon DEF RemoveRemote, ViewInv
  <1>7. CASE BuildStatuses /\ UNCHANGED meddled
    <2>1. mem'.want = mem.want
      BY <1>0, <1>7, Zenon DEF BuildStatuses, Connections
    <2>2. Members(mem') = Members(mem)
      BY <2>1 DEF Members
    <2> QED BY <1>7, <2>2, Zenon DEF BuildStatuses, ViewInv
  <1>8. CASE (UpdateStatus \/ RemoveFinalizer \/ Conflict \/ AbortPass) /\ UNCHANGED meddled
    <2>1. pc' = "idle"
      BY <1>8, Ended, Zenon DEF UpdateStatus, RemoveFinalizer, Conflict, AbortPass
    <2> QED BY <2>1, Zenon DEF ViewInv
  <1>12. CASE SyncCache /\ UNCHANGED meddled
    BY <1>12, Zenon DEF SyncCache, ViewInv
  <1>13. CASE UserDeletes /\ UNCHANGED meddled
    BY <1>13, Zenon DEF UserDeletes, UserWrites, ViewInv
  <1>14. ASSUME NEW p \in Peers, NEW w \in Wants, EditPeer(p, w), UNCHANGED meddled PROVE ViewInv'
    BY <1>14, Zenon DEF EditPeer, UserWrites, ViewInv
  <1>15. ASSUME NEW l \in Locals, TargetReady(l) \/ TargetFails(l), UNCHANGED meddled PROVE ViewInv'
    BY <1>15 DEF TargetReady, TargetFails, ViewInv
  <1>16. ASSUME NEW l \in Locals, NEW p \in Peers, OtherRemoves(l, p) PROVE ViewInv'
    BY <1>16, Zenon DEF OtherRemoves, ViewInv
  <1>17. CASE UNCHANGED vars
    BY <1>17, Zenon DEF vars, ViewInv
  <1> QED BY <1>1, <1>2, <1>3, <1>4, <1>5, <1>6, <1>7, <1>8, <1>12, <1>13, <1>14,
             <1>15, <1>16, <1>17, Zenon DEF Next, Operator, Reconcile, Environment

-----------------------------------------------------------------------------
(* The verdict.                                                            *)

\* What buildStatuses calls ready is connected: every enabled local peer was dialed, so it
\* and every enabled peer beside it has an address, and its view lacks none of them.
LEMMA AllReadyIsConnected ==
  ASSUME TypeOK, ViewInv, pc = "upsert", AllReady
  PROVE  Connected(mem)
  <1> SUFFICES ASSUME NEW l \in Enabled(mem) \cap Locals, NEW p \in Enabled(mem) \ {l}
               PROVE  remote[l][p] = "enabled" \/ meddled
    BY Zenon DEF Connected
  <1>1. l \in DOMAIN views /\ \A q \in (Enabled(mem) \cap addressed) \ {l} : views[l][q] = "enabled"
    BY Zenon DEF AllReady, PeerConnected
  <1>2. p \in Peers /\ p \in Members(mem)
    BY Zenon DEF Enabled, Members
  <1>3. p \in Locals => p \in DOMAIN views
    BY Zenon DEF AllReady, PeerConnected
  <1>4. p \in addressed
    BY <1>2, <1>3, Zenon DEF ViewInv, Peers
  <1>5. views[l][p] = "enabled"
    BY <1>1, <1>4, Zenon
  <1> QED BY <1>1, <1>2, <1>5, Zenon DEF ViewInv

LEMMA VerdictStep ==
  ASSUME TypeOK, ConnectionInv, [Next]_vars
  PROVE  VerdictInv'
  <1> USE DEF object, pass
  <1>0. /\ cr \in Connections /\ cache \in Connections /\ mem \in Connections
        /\ edits \in Nat /\ cr.gen \in Nat /\ cr.observed \in Nat
        /\ CopyInv /\ CallInv /\ ViewInv /\ VerdictInv
    BY ConnectionAssumption DEF TypeOK, Connections, ConnectionInv
  <1>k. ASSUME UNCHANGED <<remote, meddled>>, NEW o, NEW n, o.want = n.want, Connected(o)
        PROVE  \A l \in Enabled(n) \cap Locals : \A p \in Enabled(n) \ {l} :
                 remote'[l][p] = "enabled" \/ meddled'
    BY <1>k, Zenon DEF Connected, Enabled
  <1>1. CASE Get /\ UNCHANGED meddled
    <2>1. UNCHANGED <<cr, cache, remote, meddled>> /\ (mem' = cache \/ pc' = "idle") /\ pc' # "status"
      BY <1>1, Zenon DEF Get
    <2> QED BY <1>0, <2>1, Zenon DEF VerdictInv, SaysReady, Connected
  <1>2. CASE EnsureFinalizer /\ UNCHANGED meddled
    <2> DEFINE o == [mem EXCEPT !.finalizer = TRUE]
    <2>1. /\ o.want = mem.want /\ o.gen = mem.gen /\ o.here = mem.here /\ o.deleting = mem.deleting
          /\ o.ready = mem.ready /\ o.observed = mem.observed
      BY <1>0, Zenon DEF Connections
    <2>2. mem' = o /\ pc = "finalizer" /\ pc' = "dial" /\ UNCHANGED <<cache, remote, meddled>>
      BY <1>2, Zenon DEF EnsureFinalizer, Store
    <2> HIDE DEF o
    <2>3. cr' = cr \/ (cr' = o /\ fresh)
      BY <1>2, Zenon DEF EnsureFinalizer, Store, o
    <2>4. cr'.want = cr.want /\ (SaysReady' => SaysReady)
      BY <1>0, <2>1, <2>2, <2>3, Zenon DEF CopyInv, SaysReady
    <2>5. SaysReady' => Connected(cr)'
      BY <1>0, <1>k, <2>2, <2>4, Zenon DEF VerdictInv, Connected
    <2> QED BY <1>0, <2>1, <2>2, <2>4, <2>5, Zenon DEF VerdictInv
  <1>3. ASSUME NEW l \in Locals, DialLocal(l), UNCHANGED meddled PROVE VerdictInv'
    BY <1>0, <1>3, Zenon DEF DialLocal, VerdictInv, SaysReady, Connected
  <1>4. CASE Dialed /\ UNCHANGED meddled
    BY <1>0, <1>4, Zenon DEF Dialed, VerdictInv, SaysReady, Connected
  <1>5. ASSUME NEW l \in Locals, NEW p \in Peers, UpsertRemote(l, p), UNCHANGED meddled PROVE VerdictInv'
    <2>1. UNCHANGED <<cr, cache, mem, pc>> /\ pc = "upsert"
      BY <1>5, Zenon DEF UpsertRemote
    <2>2. SaysReady => mem.want = cr.want /\ Connected(cr)
      BY <1>0, <2>1, Zenon DEF VerdictInv
    <2>3. \A k \in Locals, q \in Peers :
            remote[k][q] = "enabled" /\ mem.want[q] = "enabled" => remote'[k][q] = "enabled"
      BY <1>0, <1>5, UpsertEffect
    <2>4. SaysReady => Connected(cr)'
      BY <1>5, <2>1, <2>2, <2>3, Zenon DEF Connected, Enabled
    <2> QED BY <1>0, <2>1, <2>4, Zenon DEF VerdictInv, SaysReady
  <1>6. ASSUME NEW l \in Locals, NEW p \in Peers, RemoveRemote(l, p), UNCHANGED meddled PROVE VerdictInv'
    <2>1. UNCHANGED <<cr, cache, mem, pc>> /\ pc = "remove"
      BY <1>6, Zenon DEF RemoveRemote
    <2>2. cr'.deleting
      BY <1>0, <2>1, Zenon DEF CallInv, CopyInv
    <2> QED BY <2>1, <2>2, Zenon DEF VerdictInv, SaysReady
  <1>7. CASE BuildStatuses /\ UNCHANGED meddled
    <2>1. mem'.want = mem.want /\ (mem'.ready => AllReady)
      BY <1>0, <1>7, Zenon DEF BuildStatuses, Connections
    <2>2. UNCHANGED <<cr, cache, remote, meddled>> /\ pc = "upsert"
      BY <1>7, Zenon DEF BuildStatuses
    <2>3. mem'.ready => Connected(mem)'
      BY <1>0, <1>k, <2>1, <2>2, AllReadyIsConnected, Zenon DEF Connected
    <2>4. SaysReady' => SaysReady /\ Connected(cr)'
      BY <1>0, <2>2, Zenon DEF VerdictInv, SaysReady, Connected
    <2> QED BY <1>0, <2>1, <2>2, <2>3, <2>4, Zenon DEF VerdictInv
  <1>8. CASE UpdateStatus /\ UNCHANGED meddled
    <2>1. UNCHANGED <<cache, remote, meddled>> /\ pc' = "idle" /\ pc = "status"
      BY <1>8, Ended, Zenon DEF UpdateStatus, Store
    <2>2. CASE UNCHANGED object
      BY <1>0, <2>1, <2>2, Zenon DEF VerdictInv, SaysReady, Connected
    <2>3. CASE Store(mem)
      <3>1. cr' = mem /\ fresh
        BY <2>3, Zenon DEF Store
      <3>2. cache.want = mem.want
        BY <1>0, <3>1, Zenon DEF CopyInv
      <3> QED BY <1>0, <2>1, <3>1, <3>2, Zenon DEF VerdictInv, SaysReady, Connected
    <2> QED BY <1>8, <2>2, <2>3, Zenon DEF UpdateStatus
  <1>9. CASE RemoveFinalizer /\ UNCHANGED meddled
    <2>1. pc' = "idle" /\ cr' = Gone(mem)
      BY <1>9, Ended, Zenon DEF RemoveFinalizer, Store
    <2>2. ~ cr'.here
      BY <1>0, <2>1, Zenon DEF Gone, Connections
    <2> QED BY <2>1, <2>2, Zenon DEF VerdictInv, SaysReady
  <1>10. CASE (Conflict \/ AbortPass) /\ UNCHANGED meddled
    <2>1. UNCHANGED <<object, remote, meddled>> /\ pc' = "idle"
      BY <1>10, Ended, Zenon DEF Conflict, AbortPass
    <2> QED BY <1>0, <2>1, Zenon DEF VerdictInv, SaysReady, Connected
  <1>12. CASE SyncCache /\ UNCHANGED meddled
    BY <1>0, <1>12, Zenon DEF SyncCache, VerdictInv, SaysReady, Connected
  <1>13. CASE UserDeletes /\ UNCHANGED meddled
    <2>1. ~ cr'.here \/ cr'.deleting
      BY <1>0, <1>13, Zenon DEF UserDeletes, UserWrites, Gone, Connections
    <2>2. UNCHANGED <<mem, pc, remote, meddled>>
      BY <1>13, Zenon DEF UserDeletes, UserWrites
    <2> QED BY <1>0, <2>1, <2>2, Zenon DEF VerdictInv, SaysReady, Connected
  <1>14. ASSUME NEW p \in Peers, NEW w \in Wants, EditPeer(p, w), UNCHANGED meddled PROVE VerdictInv'
    <2>1. cr'.gen = cr.gen + 1 /\ cr'.observed = cr.observed
      BY <1>0, <1>14, Zenon DEF EditPeer, UserWrites, Connections
    <2>2. UNCHANGED <<mem, pc, remote, meddled>>
      BY <1>14, Zenon DEF EditPeer, UserWrites
    <2>3. cr.observed <= cr.gen
      BY <1>0, Zenon DEF CopyInv
    <2>4. cr'.observed # cr'.gen
      BY <1>0, <2>1, <2>3
    <2> QED BY <1>0, <2>2, <2>4, Zenon DEF VerdictInv, SaysReady, Connected
  <1>15. ASSUME NEW l \in Locals, TargetReady(l) \/ TargetFails(l), UNCHANGED meddled PROVE VerdictInv'
    BY <1>0, <1>15 DEF TargetReady, TargetFails, VerdictInv, SaysReady, Connected
  <1>16. ASSUME NEW l \in Locals, NEW p \in Peers, OtherRemoves(l, p) PROVE VerdictInv'
    BY <1>0, <1>16, Zenon DEF OtherRemoves, VerdictInv, SaysReady, Connected
  <1>17. CASE UNCHANGED vars
    BY <1>0, <1>17, Zenon DEF vars, VerdictInv, SaysReady, Connected
  <1> QED BY <1>1, <1>2, <1>3, <1>4, <1>5, <1>6, <1>7, <1>8, <1>9, <1>10, <1>12, <1>13, <1>14,
             <1>15, <1>16, <1>17, Zenon DEF Next, Operator, Reconcile, Environment

-----------------------------------------------------------------------------
(* The theorems.                                                           *)

LEMMA InitInv == Init => TypeOK /\ ConnectionInv
  <1> SUFFICES ASSUME Init PROVE TypeOK /\ ConnectionInv
    BY Zenon
  <1>1. cr \in Connections /\ mem \in Connections
    BY EndPassType, Zenon DEF Init
  <1>2. /\ cr.gen = 0 /\ cr.observed = 0 /\ ~ cr.deleting /\ ~ mem.deleting /\ ~ cr.ready
        /\ DOMAIN views = {} /\ views = NoView
    BY DEF Init, NewConnection, Gone, NoView
  <1>3. /\ target \in [Locals -> {"missing", "pending", "ready"}]
        /\ remote \in [Locals -> [Peers -> Holds]]
        /\ edits \in 0..MaxEdits /\ faults \in 0..MaxFaults
    BY ConnectionAssumption DEF Init, Holds
  <1>5. TypeOK
    BY <1>1, <1>2, <1>3, Zenon DEF Init, TypeOK
  <1>4. ConnectionInv
    <2>1. /\ pc = "idle" /\ ~ fresh /\ cache = cr /\ cr.gen <= edits /\ cr.observed <= cr.gen
      BY <1>2 DEF Init
    <2>2. CopyInv /\ CallInv
      BY <1>2, <2>1, Zenon DEF CopyInv, CallInv
    <2>3. ViewInv /\ VerdictInv
      BY <1>2, <2>1, Zenon DEF ViewInv, VerdictInv, SaysReady
    <2> QED BY <2>2, <2>3, Zenon DEF ConnectionInv
  <1> QED BY <1>4, <1>5, Zenon

\* The four parts and the types hold together.
LEMMA Inductive == Spec => [](TypeOK /\ ConnectionInv)
  <1>1. TypeOK /\ ConnectionInv /\ [Next]_vars => (TypeOK /\ ConnectionInv)'
    <2> SUFFICES ASSUME TypeOK, ConnectionInv, [Next]_vars PROVE (TypeOK /\ ConnectionInv)'
      BY Zenon
    <2>1. CopyInv /\ CallInv /\ ViewInv
      BY Zenon DEF ConnectionInv
    <2> QED BY <2>1, TypeStep, CopyStep, CallStep, ViewStep, VerdictStep, Zenon DEF ConnectionInv
  <1> QED BY <1>1, InitInv, PTL DEF Spec

\* Every variable keeps its range; among the rest, a pass only holds views of members it
\* dialed, and an object waiting for its deletion has the finalizer that holds it.
THEOREM TypeCorrect == Spec => []TypeOK
  BY Inductive, PTL

\* A TemporalClusterConnection that says Ready of its present generation has every enabled
\* local peer connected to every other enabled peer, unless somebody else took a
\* registration away: any peers, any edits, any failed calls and lost writes.
THEOREM ReadyIsConnected == Spec => []ReadyMeansConnected
  <1>1. ConnectionInv => ReadyMeansConnected
    BY Zenon DEF ConnectionInv, VerdictInv, SaysReady, Connected, ReadyMeansConnected
  <1> QED BY <1>1, Inductive, PTL
=============================================================================
