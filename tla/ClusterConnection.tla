-------------------------- MODULE ClusterConnection --------------------------
(***************************************************************************)
(* The TemporalClusterConnection reconciler: every local peer of a         *)
(* replication group gets every other peer registered as a remote cluster. *)
(* A pass resolves the peers, dials the local ones and loads their views,  *)
(* upserts what differs one call at a time, and judges the group by the    *)
(* views it holds, not by asking again.                                    *)
(***************************************************************************)
EXTENDS Naturals, FiniteSets

CONSTANTS
  Locals,      \* peers with a clusterRef
  Externals,   \* peers with a frontendAddress
  MaxEdits,    \* bound on edits of the connection
  MaxFaults    \* bound on faults

Peers == Locals \cup Externals

ASSUME ConnectionAssumption ==
  /\ Locals \cap Externals = {} /\ Cardinality(Peers) >= 2
  /\ MaxEdits \in Nat /\ MaxFaults \in Nat

VARIABLES
  cr,        \* the stored TemporalClusterConnection
  cache,     \* the same as the informer cache holds it
  synced,    \* the cache holds the latest stored object
  mem,       \* the pass's copy
  fresh,     \* the copy's resourceVersion is the stored one
  pc,        \* the step the pass is at
  addressed, \* peers whose address this pass knows
  views,     \* local peer -> its remotes as this pass holds them; dialed ones only
  todo,      \* calls this pass still has to make: pairs of local peer and other
  queued,    \* the object is in the work queue
  target,    \* local peer -> missing, pending or ready
  remote,    \* local peer -> other peer -> its registration there
  edits, faults,
  meddled    \* history: somebody else took a registration away

object == <<cr, cache, synced>>
pass   == <<mem, fresh, pc, addressed, views, todo>>
vars   == <<object, pass, queued, target, remote, edits, faults, meddled>>

Fault == faults < MaxFaults /\ faults' = faults + 1

\* A peer is out of the spec, or in it and enabled or disabled; a registration is absent,
\* enabled or disabled.
Wants == {"out", "enabled", "disabled"}
Holds == {"absent", "enabled", "disabled"}

\* validatePeers: two peers at least.
ValidatePeers(want) == Cardinality({p \in Peers : want[p] # "out"}) >= 2

Members(o) == {p \in Peers : o.want[p] # "out"}
Enabled(o) == {p \in Peers : o.want[p] = "enabled"}

NewConnection ==
  [here |-> TRUE, deleting |-> FALSE, finalizer |-> FALSE, want |-> [p \in Peers |-> "enabled"],
   gen |-> 0, observed |-> 0, ready |-> FALSE]

Gone(o) == [o EXCEPT !.here = FALSE]
NoView  == <<>>
Pairs(ls, o) == {pr \in ls \X Members(o) : pr[1] # pr[2]}

-----------------------------------------------------------------------------
\* Mutant: a pass keeps the views it loaded for the next one.
EndPassKeepsViews(again) ==
  /\ mem' = Gone(NewConnection) /\ fresh' = FALSE /\ pc' = "idle"
  /\ addressed' = {} /\ views' = views /\ todo' = {}
  /\ queued' = (queued \/ again)

EndPass(again) ==
  /\ mem' = Gone(NewConnection) /\ fresh' = FALSE /\ pc' = "idle"
  /\ addressed' = {} /\ views' = NoView /\ todo' = {}
  /\ queued' = (queued \/ again)

\* Get, then resolvePeers: a local peer that does not resolve has no address and does not
\* stop the pass; an external one is taken at face value.
Get ==
  /\ pc = "idle" /\ queued
  /\ queued' = FALSE
  /\ IF cache.here /\ (cache.deleting => cache.finalizer)
     THEN /\ mem' = cache /\ fresh' = synced
          /\ pc' = IF cache.deleting THEN "dial" ELSE "finalizer"
          /\ addressed' = {p \in Members(cache) : p \in Locals => target[p] # "missing"}
          /\ todo' = {<<p, p>> : p \in {q \in Members(cache) \cap Locals : target[q] = "ready"}}
          /\ UNCHANGED views
     ELSE UNCHANGED pass
  /\ UNCHANGED <<object, target, remote, edits, faults>>

\* A write of the object by the pass: accepted if nobody wrote it since.
Store(o) ==
  /\ fresh
  /\ cr' = o
  /\ synced' = (synced /\ o = cr)
  /\ UNCHANGED cache

EnsureFinalizer ==
  LET o == [mem EXCEPT !.finalizer = TRUE]
  IN  /\ pc = "finalizer"
      /\ \/ mem.finalizer /\ UNCHANGED object
         \/ ~ mem.finalizer /\ Store(o)
      /\ mem' = o /\ pc' = "dial"
      /\ UNCHANGED <<fresh, addressed, views, todo, queued, target, remote, edits, faults>>

\* dialLocals, in whatever order: a peer that cannot be dialed or listed is left out.  The
\* pairs <<l, l>> stand for the dials still to come.
DialLocal(l) ==
  /\ pc = "dial" /\ <<l, l>> \in todo
  /\ todo' = todo \ {<<l, l>>}
  /\ \/ /\ views' = [k \in DOMAIN views \cup {l} |-> IF k = l THEN remote[l] ELSE views[k]]
        /\ UNCHANGED faults
     \/ Fault /\ UNCHANGED views
  /\ UNCHANGED <<object, mem, fresh, pc, addressed, queued, target, remote, edits>>

\* All dialed: on to the calls.  upsertRemotes skips peers without an address.
Dialed ==
  /\ pc = "dial" /\ todo = {}
  /\ \/ /\ ~ mem.deleting /\ pc' = "upsert"
        /\ todo' = {pr \in Pairs(DOMAIN views, mem) : pr[2] \in addressed}
     \/ /\ mem.deleting /\ pc' = "remove"
        /\ todo' = Pairs(DOMAIN views, mem)
  /\ UNCHANGED <<object, mem, fresh, addressed, views, queued, target, remote, edits, faults>>

\* Mutant: a failed call is noted in the view like a good one.
UpsertFailedUnnoticed(l, p) ==
  /\ Fault
  /\ views' = [views EXCEPT ![l][p] = mem.want[p]]
  /\ UNCHANGED remote

UpsertFailed(l, p) == Fault /\ UNCHANGED <<views, remote>>

\* Mutant: a registration is only made, never switched.
UpToDateIfPresent(l, p) == views[l][p] # "absent"

\* What a view already has as wanted is not touched; a registration's address is not looked at.
UpToDate(l, p) == views[l][p] = mem.want[p]

UpsertRemote(l, p) ==
  /\ pc = "upsert" /\ <<l, p>> \in todo /\ l # p
  /\ todo' = todo \ {<<l, p>>}
  /\ \/ UpToDate(l, p) /\ UNCHANGED <<views, remote, faults>>
     \/ /\ ~ UpToDate(l, p)
        /\ \/ /\ remote' = [remote EXCEPT ![l][p] = mem.want[p]]
              /\ views' = [views EXCEPT ![l][p] = mem.want[p]]
              /\ UNCHANGED faults
           \/ UpsertFailed(l, p)
  /\ UNCHANGED <<object, mem, fresh, pc, addressed, queued, target, edits>>

-----------------------------------------------------------------------------
(* The verdict.                                                            *)

\* computeReachable: a local peer was dialed, an external one is on some dialed view.
Reachable(p) ==
  IF p \in Locals THEN p \in DOMAIN views ELSE \E l \in DOMAIN views : views[l][p] # "absent"

\* peerConnected: a local peer by its own view, an external one by every dialed view.
PeerConnected(p) ==
  IF p \in Locals
  THEN p \in DOMAIN views /\ \A q \in (Enabled(mem) \cap addressed) \ {p} : views[p][q] = "enabled"
  ELSE DOMAIN views # {} /\ \A l \in DOMAIN views : views[l][p] = "enabled"

\* buildStatuses.
AllReady == \A p \in Enabled(mem) : Reachable(p) /\ PeerConnected(p)

BuildStatuses ==
  /\ pc = "upsert" /\ todo = {}
  /\ mem' = [mem EXCEPT !.ready = AllReady, !.observed = mem.gen]
  /\ pc' = "status"
  /\ UNCHANGED <<object, fresh, addressed, views, todo, queued, target, remote, edits, faults>>

\* statusUpdate and the drift requeue; a conflict is an error, hence a retry.
UpdateStatus ==
  /\ pc = "status"
  /\ \/ Store(mem) /\ EndPass(TRUE)
     \/ ~ fresh /\ EndPass(cr.here) /\ UNCHANGED object
  /\ UNCHANGED <<target, remote, edits, faults>>

\* Mutant: a removal that fails ends the pass.
RemoveRemoteOrStop(l, p) ==
  /\ pc = "remove" /\ <<l, p>> \in todo /\ remote[l][p] # "absent"
  /\ todo' = todo \ {<<l, p>>}
  /\ remote' = [remote EXCEPT ![l][p] = "absent"]
  /\ UNCHANGED <<object, mem, fresh, pc, addressed, views, queued, target, edits, faults>>

\* reconcileDelete, best effort: a removal that fails, for a registration that is not there
\* among others, is passed over.
RemoveRemote(l, p) ==
  /\ pc = "remove" /\ <<l, p>> \in todo
  /\ todo' = todo \ {<<l, p>>}
  /\ \/ remote' = [remote EXCEPT ![l][p] = "absent"] /\ UNCHANGED faults
     \/ Fault /\ UNCHANGED remote
  /\ UNCHANGED <<object, mem, fresh, pc, addressed, views, queued, target, edits>>

RemoveFinalizer ==
  /\ pc = "remove" /\ todo = {}
  /\ Store(Gone(mem)) /\ EndPass(FALSE)
  /\ UNCHANGED <<target, remote, edits, faults>>

\* The finalizer writes meet a newer object.
Conflict ==
  /\ ~ fresh
  /\ \/ pc = "finalizer" /\ ~ mem.finalizer
     \/ pc = "remove" /\ todo = {}
  /\ EndPass(TRUE)
  /\ UNCHANGED <<object, target, remote, edits, faults>>

\* A write of the object fails for another reason.
AbortPass ==
  /\ pc \in {"finalizer", "status"} \/ (pc = "remove" /\ todo = {})
  /\ Fault /\ EndPass(TRUE)
  /\ UNCHANGED <<object, target, remote, edits>>

Reconcile ==
  \/ Get
  \/ EnsureFinalizer
  \/ \E l \in Locals : DialLocal(l)
  \/ Dialed
  \/ \E l \in Locals, p \in Peers : UpsertRemote(l, p) \/ RemoveRemote(l, p)
  \/ BuildStatuses
  \/ UpdateStatus
  \/ RemoveFinalizer
  \/ Conflict

-----------------------------------------------------------------------------
(* Everyone else.                                                          *)

UserWrites(o) ==
  /\ cr' = o /\ synced' = FALSE /\ fresh' = FALSE
  /\ UNCHANGED <<cache, mem, pc, addressed, views, todo, queued, target, remote, faults>>

EditPeer(p, w) ==
  /\ edits < MaxEdits /\ edits' = edits + 1
  /\ cr.here /\ ~ cr.deleting /\ w # cr.want[p]
  /\ LET want == [cr.want EXCEPT ![p] = w]
     IN  ValidatePeers(want) /\ UserWrites([cr EXCEPT !.want = want, !.gen = @ + 1])

UserDeletes ==
  /\ cr.here /\ ~ cr.deleting
  /\ UserWrites(IF cr.finalizer THEN [cr EXCEPT !.deleting = TRUE] ELSE Gone(cr))
  /\ UNCHANGED edits

SyncCache ==
  /\ ~ synced
  /\ cache' = cr /\ synced' = TRUE /\ queued' = TRUE
  /\ UNCHANGED <<cr, pass, target, remote, edits, faults>>

\* A local target turns ready, which the watch reports ...
TargetReady(l) ==
  /\ target[l] # "ready"
  /\ target' = [target EXCEPT ![l] = "ready"] /\ queued' = TRUE
  /\ UNCHANGED <<object, pass, remote, edits, faults>>

\* ... or stops being ready or there at all.
TargetFails(l) ==
  /\ Fault /\ target[l] = "ready"
  /\ \E t \in {"missing", "pending"} : target' = [target EXCEPT ![l] = t]
  /\ queued' = TRUE
  /\ UNCHANGED <<object, pass, remote, edits>>

\* Somebody else takes a registration away.
OtherRemoves(l, p) ==
  /\ Fault /\ remote[l][p] # "absent"
  /\ remote' = [remote EXCEPT ![l][p] = "absent"] /\ meddled' = TRUE
  /\ UNCHANGED <<object, pass, queued, target, edits>>

Environment ==
  \/ UserDeletes
  \/ \E p \in Peers, w \in Wants : EditPeer(p, w)
  \/ \E l \in Locals : TargetReady(l) \/ TargetFails(l)

Init ==
  /\ cr = NewConnection /\ cache = cr /\ synced = TRUE
  /\ mem = Gone(NewConnection) /\ fresh = FALSE /\ pc = "idle"
  /\ addressed = {} /\ views = NoView /\ todo = {}
  /\ queued = TRUE
  /\ target = [l \in Locals |-> "pending"]
  /\ remote = [l \in Locals |-> [p \in Peers |-> "absent"]]
  /\ edits = 0 /\ faults = 0 /\ meddled = FALSE

Operator == Reconcile \/ AbortPass

Next ==
  \/ (Operator \/ SyncCache \/ Environment) /\ UNCHANGED meddled
  \/ \E l \in Locals, p \in Peers : OtherRemoves(l, p)

Spec == Init /\ [][Next]_vars

\* The work queue is served, the cache follows, and every target becomes ready.
Fairness ==
  /\ WF_vars(Reconcile /\ UNCHANGED meddled) /\ WF_vars(SyncCache /\ UNCHANGED meddled)
  /\ \A l \in Locals : WF_vars(TargetReady(l) /\ UNCHANGED meddled)

FairSpec == Spec /\ Fairness

-----------------------------------------------------------------------------
(* Properties.                                                             *)

Connections ==
  [here : BOOLEAN, deleting : BOOLEAN, finalizer : BOOLEAN, want : [Peers -> Wants],
   gen : 0..MaxEdits, observed : 0..MaxEdits, ready : BOOLEAN]

\* Every variable is in its range, a pass holds views of dialed members only, and an object
\* that waits for its deletion still has the finalizer that holds it.
TypeOK ==
  /\ {cr, cache, mem} \subseteq Connections
  /\ {synced, fresh, queued, meddled} \subseteq BOOLEAN
  /\ pc \in {"idle", "finalizer", "dial", "upsert", "status", "remove"}
  /\ addressed \subseteq Peers /\ todo \subseteq Locals \X Peers
  /\ DOMAIN views \subseteq Members(mem) \cap Locals
  /\ \A l \in DOMAIN views : views[l] \in [Peers -> Holds]
  /\ target \in [Locals -> {"missing", "pending", "ready"}]
  /\ remote \in [Locals -> [Peers -> Holds]]
  /\ edits \in 0..MaxEdits /\ faults \in 0..MaxFaults
  /\ cr.here /\ cr.deleting => cr.finalizer

\* While nobody else touches the services, a connection that says Ready of its present
\* generation is one where every enabled local peer has every other enabled peer as an
\* enabled remote: the views a pass edits as it goes end up being what the services hold.
ReadyMeansConnected ==
  cr.here /\ ~ cr.deleting /\ cr.ready /\ cr.observed = cr.gen
    => \A l \in Enabled(cr) \cap Locals : \A p \in Enabled(cr) \ {l} :
         remote[l][p] = "enabled" \/ meddled

\* A connection that stays and has a local peer ends up with every member registered on
\* every local member as the spec wants it, and says so, through failed calls, peers that
\* come late and registrations taken away.
Connects ==
  <>[](cr.here /\ Members(cr) \cap Locals # {}
         => /\ cr.ready /\ cr.observed = cr.gen
            /\ \A pr \in Pairs(Members(cr) \cap Locals, cr) :
                 remote[pr[1]][pr[2]] = cr.want[pr[2]])

\* A deleted connection goes, whatever its peers answer.
DeletionCompletes == cr.deleting ~> ~ cr.here
==============================================================================
