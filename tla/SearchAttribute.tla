-------------------------- MODULE SearchAttribute --------------------------
(***************************************************************************)
(* The TemporalSearchAttribute reconciler: one attribute added to, and on  *)
(* deletion perhaps removed from, a namespace of a Temporal service.  The  *)
(* target and the service belong to someone else: the steps here read      *)
(* them, and a module that composes them says how they move.               *)
(***************************************************************************)
EXTENDS Naturals

CONSTANTS MaxFaults     \* bound on faults

VARIABLES
  cr,        \* the stored TemporalSearchAttribute
  cache,     \* the same as the informer cache holds it
  synced,    \* the cache holds the latest stored object
  mem,       \* the pass's copy
  fresh,     \* the copy's resourceVersion is the stored one
  pc,        \* the step the pass is at
  queued,    \* the object is in the work queue
  remote,    \* the service's attribute: absent, adding (not listed yet), visible
  target,    \* the cluster or dev server referred to, as cached: exists, ready
  up,        \* the service's frontend answers
  faults     \* faults so far

object == <<cr, cache, synced>>
pass   == <<mem, fresh, pc>>

NewAttribute(allow) ==
  [here |-> TRUE, deleting |-> FALSE, finalizer |-> FALSE, allow |-> allow,
   ready |-> FALSE]

Gone(o) == [o EXCEPT !.here = FALSE]

Fault == faults < MaxFaults /\ faults' = faults + 1

EndPass(again) ==
  /\ mem' = Gone(NewAttribute(FALSE)) /\ fresh' = FALSE /\ pc' = "idle"
  /\ queued' = (queued \/ again)

Get ==
  /\ pc = "idle" /\ queued
  /\ queued' = FALSE
  /\ IF cache.here THEN mem' = cache /\ fresh' = synced /\ pc' = "resolve" ELSE UNCHANGED pass
  /\ UNCHANGED <<object, remote, faults>>

\* Mutant: a pass that finds the attribute not ready leaves it at that.
NotReadyForgotten == mem' = [mem EXCEPT !.ready = FALSE] /\ pc' = "status"

\* setReady(False); every way into it ends with a status write and a requeue.
NotReady == mem' = [mem EXCEPT !.ready = FALSE] /\ pc' = "requeue"

\* resolveTarget and the client.  A deleted attribute whose target does not resolve, for
\* whatever reason, is forgotten.
ResolveTarget ==
  /\ pc = "resolve"
  /\ \/ target.exists /\ pc' = (IF mem.deleting THEN "delete" ELSE "finalizer")
        /\ UNCHANGED <<mem, faults>>
     \/ ~ target.exists /\ mem.deleting /\ pc' = "release" /\ UNCHANGED <<mem, faults>>
     \/ target.exists /\ mem.deleting /\ Fault /\ pc' = "release" /\ UNCHANGED mem
     \/ ~ target.exists /\ ~ mem.deleting /\ NotReady /\ UNCHANGED faults
  /\ UNCHANGED <<object, fresh, queued, remote>>

\* A write of the object by the pass: accepted if nobody wrote it since.
Store(o) ==
  /\ fresh
  /\ cr' = o
  /\ synced' = (synced /\ o = cr)
  /\ UNCHANGED cache

EnsureFinalizer ==
  /\ pc = "finalizer"
  /\ LET o == [mem EXCEPT !.finalizer = TRUE] IN
     /\ \/ mem.finalizer /\ UNCHANGED object
        \/ ~ mem.finalizer /\ Store(o)
     /\ \/ target.ready /\ mem' = o /\ pc' = "list"
        \/ ~ target.ready /\ mem' = [o EXCEPT !.ready = FALSE] /\ pc' = "requeue"
  /\ UNCHANGED <<fresh, queued, remote, faults>>

\* status.registered and registeredAt come with the first Ready and stay.
Registered == mem' = [mem EXCEPT !.ready = TRUE] /\ pc' = "status"

\* ensureRegistered asks first ...
ListAttributes ==
  /\ pc = "list" /\ up
  /\ \/ remote = "visible" /\ Registered
     \/ remote # "visible" /\ pc' = "add" /\ UNCHANGED mem
  /\ UNCHANGED <<object, fresh, queued, remote, faults>>

\* ... adds what is not listed, which the service refuses while it is at it ...
AddAttribute ==
  /\ pc = "add" /\ up
  /\ \/ remote = "absent" /\ remote' = "adding" /\ pc' = "visible" /\ UNCHANGED <<mem, fresh, queued>>
     \/ remote # "absent" /\ EndPass(TRUE) /\ UNCHANGED remote
  /\ UNCHANGED <<object, faults>>

\* ... and asks again: an attribute not listed yet, or a failed call, is not registered.
AttributeVisible ==
  /\ pc = "visible"
  /\ \/ up /\ remote = "visible" /\ Registered
     \/ ~ (up /\ remote = "visible") /\ NotReady
  /\ UNCHANGED <<object, fresh, queued, remote, faults>>

\* A transient error of List or Add.
FrontendUnavailable ==
  /\ pc \in {"list", "add"} /\ ~ up
  /\ NotReady
  /\ UNCHANGED <<object, fresh, queued, remote, faults>>

\* statusUpdate: a conflict is an error, hence a retry; success is final.
UpdateStatus ==
  /\ pc \in {"status", "requeue"}
  /\ \/ Store(mem) /\ EndPass(pc = "requeue")
     \/ ~ fresh /\ EndPass(cr.here) /\ UNCHANGED object
  /\ UNCHANGED <<remote, faults>>

\* Mutant: a deletion waits for its target to be ready.
ReconcileDeleteWaits ==
  /\ pc = "delete"
  /\ \/ ~ mem.finalizer /\ EndPass(FALSE) /\ UNCHANGED remote
     \/ mem.finalizer /\ mem.allow /\ up /\ target.ready /\ remote = "visible" /\ remote' = "absent"
        /\ pc' = "release" /\ UNCHANGED <<mem, fresh, queued>>
     \/ mem.finalizer /\ ~ mem.allow /\ pc' = "release" /\ UNCHANGED <<mem, fresh, queued, remote>>
     \/ mem.finalizer /\ mem.allow /\ ~ (up /\ target.ready /\ remote = "visible")
        /\ EndPass(FALSE) /\ UNCHANGED remote
  /\ UNCHANGED <<object, faults>>

\* reconcileDelete: any error of Remove is retried, one that says the attribute is not
\* there included.
ReconcileDelete ==
  /\ pc = "delete"
  /\ \/ ~ mem.finalizer /\ EndPass(FALSE) /\ UNCHANGED remote
     \/ mem.finalizer /\ mem.allow /\ up /\ remote = "visible" /\ remote' = "absent"
        /\ pc' = "release" /\ UNCHANGED <<mem, fresh, queued>>
     \/ mem.finalizer /\ ~ mem.allow /\ pc' = "release" /\ UNCHANGED <<mem, fresh, queued, remote>>
     \/ mem.finalizer /\ mem.allow /\ ~ (up /\ remote = "visible")
        /\ EndPass(TRUE) /\ UNCHANGED remote
  /\ UNCHANGED <<object, faults>>

\* The object goes with its last finalizer.
RemoveFinalizer ==
  /\ pc = "release"
  /\ \/ ~ mem.finalizer /\ UNCHANGED object
     \/ mem.finalizer /\ Store(Gone(mem))
  /\ EndPass(FALSE)
  /\ UNCHANGED <<remote, faults>>

\* The finalizer writes meet a newer object.
Conflict ==
  /\ pc \in {"finalizer", "release"} /\ ~ fresh
  /\ mem.finalizer <=> pc = "release"
  /\ EndPass(TRUE)
  /\ UNCHANGED <<object, remote, faults>>

\* Any other error of a call.
AbortPass ==
  /\ pc \notin {"idle", "visible"}
  /\ Fault
  /\ EndPass(TRUE)
  /\ UNCHANGED <<object, remote>>

Reconcile ==
  \/ Get
  \/ ResolveTarget
  \/ EnsureFinalizer
  \/ ListAttributes
  \/ AddAttribute
  \/ AttributeVisible
  \/ FrontendUnavailable
  \/ UpdateStatus
  \/ ReconcileDelete
  \/ RemoveFinalizer
  \/ Conflict

SyncCache ==
  /\ ~ synced
  /\ cache' = cr /\ synced' = TRUE /\ queued' = TRUE
  /\ UNCHANGED <<cr, pass, remote, faults>>

\* kubectl delete: without the finalizer the object goes at once.
UserDeletes ==
  /\ cr.here /\ ~ cr.deleting
  /\ cr' = IF cr.finalizer THEN [cr EXCEPT !.deleting = TRUE] ELSE Gone(cr)
  /\ synced' = FALSE /\ fresh' = FALSE
  /\ UNCHANGED <<cache, mem, pc, queued, remote, faults>>

\* The service's own workflow makes an added attribute visible.
BecomesVisible ==
  /\ remote = "adding" /\ up
  /\ remote' = "visible"
  /\ UNCHANGED <<object, pass, queued, faults>>

Init ==
  /\ cr \in {NewAttribute(a) : a \in BOOLEAN}
  /\ cache = cr /\ synced = TRUE
  /\ mem = Gone(NewAttribute(FALSE)) /\ fresh = FALSE /\ pc = "idle" /\ queued = TRUE
  /\ remote = "absent" /\ faults = 0
=============================================================================
