------------------------- MODULE MCTemporalCluster -------------------------
(* Small instances of TemporalCluster for TLC. *)
EXTENDS TemporalCluster

\* Adjacent minors, each reachable from the one before, each with a schema step.
TwoMinors    == 1..2
ThreeMinors  == 1..3
MinorOf      == [v \in Versions |-> v]
FromPrevious == [v \in Versions |-> {v - 1}]
SchemaOf     == [v \in Versions |-> v]

TwoRoles   == {ServiceFrontend, ServiceWorker}
ThreeRoles == TwoRoles \cup {ServiceInternalFrontend}
OneReplica == [s \in Services |-> 1]

\* A cluster whose installation at its lowest version is over and quiet: a state
\* Spec reaches, taken as the start where an upgrade is the subject.
Running ==
  LET v  == Min(Versions)
      on == EnabledServices(spec)
  IN  /\ spec \in [version : {v}, internalFrontend : BOOLEAN]
      /\ status = [NewStatus EXCEPT !.version = v, !.reachable = TRUE, !.schemaReady = TRUE,
                                    !.available = TRUE, !.ready = TRUE]
      /\ cache = [spec |-> spec, status |-> status]
      /\ synced = TRUE
      /\ mem = NoPass /\ fresh = FALSE /\ pc = "idle" /\ todo = {}
      /\ queued = FALSE
      /\ schema = MinSchema[v]
      /\ job = NoJob
      /\ dep = [s \in Services |-> IF s \in on THEN [template |-> v, observed |-> v]
                                   ELSE [template |-> None, observed |-> None]]
      /\ run = [s \in Services |-> [w \in Versions |-> IF s \in on /\ w = v THEN Replicas[s] ELSE 0]]
      /\ rdy = run
      /\ faults = 0

RunningSpec     == Running /\ [][Next]_vars
FairRunningSpec == RunningSpec /\ Fairness
=============================================================================
