------------------------- MODULE PersistenceProofs -------------------------
(***************************************************************************)
(* Proofs about Persistence, for every version matrix, every assignment of *)
(* drivers to the two stores and any number of faults: the safety          *)
(* properties, and that the stage implements Migration.                    *)
(***************************************************************************)
EXTENDS Persistence, TLAPS

Schemas  == SchemaVersions \cup {NoSchema}
Answers  == [reachable : BOOLEAN, version : Schemas]
Reach    == {"unknown", "unreachable", "inspecting", "reachable"}
Statuses == [reachable : Reach,
             schema : {"unknown", "migrating", "failed", "ready"}, of : Versions \cup {0}]
Jobs     == [image : Versions \cup {0},
             state : {"absent", "running", "succeeded", "failed", "deleting"}]
Passes   == [version : Versions \cup {0}, status : Statuses]
Inspected == [state : {"absent", "running", "complete", "failed", "deleting"},
              answer : SUBSET Answers, old : SUBSET Answers]

\* The ranges; a pass has a version, and so has a Job that is there.
TypeOK ==
  /\ spec \in Versions /\ driver \in [Stores -> Drivers] /\ at \in Stores /\ moving \in BOOLEAN
  /\ pc \in {"idle", "probe", "schema", "setup", "update", "drop", "status", "requeue"}
  /\ status \in Statuses
  /\ mem \in Passes
  /\ pc # "idle" => mem.version \in Versions
  /\ report \in [Stores -> Answers]
  /\ db \in [Stores -> Schemas]
  /\ jobs \in [Stores -> [Actions -> Jobs]]
  /\ \A s \in Stores, a \in Actions : jobs[s][a].state # "absent" => jobs[s][a].image \in Versions
  /\ stray \in [Stores -> SUBSET Versions]
  /\ insp \in [Stores -> Inspected]

\* An answer about a store that promises no more than the store has.
Honest(s, v) == v = NoSchema \/ (db[s] # NoSchema /\ Number(v) <= Number(db[s]))

\* Whoever answers, and however long ago, the store has that much; a succeeded Job has done
\* its work, for the version of its image; no Job is about an index template.
StoreInv ==
  \A s \in Stores :
    /\ Honest(s, report[s].version)
    /\ \A r \in InspectorPods(s) : Honest(s, r.version)
    /\ \A a \in Actions : jobs[s][a].state # "absent" => driver[s] # "elasticsearch"
    /\ jobs[s]["update"].state # "absent" => db[s] # NoSchema
    /\ jobs[s]["setup"].state = "succeeded" => db[s] # NoSchema
    /\ jobs[s]["update"].state = "succeeded" => Satisfied(s, jobs[s]["update"].image)

AtSchema == pc \in {"schema", "setup", "update", "drop"}

\* A pass is past a store only when the store is done, or it remembers that it is not.
PassInv ==
  /\ pc \in {"setup", "update", "drop"} => driver[at] # "elasticsearch"
  /\ pc = "update" => db[at] # NoSchema
  /\ pc = "drop" => Satisfied(at, mem.version)
  /\ AtSchema /\ at = "visibility" /\ ~ moving => Satisfied("default", mem.version)

Announced(st) ==
  st.schema = "ready" => st.of \in Versions /\ \A s \in Stores : Satisfied(s, st.of)

\* The stored verdict is right, and so is the one a pass carries.
ReadyInv == Announced(status) /\ Announced(mem.status)

PersistenceInv == TypeOK /\ StoreInv /\ PassInv /\ ReadyInv

-----------------------------------------------------------------------------
(* Schema versions.                                                        *)

LEMMA SchemaLength ==
  /\ NoSchema \in Seq(Parts) /\ Len(NoSchema) = 0
  /\ \A v \in SchemaVersions : v \in Schemas /\ v # NoSchema
  /\ \A v \in Schemas : v \in Seq(Parts) /\ Len(v) \in 0..2
  <1>1. NoSchema \in Seq(Parts) /\ Len(NoSchema) = 0
    BY DEF NoSchema
  <1>2. ASSUME NEW v \in SchemaVersions PROVE v \in Seq(Parts) /\ Len(v) \in 1..2
    BY Zenon DEF SchemaVersions
  <1>3. ASSUME NEW v \in SchemaVersions PROVE v \in Schemas /\ v # NoSchema
    <2>1. Len(v) # 0
      BY <1>2
    <2> QED BY <1>1, <2>1, Zenon DEF Schemas
  <1>4. ASSUME NEW v \in Schemas PROVE v \in Seq(Parts) /\ Len(v) \in 0..2
    <2>1. CASE v = NoSchema
      BY <1>1, <2>1
    <2>2. CASE v \in SchemaVersions
      BY <1>2, <2>2
    <2> QED BY <2>1, <2>2, Zenon DEF Schemas
  <1> QED BY <1>1, <1>3, <1>4, Zenon

\* A component that is there or counts as zero; only the first two can be there.
LEMMA Components ==
  ASSUME NEW v \in Schemas
  PROVE  /\ Len(v) \in 0..2
         /\ ComponentAt(v, 1) \in Parts /\ ComponentAt(v, 2) \in Parts
         /\ Number(v) \in Nat
         /\ Len(v) < 2 => ComponentAt(v, 2) = 0
         /\ Len(v) < 1 => ComponentAt(v, 1) = 0
  <1>1. v \in Seq(Parts) /\ Len(v) \in 0..2
    BY SchemaLength, Zenon
  <1>0. \A i \in 1..Len(v) : v[i] \in Parts
    BY <1>1
  <1>a. PICK n \in 0..2 : n = Len(v)
    BY <1>1, Zenon
  <1>b. (\A i \in 1..n : v[i] \in Parts) /\ 0 \in Parts
    BY <1>0, <1>a DEF Parts
  <1>c. \A i \in 1..2 : ComponentAt(v, i) = IF i <= n THEN v[i] ELSE 0
    BY <1>a, Zenon DEF ComponentAt
  <1>d. (n >= 1 => 1 \in 1..n) /\ (n >= 2 => 2 \in 1..n)
    BY <1>a
  <1>2. ComponentAt(v, 1) \in Parts /\ ComponentAt(v, 2) \in Parts
    BY <1>b, <1>c, <1>d
  <1>3. Number(v) \in Nat
    <2> DEFINE x == ComponentAt(v, 1)  y == ComponentAt(v, 2)
    <2>1. Number(v) = 1000 * x + y
      BY Zenon DEF Number
    <2>2. x \in Parts /\ y \in Parts
      BY <1>2, Zenon
    <2> HIDE DEF x, y
    <2>3. x \in Nat /\ y \in Nat
      BY <2>2 DEF Parts
    <2> QED BY <2>1, <2>3
  <1>4. (Len(v) < 2 => ComponentAt(v, 2) = 0) /\ (Len(v) < 1 => ComponentAt(v, 1) = 0)
    BY <1>a, <1>c
  <1> QED BY <1>1, <1>2, <1>3, <1>4, Zenon

LEMMA NumberType == ASSUME NEW v \in Schemas PROVE Number(v) \in Nat
  BY Components, Zenon

\* The longer of two versions has at most two parts.
LEMMA Longer ==
  ASSUME NEW a \in 0..2, NEW b \in 0..2
  PROVE  Max({a, b}) \in 0..2 /\ Max({a, b}) >= a /\ Max({a, b}) >= b
  <1>1. \E x \in {a, b} : \A y \in {a, b} : x >= y
    OBVIOUS
  <1>2. Max({a, b}) \in {a, b} /\ \A y \in {a, b} : Max({a, b}) >= y
    BY <1>1, Zenon DEF Max
  <1> QED BY <1>2, Zenon

\* CompareSchemaVersions orders the versions as the numbers they stand for.
LEMMA CompareIsNumber ==
  ASSUME NEW a \in Schemas, NEW b \in Schemas
  PROVE  CompareLess(a, b) <=> Number(a) < Number(b)
  <1> DEFINE a1 == ComponentAt(a, 1)  a2 == ComponentAt(a, 2)
             b1 == ComponentAt(b, 1)  b2 == ComponentAt(b, 2)
             m  == Max({Len(a), Len(b)})
  <1>1. /\ a1 \in Parts /\ a2 \in Parts /\ b1 \in Parts /\ b2 \in Parts
        /\ (Len(a) < 2 => a2 = 0) /\ (Len(a) < 1 => a1 = 0)
        /\ (Len(b) < 2 => b2 = 0) /\ (Len(b) < 1 => b1 = 0)
        /\ Len(a) \in 0..2 /\ Len(b) \in 0..2
    <2>1. a1 \in Parts /\ a2 \in Parts /\ (Len(a) < 2 => a2 = 0) /\ (Len(a) < 1 => a1 = 0) /\ Len(a) \in 0..2
      BY Components, Zenon
    <2>2. b1 \in Parts /\ b2 \in Parts /\ (Len(b) < 2 => b2 = 0) /\ (Len(b) < 1 => b1 = 0) /\ Len(b) \in 0..2
      BY Components, Zenon
    <2> QED BY <2>1, <2>2, Zenon
  <1>2. m \in 0..2 /\ m >= Len(a) /\ m >= Len(b)
    <2>1. Len(a) \in 0..2 /\ Len(b) \in 0..2
      BY <1>1, Zenon
    <2> QED BY <2>1, Longer, Zenon
  <1>3. (Number(a) < Number(b)) <=> (a1 < b1 \/ (a1 = b1 /\ a2 < b2))
    <2>1. Number(a) = 1000 * a1 + a2 /\ Number(b) = 1000 * b1 + b2
      BY Zenon DEF Number
    <2> HIDE DEF a1, a2, b1, b2
    <2>2. a1 \in 0..999 /\ a2 \in 0..999 /\ b1 \in 0..999 /\ b2 \in 0..999
      BY <1>1 DEF Parts
    <2> QED BY <2>1, <2>2
  <1>4. CompareLess(a, b) <=> \E i \in 1..m : /\ ComponentAt(a, i) < ComponentAt(b, i)
                                              /\ \A j \in 1..(i - 1) : ComponentAt(a, j) = ComponentAt(b, j)
    BY Zenon DEF CompareLess
  <1>5. a1 < b1 => 1 \in 1..m
    <2> HIDE DEF a1, a2, b1, b2, m
    <2>1. Len(a) >= 1 \/ Len(b) >= 1 \/ (a1 = 0 /\ b1 = 0)
      BY <1>1
    <2> QED BY <1>1, <1>2, <2>1
  <1>6. a2 < b2 => 2 \in 1..m
    <2> HIDE DEF a1, a2, b1, b2, m
    <2>1. Len(a) >= 2 \/ Len(b) >= 2 \/ (a2 = 0 /\ b2 = 0)
      BY <1>1
    <2> QED BY <1>1, <1>2, <2>1
  <1>7. ASSUME NEW i \in 1..m PROVE i = 1 \/ i = 2
    <2> HIDE DEF m
    <2> QED BY <1>2
  <1>8. 1..(1 - 1) = {} /\ 1..(2 - 1) = {1}
    OBVIOUS
  <1> HIDE DEF m
  <1>9. CompareLess(a, b) <=> (a1 < b1 \/ (a1 = b1 /\ a2 < b2))
    <2>1. ASSUME CompareLess(a, b) PROVE a1 < b1 \/ (a1 = b1 /\ a2 < b2)
      <3>1. PICK i \in 1..m : /\ ComponentAt(a, i) < ComponentAt(b, i)
                              /\ \A j \in 1..(i - 1) : ComponentAt(a, j) = ComponentAt(b, j)
        BY <1>4, <2>1, Zenon
      <3> QED BY <1>7, <1>8, <3>1, Zenon
    <2>2. ASSUME a1 < b1 PROVE CompareLess(a, b)
      BY <1>4, <1>5, <1>8, <2>2, Zenon
    <2>3. ASSUME a1 = b1, a2 < b2 PROVE CompareLess(a, b)
      BY <1>4, <1>6, <1>8, <2>3, Zenon
    <2> QED BY <2>1, <2>2, <2>3, Zenon
  <1> QED BY <1>3, <1>9, Zenon

\* What SchemaSatisfies answers, in numbers.
LEMMA SatisfiesIsNumber ==
  ASSUME NEW c \in Schemas, NEW m \in Schemas
  PROVE  SchemaSatisfies(c, m) <=> c # NoSchema /\ Number(c) >= Number(m)
  BY NumberType, CompareIsNumber DEF SchemaSatisfies

\* Every requirement of the matrix is a version, "" is none, and the template meets them.
LEMMA MinSchemaType ==
  ASSUME TypeOK, NEW v \in Versions, NEW s \in Stores
  PROVE  /\ MinSchemaFor(v, s) \in Schemas /\ MinSchemaFor(v, s) # NoSchema
         /\ Number(MinSchemaFor(v, s)) \in Nat
         /\ driver[s] = "elasticsearch" => Number(EsVersion) >= Number(MinSchemaFor(v, s))
  <1>1. driver[s] \in Drivers
    BY Zenon DEF TypeOK
  <1>2. MinSchemaFor(v, s) \in SchemaVersions
    BY <1>1, SchemaAssumption, Zenon DEF MinSchemaFor
  <1>3. MinSchemaFor(v, s) \in Schemas /\ MinSchemaFor(v, s) # NoSchema
    BY <1>2, SchemaLength, Zenon
  <1>4. driver[s] = "elasticsearch" => Number(EsVersion) >= Number(MinSchemaFor(v, s))
    BY SchemaAssumption, Zenon DEF MinSchemaFor
  <1> QED BY <1>3, <1>4, NumberType, Zenon

LEMMA SchemaConstants ==
  /\ EsVersion \in Schemas /\ EsVersion # NoSchema /\ Number(EsVersion) \in Nat
  /\ Bootstrap \in Schemas /\ Bootstrap # NoSchema /\ Number(Bootstrap) = 0
  /\ NoSchema \in Schemas
  <1>1. EsVersion \in Schemas /\ EsVersion # NoSchema
    BY SchemaAssumption, SchemaLength, Zenon
  <1>2. Bootstrap \in Schemas /\ Bootstrap # NoSchema
    <2>1. Bootstrap \in Seq(Parts) /\ Len(Bootstrap) = 2
      BY DEF Bootstrap, Parts
    <2>2. Bootstrap \in SchemaVersions
      BY <2>1 DEF SchemaVersions
    <2> QED BY <2>2, SchemaLength, Zenon
  <1>3. Number(Bootstrap) = 0
    BY DEF Bootstrap, Number, ComponentAt
  <1> QED BY <1>1, <1>2, <1>3, NumberType, Zenon DEF Schemas

-----------------------------------------------------------------------------
(* The values the steps write.                                             *)

\* setReachable and setInspecting change one condition, setSchemaReady the other.
LEMMA ReachableSet ==
  ASSUME NEW m \in Passes, NEW why \in Reach
  PROVE  /\ [m EXCEPT !.status.reachable = why] \in Passes
         /\ [m EXCEPT !.status.reachable = why].version = m.version
         /\ [m EXCEPT !.status.reachable = why].status.schema = m.status.schema
         /\ [m EXCEPT !.status.reachable = why].status.of = m.status.of
  <1> DEFINE st == [m.status EXCEPT !.reachable = why]
  <1>1. m.status \in Statuses /\ m.version \in Versions \cup {0}
    BY Zenon DEF Passes
  <1>2. st \in Statuses /\ st.schema = m.status.schema /\ st.of = m.status.of
    BY <1>1, Zenon DEF Statuses
  <1> HIDE DEF st
  <1>3. [m EXCEPT !.status = st] \in Passes /\ [m EXCEPT !.status = st].version = m.version
        /\ [m EXCEPT !.status = st].status = st
    BY <1>1, <1>2, Zenon DEF Passes
  <1>4. [m EXCEPT !.status.reachable = why] = [m EXCEPT !.status = st]
    BY Zenon DEF st
  <1> QED BY <1>2, <1>3, <1>4, Zenon

LEMMA SchemaSet ==
  ASSUME NEW how \in {"migrating", "failed", "ready"}, mem \in Passes, SetSchemaReady(how)
  PROVE  /\ mem' \in Passes /\ mem'.version = mem.version
         /\ mem'.status.schema = how /\ mem'.status.of = mem.version
  <1> DEFINE st == [mem.status EXCEPT !.schema = how, !.of = mem.version]
  <1>1. mem.status \in Statuses /\ mem.version \in Versions \cup {0}
    BY Zenon DEF Passes
  <1>2. st \in Statuses /\ st.schema = how /\ st.of = mem.version
    BY <1>1, Zenon DEF Statuses
  <1>3. mem' = [mem EXCEPT !.status = st]
    BY <1>1, Zenon DEF SetSchemaReady, Passes, Statuses
  <1> HIDE DEF st
  <1> QED BY <1>1, <1>2, <1>3, Zenon DEF Passes

LEMMA Constants ==
  /\ NoPass \in Passes /\ NoPass.status = NoStatus /\ NoStatus \in Statuses
  /\ NoStatus.schema = "unknown"
  /\ Unread \in Answers /\ Unread.version = NoSchema
  /\ NoJob \in Jobs /\ NoJob.state = "absent"
  /\ NoInspector \in Inspected /\ NoInspector.answer = {} /\ NoInspector.old = {}
  <1>1. NoStatus \in Statuses /\ NoStatus.schema = "unknown"
    BY Zenon DEF NoStatus, Statuses, Reach
  <1>2. NoPass \in Passes /\ NoPass.status = NoStatus
    BY <1>1, Zenon DEF NoPass, Passes
  <1>3. Unread \in Answers /\ Unread.version = NoSchema
    BY SchemaConstants, Zenon DEF Unread, Answers
  <1>4. NoJob \in Jobs /\ NoJob.state = "absent"
    BY Zenon DEF NoJob, Jobs
  <1>5. NoInspector \in Inspected /\ NoInspector.answer = {} /\ NoInspector.old = {}
    BY Zenon DEF NoInspector, Inspected
  <1> QED BY <1>1, <1>2, <1>3, <1>4, <1>5, Zenon

\* A store's result moves the pass to the other store, or ends the stage.
LEMMA StoreResultEffect ==
  ASSUME TypeOK, NEW done \in BOOLEAN, StoreResult(done)
  PROVE  /\ at' \in Stores /\ moving' \in BOOLEAN /\ mem' \in Passes /\ mem'.version = mem.version
         /\ pc' \in {"schema", "requeue", "status"}
         /\ \/ /\ at = "default" /\ at' = "visibility" /\ pc' = "schema" /\ UNCHANGED mem
               /\ ~ moving' => done
            \/ at = "visibility" /\ pc' = "requeue" /\ mem'.status.schema = "migrating"
            \/ /\ at = "visibility" /\ pc' = "status" /\ mem'.status.schema = "ready"
               /\ mem'.status.of = mem.version /\ ~ moving /\ done
  <1>0. mem \in Passes /\ at \in Stores /\ moving \in BOOLEAN
    BY Zenon DEF TypeOK
  <1>1. moving' = (moving \/ ~ done)
    BY Zenon DEF StoreResult
  <1>2. moving' \in BOOLEAN /\ (~ moving' => ~ moving /\ done)
    BY <1>0, <1>1, Zenon
  <1>3. CASE at = "default" /\ at' = "visibility" /\ pc' = "schema" /\ UNCHANGED mem
    BY <1>0, <1>2, <1>3, Zenon DEF Stores
  <1>4. CASE at = "visibility" /\ UNCHANGED at /\ SetSchemaReady("migrating") /\ pc' = "requeue"
    BY <1>0, <1>2, <1>4, SchemaSet, Zenon
  <1>5. CASE at = "visibility" /\ UNCHANGED at /\ ~ moving' /\ SetSchemaReady("ready") /\ pc' = "status"
    BY <1>0, <1>2, <1>5, SchemaSet, Zenon
  <1> QED BY <1>3, <1>4, <1>5, Zenon DEF StoreResult

\* What everyone but the operator leaves alone.
LEMMA EnvironmentFrame ==
  ASSUME Tools \/ Inspectors \/ GarbageCollector \/ Failures \/ EditVersion
  PROVE  UNCHANGED <<driver, status, mem, pc, at, report, moving>>
  BY Zenon DEF Tools, Inspectors, GarbageCollector, Failures, EditVersion, ToolRuns, JobSucceeds, JobExpires,
         JobGone, StrayEnds, InspectorAnswers, InspectorExpires, InspectorGone, OldPodsGone, JobFails,
         InspectorFails, InspectorPodLost, pass

\* The range of a pass's own state.
PassTypeOK ==
  /\ at \in Stores /\ moving \in BOOLEAN
  /\ pc \in {"idle", "probe", "schema", "setup", "update", "drop", "status", "requeue"}
  /\ mem \in Passes
  /\ pc # "idle" => mem.version \in Versions

LEMMA EndPassType ==
  ASSUME NEW again, EndPass(again)
  PROVE  PassTypeOK' /\ mem' = NoPass /\ pc' = "idle" /\ report' = [s \in Stores |-> Unread]
  BY Constants, Zenon DEF EndPass, PassTypeOK, Stores

LEMMA ProbedType ==
  ASSUME TypeOK, pc = "probe", Probed
  PROVE  /\ PassTypeOK' \/ moving' \notin BOOLEAN
         /\ mem'.status.schema = mem.status.schema /\ mem'.status.of = mem.status.of
         /\ mem'.version = mem.version
         /\ pc' = "probe" \/ (pc' = "schema" /\ at' = "default")
  <1>1. mem \in Passes /\ mem.version \in Versions
    BY Zenon DEF TypeOK
  <1>2. CASE at = "default" /\ at' = "visibility" /\ UNCHANGED <<mem, pc>>
    BY <1>1, <1>2, Zenon DEF PassTypeOK, Stores
  <1>3. CASE /\ at = "visibility" /\ at' = "default" /\ pc' = "schema"
             /\ mem' = [mem EXCEPT !.status.reachable = "reachable"]
    BY <1>1, <1>3, ReachableSet, Zenon DEF PassTypeOK, Stores, Reach
  <1> QED BY <1>2, <1>3, Zenon DEF Probed

LEMMA UnreachableType ==
  ASSUME TypeOK, pc = "probe", NEW why \in {"unreachable", "inspecting"}, Unreachable(why), UNCHANGED <<at, moving>>
  PROVE  /\ PassTypeOK'
         /\ mem'.status.schema = mem.status.schema /\ mem'.status.of = mem.status.of
         /\ pc' = "requeue"
  <1>1. mem \in Passes /\ mem.version \in Versions /\ at \in Stores /\ moving \in BOOLEAN
    BY Zenon DEF TypeOK
  <1>2. mem' = [mem EXCEPT !.status.reachable = why] /\ pc' = "requeue" /\ why \in Reach
    BY Zenon DEF Unreachable, Reach
  <1>3. /\ mem' \in Passes /\ mem'.version = mem.version
        /\ mem'.status.schema = mem.status.schema /\ mem'.status.of = mem.status.of
    BY <1>1, <1>2, ReachableSet, Zenon
  <1> QED BY <1>1, <1>2, <1>3, Zenon DEF PassTypeOK

-----------------------------------------------------------------------------
(* The stores only ever move up.                                           *)

Grown(old, new) == new = old \/ (new # NoSchema /\ (old = NoSchema \/ Number(old) <= Number(new)))

\* The tools, for any version.
LEMMA ToolGrows ==
  ASSUME TypeOK, NEW s \in Stores, NEW a \in Actions, NEW v \in Versions
  PROVE  ToolResult(s, a, v) \in Schemas /\ Grown(db[s], ToolResult(s, a, v))
  <1>1. db[s] \in Schemas /\ Number(db[s]) \in Nat
    BY NumberType, Zenon DEF TypeOK
  <1>2. CASE a = "setup"
    BY <1>1, <1>2, SchemaConstants, Zenon DEF ToolResult, Grown
  <1>3. CASE a # "setup"
    <2>1. CASE db[s] = NoSchema \/ Satisfied(s, v)
      BY <1>1, <1>3, <2>1, Zenon DEF ToolResult, Grown
    <2>2. CASE ~ (db[s] = NoSchema \/ Satisfied(s, v))
      <3>1. ToolResult(s, a, v) = MinSchemaFor(v, s)
        BY <1>3, <2>2, Zenon DEF ToolResult
      <3>2. Number(db[s]) <= Number(MinSchemaFor(v, s))
        BY <1>1, <2>2, MinSchemaType DEF Satisfied
      <3> QED BY <3>1, <3>2, MinSchemaType, Zenon DEF Grown
    <2> QED BY <2>1, <2>2, Zenon
  <1> QED BY <1>2, <1>3, Zenon

\* The index template, put where it was missing or did not do.
LEMMA InlineGrows ==
  ASSUME TypeOK, pc = "schema", driver[at] = "elasticsearch",
         ~ SchemaSatisfies(db[at], MinSchemaFor(mem.version, at))
  PROVE  EsVersion \in Schemas /\ Grown(db[at], EsVersion)
  <1>1. db[at] \in Schemas /\ Number(db[at]) \in Nat /\ mem.version \in Versions /\ at \in Stores
    BY NumberType, Zenon DEF TypeOK
  <1>2. /\ MinSchemaFor(mem.version, at) \in Schemas /\ Number(MinSchemaFor(mem.version, at)) \in Nat
        /\ Number(EsVersion) >= Number(MinSchemaFor(mem.version, at))
    BY <1>1, MinSchemaType, Zenon
  <1>3. db[at] = NoSchema \/ Number(db[at]) < Number(MinSchemaFor(mem.version, at))
    BY <1>1, <1>2, SatisfiesIsNumber
  <1> QED BY <1>1, <1>2, <1>3, SchemaConstants DEF Grown

LEMMA DbStep ==
  ASSUME TypeOK, [Next]_vars
  PROVE  /\ UNCHANGED driver /\ db' \in [Stores -> Schemas]
         /\ \A s \in Stores : Grown(db[s], db'[s])
  <1> USE DEF pass, kube
  <1>0. db \in [Stores -> Schemas] /\ at \in Stores
    BY Zenon DEF TypeOK
  <1>1. ASSUME UNCHANGED <<driver, db>> PROVE db' \in [Stores -> Schemas] /\ \A s \in Stores : Grown(db[s], db'[s])
    BY <1>0, <1>1, Zenon DEF Grown
  <1>2. ASSUME NEW s \in Stores, NEW new \in Schemas, Grown(db[s], new), db' = [db EXCEPT ![s] = new]
        PROVE  db' \in [Stores -> Schemas] /\ \A t \in Stores : Grown(db[t], db'[t])
    BY <1>0, <1>2, Zenon DEF Grown
  <1>3. CASE ReconcileStoreSchema
    <2>1. PICK current \in {db[at], report[at].version, NoSchema} :
            /\ ReadsVersion(current)
            /\ \/ UNCHANGED db
               \/ ~ SchemaSatisfies(current, MinSchemaFor(mem.version, at)) /\ EnsureSchemaInline
      BY <1>3, Zenon DEF ReconcileStoreSchema
    <2>2. UNCHANGED driver /\ pc = "schema"
      BY <1>3, Zenon DEF ReconcileStoreSchema
    <2>3. CASE UNCHANGED db
      BY <1>1, <2>2, <2>3, Zenon
    <2>4. CASE ~ SchemaSatisfies(current, MinSchemaFor(mem.version, at)) /\ EnsureSchemaInline
      <3>1. driver[at] = "elasticsearch" /\ db' = [db EXCEPT ![at] = EsVersion]
        BY <2>4, Zenon DEF EnsureSchemaInline
      <3>2. current = db[at]
        BY <2>1, <3>1, Zenon DEF ReadsVersion, SQLVersion, CassandraVersion, ElasticsearchVersion, InspectorVersion
      <3>3. EsVersion \in Schemas /\ Grown(db[at], EsVersion)
        BY <2>2, <2>4, <3>1, <3>2, InlineGrows, Zenon
      <3> QED BY <1>0, <1>2, <2>2, <3>1, <3>3, Zenon
    <2> QED BY <2>1, <2>3, <2>4, Zenon
  <1>4. ASSUME NEW s \in Stores, NEW a \in Actions, ToolRuns(s, a)
        PROVE  UNCHANGED driver /\ db' \in [Stores -> Schemas] /\ \A t \in Stores : Grown(db[t], db'[t])
    <2>1. jobs[s][a].image \in Versions
      BY <1>4, Zenon DEF ToolRuns, TypeOK
    <2>2. /\ ToolResult(s, a, jobs[s][a].image) \in Schemas
          /\ Grown(db[s], ToolResult(s, a, jobs[s][a].image))
      BY <2>1, ToolGrows, Zenon
    <2> QED BY <1>2, <1>4, <2>2, Zenon DEF ToolRuns
  <1>5. ASSUME NEW s \in Stores, NEW v \in stray[s], StrayEnds(s, v)
        PROVE  UNCHANGED driver /\ db' \in [Stores -> Schemas] /\ \A t \in Stores : Grown(db[t], db'[t])
    <2>1. v \in Versions
      BY <1>5, Zenon DEF TypeOK
    <2>2. ToolResult(s, "update", v) \in Schemas /\ Grown(db[s], ToolResult(s, "update", v))
      BY <2>1, ToolGrows, Zenon DEF Actions
    <2>3. UNCHANGED driver /\ (UNCHANGED db \/ db' = [db EXCEPT ![s] = ToolResult(s, "update", v)])
      BY <1>5, Zenon DEF StrayEnds
    <2> QED BY <1>1, <1>2, <2>2, <2>3, Zenon
  <1>6. CASE \/ Get \/ ProbeDirectly \/ ProbeInspected \/ EnsureSchemaJob \/ DeleteInspectorJob
             \/ UpdateStatus \/ ProbeFails \/ AbortPass
    BY <1>1, <1>6, Zenon DEF Get, ProbeDirectly, ProbeInspected, EnsureSchemaJob, DeleteInspectorJob, UpdateStatus,
                      ProbeFails, AbortPass
  <1>7. CASE \E s \in Stores, a \in Actions : JobSucceeds(s, a) \/ JobExpires(s, a) \/ JobGone(s, a) \/ JobFails(s, a)
    BY <1>1, <1>7, Zenon DEF JobSucceeds, JobExpires, JobGone, JobFails
  <1>8. CASE Inspectors \/ GarbageCollector \/ EditVersion \/ \E s \in Stores : InspectorFails(s) \/ InspectorPodLost(s)
    BY <1>1, <1>8, Zenon DEF Inspectors, GarbageCollector, EditVersion, InspectorFails, InspectorPodLost,
                      InspectorAnswers, InspectorExpires, InspectorGone, OldPodsGone
  <1>9. CASE UNCHANGED vars
    BY <1>1, <1>9, Zenon DEF vars
  <1> QED BY <1>3, <1>4, <1>5, <1>6, <1>7, <1>8, <1>9, Zenon DEF Next, Reconcile, Tools, Failures

\* Hence what a store satisfies it goes on to satisfy, and an answer stays good.
LEMMA Keeps ==
  ASSUME TypeOK, [Next]_vars, NEW s \in Stores
  PROVE  /\ \A v \in Versions : Satisfied(s, v) => Satisfied(s, v)'
         /\ \A x \in Schemas : Honest(s, x) => Honest(s, x)'
         /\ db[s] # NoSchema => db'[s] # NoSchema
  <1>1. UNCHANGED driver /\ Grown(db[s], db'[s]) /\ db[s] \in Schemas /\ db'[s] \in Schemas
    BY DbStep, Zenon DEF TypeOK
  <1>2. Number(db[s]) \in Nat /\ Number(db'[s]) \in Nat
    BY <1>1, NumberType, Zenon
  <1>3. db[s] # NoSchema => db'[s] # NoSchema /\ Number(db[s]) <= Number(db'[s])
    BY <1>1, <1>2 DEF Grown
  <1>4. ASSUME NEW v \in Versions, Satisfied(s, v) PROVE Satisfied(s, v)'
    <2>1. PICK m : m = MinSchemaFor(v, s) /\ m = MinSchemaFor(v, s)'
      BY <1>1, Zenon DEF MinSchemaFor
    <2>2. Number(m) \in Nat
      BY <2>1, MinSchemaType, Zenon
    <2>3. db[s] # NoSchema /\ Number(db[s]) >= Number(m)
      BY <1>4, <2>1, Zenon DEF Satisfied
    <2>4. db'[s] # NoSchema /\ Number(db'[s]) >= Number(m)
      BY <1>2, <1>3, <2>2, <2>3
    <2> QED BY <2>1, <2>4, Zenon DEF Satisfied
  <1>5. ASSUME NEW x \in Schemas, Honest(s, x) PROVE Honest(s, x)'
    <2>1. Number(x) \in Nat
      BY NumberType, Zenon
    <2> QED BY <1>2, <1>3, <1>5, <2>1 DEF Honest
  <1> QED BY <1>3, <1>4, <1>5, Zenon

-----------------------------------------------------------------------------
(* The pass.                                                               *)

\* A verdict that was right stays right.
LEMMA AnnouncedKept ==
  ASSUME TypeOK, [Next]_vars, NEW how, NEW of, how = "ready" => of \in Versions /\ \A s \in Stores : Satisfied(s, of)
  PROVE  how = "ready" => of \in Versions /\ \A s \in Stores : Satisfied(s, of)'
  BY Keeps, Zenon

LEMMA ReadyFrame ==
  ASSUME TypeOK, ReadyInv, [Next]_vars,
         \/ status'.schema = status.schema /\ status'.of = status.of
         \/ status'.schema = mem.status.schema /\ status'.of = mem.status.of,
         \/ mem'.status.schema = status.schema /\ mem'.status.of = status.of
         \/ mem'.status.schema = mem.status.schema /\ mem'.status.of = mem.status.of
         \/ mem'.status.schema # "ready"
  PROVE  ReadyInv'
  <1>1. PICK a, b, c, d : a = status.schema /\ b = status.of /\ c = mem.status.schema /\ d = mem.status.of
    BY Zenon
  <1>2. /\ (a = "ready" => b \in Versions /\ \A s \in Stores : Satisfied(s, b))
        /\ (c = "ready" => d \in Versions /\ \A s \in Stores : Satisfied(s, d))
    BY <1>1, Zenon DEF ReadyInv, Announced
  <1>3. /\ (a = "ready" => b \in Versions /\ \A s \in Stores : Satisfied(s, b)')
        /\ (c = "ready" => d \in Versions /\ \A s \in Stores : Satisfied(s, d)')
    BY <1>2, AnnouncedKept, Zenon
  <1>4. PICK e, f, g, h : e = status'.schema /\ f = status'.of /\ g = mem'.status.schema /\ h = mem'.status.of
    BY Zenon
  <1>5. (e = a /\ f = b) \/ (e = c /\ f = d)
    BY <1>1, <1>4, Zenon
  <1>6. (g = a /\ h = b) \/ (g = c /\ h = d) \/ g # "ready"
    BY <1>1, <1>4, Zenon
  <1>7. /\ (e = "ready" => f \in Versions /\ \A s \in Stores : Satisfied(s, f)')
        /\ (g = "ready" => h \in Versions /\ \A s \in Stores : Satisfied(s, h)')
    BY <1>3, <1>5, <1>6, Zenon
  <1> QED BY <1>4, <1>7, Zenon DEF ReadyInv, Announced

\* The steps of everyone else leave a pass as right as it was.
LEMMA PassFrame ==
  ASSUME TypeOK, PassInv, [Next]_vars, UNCHANGED <<mem, pc, at, moving>>
  PROVE  PassInv'
  <1>1. PICK v, w : v = mem.version /\ w = at
    BY Zenon
  <1>2. at \in Stores /\ "default" \in Stores /\ (pc # "idle" => mem.version \in Versions)
    BY Zenon DEF TypeOK, Stores
  <1>3. UNCHANGED driver
    BY DbStep, Zenon
  <1>4. /\ pc \in {"setup", "update", "drop"} => driver[at] # "elasticsearch"
        /\ pc = "update" => db[at] # NoSchema
    BY Zenon DEF PassInv
  <1>5. /\ pc = "drop" => Satisfied(w, v)
        /\ AtSchema /\ at = "visibility" /\ ~ moving => Satisfied("default", v)
    BY <1>1, Zenon DEF PassInv
  <1>6. /\ pc = "drop" => Satisfied(w, v)'
        /\ AtSchema /\ at = "visibility" /\ ~ moving => Satisfied("default", v)'
    BY <1>1, <1>2, <1>5, Keeps, Zenon DEF AtSchema
  <1>7. pc = "update" => db'[at] # NoSchema
    BY <1>2, <1>4, Keeps, Zenon
  <1>8. v = mem'.version /\ w = at'
    BY <1>1, Zenon
  <1> QED BY <1>3, <1>4, <1>6, <1>7, <1>8, Zenon DEF PassInv, AtSchema

\* The outcome of one store: v is the version of the pass, w the store it is at.
LEMMA StoreResultStep ==
  ASSUME TypeOK, PassInv, ReadyInv, [Next]_vars, AtSchema, UNCHANGED status, NEW done \in BOOLEAN,
         StoreResult(done), NEW v, NEW w, v = mem.version, w = at, done => Satisfied(w, v)'
  PROVE  PassTypeOK' /\ PassInv' /\ ReadyInv'
  <1>1. v \in Versions /\ w \in Stores /\ "default" \in Stores
    BY Zenon DEF TypeOK, AtSchema, Stores
  <1>2. /\ PassTypeOK' /\ mem'.version = v
        /\ \/ w = "default" /\ at' = "visibility" /\ pc' = "schema" /\ UNCHANGED mem /\ (~ moving' => done)
           \/ w = "visibility" /\ pc' = "requeue" /\ mem'.status.schema = "migrating"
           \/ /\ w = "visibility" /\ pc' = "status" /\ mem'.status.schema = "ready"
              /\ mem'.status.of = v /\ ~ moving /\ done
    BY <1>1, StoreResultEffect, Zenon DEF PassTypeOK
  <1>3. CASE w = "default" /\ at' = "visibility" /\ pc' = "schema" /\ UNCHANGED mem /\ (~ moving' => done)
    <2>1. ReadyInv'
      BY <1>3, ReadyFrame, Zenon
    <2>2. ~ moving' => Satisfied("default", v)'
      BY <1>3, Zenon
    <2>3. PassInv'
      BY <1>2, <1>3, <2>2, Zenon DEF PassInv, AtSchema
    <2> QED BY <1>2, <2>1, <2>3, Zenon
  <1>4. CASE pc' = "requeue" /\ mem'.status.schema = "migrating"
    <2>1. ReadyInv'
      BY <1>4, ReadyFrame, Zenon
    <2> QED BY <1>2, <1>4, <2>1, Zenon DEF PassInv, AtSchema
  <1>5. CASE /\ w = "visibility" /\ pc' = "status" /\ mem'.status.schema = "ready"
             /\ mem'.status.of = v /\ ~ moving /\ done
    <2>1. Satisfied("default", v)
      BY <1>5, Zenon DEF PassInv
    <2>2. \A s \in Stores : Satisfied(s, v)'
      BY <1>1, <1>5, <2>1, Keeps, Zenon DEF Stores
    <2>3. PICK e, f : e = status.schema /\ f = status.of /\ e = status'.schema /\ f = status'.of
      BY Zenon
    <2>4. e = "ready" => f \in Versions /\ \A s \in Stores : Satisfied(s, f)
      BY <2>3, Zenon DEF ReadyInv, Announced
    <2>5. e = "ready" => f \in Versions /\ \A s \in Stores : Satisfied(s, f)'
      BY <2>4, AnnouncedKept, Zenon
    <2>6. ReadyInv'
      BY <1>1, <1>5, <2>2, <2>3, <2>5, Zenon DEF ReadyInv, Announced
    <2> QED BY <1>2, <1>5, <2>6, Zenon DEF PassInv, AtSchema
  <1> QED BY <1>2, <1>3, <1>4, <1>5, Zenon

\* An answer of a driver promises no more than the store has.
LEMMA ReadsHonest ==
  ASSUME TypeOK, StoreInv, NEW current, ReadsVersion(current)
  PROVE  /\ current \in Schemas /\ Honest(at, current)
         /\ driver[at] = "elasticsearch" => current = db[at]
  <1>1. at \in Stores /\ db[at] \in Schemas /\ report[at].version \in Schemas /\ Number(db[at]) \in Nat
    BY NumberType, Zenon DEF TypeOK, Answers
  <1>2. current \in {db[at], NoSchema} \/ current = report[at].version
    BY Zenon DEF ReadsVersion, SQLVersion, CassandraVersion, ElasticsearchVersion, InspectorVersion
  <1>3. Honest(at, db[at]) /\ Honest(at, NoSchema) /\ Honest(at, report[at].version)
    <2>1. Honest(at, report[at].version)
      BY <1>1, Zenon DEF StoreInv
    <2> QED BY <1>1, <2>1 DEF Honest
  <1>4. driver[at] = "elasticsearch" => current = db[at]
    BY Zenon DEF ReadsVersion, SQLVersion, CassandraVersion, ElasticsearchVersion, InspectorVersion
  <1> QED BY <1>1, <1>2, <1>3, <1>4, SchemaConstants, Zenon

\* So what it satisfies, the store satisfies.
LEMMA ReadsSatisfied ==
  ASSUME TypeOK, StoreInv, NEW current, ReadsVersion(current), mem.version \in Versions,
         SchemaSatisfies(current, MinSchemaFor(mem.version, at))
  PROVE  Satisfied(at, mem.version)
  <1> DEFINE m == MinSchemaFor(mem.version, at)
  <1>1. /\ current \in Schemas /\ Number(current) \in Nat /\ m \in Schemas /\ Number(m) \in Nat
        /\ Number(db[at]) \in Nat
    <2>1. current \in Schemas /\ db[at] \in Schemas /\ at \in Stores
      BY ReadsHonest, Zenon DEF TypeOK
    <2>2. m \in Schemas
      BY <2>1, MinSchemaType, Zenon
    <2> HIDE DEF m
    <2> QED BY <2>1, <2>2, NumberType, Zenon
  <1> HIDE DEF m
  <1>2. current # NoSchema /\ Number(current) >= Number(m)
    BY <1>1, SatisfiesIsNumber, Zenon DEF m
  <1>3. db[at] # NoSchema /\ Number(current) <= Number(db[at])
    BY <1>2, ReadsHonest, Zenon DEF Honest
  <1>4. Number(db[at]) >= Number(m)
    BY <1>1, <1>2, <1>3
  <1> QED BY <1>3, <1>4, Zenon DEF Satisfied, m

LEMMA SchemaReadStep ==
  ASSUME TypeOK, StoreInv, PassInv, ReadyInv, [Next]_vars, ReconcileStoreSchema
  PROVE  PassTypeOK' /\ PassInv' /\ ReadyInv'
  <1>1. /\ AtSchema /\ pc = "schema" /\ mem.version \in Versions /\ at \in Stores /\ mem \in Passes
        /\ UNCHANGED <<status, driver>>
    BY Zenon DEF ReconcileStoreSchema, AtSchema, TypeOK
  <1>2. PICK v, w : v = mem.version /\ w = at
    BY Zenon
  <1>3. PICK current \in {db[at], report[at].version, NoSchema} :
          /\ ReadsVersion(current)
          /\ LET min == MinSchemaFor(mem.version, at) IN
             \/ SchemaSatisfies(current, min) /\ StoreResult(TRUE) /\ UNCHANGED db
             \/ /\ ~ SchemaSatisfies(current, min) /\ EnsureSchemaInline
                /\ StoreResult(SchemaSatisfies(EsVersion, min))
             \/ /\ ~ SchemaSatisfies(current, min) /\ driver[at] # "elasticsearch"
                /\ pc' = IF current = NoSchema THEN "setup" ELSE "update"
                /\ UNCHANGED <<mem, at, moving, db>>
    BY Zenon DEF ReconcileStoreSchema
  <1> DEFINE min == MinSchemaFor(mem.version, at)
  <1>m. min \in Schemas /\ min = MinSchema[<<v, driver[w], w>>]
    BY <1>1, <1>2, MinSchemaType, Zenon DEF MinSchemaFor
  <1>4. CASE SchemaSatisfies(current, min) /\ StoreResult(TRUE) /\ UNCHANGED db
    <2>1. Satisfied(w, v)
      BY <1>1, <1>2, <1>3, <1>4, ReadsSatisfied, Zenon
    <2>2. Satisfied(w, v)'
      BY <1>1, <1>2, <2>1, Keeps, Zenon
    <2> QED BY <1>1, <1>2, <1>4, <2>2, StoreResultStep, Zenon
  <1>5. CASE EnsureSchemaInline /\ StoreResult(SchemaSatisfies(EsVersion, min))
    <2> DEFINE done == SchemaSatisfies(EsVersion, min)
    <2>1. done \in BOOLEAN
      BY Zenon DEF SchemaSatisfies
    <2>2. done => Satisfied(w, v)'
      <3>1. db'[w] = EsVersion /\ driver' = driver
        BY <1>1, <1>2, <1>5, Zenon DEF EnsureSchemaInline, TypeOK
      <3>2. done => EsVersion # NoSchema /\ Number(EsVersion) >= Number(min)
        BY <1>m, SchemaConstants, SatisfiesIsNumber, Zenon
      <3> QED BY <1>m, <3>1, <3>2, Zenon DEF Satisfied, MinSchemaFor
    <2> HIDE DEF done
    <2>3. StoreResult(done)
      BY <1>5, Zenon DEF done
    <2> QED BY <1>1, <1>2, <2>1, <2>2, <2>3, StoreResultStep, Zenon
  <1>6. CASE /\ driver[at] # "elasticsearch" /\ pc' = (IF current = NoSchema THEN "setup" ELSE "update")
             /\ UNCHANGED <<mem, at, moving, db>>
    <2>1. pc' \in {"setup", "update"} /\ (pc' = "update" => db[at] # NoSchema)
      BY <1>3, <1>6, ReadsHonest, Zenon DEF Honest
    <2>2. PassTypeOK'
      BY <1>1, <1>6, <2>1, Zenon DEF PassTypeOK, TypeOK
    <2>3. at = "visibility" /\ ~ moving => Satisfied("default", v)
      BY <1>1, <1>2, Zenon DEF PassInv
    <2>4. at = "visibility" /\ ~ moving => Satisfied("default", v)'
      BY <1>1, <1>2, <2>3, Keeps, Zenon DEF Stores
    <2>5. PassInv'
      BY <1>1, <1>2, <1>6, <2>1, <2>4, Zenon DEF PassInv, AtSchema
    <2>6. ReadyInv'
      BY <1>1, <1>6, ReadyFrame, Zenon
    <2> QED BY <2>2, <2>5, <2>6, Zenon
  <1> QED BY <1>3, <1>4, <1>5, <1>6, Zenon

LEMMA SchemaJobStep ==
  ASSUME TypeOK, StoreInv, PassInv, ReadyInv, [Next]_vars, EnsureSchemaJob
  PROVE  PassTypeOK' /\ PassInv' /\ ReadyInv'
  <1>1. /\ AtSchema /\ pc \in Actions /\ mem.version \in Versions /\ at \in Stores /\ mem \in Passes
        /\ UNCHANGED <<status, driver, db>>
    BY Zenon DEF EnsureSchemaJob, AtSchema, TypeOK, Actions
  <1>2. PICK v, w : v = mem.version /\ w = at
    OBVIOUS
  <1>3. CASE StoreResult(FALSE)
    BY <1>1, <1>2, <1>3, StoreResultStep, Zenon
  <1>4. CASE SetSchemaReady("failed") /\ pc' = "status" /\ UNCHANGED <<at, moving>>
    <2>1. mem' \in Passes /\ mem'.version = mem.version /\ mem'.status.schema = "failed"
      BY <1>1, <1>4, SchemaSet, Zenon
    <2>2. PassTypeOK' /\ PassInv'
      BY <1>1, <1>4, <2>1, Zenon DEF PassTypeOK, TypeOK, PassInv, AtSchema
    <2>3. ReadyInv'
      BY <1>1, <2>1, ReadyFrame, Zenon
    <2> QED BY <2>2, <2>3, Zenon
  <1>5. CASE /\ JobRunsImage(at, pc) /\ ClassifyJob(at, pc) = "succeeded" /\ UNCHANGED <<mem, at, moving>>
             /\ pc' = (IF pc = "setup" THEN "update" ELSE "drop")
    <2>1. jobs[at][pc].state = "succeeded" /\ jobs[at][pc].image = mem.version
      BY <1>5, Zenon DEF JobRunsImage, ClassifyJob
    <2>2. driver[at] # "elasticsearch"
      BY <1>1, Zenon DEF PassInv, Actions
    <2>3. PassTypeOK'
      BY <1>1, <1>5, Zenon DEF PassTypeOK, TypeOK
    <2>4. pc = "setup" => db[at] # NoSchema
      BY <1>1, <2>1, Zenon DEF StoreInv
    <2>5. pc # "setup" => Satisfied(w, v)
      BY <1>1, <1>2, <2>1, Zenon DEF StoreInv, Actions
    <2>6. at = "visibility" /\ ~ moving => Satisfied("default", v)
      BY <1>1, <1>2, Zenon DEF PassInv
    <2>7. /\ at = "visibility" /\ ~ moving => Satisfied("default", v)'
          /\ pc # "setup" => Satisfied(w, v)'
      BY <1>1, <1>2, <2>5, <2>6, Keeps, Zenon DEF Stores
    <2>8. PassInv'
      BY <1>1, <1>2, <1>5, <2>2, <2>4, <2>7, Zenon DEF PassInv, AtSchema
    <2>9. ReadyInv'
      BY <1>1, <1>5, ReadyFrame, Zenon
    <2> QED BY <2>3, <2>8, <2>9, Zenon
  <1> QED BY <1>3, <1>4, <1>5, Zenon DEF EnsureSchemaJob

LEMMA PassStep ==
  ASSUME TypeOK, StoreInv, PassInv, ReadyInv, [Next]_vars
  PROVE  PassTypeOK' /\ PassInv' /\ ReadyInv'
  <1> USE DEF pass
  <1>0. PassTypeOK /\ spec \in Versions /\ status \in Statuses
    BY Zenon DEF TypeOK, PassTypeOK
  <1>1. CASE Get
    <2>1. /\ pc' \in {"probe", "requeue"} /\ mem'.version = spec /\ UNCHANGED <<status, at, moving>>
          /\ mem'.status.schema = status.schema /\ mem'.status.of = status.of /\ mem' \in Passes
      <3>1. CASE pc' = "probe" /\ mem' = [version |-> spec, status |-> status]
        BY <1>0, <1>1, <3>1, Zenon DEF Get, Passes
      <3>2. CASE ResolveStoreFails
        <4>1. PICK st : st = [status EXCEPT !.reachable = "unreachable"]
          BY Zenon
        <4>2. st \in Statuses /\ st.schema = status.schema /\ st.of = status.of
          BY <1>0, <4>1, Zenon DEF Statuses, Reach
        <4>3. mem' = [version |-> spec, status |-> st] /\ pc' = "requeue"
          BY <3>2, <4>1, Zenon DEF ResolveStoreFails
        <4> QED BY <1>0, <1>1, <4>2, <4>3, Zenon DEF Get, Passes
      <3> QED BY <1>1, <3>1, <3>2, Zenon DEF Get
    <2>2. PassTypeOK' /\ PassInv'
      BY <1>0, <2>1, Zenon DEF PassTypeOK, PassInv, AtSchema
    <2> QED BY <2>1, <2>2, ReadyFrame, Zenon
  <1>2. CASE ProbeDirectly
    <2>1. pc = "probe" /\ UNCHANGED <<status, moving>>
      BY <1>2, Zenon DEF ProbeDirectly
    <2>2. CASE Probed
      BY <1>0, <2>1, <2>2, ProbedType, ReadyFrame, Zenon DEF PassTypeOK, PassInv, AtSchema
    <2>3. CASE Unreachable("unreachable") /\ UNCHANGED at
      BY <2>1, <2>3, UnreachableType, ReadyFrame, Zenon DEF PassInv, AtSchema
    <2> QED BY <1>2, <2>2, <2>3, Zenon DEF ProbeDirectly
  <1>3. CASE ProbeInspected
    <2>1. pc = "probe" /\ UNCHANGED <<status, moving>>
      BY <1>3, Zenon DEF ProbeInspected
    <2>2. CASE Probed
      BY <1>0, <2>1, <2>2, ProbedType, ReadyFrame DEF PassTypeOK, PassInv, AtSchema
    <2>3. CASE (Unreachable("unreachable") \/ Unreachable("inspecting")) /\ UNCHANGED at
      BY <2>1, <2>3, UnreachableType, ReadyFrame, Zenon DEF PassInv, AtSchema
    <2> QED BY <1>3, <2>2, <2>3, Zenon DEF ProbeInspected
  <1>4. CASE ProbeFails
    <2>1. pc = "probe" /\ UNCHANGED <<status, moving, at>> /\ Unreachable("unreachable")
      BY <1>4, Zenon DEF ProbeFails
    <2> QED BY <2>1, UnreachableType, ReadyFrame, Zenon DEF PassInv, AtSchema
  <1>5. CASE ReconcileStoreSchema
    BY <1>5, SchemaReadStep, Zenon
  <1>6. CASE EnsureSchemaJob
    BY <1>6, SchemaJobStep, Zenon
  <1>7. CASE DeleteInspectorJob
    <2>1. AtSchema /\ UNCHANGED status /\ StoreResult(FALSE)
      BY <1>7, Zenon DEF DeleteInspectorJob, AtSchema
    <2>2. PICK v, w : v = mem.version /\ w = at
      BY Zenon
    <2> QED BY <2>1, <2>2, StoreResultStep, Zenon
  <1>8. CASE UpdateStatus
    <2>1. /\ PassTypeOK' /\ mem' = NoPass /\ pc' = "idle"
          /\ (UNCHANGED status \/ status' = mem.status)
      BY <1>8, EndPassType, Zenon DEF UpdateStatus
    <2>2. ReadyInv'
      BY <2>1, Constants, ReadyFrame, Zenon
    <2> QED BY <2>1, <2>2, Zenon DEF PassInv, AtSchema
  <1>9. CASE AbortPass
    <2>1. PassTypeOK' /\ mem' = NoPass /\ pc' = "idle" /\ UNCHANGED status
      BY <1>9, EndPassType, Zenon DEF AbortPass
    <2>2. ReadyInv'
      BY <2>1, Constants, ReadyFrame, Zenon
    <2> QED BY <2>1, <2>2, Zenon DEF PassInv, AtSchema
  <1>10. CASE Tools \/ Inspectors \/ GarbageCollector \/ Failures \/ EditVersion \/ UNCHANGED vars
    <2>1. UNCHANGED <<status, mem, pc, at, moving>>
      BY <1>10, EnvironmentFrame, Zenon DEF vars
    <2>2. PassTypeOK'
      BY <1>0, <2>1, Zenon DEF PassTypeOK
    <2> QED BY <2>1, <2>2, PassFrame, ReadyFrame, Zenon
  <1> QED BY <1>1, <1>2, <1>3, <1>4, <1>5, <1>6, <1>7, <1>8, <1>9, <1>10, Zenon DEF Next, Reconcile

-----------------------------------------------------------------------------
(* The Jobs, and who answers.                                              *)

\* What a step does to one schema Job: nothing, its end, its creation by the pass at its
\* store and action, or its success.
JobMoves(s, a) ==
  \/ jobs'[s][a] = jobs[s][a]
  \/ jobs'[s][a] = NoJob
  \/ /\ jobs[s][a].state # "absent" /\ jobs'[s][a].image = jobs[s][a].image
     /\ jobs'[s][a].state \in {"failed", "deleting"}
  \/ s = at /\ a = pc /\ jobs'[s][a] = [image |-> mem.version, state |-> "running"]
  \/ /\ jobs[s][a].state = "running" /\ jobs'[s][a].state = "succeeded"
     /\ jobs'[s][a].image = jobs[s][a].image /\ UNCHANGED <<db, driver>>
     /\ db[s] # NoSchema /\ ToolResult(s, a, jobs[s][a].image) = db[s]

\* One Job replaced.
LEMMA JobSet ==
  ASSUME jobs \in [Stores -> [Actions -> Jobs]], NEW s \in Stores, NEW a \in Actions, NEW j \in Jobs,
         jobs' = [jobs EXCEPT ![s][a] = j]
  PROVE  /\ jobs' \in [Stores -> [Actions -> Jobs]] /\ jobs'[s][a] = j
         /\ \A t \in Stores, b \in Actions : t # s \/ b # a => jobs'[t][b] = jobs[t][b]
  <1>1. PICK f : f = [jobs[s] EXCEPT ![a] = j]
    BY Zenon
  <1>2. f \in [Actions -> Jobs] /\ f[a] = j /\ \A b \in Actions : b # a => f[b] = jobs[s][b]
    BY <1>1, Zenon
  <1>3. jobs' = [jobs EXCEPT ![s] = f]
    BY <1>1, Zenon
  <1> QED BY <1>2, <1>3, Zenon

LEMMA SetJobEffect ==
  ASSUME jobs \in [Stores -> [Actions -> Jobs]], NEW s \in Stores, NEW a \in Actions,
         NEW state \in {"succeeded", "failed", "deleting"}, SetJob(s, a, state)
  PROVE  /\ jobs' \in [Stores -> [Actions -> Jobs]]
         /\ jobs'[s][a].state = state /\ jobs'[s][a].image = jobs[s][a].image
         /\ \A t \in Stores, b \in Actions : t # s \/ b # a => jobs'[t][b] = jobs[t][b]
  <1>1. PICK j : j = [jobs[s][a] EXCEPT !.state = state]
    BY Zenon
  <1>2. jobs[s][a] \in Jobs
    BY Zenon
  <1>3. j \in Jobs /\ j.state = state /\ j.image = jobs[s][a].image
    BY <1>1, <1>2, Zenon DEF Jobs
  <1>4. jobs' = [jobs EXCEPT ![s][a] = j]
    BY <1>1, Zenon DEF SetJob
  <1> QED BY <1>3, <1>4, JobSet

LEMMA NoJobAbsent == NoJob.state = "absent"
  BY Zenon DEF NoJob

LEMMA JobStep ==
  ASSUME TypeOK, [Next]_vars
  PROVE  jobs' \in [Stores -> [Actions -> Jobs]] /\ \A s \in Stores, a \in Actions : JobMoves(s, a)
  <1> USE DEF kube
  <1>0. /\ jobs \in [Stores -> [Actions -> Jobs]] /\ at \in Stores
        /\ (pc # "idle" => mem.version \in Versions) /\ NoJob \in Jobs
    BY Constants, Zenon DEF TypeOK
  <1>1. ASSUME UNCHANGED jobs
        PROVE  jobs' \in [Stores -> [Actions -> Jobs]] /\ \A s \in Stores, a \in Actions : JobMoves(s, a)
    BY <1>0, <1>1, Zenon DEF JobMoves
  <1>e. ASSUME NEW s \in Stores, NEW a \in Actions, jobs' \in [Stores -> [Actions -> Jobs]], JobMoves(s, a),
               \A t \in Stores, b \in Actions : t # s \/ b # a => jobs'[t][b] = jobs[t][b]
        PROVE  jobs' \in [Stores -> [Actions -> Jobs]] /\ \A t \in Stores, b \in Actions : JobMoves(t, b)
    <2>1. ASSUME NEW t \in Stores, NEW b \in Actions, t # s \/ b # a PROVE JobMoves(t, b)
      BY <1>e, <2>1, Zenon DEF JobMoves
    <2> QED BY <1>e, <2>1, Zenon
  <1>2. CASE EnsureSchemaJob
    <2>1. CASE UNCHANGED jobs
      BY <1>1, <2>1, Zenon
    <2>2. CASE jobs' = [jobs EXCEPT ![at][pc] = BuildSchemaJob] /\ pc \in Actions
      <3>1. BuildSchemaJob \in Jobs /\ BuildSchemaJob = [image |-> mem.version, state |-> "running"]
        BY <1>0, <2>2, Zenon DEF BuildSchemaJob, Jobs, Actions
      <3>2. /\ jobs' \in [Stores -> [Actions -> Jobs]] /\ jobs'[at][pc] = BuildSchemaJob
            /\ \A t \in Stores, b \in Actions : t # at \/ b # pc => jobs'[t][b] = jobs[t][b]
        BY <1>0, <2>2, <3>1, JobSet
      <3>3. JobMoves(at, pc)
        BY <3>1, <3>2, Zenon DEF JobMoves
      <3> QED BY <1>0, <1>e, <2>2, <3>2, <3>3
    <2>3. CASE jobs' = [jobs EXCEPT ![at][pc] = NoJob] /\ pc \in Actions
      <3>2. /\ jobs' \in [Stores -> [Actions -> Jobs]] /\ jobs'[at][pc] = NoJob
            /\ \A t \in Stores, b \in Actions : t # at \/ b # pc => jobs'[t][b] = jobs[t][b]
        BY <1>0, <2>3, JobSet
      <3>3. JobMoves(at, pc)
        BY <3>2, Zenon DEF JobMoves
      <3> QED BY <1>0, <1>e, <2>3, <3>2, <3>3
    <2> QED BY <1>2, <2>1, <2>2, <2>3, Zenon DEF EnsureSchemaJob
  <1>3. ASSUME NEW s \in Stores, NEW a \in Actions, JobSucceeds(s, a)
        PROVE  jobs' \in [Stores -> [Actions -> Jobs]] /\ \A t \in Stores, b \in Actions : JobMoves(t, b)
    <2>1. SetJob(s, a, "succeeded")
      BY <1>3, Zenon DEF JobSucceeds
    <2>2. /\ jobs' \in [Stores -> [Actions -> Jobs]]
          /\ jobs'[s][a].state = "succeeded" /\ jobs'[s][a].image = jobs[s][a].image
          /\ \A t \in Stores, b \in Actions : t # s \/ b # a => jobs'[t][b] = jobs[t][b]
      BY <1>0, <2>1, SetJobEffect, Zenon
    <2>3. JobMoves(s, a)
      BY <1>3, <2>2, Zenon DEF JobSucceeds, JobMoves
    <2> QED BY <1>e, <2>2, <2>3, Zenon
  <1>4. ASSUME NEW s \in Stores, NEW a \in Actions, JobFails(s, a)
        PROVE  jobs' \in [Stores -> [Actions -> Jobs]] /\ \A t \in Stores, b \in Actions : JobMoves(t, b)
    <2>1. SetJob(s, a, "failed")
      BY <1>4, Zenon DEF JobFails
    <2>2. /\ jobs' \in [Stores -> [Actions -> Jobs]]
          /\ jobs'[s][a].state = "failed" /\ jobs'[s][a].image = jobs[s][a].image
          /\ \A t \in Stores, b \in Actions : t # s \/ b # a => jobs'[t][b] = jobs[t][b]
      BY <1>0, <2>1, SetJobEffect, Zenon
    <2>3. JobMoves(s, a)
      BY <1>4, <2>2, Zenon DEF JobFails, JobMoves
    <2> QED BY <1>e, <2>2, <2>3, Zenon
  <1>5. ASSUME NEW s \in Stores, NEW a \in Actions, JobExpires(s, a)
        PROVE  jobs' \in [Stores -> [Actions -> Jobs]] /\ \A t \in Stores, b \in Actions : JobMoves(t, b)
    <2>1. SetJob(s, a, "deleting")
      BY <1>5, Zenon DEF JobExpires
    <2>2. /\ jobs' \in [Stores -> [Actions -> Jobs]]
          /\ jobs'[s][a].state = "deleting" /\ jobs'[s][a].image = jobs[s][a].image
          /\ \A t \in Stores, b \in Actions : t # s \/ b # a => jobs'[t][b] = jobs[t][b]
      BY <1>0, <2>1, SetJobEffect, Zenon
    <2>3. JobMoves(s, a)
      BY <1>5, <2>2, Zenon DEF JobExpires, JobMoves
    <2> QED BY <1>e, <2>2, <2>3, Zenon
  <1>6. ASSUME NEW s \in Stores, NEW a \in Actions, JobGone(s, a)
        PROVE  jobs' \in [Stores -> [Actions -> Jobs]] /\ \A t \in Stores, b \in Actions : JobMoves(t, b)
    <2>1. jobs' = [jobs EXCEPT ![s][a] = NoJob]
      BY <1>6, Zenon DEF JobGone
    <2>2. /\ jobs' \in [Stores -> [Actions -> Jobs]] /\ jobs'[s][a] = NoJob
          /\ \A t \in Stores, b \in Actions : t # s \/ b # a => jobs'[t][b] = jobs[t][b]
      BY <1>0, <2>1, JobSet
    <2>3. JobMoves(s, a)
      BY <2>2, Zenon DEF JobMoves
    <2> QED BY <1>e, <2>2, <2>3, Zenon
  <1>7. CASE \/ Get \/ ProbeDirectly \/ ProbeInspected \/ ReconcileStoreSchema \/ DeleteInspectorJob
             \/ UpdateStatus \/ ProbeFails \/ AbortPass
    BY <1>1, <1>7, Zenon DEF Get, ProbeDirectly, ProbeInspected, ReconcileStoreSchema, DeleteInspectorJob,
                      UpdateStatus, ProbeFails, AbortPass
  <1>8. CASE (\E s \in Stores, a \in Actions : ToolRuns(s, a)) \/ (\E s \in Stores : \E v \in stray[s] : StrayEnds(s, v))
    BY <1>1, <1>8, Zenon DEF ToolRuns, StrayEnds
  <1>9. CASE Inspectors \/ GarbageCollector \/ EditVersion \/ \E s \in Stores : InspectorFails(s) \/ InspectorPodLost(s)
    BY <1>1, <1>9, Zenon DEF Inspectors, GarbageCollector, EditVersion, InspectorFails, InspectorPodLost,
                      InspectorAnswers, InspectorExpires, InspectorGone, OldPodsGone
  <1>10. CASE UNCHANGED vars
    BY <1>1, <1>10, Zenon DEF vars
  <1> QED BY <1>2, <1>3, <1>4, <1>5, <1>6, <1>7, <1>8, <1>9, <1>10, Zenon DEF Next, Reconcile, Tools, Failures

\* Whoever answers after a step answered before it, or answers what the store has now.
LEMMA InspectorSet ==
  ASSUME insp \in [Stores -> Inspected], NEW s \in Stores, NEW j \in Inspected,
         insp' = [insp EXCEPT ![s] = j],
         \A r \in j.answer \cup j.old : r \in InspectorPods(s) \/ r.version \in {db[s], NoSchema}
  PROVE  /\ insp' \in [Stores -> Inspected]
         /\ \A t \in Stores : \A r \in insp'[t].answer \cup insp'[t].old :
              r \in InspectorPods(t) \/ r.version \in {db[t], NoSchema}
  BY Zenon DEF InspectorPods

LEMMA InspectorStep ==
  ASSUME TypeOK, [Next]_vars
  PROVE  /\ insp' \in [Stores -> Inspected]
         /\ \A t \in Stores : \A r \in insp'[t].answer \cup insp'[t].old :
              r \in InspectorPods(t) \/ r.version \in {db[t], NoSchema}
  <1> USE DEF kube
  <1> DEFINE Goal == /\ insp' \in [Stores -> Inspected]
                     /\ \A t \in Stores : \A r \in insp'[t].answer \cup insp'[t].old :
                          r \in InspectorPods(t) \/ r.version \in {db[t], NoSchema}
  <1>0. insp \in [Stores -> Inspected] /\ at \in Stores /\ db \in [Stores -> Schemas]
    BY Zenon DEF TypeOK
  <1>a. \A s \in Stores : insp[s].answer \subseteq Answers /\ insp[s].old \subseteq Answers
    BY <1>0, Zenon DEF Inspected
  <1>1. ASSUME UNCHANGED insp PROVE Goal
    BY <1>0, <1>1, Zenon DEF InspectorPods
  <1>2. ASSUME NEW s \in Stores, DeleteInspector(s) PROVE Goal
    <2>1. PICK j : j = [NoInspector EXCEPT !.old = insp[s].old \cup insp[s].answer]
      BY Zenon
    <2>2. j \in Inspected /\ j.answer = {} /\ j.old = insp[s].old \cup insp[s].answer
      BY <1>a, <2>1, Zenon DEF NoInspector, Inspected
    <2>3. UNCHANGED insp \/ insp' = [insp EXCEPT ![s] = j]
      BY <1>2, <2>1, Zenon DEF DeleteInspector
    <2>4. CASE insp' = [insp EXCEPT ![s] = j]
      <3>1. \A r \in j.answer \cup j.old : r \in InspectorPods(s) \/ r.version \in {db[s], NoSchema}
        BY <2>2, Zenon DEF InspectorPods
      <3> QED BY <1>0, <2>2, <2>4, <3>1, InspectorSet, Zenon
    <2> QED BY <1>1, <2>3, <2>4, Zenon
  <1>3. ASSUME NEW s \in Stores, EnsureInspectorJob(s) PROVE Goal
    <2>1. PICK j : j = BuildInspectorJob(insp[s].old)
      BY Zenon
    <2>2. j \in Inspected /\ j.answer = {} /\ j.old = insp[s].old
      BY <1>a, <2>1, Zenon DEF BuildInspectorJob, Inspected
    <2>3. UNCHANGED insp \/ insp' = [insp EXCEPT ![s] = j]
      BY <1>3, <2>1, Zenon DEF EnsureInspectorJob
    <2>4. CASE insp' = [insp EXCEPT ![s] = j]
      <3>1. \A r \in j.answer \cup j.old : r \in InspectorPods(s) \/ r.version \in {db[s], NoSchema}
        BY <2>2, Zenon DEF InspectorPods
      <3> QED BY <1>0, <2>2, <2>4, <3>1, InspectorSet, Zenon
    <2> QED BY <1>1, <2>3, <2>4
  <1>4. CASE ProbeInspected
    BY <1>0, <1>1, <1>2, <1>3, <1>4, Zenon DEF ProbeInspected
  <1>5. CASE DeleteInspectorJob
    BY <1>0, <1>2, <1>5, Zenon DEF DeleteInspectorJob
  <1>6. ASSUME NEW s \in Stores, InspectorAnswers(s) PROVE Goal
    <2>1. PICK r \in [reachable : BOOLEAN, version : {db[s], NoSchema}] :
            SetInspector(s, [insp[s] EXCEPT !.state = "complete", !.answer = {r}])
      BY <1>6, Zenon DEF InspectorAnswers
    <2>2. r \in Answers /\ r.version \in {db[s], NoSchema}
      BY <1>0, SchemaConstants, Zenon DEF Answers
    <2>3. PICK j : j = [insp[s] EXCEPT !.state = "complete", !.answer = {r}]
      BY Zenon
    <2>4. insp[s] \in Inspected
      BY <1>0, Zenon
    <2>5. j \in Inspected /\ j.answer = {r} /\ j.old = insp[s].old
      BY <2>2, <2>3, <2>4, Zenon DEF Inspected
    <2>6. insp' = [insp EXCEPT ![s] = j]
      BY <2>1, <2>3, Zenon DEF SetInspector
    <2>7. \A x \in j.answer \cup j.old : x \in InspectorPods(s) \/ x.version \in {db[s], NoSchema}
      BY <2>2, <2>5, Zenon DEF InspectorPods
    <2> QED BY <1>0, <2>5, <2>6, <2>7, InspectorSet, Zenon
  <1>7. ASSUME NEW s \in Stores, NEW j \in Inspected, insp' = [insp EXCEPT ![s] = j],
               j.answer \subseteq insp[s].answer, j.old \subseteq insp[s].old
        PROVE  Goal
    <2>1. \A r \in j.answer \cup j.old : r \in InspectorPods(s) \/ r.version \in {db[s], NoSchema}
      BY <1>7, Zenon DEF InspectorPods
    <2> QED BY <1>0, <1>7, <2>1, InspectorSet, Zenon
  <1>8. ASSUME NEW s \in Stores, InspectorFails(s) \/ InspectorExpires(s) PROVE Goal
    <2>1. PICK x \in {"failed", "deleting"} : insp' = [insp EXCEPT ![s] = [insp[s] EXCEPT !.state = x]]
      BY <1>8, Zenon DEF InspectorFails, InspectorExpires, SetInspector
    <2>2. PICK j : j = [insp[s] EXCEPT !.state = x]
      BY Zenon
    <2>3. insp[s] \in Inspected
      BY <1>0, Zenon
    <2>4. j \in Inspected /\ j.answer = insp[s].answer /\ j.old = insp[s].old
      BY <2>2, <2>3, Zenon DEF Inspected
    <2> QED BY <1>7, <2>1, <2>2, <2>4, Zenon
  <1>9. ASSUME NEW s \in Stores, InspectorPodLost(s) PROVE Goal
    <2>1. PICK j : j = [insp[s] EXCEPT !.answer = {}]
      BY Zenon
    <2>2. insp[s] \in Inspected
      BY <1>0, Zenon
    <2>3. j \in Inspected /\ j.answer = {} /\ j.old = insp[s].old
      BY <2>1, <2>2, Zenon DEF Inspected
    <2>4. insp' = [insp EXCEPT ![s] = j]
      BY <1>9, <2>1, Zenon DEF InspectorPodLost
    <2> QED BY <1>7, <2>3, <2>4, Zenon
  <1>10. ASSUME NEW s \in Stores, OldPodsGone(s) PROVE Goal
    <2>1. PICK j : j = [insp[s] EXCEPT !.old = {}]
      BY Zenon
    <2>2. insp[s] \in Inspected
      BY <1>0
    <2>3. j \in Inspected /\ j.old = {} /\ j.answer = insp[s].answer
      BY <2>1, <2>2, Zenon DEF Inspected
    <2>4. insp' = [insp EXCEPT ![s] = j]
      BY <1>10, <2>1, Zenon DEF OldPodsGone
    <2> QED BY <1>7, <2>3, <2>4, Zenon
  <1>11. ASSUME NEW s \in Stores, InspectorGone(s) PROVE Goal
    <2>1. PICK j : j = [NoInspector EXCEPT !.old = insp[s].old]
      BY Zenon
    <2>2. j \in Inspected /\ j.answer = {} /\ j.old = insp[s].old
      BY <1>a, <2>1, Zenon DEF NoInspector, Inspected
    <2>3. insp' = [insp EXCEPT ![s] = j]
      BY <1>11, <2>1, Zenon DEF InspectorGone, SetInspector
    <2> QED BY <1>7, <2>2, <2>3, Zenon
  <1>12. CASE \/ Get \/ ProbeDirectly \/ ReconcileStoreSchema \/ EnsureSchemaJob \/ UpdateStatus
              \/ ProbeFails \/ AbortPass \/ EditVersion
    BY <1>1, <1>12, Zenon DEF Get, ProbeDirectly, ReconcileStoreSchema, EnsureSchemaJob, UpdateStatus, ProbeFails,
                       AbortPass, EditVersion
  <1>13. CASE Tools \/ \E s \in Stores, a \in Actions : JobFails(s, a)
    BY <1>1, <1>13, Zenon DEF Tools, ToolRuns, JobSucceeds, JobExpires, JobGone, StrayEnds, JobFails
  <1>14. CASE UNCHANGED vars
    BY <1>1, <1>14, Zenon DEF vars
  <1> QED BY <1>4, <1>5, <1>6, <1>8, <1>9, <1>10, <1>11, <1>12, <1>13, <1>14, Zenon
          DEF Next, Reconcile, Inspectors, GarbageCollector, Failures

\* What JobMoves says of a Job that is there afterwards, and of one that has succeeded.
LEMMA JobAfter ==
  ASSUME NEW s, NEW a, JobMoves(s, a), jobs'[s][a].state # "absent"
  PROVE  \/ jobs[s][a].state # "absent" /\ jobs'[s][a].image = jobs[s][a].image
         \/ s = at /\ a = pc /\ jobs'[s][a].image = mem.version /\ jobs'[s][a].state = "running"
  <1>1. CASE s = at /\ a = pc /\ jobs'[s][a] = [image |-> mem.version, state |-> "running"]
    BY ONLY <1>1
  <1>2. CASE jobs'[s][a] = NoJob
    BY <1>2, NoJobAbsent, Zenon
  <1> QED BY <1>1, <1>2, Zenon DEF JobMoves

LEMMA SucceededAfter ==
  ASSUME NEW s, NEW a, JobMoves(s, a), jobs'[s][a].state = "succeeded"
  PROVE  /\ jobs'[s][a].image = jobs[s][a].image
         /\ \/ jobs[s][a].state = "succeeded"
            \/ /\ jobs[s][a].state = "running" /\ db[s] # NoSchema
               /\ ToolResult(s, a, jobs[s][a].image) = db[s]
  <1>1. CASE s = at /\ a = pc /\ jobs'[s][a] = [image |-> mem.version, state |-> "running"]
    <2>1. jobs'[s][a].state = "running"
      BY ONLY <1>1
    <2> QED BY <2>1, Zenon
  <1>2. CASE jobs'[s][a] = NoJob
    <2>1. jobs'[s][a].state = "absent"
      BY <1>2, NoJobAbsent, Zenon
    <2> QED BY <2>1, Zenon
  <1> QED BY <1>1, <1>2, Zenon DEF JobMoves

\* The answer a pass goes by is one some pod gives.
LEMMA ReportStep ==
  ASSUME TypeOK, [Next]_vars
  PROVE  /\ report' \in [Stores -> Answers]
         /\ \A s \in Stores : report'[s] \in {report[s], Unread} \cup InspectorPods(s)
  <1> USE DEF pass
  <1>0. report \in [Stores -> Answers] /\ at \in Stores /\ InspectorPods(at) \subseteq Answers
    BY Zenon DEF TypeOK, InspectorPods, Inspected
  <1>1. CASE UNCHANGED report
    BY <1>0, <1>1, Zenon
  <1>2. CASE report' = [s \in Stores |-> Unread]
    BY <1>2, Constants, Zenon
  <1>3. CASE ProbeInspected
    <2>1. CASE \E r \in InspectorPods(at) : report' = [report EXCEPT ![at] = r]
      BY <1>0, <2>1, Zenon
    <2> QED BY <1>1, <1>3, <2>1, Zenon DEF ProbeInspected
  <1>4. CASE UpdateStatus \/ AbortPass
    BY <1>2, <1>4, EndPassType, Zenon DEF UpdateStatus, AbortPass
  <1>5. CASE \/ Get \/ ProbeDirectly \/ ReconcileStoreSchema \/ EnsureSchemaJob \/ DeleteInspectorJob
             \/ ProbeFails \/ UNCHANGED vars
    BY <1>1, <1>5, Zenon DEF Get, ProbeDirectly, ReconcileStoreSchema, EnsureSchemaJob, DeleteInspectorJob,
                      ProbeFails, vars
  <1>6. CASE Tools \/ Inspectors \/ GarbageCollector \/ Failures \/ EditVersion
    BY <1>1, <1>6, EnvironmentFrame, Zenon
  <1> QED BY <1>3, <1>4, <1>5, <1>6, Zenon DEF Next, Reconcile

LEMMA StrayStep ==
  ASSUME TypeOK, [Next]_vars
  PROVE  spec' \in Versions /\ status' \in Statuses /\ stray' \in [Stores -> SUBSET Versions]
  <1> USE DEF pass, kube
  <1>0. /\ spec \in Versions /\ status \in Statuses /\ mem.status \in Statuses /\ at \in Stores
        /\ stray \in [Stores -> SUBSET Versions]
    BY Zenon DEF TypeOK, Passes
  <1>1. CASE EnsureSchemaJob
    <2>1. UNCHANGED <<spec, status>> /\ pc \in Actions
      BY <1>1, Zenon DEF EnsureSchemaJob
    <2>2. \/ UNCHANGED stray
          \/ /\ jobs[at][pc].state = "running"
             /\ stray' = [stray EXCEPT ![at] = stray[at] \cup {jobs[at][pc].image}]
      BY <1>1, Zenon DEF EnsureSchemaJob
    <2>3. jobs[at][pc].state = "running" => jobs[at][pc].image \in Versions
      BY <1>0, <2>1, Zenon DEF TypeOK
    <2> QED BY <1>0, <2>1, <2>2, <2>3, Zenon
  <1>2. ASSUME NEW s \in Stores, NEW v \in stray[s], StrayEnds(s, v)
        PROVE  spec' \in Versions /\ status' \in Statuses /\ stray' \in [Stores -> SUBSET Versions]
    BY <1>0, <1>2, Zenon DEF StrayEnds
  <1>3. CASE UpdateStatus \/ EditVersion
    BY <1>0, <1>3, Zenon DEF UpdateStatus, EditVersion
  <1>4. CASE \/ Get \/ ProbeDirectly \/ ProbeInspected \/ ReconcileStoreSchema \/ DeleteInspectorJob
             \/ ProbeFails \/ AbortPass \/ UNCHANGED vars
    BY <1>0, <1>4, Zenon DEF Get, ProbeDirectly, ProbeInspected, ReconcileStoreSchema, DeleteInspectorJob,
                      ProbeFails, AbortPass, vars
  <1>5. CASE \E s \in Stores, a \in Actions : \/ ToolRuns(s, a) \/ JobSucceeds(s, a) \/ JobExpires(s, a)
                                              \/ JobGone(s, a) \/ JobFails(s, a)
    BY <1>0, <1>5 DEF ToolRuns, JobSucceeds, JobExpires, JobGone, JobFails
  <1>6. CASE Inspectors \/ GarbageCollector \/ \E s \in Stores : InspectorFails(s) \/ InspectorPodLost(s)
    BY <1>0, <1>6, Zenon DEF Inspectors, GarbageCollector, InspectorFails, InspectorPodLost, InspectorAnswers,
                      InspectorExpires, InspectorGone, OldPodsGone
  <1> QED BY <1>1, <1>2, <1>3, <1>4, <1>5, <1>6, Zenon DEF Next, Reconcile, Tools, Failures

\* A Job that succeeds has nothing left to do.
LEMMA SucceededIsSatisfied ==
  ASSUME TypeOK, NEW s \in Stores, NEW v \in Versions, db[s] # NoSchema, ToolResult(s, "update", v) = db[s]
  PROVE  Satisfied(s, v)
  <1>1. SUFFICES ASSUME ~ Satisfied(s, v) PROVE FALSE
    BY Zenon
  <1>2. db[s] = MinSchemaFor(v, s)
    BY <1>1, Zenon DEF ToolResult
  <1>a. Number(MinSchemaFor(v, s)) \in Nat
    BY MinSchemaType, Zenon
  <1>3. Number(db[s]) >= Number(MinSchemaFor(v, s))
    BY <1>2, <1>a
  <1> QED BY <1>1, <1>3, Zenon DEF Satisfied

LEMMA StoreStep ==
  ASSUME TypeOK, StoreInv, PassInv, [Next]_vars
  PROVE  StoreInv'
  <1> SUFFICES ASSUME NEW s \in Stores
               PROVE  /\ Honest(s, report[s].version)'
                      /\ (\A r \in InspectorPods(s) : Honest(s, r.version))'
                      /\ \A a \in Actions : jobs'[s][a].state # "absent" => driver'[s] # "elasticsearch"
                      /\ jobs'[s]["update"].state # "absent" => db'[s] # NoSchema
                      /\ jobs'[s]["setup"].state = "succeeded" => db'[s] # NoSchema
                      /\ jobs'[s]["update"].state = "succeeded" => Satisfied(s, jobs[s]["update"].image)'
    BY Zenon DEF StoreInv
  <1>1. /\ \A v \in Versions : Satisfied(s, v) => Satisfied(s, v)'
        /\ \A x \in Schemas : Honest(s, x) => Honest(s, x)'
        /\ db[s] # NoSchema => db'[s] # NoSchema
    BY Keeps, Zenon
  <1>2. /\ UNCHANGED driver /\ db[s] \in Schemas /\ Number(db[s]) \in Nat /\ report[s].version \in Schemas
        /\ \A r \in InspectorPods(s) : r.version \in Schemas
    <2>1. UNCHANGED driver
      BY DbStep, Zenon
    <2>2. db[s] \in Schemas /\ report[s] \in Answers /\ insp[s] \in Inspected
      BY Zenon DEF TypeOK
    <2>3. report[s].version \in Schemas /\ \A r \in InspectorPods(s) : r.version \in Schemas
      BY <2>2, Zenon DEF InspectorPods, Inspected, Answers
    <2> QED BY <2>1, <2>2, <2>3, NumberType, Zenon
  <1>h. Honest(s, db[s]) /\ Honest(s, NoSchema)
    BY <1>2 DEF Honest
  <1>3. Honest(s, report[s].version)'
    <2>1. PICK x : x = report'[s].version
      BY Zenon
    <2>2. report'[s] \in {report[s], Unread} \cup InspectorPods(s)
      BY ReportStep, Zenon
    <2>3. x \in Schemas /\ Honest(s, x)
      BY <1>2, <1>h, <2>1, <2>2, Constants, SchemaConstants, Zenon DEF StoreInv
    <2>4. Honest(s, x)'
      BY <1>1, <2>3, Zenon
    <2> QED BY <2>1, <2>4, Zenon DEF Honest
  <1>4. (\A r \in InspectorPods(s) : Honest(s, r.version))'
    <2>1. ASSUME NEW r \in insp'[s].answer \cup insp'[s].old PROVE Honest(s, r.version)'
      <3>1. r \in InspectorPods(s) \/ r.version \in {db[s], NoSchema}
        BY InspectorStep, Zenon
      <3>2. r.version \in Schemas /\ Honest(s, r.version)
        BY <1>2, <1>h, <3>1, SchemaConstants, Zenon DEF StoreInv
      <3> QED BY <1>1, <3>2, Zenon
    <2> QED BY <2>1, Zenon DEF InspectorPods
  <1>5. JobMoves(s, "setup") /\ JobMoves(s, "update")
    BY JobStep, Zenon DEF Actions
  <1>6. ASSUME NEW a \in Actions, jobs'[s][a].state # "absent" PROVE driver'[s] # "elasticsearch"
    <2>1. JobMoves(s, a)
      BY JobStep, Zenon
    <2>2. jobs[s][a].state # "absent" \/ (s = at /\ a = pc)
      BY <1>6, <2>1, JobAfter, Zenon
    <2> QED BY <1>2, <2>2, Zenon DEF StoreInv, PassInv, Actions
  <1>7. jobs'[s]["update"].state # "absent" => db'[s] # NoSchema
    <2>1. jobs'[s]["update"].state # "absent" => jobs[s]["update"].state # "absent" \/ (s = at /\ "update" = pc)
      BY <1>5, JobAfter, Zenon
    <2>2. jobs'[s]["update"].state # "absent" => db[s] # NoSchema
      BY <2>1, Zenon DEF StoreInv, PassInv
    <2> QED BY <1>1, <2>2, Zenon
  <1>8. jobs'[s]["setup"].state = "succeeded" => db'[s] # NoSchema
    <2>1. jobs'[s]["setup"].state = "succeeded" => jobs[s]["setup"].state = "succeeded" \/ db[s] # NoSchema
      BY <1>5, SucceededAfter, Zenon
    <2> QED BY <1>1, <2>1, Zenon DEF StoreInv
  <1>9. ASSUME jobs'[s]["update"].state = "succeeded" PROVE Satisfied(s, jobs[s]["update"].image)'
    <2>1. PICK v : v = jobs[s]["update"].image
      BY Zenon
    <2>2. /\ jobs'[s]["update"].image = v
          /\ \/ jobs[s]["update"].state = "succeeded"
             \/ /\ jobs[s]["update"].state = "running" /\ db[s] # NoSchema
                /\ ToolResult(s, "update", v) = db[s]
      BY <1>5, <1>9, <2>1, SucceededAfter
    <2>3. v \in Versions
      BY <2>1, <2>2, Zenon DEF TypeOK, Actions
    <2>4. Satisfied(s, v)
      BY <2>1, <2>2, <2>3, SucceededIsSatisfied, Zenon DEF StoreInv
    <2>5. Satisfied(s, v)'
      BY <1>1, <2>3, <2>4, Zenon
    <2> QED BY <2>2, <2>5, Zenon DEF Satisfied, MinSchemaFor
  <1> QED BY <1>3, <1>4, <1>6, <1>7, <1>8, <1>9, Zenon

LEMMA TypeStep ==
  ASSUME TypeOK, StoreInv, PassInv, ReadyInv, [Next]_vars
  PROVE  TypeOK'
  <1>1. PassTypeOK'
    BY PassStep, Zenon
  <1>2. driver' \in [Stores -> Drivers] /\ db' \in [Stores -> Schemas]
    BY DbStep, Zenon DEF TypeOK
  <1>3. jobs' \in [Stores -> [Actions -> Jobs]]
    BY JobStep, Zenon
  <1>4. ASSUME NEW s \in Stores, NEW a \in Actions, jobs'[s][a].state # "absent"
        PROVE  jobs'[s][a].image \in Versions
    <2>1. JobMoves(s, a)
      BY JobStep, Zenon
    <2>2. jobs[s][a].state # "absent" => jobs[s][a].image \in Versions
      BY Zenon DEF TypeOK
    <2>3. a = pc => mem.version \in Versions
      BY Zenon DEF TypeOK, Actions
    <2> QED BY <1>4, <2>1, <2>2, <2>3, JobAfter, Zenon
  <1> QED BY <1>1, <1>2, <1>3, <1>4, InspectorStep, ReportStep, StrayStep, Zenon DEF TypeOK, PassTypeOK

-----------------------------------------------------------------------------
(* The safety theorems.                                                    *)

LEMMA InitInv == Init => PersistenceInv
  <1> SUFFICES ASSUME Init PROVE PersistenceInv
    BY Zenon
  <1>1. Min(Versions) \in Versions
    BY PersistenceAssumption, Zenon DEF Min
  <1>2. /\ spec \in Versions /\ driver \in [Stores -> Drivers]
        /\ status = NoStatus /\ mem = NoPass /\ pc = "idle" /\ at = "default" /\ moving = FALSE
        /\ report = [s \in Stores |-> Unread] /\ db = [s \in Stores |-> NoSchema]
        /\ jobs = [s \in Stores |-> [a \in Actions |-> NoJob]]
        /\ stray = [s \in Stores |-> {}] /\ insp = [s \in Stores |-> NoInspector]
    BY <1>1, PersistenceAssumption, Zenon DEF Init
  <1>3. TypeOK
    BY <1>2, Constants, SchemaConstants, Zenon DEF TypeOK, Stores
  <1>4. StoreInv
    BY <1>2, Constants, Zenon DEF StoreInv, Honest, InspectorPods, Actions
  <1>5. PassInv /\ ReadyInv
    BY <1>2, Constants, Zenon DEF PassInv, AtSchema, ReadyInv, Announced
  <1> QED BY <1>3, <1>4, <1>5, Zenon DEF PersistenceInv

LEMMA Inductive == Spec => []PersistenceInv
  <1>1. PersistenceInv /\ [Next]_vars => PersistenceInv'
    BY TypeStep, StoreStep, PassStep, Zenon DEF PersistenceInv
  <1> QED BY <1>1, InitInv, PTL DEF Spec

\* A SchemaReady condition is right about both stores, whatever the age of the answers it
\* was set from, whichever Jobs came and went, and through every change of the version.
THEOREM ReadyIsMigrated == Spec => []ReadyMeansMigrated
  <1>1. PersistenceInv => ReadyMeansMigrated
    BY Zenon DEF PersistenceInv, ReadyInv, Announced, ReadyMeansMigrated
  <1> QED BY <1>1, Inductive, PTL

\* The update Job exists only for a store that has been set up: a setup Job that is still
\* running, or another version's, does not let ensureSchemaJob go on to the update.
THEOREM SetupComesFirst == Spec => []SetupBeforeUpdate
  <1>1. PersistenceInv => SetupBeforeUpdate
    BY Zenon DEF PersistenceInv, StoreInv, SetupBeforeUpdate
  <1> QED BY <1>1, Inductive, PTL

\* When reconcileJobSchema takes an update Job for succeeded, the store has the schema of
\* the version the pass is about.
THEOREM SuccessMeansCurrent == Spec => []SuccessIsCurrent
  <1>1. PersistenceInv => SuccessIsCurrent
    BY Zenon DEF PersistenceInv, PassInv, SuccessIsCurrent
  <1> QED BY <1>1, Inductive, PTL

-----------------------------------------------------------------------------
(* The refinement.                                                         *)

Levels == [s \in Stores |-> Level(db[s])]
Told   == IF status.schema = "ready" THEN status.of ELSE 0
Needs  == [v \in Versions |-> [s \in Stores |-> Level(MinSchemaFor(v, s))]]

\* A store changes by its bootstrap, or to what some version needs and it did not have.
Bootstrapped(s) ==
  driver[s] # "elasticsearch" /\ db[s] = NoSchema /\ db' = [db EXCEPT ![s] = Bootstrap]

Migrated(s, v, new) ==
  /\ db[s] # NoSchema \/ driver[s] = "elasticsearch"
  /\ ~ Satisfied(s, v)
  /\ new # NoSchema /\ Number(new) >= Number(MinSchemaFor(v, s))
  /\ db' = [db EXCEPT ![s] = new]

LEMMA ToolMoves ==
  ASSUME TypeOK, NEW s \in Stores, NEW a \in Actions, NEW v \in Versions,
         db' = [db EXCEPT ![s] = ToolResult(s, a, v)], a = "setup" => driver[s] # "elasticsearch"
  PROVE  UNCHANGED db \/ Bootstrapped(s) \/ \E new \in Schemas : Migrated(s, v, new)
  <1>0. db \in [Stores -> Schemas]
    BY Zenon DEF TypeOK
  <1>1. CASE ToolResult(s, a, v) = db[s]
    BY <1>0, <1>1, Zenon
  <1>2. CASE a = "setup" /\ db[s] = NoSchema
    <2>1. ToolResult(s, a, v) = Bootstrap
      BY <1>2, Zenon DEF ToolResult
    <2> QED BY <1>2, <2>1, Zenon DEF Bootstrapped
  <1>3. CASE ToolResult(s, a, v) = MinSchemaFor(v, s) /\ db[s] # NoSchema /\ ~ Satisfied(s, v)
    <2>1. PICK new : new = MinSchemaFor(v, s)
      BY Zenon
    <2>2. new \in Schemas /\ new # NoSchema /\ Number(new) >= Number(MinSchemaFor(v, s))
      BY <2>1, MinSchemaType
    <2>3. Migrated(s, v, new)
      BY <1>3, <2>1, <2>2, Zenon DEF Migrated
    <2> QED BY <2>2, <2>3, Zenon
  <1> QED BY <1>1, <1>2, <1>3, Zenon DEF ToolResult

LEMMA DbMoves ==
  ASSUME TypeOK, StoreInv, PassInv, [Next]_vars
  PROVE  \/ UNCHANGED db
         \/ /\ UNCHANGED status
            /\ \E s \in Stores : Bootstrapped(s) \/ \E v \in Versions, new \in Schemas : Migrated(s, v, new)
  <1> USE DEF pass, kube
  <1>0. db \in [Stores -> Schemas] /\ at \in Stores
    BY Zenon DEF TypeOK
  <1>3. CASE ReconcileStoreSchema
    <2>1. PICK current \in {db[at], report[at].version, NoSchema} :
            /\ ReadsVersion(current)
            /\ \/ UNCHANGED db
               \/ ~ SchemaSatisfies(current, MinSchemaFor(mem.version, at)) /\ EnsureSchemaInline
      BY <1>3, Zenon DEF ReconcileStoreSchema
    <2>2. UNCHANGED status /\ pc = "schema"
      BY <1>3, Zenon DEF ReconcileStoreSchema
    <2>4. CASE ~ SchemaSatisfies(current, MinSchemaFor(mem.version, at)) /\ EnsureSchemaInline
      <3>1. driver[at] = "elasticsearch" /\ db' = [db EXCEPT ![at] = EsVersion]
        BY <2>4, Zenon DEF EnsureSchemaInline
      <3>2. current = db[at] /\ mem.version \in Versions
        BY <2>1, <2>2, <3>1, ReadsHonest, Zenon DEF TypeOK
      <3>3. ~ Satisfied(at, mem.version)
        BY <1>0, <2>4, <3>2, MinSchemaType, SatisfiesIsNumber, Zenon DEF Satisfied
      <3>4. Migrated(at, mem.version, EsVersion)
        BY <1>0, <3>1, <3>2, <3>3, MinSchemaType, SchemaConstants, Zenon DEF Migrated
      <3> QED BY <1>0, <2>2, <3>2, <3>4, SchemaConstants, Zenon
    <2> QED BY <2>1, <2>4, Zenon
  <1>4. ASSUME NEW s \in Stores, NEW a \in Actions, ToolRuns(s, a)
        PROVE  UNCHANGED status /\ (UNCHANGED db \/ Bootstrapped(s) \/ \E v \in Versions, new \in Schemas : Migrated(s, v, new))
    <2>1. jobs[s][a].image \in Versions /\ driver[s] # "elasticsearch"
      BY <1>4, Zenon DEF ToolRuns, TypeOK, StoreInv
    <2> QED BY <1>4, <2>1, ToolMoves, Zenon DEF ToolRuns
  <1>5. ASSUME NEW s \in Stores, NEW v \in stray[s], StrayEnds(s, v)
        PROVE  UNCHANGED status /\ (UNCHANGED db \/ Bootstrapped(s) \/ \E w \in Versions, new \in Schemas : Migrated(s, w, new))
    <2>1. v \in Versions
      BY <1>5, Zenon DEF TypeOK
    <2>2. UNCHANGED status /\ (UNCHANGED db \/ db' = [db EXCEPT ![s] = ToolResult(s, "update", v)])
      BY <1>5, Zenon DEF StrayEnds
    <2> QED BY <2>1, <2>2, ToolMoves, Zenon DEF Actions
  <1>6. CASE \/ Get \/ ProbeDirectly \/ ProbeInspected \/ EnsureSchemaJob \/ DeleteInspectorJob
             \/ UpdateStatus \/ ProbeFails \/ AbortPass
    BY <1>6, Zenon DEF Get, ProbeDirectly, ProbeInspected, EnsureSchemaJob, DeleteInspectorJob, UpdateStatus,
                ProbeFails, AbortPass
  <1>7. CASE \E s \in Stores, a \in Actions : JobSucceeds(s, a) \/ JobExpires(s, a) \/ JobGone(s, a) \/ JobFails(s, a)
    BY <1>7, Zenon DEF JobSucceeds, JobExpires, JobGone, JobFails
  <1>8. CASE Inspectors \/ GarbageCollector \/ EditVersion \/ \E s \in Stores : InspectorFails(s) \/ InspectorPodLost(s)
    BY <1>8, Zenon DEF Inspectors, GarbageCollector, EditVersion, InspectorFails, InspectorPodLost,
                InspectorAnswers, InspectorExpires, InspectorGone, OldPodsGone
  <1>9. CASE UNCHANGED vars
    BY <1>9, Zenon DEF vars
  <1> QED BY <1>3, <1>4, <1>5, <1>6, <1>7, <1>8, <1>9, Zenon DEF Next, Reconcile, Tools, Failures

LEMMA LevelType ==
  ASSUME NEW v \in Schemas
  PROVE  Level(v) \in Nat /\ (Level(v) = 0 <=> v = NoSchema) /\ (v # NoSchema => Level(v) = 1 + Number(v))
  <1>1. Number(v) \in Nat
    BY NumberType, Zenon
  <1> QED BY <1>1 DEF Level

\* The numbers Migration sees of a step on one store.
LEMMA LevelMoves ==
  ASSUME TypeOK, NEW s \in Stores, NEW new \in Schemas, db' = [db EXCEPT ![s] = new]
  PROVE  Levels' = [Levels EXCEPT ![s] = Level(new)] /\ Levels'[s] = Level(new)
  <1>1. db \in [Stores -> Schemas]
    BY Zenon DEF TypeOK
  <1>2. db'[s] = new /\ \A t \in Stores : t # s => db'[t] = db[t]
    BY <1>1, Zenon
  <1>3. Levels' = [t \in Stores |-> Level(db'[t])] /\ DOMAIN Levels = Stores
    BY Zenon DEF Levels
  <1>4. \A t \in Stores : Level(db'[t]) = IF t = s THEN Level(new) ELSE Levels[t]
    BY <1>2 DEF Levels
  <1> QED BY <1>3, <1>4, Zenon

LEMMA NeedType ==
  ASSUME TypeOK, NEW v \in Versions, NEW s \in Stores
  PROVE  Needs[v][s] = 1 + Number(MinSchemaFor(v, s)) /\ Needs[v][s] \in Nat
  BY MinSchemaType, LevelType, Zenon DEF Needs

LEMMA BootstrapRefines ==
  ASSUME TypeOK, UNCHANGED <<driver, status>>, NEW s \in Stores, Bootstrapped(s)
  PROVE  Promise!Next
  <1>1. Level(Bootstrap) = 1 /\ Level(NoSchema) = 0
    BY LevelType, SchemaConstants
  <1>2. Levels' = [Levels EXCEPT ![s] = 1] /\ Levels'[s] = 1
    BY <1>1, LevelMoves, SchemaConstants, Zenon DEF Bootstrapped
  <1>3. Levels[s] = 0 /\ DOMAIN Levels = Stores
    BY <1>1, Zenon DEF Bootstrapped, Levels
  <1>4. Promise!Bootstrap(s)
    BY <1>2, <1>3, Zenon DEF Promise!Bootstrap, Levels, Bootstrapped, MinSchemaFor
  <1>5. Levels' # Levels
    BY <1>2, <1>3
  <1>6. \E t \in DOMAIN Levels : Promise!Bootstrap(t)
    BY <1>3, <1>4, Zenon
  <1> QED BY <1>5, <1>6, Zenon DEF Promise!Next, Levels

LEMMA MigrateRefines ==
  ASSUME TypeOK, UNCHANGED <<driver, status>>, NEW s \in Stores, NEW v \in Versions, NEW new \in Schemas,
         Migrated(s, v, new)
  PROVE  Promise!Next
  <1>1. /\ db[s] \in Schemas /\ Number(db[s]) \in Nat /\ Number(new) \in Nat
        /\ Number(MinSchemaFor(v, s)) \in Nat
    <2>1. db[s] \in Schemas
      BY Zenon DEF TypeOK
    <2>2. Number(MinSchemaFor(v, s)) \in Nat
      BY MinSchemaType, Zenon
    <2> QED BY <2>1, <2>2, NumberType, Zenon
  <1>2. Levels' = [Levels EXCEPT ![s] = Level(new)] /\ Levels'[s] = Level(new)
    BY LevelMoves, Zenon DEF Migrated
  <1>3. Level(new) = 1 + Number(new) /\ Needs[v][s] = 1 + Number(MinSchemaFor(v, s))
    BY LevelType, NeedType, Zenon DEF Migrated
  <1>4. Levels[s] = Level(db[s]) /\ DOMAIN Levels = Stores /\ DOMAIN Needs = Versions
    BY Zenon DEF Levels, Needs
  <1>5. /\ Level(db[s]) \in Nat /\ (db[s] # NoSchema => Level(db[s]) > 0)
        /\ (db[s] = NoSchema \/ Level(db[s]) = 1 + Number(db[s])) /\ (db[s] = NoSchema => Level(db[s]) = 0)
    BY <1>1, LevelType
  <1>6. Levels[s] > 0 \/ driver[s] = "elasticsearch"
    BY <1>4, <1>5, Zenon DEF Migrated
  <1>7. Levels[s] < Needs[v][s]
    <2>1. db[s] = NoSchema \/ Number(db[s]) < Number(MinSchemaFor(v, s))
      <3>1. db[s] = NoSchema \/ ~ (Number(db[s]) >= Number(MinSchemaFor(v, s)))
        BY Zenon DEF Migrated, Satisfied
      <3> QED BY <1>1, <3>1
    <2>2. CASE db[s] = NoSchema
      <3>1. Levels[s] = 0 /\ 0 < 1 + Number(MinSchemaFor(v, s))
        BY <1>1, <1>4, <1>5, <2>2
      <3> QED BY <1>3, <3>1, Zenon
    <2>3. CASE db[s] # NoSchema
      <3>1. 1 + Number(db[s]) < 1 + Number(MinSchemaFor(v, s))
        BY <1>1, <2>1, <2>3
      <3> QED BY <1>3, <1>4, <1>5, <2>3, <3>1, Zenon
    <2> QED BY <2>2, <2>3, Zenon
  <1>8. Levels'[s] >= Needs[v][s]
    <2>1. Number(new) >= Number(MinSchemaFor(v, s))
      BY Zenon DEF Migrated
    <2>2. 1 + Number(new) >= 1 + Number(MinSchemaFor(v, s))
      BY <1>1, <2>1
    <2> QED BY <1>2, <1>3, <2>2, Zenon
  <1>9. UNCHANGED <<Needs, Told>>
    BY Zenon DEF Needs, Told, MinSchemaFor
  <1>10. Levels' # Levels
    <2>1. PICK x, y, z : x = Levels[s] /\ y = Levels'[s] /\ z = Needs[v][s]
      BY Zenon
    <2>2. x \in Nat /\ x < z /\ y >= z
      BY <1>4, <1>5, <1>7, <1>8, <2>1, Zenon
    <2>3. y \in Nat /\ z \in Nat
      BY <1>2, <2>1, NeedType, LevelType, Zenon
    <2>4. x # y
      BY <2>2, <2>3
    <2> QED BY <2>1, <2>4, Zenon
  <1>11. Promise!Migrate(s, v)
    BY <1>2, <1>6, <1>7, <1>8, <1>9, Zenon DEF Promise!Migrate, Levels, Needs, Told
  <1> QED BY <1>4, <1>10, <1>11, Zenon DEF Promise!Next, Levels, Needs

\* UpdateStatus writes the pass's verdict, which is right.
LEMMA AnnounceRefines ==
  ASSUME TypeOK, ReadyInv', UNCHANGED <<driver, db>>, Told' # Told
  PROVE  Promise!Next
  <1>1. UNCHANGED <<Needs, Levels>> /\ DOMAIN Levels = Stores /\ DOMAIN Needs = Versions
    BY Zenon DEF Needs, Levels, MinSchemaFor
  <1>2. CASE status'.schema # "ready"
    <2>1. Told' = 0
      BY <1>2, Zenon DEF Told
    <2>2. Promise!Retract
      BY <1>1, <2>1, Zenon DEF Promise!Retract, Levels, Needs, Told
    <2> QED BY <2>2, Zenon DEF Promise!Next, Told
  <1>3. CASE status'.schema = "ready"
    <2>1. PICK v : v = status'.of
      BY Zenon
    <2>2. Told' = v /\ v \in Versions /\ \A s \in Stores : Satisfied(s, v)
      BY <1>3, <2>1, Zenon DEF Told, ReadyInv, Announced, Satisfied, MinSchemaFor
    <2>3. ASSUME NEW s \in Stores PROVE Levels[s] >= Needs[v][s]
      <3>1. /\ db[s] \in Schemas /\ Number(db[s]) \in Nat /\ db[s] # NoSchema
            /\ Number(db[s]) >= Number(MinSchemaFor(v, s)) /\ Number(MinSchemaFor(v, s)) \in Nat
        <4>1. db[s] \in Schemas
          BY Zenon DEF TypeOK
        <4>2. db[s] # NoSchema /\ Number(db[s]) >= Number(MinSchemaFor(v, s))
          BY <2>2, Zenon DEF Satisfied
        <4>3. Number(MinSchemaFor(v, s)) \in Nat
          BY <2>2, MinSchemaType, Zenon
        <4> QED BY <4>1, <4>2, <4>3, NumberType, Zenon
      <3>2. Levels[s] = 1 + Number(db[s]) /\ Needs[v][s] = 1 + Number(MinSchemaFor(v, s))
        BY <2>2, <3>1, LevelType, NeedType, Zenon DEF Levels
      <3> QED BY <3>1, <3>2
    <2>4. Promise!Announce(v)
      BY <1>1, <2>2, <2>3, Zenon DEF Promise!Announce, Levels, Needs, Told
    <2> QED BY <1>1, <2>2, <2>4, Zenon DEF Promise!Next, Levels, Needs, Told
  <1> QED BY <1>2, <1>3, Zenon

\* Every step is one of Migration's, or one it does not see.
LEMMA StepRefines ==
  ASSUME PersistenceInv, PersistenceInv', [Next]_vars
  PROVE  [Promise!Next]_(Promise!vars)
  <1>0. TypeOK /\ StoreInv /\ PassInv /\ ReadyInv' /\ UNCHANGED driver
    BY DbStep, Zenon DEF PersistenceInv
  <1>1. CASE UNCHANGED db /\ Told' = Told
    BY <1>0, <1>1, Zenon DEF Promise!vars, Told, MinSchemaFor
  <1>2. CASE UNCHANGED db /\ Told' # Told
    BY <1>0, <1>2, AnnounceRefines, Zenon
  <1>3. CASE UNCHANGED status /\ \E s \in Stores : Bootstrapped(s)
    BY <1>0, <1>3, BootstrapRefines, Zenon
  <1>4. CASE UNCHANGED status /\ \E s \in Stores : \E v \in Versions, new \in Schemas : Migrated(s, v, new)
    BY <1>0, <1>4, MigrateRefines, Zenon
  <1> QED BY <1>0, <1>1, <1>2, <1>3, <1>4, DbMoves, Zenon

\* The stage implements Migration, for every version matrix and layout of drivers: each
\* step of a pass, a tool, a Job or an inspector is a bootstrap of a store without schema,
\* a move of one store up to what some version needs, an announcement of a version all
\* stores are ready for, a retraction, or nothing Migration sees.
THEOREM PromiseKept == Spec => KeepsPromise
  <1>1. Init => Promise!Init
    <2> SUFFICES ASSUME Init PROVE Promise!Init
      OBVIOUS
    <2>1. db = [s \in Stores |-> NoSchema] /\ status = NoStatus
      BY Zenon DEF Init
    <2>2. Levels = [s \in Stores |-> 0] /\ Told = 0
      BY <2>1, Constants, Zenon DEF Levels, Level, Told
    <2> QED BY <2>2, Zenon DEF Promise!Init, Levels, Told
  <1>2. PersistenceInv /\ PersistenceInv' /\ [Next]_vars => [Promise!Next]_(Promise!vars)
    BY StepRefines, Zenon
  <1> QED BY <1>1, <1>2, Inductive, PTL DEF Spec, KeepsPromise, Promise!Spec
=============================================================================
