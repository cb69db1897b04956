--------------------------- MODULE MCPersistence ---------------------------
(* Small instances of Persistence for TLC. *)
EXTENDS Persistence

\* Two adjacent rows of the version matrix, 1.27 and 1.28: the visibility line stands still.
TwoReleases == 1..2
SchemaLine ==
  [x \in TwoReleases \X Drivers \X Stores |->
     CASE x[2] = "elasticsearch" -> <<7>>
       [] x[2] = "cassandra" -> <<1, 11 + x[1]>>
       [] x[3] = "visibility" -> <<1, 9>>
       [] OTHER -> <<1, 16 + x[1]>>]
Template == <<8>>

Layout(d, v) == [s \in Stores |-> IF s = "default" THEN d ELSE v]

\* Each driver at least once, and two stores that both go through Jobs.
EveryDriver ==
  {Layout("sql", "sql"), Layout("inspector", "elasticsearch"), Layout("cassandra", "elasticsearch")}
=============================================================================
