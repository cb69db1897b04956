--------------------------- MODULE MCClusterObjects ---------------------------
(***************************************************************************)
(* ClusterObjects for TLC: a plain cluster, and one with everything on.    *)
(***************************************************************************)
EXTENDS ClusterObjects

Plain ==
  [version |-> 31, image |-> "default", shards |-> 512, mtls |-> "off",
   internal |-> FALSE, override |-> "none", azure |-> FALSE, storeTLS |-> FALSE, ui |-> "off",
   port |-> 0, monitor |-> FALSE, dynamic |-> "none", metadata |-> "none", auth |-> "none"]

Full ==
  [Plain EXCEPT !.mtls = "ca", !.internal = TRUE, !.override = "labels",
                !.azure = TRUE, !.monitor = TRUE, !.dynamic = "retired",
                !.metadata = "dc1", !.auth = "passthrough"]

PlainAndFull == {Plain, Full}
OnlyPlain    == {Plain}
==============================================================================
