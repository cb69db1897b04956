----------------------------- MODULE Migration -----------------------------
(***************************************************************************)
(* What the persistence stage promises, with no Jobs, drivers or passes:   *)
(* a store is bootstrapped once, then only ever moves up to what some      *)
(* version needs, and a version is announced only when every store has     *)
(* what it needs.                                                          *)
(***************************************************************************)
EXTENDS Naturals

VARIABLES
  need,      \* version -> store -> level the version's server needs
  inline,    \* stores that need no bootstrap
  level,     \* store -> 0 (no schema), 1 (bootstrapped) or the schema's number
  told       \* the version said to be ready, 0 for none

vars == <<need, inline, level, told>>

Init ==
  /\ level = [s \in DOMAIN level |-> 0]
  /\ told = 0

Bootstrap(s) ==
  /\ s \notin inline /\ level[s] = 0
  /\ level' = [level EXCEPT ![s] = 1]
  /\ UNCHANGED <<need, inline, told>>

Migrate(s, v) ==
  /\ level[s] > 0 \/ s \in inline
  /\ level[s] < need[v][s]
  /\ level' = [level EXCEPT ![s] = level'[s]]
  /\ level'[s] >= need[v][s]
  /\ UNCHANGED <<need, inline, told>>

Announce(v) ==
  /\ \A s \in DOMAIN level : level[s] >= need[v][s]
  /\ told' = v
  /\ UNCHANGED <<need, inline, level>>

Retract == told' = 0 /\ UNCHANGED <<need, inline, level>>

Next ==
  \/ /\ level' # level
     /\ \E s \in DOMAIN level : Bootstrap(s) \/ \E v \in DOMAIN need : Migrate(s, v)
  \/ /\ told' # told
     /\ Retract \/ \E v \in DOMAIN need : Announce(v)

Spec == Init /\ [][Next]_vars
=============================================================================
