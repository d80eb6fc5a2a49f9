------------------------------ MODULE MCNodes -------------------------------
(* Nodes for TLC: a cluster of one or two workers, by default of one. *)
EXTENDS Nodes

OneEach == [workers |-> 1, disks |-> 1]

Given(cmd, w, d) == [cmd |-> cmd, workers |-> w, disks |-> d]

(* Every command, and every flag in a way. *)
EveryFlag ==
  [c \in Cluster |->
     {Given(cmd, None, None) : cmd \in {"up", "create", "down", "purge"}}
     \cup {Given("up", w, None) : w \in Worker} \cup {Given("up", None, 0)}]
=============================================================================
