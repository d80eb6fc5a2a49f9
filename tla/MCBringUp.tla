----------------------------- MODULE MCBringUp -----------------------------
(***************************************************************************)
(* Two clusters of one clone: c1 comes up in every way, c2 with a build     *)
(* that the probe may or may not spare it.                                  *)
(***************************************************************************)
EXTENDS BringUp

CONSTANTS c1, c2

TwoFlags ==
  [c \in {c1, c2} |->
     IF c = c1 THEN {f \in Flag : f.force => f.build}
     ELSE {[build |-> TRUE, force |-> FALSE, block |-> FALSE]}]

Branches == {"nodes", "cache"}
=============================================================================
