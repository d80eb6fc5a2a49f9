----------------------------- MODULE MCDevices -----------------------------
(* Devices for TLC: one cluster with its image in the state root, one
   whose image may be anywhere. *)
EXTENDS Devices

CONSTANTS c1, c2

OneEach == [c \in Cluster |-> 1]
Anywhere == [c \in Cluster |-> IF c = c1 THEN {"root"} ELSE {"hidden"}]
=============================================================================
