------------------------------ MODULE MCFlock ------------------------------
(* Flock for TLC: its cfgs name the lockers of one cluster and the inodes. *)
EXTENDS Flock
=============================================================================
