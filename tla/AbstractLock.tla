---------------------------- MODULE AbstractLock ----------------------------
(***************************************************************************)
(* What a rooket host lock promises to the commands that take it: at any   *)
(* moment at most one process has it, it is had by trying while nobody     *)
(* does, and it comes free when its holder lets go or dies.  How the       *)
(* promise is kept out of files that are deleted and inodes that outlive   *)
(* their names is module Flock.                                            *)
(***************************************************************************)
CONSTANTS
  Proc,    \* the rooket processes of the host
  Nobody   \* stands for no process, outside Proc

VARIABLE holder   \* the process that has the lock, or Nobody

Init == holder = Nobody

(* LockCluster succeeding. *)
Acquire(p) ==
  /\ holder = Nobody
  /\ holder' = p

(* The release the outermost caller runs, or the death of the holder. *)
Release(p) ==
  /\ holder = p
  /\ holder' = Nobody

Next == \E p \in Proc : Acquire(p) \/ Release(p)

Spec == Init /\ [][Next]_holder
=============================================================================
