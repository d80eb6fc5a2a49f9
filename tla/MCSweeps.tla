------------------------------ MODULE MCSweeps ------------------------------
(* Instances of Sweeps for TLC.  A run picks the clusters, engines and       *)
(* processes, the commands runners are given and the flags of the sweeps.    *)
EXTENDS Sweeps

Cmd(cmd, c, e, ds) ==
  [cmd |-> cmd, cluster |-> c, eng |-> e, want |-> ds, clone |-> TRUE,
   zap |-> TRUE, disks |-> FALSE, keep |-> FALSE]

(* Every command for every cluster under every engine, with the shape that
   names every disk. *)
Each(cmd) == {Cmd(cmd, c, e, Disk) : c \in Cluster, e \in Engine}

(* down plain and with --delete-disks. *)
Downs == Each("down") \cup {[j EXCEPT !.disks = TRUE] : j \in Each("down")}

Ups == Each("up")
UpsAndDowns == Ups \cup Downs
UpsAndSetups == Ups \cup Each("setup")

(* The same with --disk-count 0. *)
Reshapes ==
  UpsAndDowns \cup {[j EXCEPT !.want = {}] : j \in Ups}

(* Every command and the settings of its flags. *)
EveryJob ==
  LET teardowns == Each("teardown") IN
  Reshapes \cup Each("create") \cup Each("setup") \cup Each("delete")
    \cup {[j EXCEPT !.zap = FALSE] : j \in Each("delete")}
    \cup teardowns \cup {[j EXCEPT !.disks = TRUE] : j \in teardowns}
    \cup {[j EXCEPT !.keep = TRUE] : j \in Downs}

All(d, s)  == [cmd |-> "all", deleteDisks |-> d, skipBlock |-> s, parked |-> FALSE]
Prune(inc) == [cmd |-> "prune", deleteDisks |-> FALSE, skipBlock |-> FALSE,
               parked |-> inc]

DownAlls   == {All(FALSE, FALSE), All(TRUE, FALSE)}
Prunes     == {Prune(FALSE)}
EverySweep == DownAlls \cup {Prune(FALSE), Prune(TRUE)}
=============================================================================
