-------------------------------- MODULE Host --------------------------------
(***************************************************************************)
(* What the commands of rooket share on one host, per cluster: its lock    *)
(* (an AbstractLock, see Flock), its state directory with the disk images  *)
(* in it, the kernel's iSCSI targets over those images, and the node       *)
(* containers each container engine has for it.  Module Lifecycle has the  *)
(* commands on one cluster, Sweeps the commands on all of them.            *)
(***************************************************************************)
EXTENDS Naturals, FiniteSets

CONSTANTS
  Cluster,   \* cluster names
  Engine,    \* installed container engines (podman, docker)
  Disk,      \* the worker-disk positions of a cluster
  Runner,    \* processes running commands on one cluster
  Sweeper,   \* processes running down --all or prune
  Nobody,    \* no process has the lock
  Faults     \* what may go wrong, a subset of AllFaults

AllFaults == {"create", "crash", "delete", "list", "rmdir", "setup", "teardown",
              "zap"}

ASSUME FaultsAssumption == Faults \subseteq AllFaults
ASSUME ProcessAssumption ==
  /\ Nobody \notin Runner \cup Sweeper
  /\ Runner \cap Sweeper = {}

Proc == Runner \cup Sweeper

VARIABLES
  lock,      \* lock[c]: the process holding c's lock, or Nobody
  stateDir,  \* the clusters with a state directory
  owned,     \* those whose state dir records an owner that still exists
  imgs,      \* imgs[c]: the disks with an image in c's state directory
  dirty,     \* dirty[c]: the images carrying an OSD's data
  targets,   \* targets[c]: the disks the kernel has a backstore and target of
  reported,  \* reported[c]: targets a teardown warned it could not delete
  unwiped,   \* unwiped[c]: dirty images of a deleted cluster that were left
             \* by an error, a kill or --zap=false
  node       \* node[c][e]: c's node containers under engine e

hostVars == <<lock, stateDir, owned, imgs, dirty, targets, reported, unwiped, node>>

HostTypeOK ==
  /\ lock \in [Cluster -> Proc \cup {Nobody}]
  /\ stateDir \in SUBSET Cluster
  /\ owned \in SUBSET stateDir
  /\ imgs \in [Cluster -> SUBSET Disk]
  /\ dirty \in [Cluster -> SUBSET Disk]
  /\ targets \in [Cluster -> SUBSET Disk]
  /\ reported \in [Cluster -> SUBSET Disk]
  /\ unwiped \in [Cluster -> SUBSET Disk]
  /\ node \in [Cluster -> [Engine -> {"none", "running", "exited"}]]
  /\ \A c \in Cluster : unwiped[c] \subseteq dirty[c] /\ dirty[c] \subseteq imgs[c]
  /\ \A c \in Cluster : reported[c] \subseteq targets[c]
  /\ \A c \in Cluster : imgs[c] # {} => c \in stateDir

HostInit ==
  /\ lock = [c \in Cluster |-> Nobody]
  /\ stateDir = {}
  /\ owned = {}
  /\ imgs = [c \in Cluster |-> {}]
  /\ dirty = [c \in Cluster |-> {}]
  /\ targets = [c \in Cluster |-> {}]
  /\ reported = [c \in Cluster |-> {}]
  /\ unwiped = [c \in Cluster |-> {}]
  /\ node = [c \in Cluster |-> [e \in Engine |-> "none"]]

-----------------------------------------------------------------------------
(* Looking at the host. *)

(* cluster.Exists: kind lists a cluster while it has node containers. *)
Exists(c, e) == node[c][e] # "none"

(* liveClusters: the engines a cluster is live under. *)
LiveUnder(c) == {e \in Engine : Exists(c, e)}

Live(c) == LiveUnder(c) # {}

(* ownerGone: abandoned, rather than parked by a plain down. *)
OwnerGone(c) == c \notin owned

-----------------------------------------------------------------------------
(* Changing it. *)

Acquire(p, c) ==
  /\ lock[c] = Nobody
  /\ lock' = [lock EXCEPT ![c] = p]

LockBusy(c) == lock[c] # Nobody

(* Every lock of a process, let go together or by its death. *)
ReleaseAll(p) == lock' = [c \in Cluster |-> IF lock[c] = p THEN Nobody ELSE lock[c]]

HeldBy(p) == {c \in Cluster : lock[c] = p}

(* kind delete cluster under the engines of es. *)
DeleteUnder(c, es) ==
  node' = [node EXCEPT ![c] = [e \in Engine |-> IF e \in es THEN "none" ELSE @[e]]]

(* ZapISCSIDisks: every image truncated to nothing and back. *)
Zap(c) ==
  /\ dirty' = [dirty EXCEPT ![c] = {}]
  /\ unwiped' = [unwiped EXCEPT ![c] = {}]

(* The same with some images left unwiped. *)
ZapSome(c) ==
  /\ "zap" \in Faults
  /\ \E left \in SUBSET dirty[c] :
       /\ left # {}
       /\ dirty' = [dirty EXCEPT ![c] = left]
       /\ unwiped' = [unwiped EXCEPT ![c] = left]

(* A run that works on the clusters of cs stops, by an error it prints, a
   warning or its death, or is told not to zap: the images of a deleted
   cluster stay as dirty as they are. *)
StopOver(cs) ==
  unwiped' = [c \in Cluster |-> IF c \in cs /\ ~Live(c)' THEN dirty[c]
                               ELSE unwiped[c]]

(* buildISCSITeardownSteps run on a batch: batch[c] the disks of c named in
   it, left[c] those whose targetcli deletion fails, with a warning. *)
TearDown(batch, left) ==
  /\ targets' = [c \in Cluster |-> (targets[c] \ batch[c]) \cup left[c]]
  /\ reported' = [c \in Cluster |-> (reported[c] \ batch[c]) \cup left[c]]

(* The deletions of a batch that can fail: of targets that exist. *)
Leftovers(batch) ==
  {left \in [Cluster -> SUBSET Disk] :
     \A c \in Cluster :
       /\ left[c] \subseteq batch[c] \cap targets[c]
       /\ "teardown" \notin Faults => left[c] = {}}

(* os.RemoveAll of a state dir: the images and the recorded owner with it. *)
RemoveStateDir(c) ==
  /\ stateDir' = stateDir \ {c}
  /\ owned' = owned \ {c}
  /\ imgs' = [imgs EXCEPT ![c] = {}]
  /\ dirty' = [dirty EXCEPT ![c] = {}]
  /\ unwiped' = [unwiped EXCEPT ![c] = {}]

-----------------------------------------------------------------------------
(* What happens to the host from outside. *)

(* The user deletes the rook clone (or configuration directory) of c. *)
OwnerRemoved(c) ==
  /\ c \in owned
  /\ owned' = owned \ {c}
  /\ UNCHANGED <<lock, stateDir, imgs, dirty, targets, reported, unwiped, node>>

(* The node containers stop and no engine restarts them; the target
   configuration is restored.  Processes do not survive: see Restart. *)
NodesStop ==
  node' = [c \in Cluster |-> [e \in Engine |->
             IF node[c][e] = "running" THEN "exited" ELSE node[c][e]]]
=============================================================================
