------------------------------- MODULE Nodes --------------------------------
(***************************************************************************)
(* The node containers of clusters, over reboots of the host.              *)
(*                                                                         *)
(* A worker's disk is bound into its container by the host's name for it,  *)
(* and a reboot may give the names to other disks.  A bring-up therefore   *)
(* inspects the containers it finds, and resumes the cluster, makes it     *)
(* anew, or refuses.  One run at a time works on a cluster (see Flock);    *)
(* what clusters share here is the disk names.                             *)
(***************************************************************************)
EXTENDS Naturals, FiniteSets

CONSTANTS
  Cluster,     \* cluster names
  MaxWorkers,  \* the most workers a cluster has here
  Name,        \* the names the kernel has for iSCSI disks (/dev/sdX)
  None,
  Default,     \* the shape of a new cluster whose flags say nothing, of Shape
  Flags,       \* Flags[c]: what the runs on c are given, of Flag
  Faults,      \* what may go wrong, a subset of AllFaults
  MaxFaults    \* how often it does

Worker == 1..MaxWorkers

(* Node 0 is the control plane, which has no disk. *)
Node == 0..MaxWorkers

Disk == Cluster \X Worker

(* clusterShape, with one disk per worker or none. *)
Shape == [workers : Worker, disks : 0..1]

(* The flags of up and cluster create, None where the user gives none; down is
   a plain one, purge a down --delete-disks. *)
Flag == [cmd : {"up", "create", "down", "purge"},
         workers : Worker \cup {None}, disks : (0..1) \cup {None}]

AllFaults == {"setup", "start", "wait", "delete", "make", "halfmade", "prep",
              "crash", "reboot", "die"}

ASSUME NodesAssumption ==
  /\ MaxWorkers \in Nat \ {0}
  /\ MaxFaults \in Nat
  /\ None \notin Name \cup (Cluster \X Node) \cup Shape
  /\ Default \in Shape
  /\ Flags \in [Cluster -> SUBSET Flag]
  /\ Faults \subseteq AllFaults

VARIABLES
  at,      \* at[n]: the disk the kernel has under name n, or None
  state,   \* state[c][i]: the engine's status of node i of c, or "none"
  bound,   \* bound[c][i]: the name it was made with a disk bound by, or None
  sees,    \* sees[c][i]: the disk names in its /dev
  serves,  \* the clusters kind has set an apiserver up in
  record,  \* record[c]: the recorded shape, or None
  pc,      \* pc[c]: the step the run on c is about to take
  want,    \* want[c]: the shape it is for
  dev,     \* dev[c]: the names of its disks, by node
  faults   \* how many things have gone wrong

nodeVars == <<state, bound, sees, serves>>
run == <<want, dev>>
vars == <<at, nodeVars, record, pc, run, faults>>

PC == {"idle", "setup", "locate", "inspect", "discard", "make", "start",
       "wait", "record", "prep", "ready", "down", "purge", "logout"}

NoDisks == [i \in Node |-> None]

TypeOK ==
  /\ at \in [Name -> Disk \cup {None}]
  /\ state \in [Cluster -> [Node -> {"none", "created", "running", "exited"}]]
  /\ bound \in [Cluster -> [Node -> Name \cup {None}]]
  /\ sees \in [Cluster -> [Node -> SUBSET Name]]
  /\ serves \subseteq Cluster
  /\ record \in [Cluster -> Shape \cup {None}]
  /\ pc \in [Cluster -> PC]
  /\ want \in [Cluster -> Shape]
  /\ dev \in [Cluster -> [Node -> Name \cup {None}]]
  /\ \A c \in Cluster :
       /\ pc[c] = "idle" => want[c] = Default /\ dev[c] = NoDisks
       /\ \A i \in Node : state[c][i] = "none" => bound[c][i] = None
  /\ faults \in 0..MaxFaults

Init ==
  /\ at = [n \in Name |-> None]
  /\ state = [c \in Cluster |-> [i \in Node |-> "none"]]
  /\ bound = [c \in Cluster |-> [i \in Node |-> None]]
  /\ sees = [c \in Cluster |-> [i \in Node |-> {}]]
  /\ serves = {}
  /\ record = [c \in Cluster |-> None]
  /\ pc = [c \in Cluster |-> "idle"]
  /\ want = [c \in Cluster |-> Default]
  /\ dev = [c \in Cluster |-> NoDisks]
  /\ faults = 0

-----------------------------------------------------------------------------
(* Looking at the host. *)

Goto(c, s) == pc' = [pc EXCEPT ![c] = s]

At(c, s) == pc[c] = s

(* The run ends, and forgets what it had settled. *)
End(c) ==
  /\ Goto(c, "idle")
  /\ want' = [want EXCEPT ![c] = Default]
  /\ dev' = [dev EXCEPT ![c] = NoDisks]

Fault(kind) ==
  /\ kind \in Faults
  /\ faults < MaxFaults
  /\ faults' = faults + 1

(* iSCSI disks of a run's shape, and those that have a name. *)
Wanted(c) == IF want[c].disks = 0 THEN {} ELSE {c} \X (1..want[c].workers)

Attached == {at[n] : n \in Name} \ {None}

(* resolveDeviceLink: the name a by-path link leads to. *)
NameOf(d) == CHOOSE n \in Name : at[n] = d

(* cluster.Nodes, AllRunning, AllExited and BoundDevices. *)
Nodes(c) == {i \in Node : state[c][i] # "none"}

AllRunning(c) == Nodes(c) # {} /\ \A i \in Nodes(c) : state[c][i] = "running"

AllExited(c) == Nodes(c) # {} /\ \A i \in Nodes(c) : state[c][i] = "exited"

BoundDevices(c) == \E i \in Nodes(c) : bound[c][i] # None

(* Mutant of Drifted: only the nodes that exist are compared. *)
MutDrifted(c) == \E i \in Nodes(c) : bound[c][i] # dev[c][i]

(* CheckDevices, over the nodes that exist and those the run has a disk for. *)
Drifted(c) == \E i \in Node : bound[c][i] # dev[c][i]

(* workerCountChanged, told by the record and not the node set. *)
Changed(c) == record[c] # None /\ record[c].workers # want[c].workers

-----------------------------------------------------------------------------
(* The start of a run, and its disks. *)

(* useRecordedShape, for a command that builds the cluster to its flags. *)
Settled(f, rec) ==
  LET known == IF rec # None THEN rec ELSE Default IN
  [workers |-> IF f.workers # None THEN f.workers ELSE known.workers,
   disks   |-> IF f.disks # None THEN f.disks ELSE known.disks]

(* Only up runs block setup, and not for a disk count of 0. *)
Begin(c, f) ==
  LET shape == Settled(f, record[c]) IN
  /\ At(c, "idle")
  /\ want' = [want EXCEPT ![c] = shape]
  /\ Goto(c, IF f.cmd \in {"down", "purge"} THEN f.cmd
             ELSE IF f.cmd = "up" /\ shape.disks = 1 THEN "setup" ELSE "locate")
  /\ UNCHANGED <<at, nodeVars, record, dev, faults>>

(* The disks of ds are logged in to, under names that were free. *)
LogIn(ds) ==
  LET free == {n \in Name : at[n] = None} IN
  \E name \in [ds -> free] :
    /\ \A d, e \in ds : name[d] = name[e] => d = e
    /\ at' = [n \in Name |-> IF \E d \in ds : name[d] = n
                             THEN CHOOSE d \in ds : name[d] = n ELSE at[n]]

(* blockSetupRunTo, in one step (see Devices). *)
SetUp(c) ==
  /\ At(c, "setup")
  /\ LogIn(Wanted(c) \ Attached)
  /\ Goto(c, "locate")
  /\ UNCHANGED <<nodeVars, record, run, faults>>

SetUpFails(c) ==
  /\ At(c, "setup")
  /\ \E ds \in SUBSET (Wanted(c) \ Attached) : LogIn(ds)
  /\ Fault("setup")
  /\ End(c)
  /\ UNCHANGED <<nodeVars, record>>

(* createClusterRun, step 1: waitForISCSIDevice for every disk. *)
Locate(c) ==
  /\ At(c, "locate")
  /\ Wanted(c) \subseteq Attached
  /\ dev' = [dev EXCEPT ![c] =
       [i \in Node |-> IF <<c, i>> \in Wanted(c) THEN NameOf(<<c, i>>) ELSE None]]
  /\ Goto(c, "inspect")
  /\ UNCHANGED <<at, nodeVars, record, want, faults>>

NotFound(c) ==
  /\ At(c, "locate")
  /\ ~(Wanted(c) \subseteq Attached)
  /\ End(c)
  /\ UNCHANGED <<at, nodeVars, record, faults>>

-----------------------------------------------------------------------------
(* Step 2: a new cluster, or resumeCluster. *)

Decide(c, s) ==
  /\ At(c, "inspect")
  /\ IF s = "refuse" THEN End(c) ELSE Goto(c, s) /\ UNCHANGED run
  /\ UNCHANGED <<at, nodeVars, record, faults>>

(* kind lists no such cluster. *)
New(c) == Nodes(c) = {} /\ Decide(c, "make")

(* Another worker count, or devices that are not the ones bound. *)
Unfit(c) == Changed(c) \/ (want[c].disks = 1 /\ Drifted(c))

Rebuild(c) ==
  /\ Nodes(c) # {} /\ Unfit(c) /\ AllExited(c)
  /\ Decide(c, "discard")

(* Mutant of RefuseUnfit: a stopped cluster may be refused as well. *)
MutRefuseUnfit(c) ==
  /\ Nodes(c) # {} /\ Unfit(c)
  /\ Decide(c, "refuse")

RefuseUnfit(c) ==
  /\ Nodes(c) # {} /\ Unfit(c) /\ ~AllExited(c)
  /\ Decide(c, "refuse")

(* --disk-count 0: "cannot check" is not "nothing to check". *)
Blind(c) == want[c].disks = 0 /\ ~AllRunning(c) /\ BoundDevices(c)

RefuseBlind(c) ==
  /\ Nodes(c) # {} /\ ~Unfit(c) /\ Blind(c)
  /\ Decide(c, "refuse")

(* Mutant of Keep: a stopped cluster is resumed by a run without disks. *)
MutKeep(c) ==
  /\ Nodes(c) # {} /\ ~Unfit(c)
  /\ Decide(c, IF AllRunning(c) THEN "wait" ELSE "start")

Keep(c) ==
  /\ Nodes(c) # {} /\ ~Unfit(c) /\ ~Blind(c)
  /\ Decide(c, IF AllRunning(c) THEN "wait" ELSE "start")

(* The containers of ns are started: each has every device of the host in its
   /dev again, and its disk is whatever has the name now. *)
StartNodes(c, ns) ==
  /\ state' = [state EXCEPT ![c] = [i \in Node |-> IF i \in ns THEN "running" ELSE @[i]]]
  /\ sees' = [sees EXCEPT ![c] =
       [i \in Node |-> IF i \in ns /\ state[c][i] # "running" THEN Name ELSE @[i]]]
  /\ UNCHANGED <<bound, serves>>

(* cluster.Start, to the engine's start; a running node is left as it is. *)
Start(c) ==
  /\ At(c, "start")
  /\ StartNodes(c, Nodes(c))
  /\ Goto(c, "wait")
  /\ UNCHANGED <<at, record, run, faults>>

StartFails(c) ==
  /\ At(c, "start")
  /\ \E ns \in SUBSET Nodes(c) : ns # Nodes(c) /\ StartNodes(c, ns)
  /\ Fault("start")
  /\ End(c)
  /\ UNCHANGED <<at, record>>

(* WaitAPIServer.  A worker that is down goes unnoticed: its Node object comes
   back from etcd still Ready. *)
Answers(c) == c \in serves /\ state[c][0] = "running"

Wait(c) ==
  /\ At(c, "wait")
  /\ Answers(c)
  /\ Goto(c, "record")
  /\ UNCHANGED <<at, nodeVars, record, run, faults>>

WaitFails(c) ==
  /\ At(c, "wait")
  /\ (~Answers(c) /\ UNCHANGED faults) \/ Fault("wait")
  /\ End(c)
  /\ UNCHANGED <<at, nodeVars, record>>

-----------------------------------------------------------------------------
(* Deleting and making clusters. *)

NoNodes(c) ==
  /\ state' = [state EXCEPT ![c] = [i \in Node |-> "none"]]
  /\ bound' = [bound EXCEPT ![c] = [i \in Node |-> None]]
  /\ sees' = [sees EXCEPT ![c] = [i \in Node |-> {}]]
  /\ serves' = serves \ {c}

(* deleteClusterAndZap, of a rebuild or a down; the zap is left to Sweeps. *)
Delete(c) ==
  /\ \/ At(c, "discard") /\ Goto(c, "make") /\ UNCHANGED run
     \/ At(c, "purge") /\ Goto(c, "logout") /\ UNCHANGED run
     \/ At(c, "down") /\ End(c)
  /\ NoNodes(c)
  /\ UNCHANGED <<at, record, faults>>

(* Deleting the containers fails, or the zap after it. *)
DeleteFails(c) ==
  /\ pc[c] \in {"discard", "purge", "down"}
  /\ NoNodes(c) \/ UNCHANGED nodeVars
  /\ Fault("delete")
  /\ End(c)
  /\ UNCHANGED <<at, record>>

(* The rest of a down --delete-disks: targets, images and state directory. *)
LogOut(c) ==
  /\ At(c, "logout")
  /\ at' = [n \in Name |-> IF at[n] \in {c} \X Worker THEN None ELSE at[n]]
  /\ record' = [record EXCEPT ![c] = None]
  /\ End(c)
  /\ UNCHANGED <<nodeVars, faults>>

(* The containers of ns exist, with the run's disks bound into them. *)
MakeNodes(c, ns, s) ==
  /\ state' = [state EXCEPT ![c] = [i \in Node |-> IF i \in ns THEN s ELSE "none"]]
  /\ bound' = [bound EXCEPT ![c] = [i \in Node |-> IF i \in ns THEN dev[c][i] ELSE None]]
  /\ sees' = [sees EXCEPT ![c] = [i \in Node |-> IF i \in ns THEN Name ELSE {}]]

Make(c) ==
  /\ At(c, "make")
  /\ MakeNodes(c, 0..want[c].workers, "running")
  /\ serves' = serves \cup {c}
  /\ Goto(c, "record")
  /\ UNCHANGED <<at, record, run, faults>>

(* kind fails and deletes what it has made. *)
MakeFails(c) ==
  /\ At(c, "make")
  /\ Fault("make")
  /\ End(c)
  /\ UNCHANGED <<at, nodeVars, record>>

(* kind is killed with the run while it creates the containers. *)
HalfMade(c) ==
  /\ At(c, "make")
  /\ \E ns \in SUBSET (0..want[c].workers) : MakeNodes(c, ns, "created")
  /\ Fault("halfmade")
  /\ End(c)
  /\ UNCHANGED <<at, serves, record>>

-----------------------------------------------------------------------------
(* After step 2. *)

(* writeShape. *)
Record(c) ==
  /\ At(c, "record")
  /\ record' = [record EXCEPT ![c] = want[c]]
  /\ Goto(c, "prep")
  /\ UNCHANGED <<at, nodeVars, run, faults>>

(* nodePrepScript in the nodes of ns: every disk but the node's own is removed
   from its /dev. *)
Mask(c, ns) ==
  /\ sees' = [sees EXCEPT ![c] =
       [i \in Node |-> IF i \in ns THEN @[i] \cap {dev[c][i]} ELSE @[i]]]
  /\ UNCHANGED <<state, bound, serves>>

(* The script can run in a node that is up, and cannot remove the device that
   is mounted in it. *)
Preparable(c) ==
  {i \in Nodes(c) : state[c][i] = "running" /\ bound[c][i] \in {None, dev[c][i]}}

(* PrepareNodes, and the steps beside and after it. *)
Prep(c) ==
  /\ At(c, "prep")
  /\ Preparable(c) = Nodes(c)
  /\ Mask(c, Nodes(c))
  /\ Goto(c, "ready")
  /\ UNCHANGED <<at, record, run, faults>>

PrepFails(c) ==
  /\ At(c, "prep")
  /\ \/ Preparable(c) # Nodes(c) /\ Mask(c, Preparable(c)) /\ UNCHANGED faults
     \/ (\E ns \in SUBSET Preparable(c) : Mask(c, ns)) /\ Fault("prep")
  /\ End(c)
  /\ UNCHANGED <<at, record>>

Finish(c) ==
  /\ At(c, "ready")
  /\ End(c)
  /\ UNCHANGED <<at, nodeVars, record, faults>>

-----------------------------------------------------------------------------
(* What happens to runs and to the host. *)

Crash(c) ==
  /\ ~At(c, "idle")
  /\ Fault("crash")
  /\ End(c)
  /\ UNCHANGED <<at, nodeVars, record>>

(* A node container stops by itself. *)
NodeDies(c, i) ==
  /\ state[c][i] = "running"
  /\ Fault("die")
  /\ state' = [state EXCEPT ![c][i] = "exited"]
  /\ UNCHANGED <<at, bound, sees, serves, record, pc, run>>

(* The host reboots: the initiator logs in to what targets it finds, in any
   order, and no engine starts a node. *)
Reboot ==
  /\ Fault("reboot")
  /\ at' \in [Name -> Attached \cup {None}]
  /\ \A m, n \in Name : at'[m] = at'[n] /\ at'[m] # None => m = n
  /\ state' = [c \in Cluster |-> [i \in Node |->
                 IF state[c][i] = "running" THEN "exited" ELSE state[c][i]]]
  /\ pc' = [c \in Cluster |-> "idle"]
  /\ want' = [c \in Cluster |-> Default]
  /\ dev' = [c \in Cluster |-> NoDisks]
  /\ UNCHANGED <<bound, sees, serves, record>>

-----------------------------------------------------------------------------
Step(c) ==
  \/ SetUp(c) \/ Locate(c) \/ NotFound(c)
  \/ New(c) \/ Rebuild(c) \/ RefuseUnfit(c) \/ RefuseBlind(c) \/ Keep(c)
  \/ Start(c) \/ Wait(c) \/ WaitFails(c) \/ Delete(c) \/ LogOut(c) \/ Make(c)
  \/ Record(c) \/ Prep(c) \/ PrepFails(c) \/ Finish(c)

Disturbance ==
  \/ \E c \in Cluster :
       \/ SetUpFails(c) \/ StartFails(c) \/ DeleteFails(c) \/ MakeFails(c)
       \/ HalfMade(c) \/ Crash(c)
       \/ \E i \in Node : NodeDies(c, i)
  \/ Reboot

Next ==
  \/ \E c \in Cluster : Step(c) \/ \E f \in Flags[c] : Begin(c, f)
  \/ Disturbance

Spec == Init /\ [][Next]_vars

(* A run goes on by itself; nothing is assumed of when runs are started. *)
FairSpec == Spec /\ \A c \in Cluster : WF_vars(Step(c))

-----------------------------------------------------------------------------
(* resumeCluster, "a cluster may only be kept while its OSD device bindings
   still hold": a running node has its own worker's disk behind the name it was
   made with, whatever reboots and other clusters have done to the names. *)
RunningOnItsOwn ==
  \A c \in Cluster, i \in Node :
    state[c][i] = "running" /\ bound[c][i] # None => at[bound[c][i]] = <<c, i>>

(* CheckDevices ("checking only states would resume a 3-worker cluster for a
   --workers 5 run and call it ready") and PrepareNodes: a cluster with disks is
   called ready only with the nodes of its recorded shape, each on its worker's
   disk, and no other disk of the host in any node's /dev. *)
ReadyIsWhole ==
  \A c \in Cluster : At(c, "ready") /\ want[c].disks = 1 =>
    /\ Nodes(c) = 0..want[c].workers
    /\ record[c] = want[c]
    /\ sees[c][0] = {}
    /\ \A i \in 1..want[c].workers :
         /\ sees[c][i] = {bound[c][i]}
         /\ at[bound[c][i]] = <<c, i>>

(* A cluster that served, stopped as a reboot leaves it. *)
Stopped(c) ==
  /\ At(c, "idle") /\ AllExited(c) /\ c \in serves
  /\ record[c] # None /\ record[c].disks = 1

(* An up that says nothing of the shape. *)
PlainUp(c) == Begin(c, [cmd |-> "up", workers |-> None, disks |-> None])

(* "Re-running up against an existing cluster resumes it": a stopped cluster
   with disks, brought up again and again without shape flags, is ready once
   more, resumed or made anew, when nothing else goes wrong. *)
ComesBack ==
  \A c \in Cluster :
    []<><<PlainUp(c)>>_vars =>
      ((Stopped(c) /\ faults = MaxFaults) ~> At(c, "ready"))

(* shape.json is "the shape the cluster was created with": between runs, the
   recorded disks are bound into the workers. *)
RecordIsTrue ==
  \A c \in Cluster :
    At(c, "idle") /\ Nodes(c) # {} /\ record[c] # None =>
      (record[c].disks = 1 <=> BoundDevices(c))

-----------------------------------------------------------------------------
(* The inductive invariant behind RunningOnItsOwn and ReadyIsWhole. *)
OneNameEach ==
  \A m, n \in Name : at[m] = at[n] /\ at[m] # None => m = n

(* What a run has located stays where it is while it runs. *)
Equipped == {"inspect", "discard", "make"}

Kept == {"start", "wait", "record", "prep", "ready"}

DevicesAreLocated ==
  \A c \in Cluster : pc[c] \in Equipped \cup Kept =>
    \A i \in Node :
      IF want[c].disks = 1 /\ i \in 1..want[c].workers
      THEN dev[c][i] \in Name /\ at[dev[c][i]] = <<c, i>>
      ELSE dev[c][i] = None

(* kind gives a disk to every worker or to none. *)
MadeAlike ==
  \A c \in Cluster, i, j \in Worker :
    state[c][i] # "none" /\ state[c][j] # "none" /\ bound[c][i] = None
      => bound[c][j] = None

SeesItsOwn ==
  \A c \in Cluster, i \in Node :
    state[c][i] = "running" /\ bound[c][i] # None => bound[c][i] \in sees[c][i]

(* What a run keeps, or has made, is what it was given. *)
KeptFits ==
  \A c \in Cluster : pc[c] \in Kept /\ want[c].disks = 1 =>
    /\ bound[c] = dev[c]
    /\ \A i \in Worker : state[c][i] # "none" <=> i <= want[c].workers

StartsBare ==
  \A c \in Cluster : pc[c] = "start" /\ want[c].disks = 0 =>
    \A i \in Node : bound[c][i] = None

AfterWait ==
  \A c \in Cluster :
    /\ pc[c] \in {"record", "prep", "ready"} => state[c][0] # "none"
    /\ pc[c] \in {"prep", "ready"} => record[c] = want[c]

Masked ==
  \A c \in Cluster : pc[c] = "ready" /\ want[c].disks = 1 =>
    \A i \in 0..want[c].workers : sees[c][i] = {dev[c][i]} \ {None}

LogsOutLast ==
  \A c \in Cluster : pc[c] = "logout" => \A i \in Node : state[c][i] = "none"

IInv ==
  /\ TypeOK
  /\ OneNameEach
  /\ RunningOnItsOwn
  /\ DevicesAreLocated
  /\ MadeAlike
  /\ SeesItsOwn
  /\ KeptFits
  /\ StartsBare
  /\ AfterWait
  /\ Masked
  /\ LogsOutLast
=============================================================================
