------------------------------- MODULE Sweeps -------------------------------
(***************************************************************************)
(* The commands that sweep every cluster of the host, down --all and       *)
(* prune, against the commands of Lifecycle.                               *)
(*                                                                         *)
(* A sweep scans the host without a lock, perhaps waits at its prompt,     *)
(* then tries the lock of every cluster it means to touch, looks again at  *)
(* those it got, and only then deletes, tears down in one batch, removes   *)
(* state directories, and lets go of everything at once.                   *)
(***************************************************************************)
EXTENDS Lifecycle

CONSTANT SweepFlags   \* the flag settings sweeps are run with, of Flags

VARIABLES
  spc,    \* spc[p]: the stage sweeper p is in
  plan    \* plan[p]: what its scan found and what it is doing about it

sweepVars == <<spc, plan>>
vars == <<hostVars, runVars, sweepVars>>

(* cmd: all is down --all.  deleteDisks, skipBlock: its flags.  parked:
   prune's --include-parked. *)
Flags == [cmd : {"all", "prune"}, deleteDisks : BOOLEAN, skipBlock : BOOLEAN,
          parked : BOOLEAN]

ASSUME FlagsAssumption == SweepFlags # {} /\ SweepFlags \subseteq Flags

(* flags; names, the clusters it is to act on; state, those its scan saw a
   state dir of; live, the engines each is live under; disks, what prune will
   tear down of each; todo, the clusters the current stage has still to see;
   zap, those deleted and not yet zapped; blocked, those to be left alone. *)
NoPlan == [flags   |-> CHOOSE f \in SweepFlags : TRUE,
           names   |-> {}, state |-> {},
           live    |-> [c \in Cluster |-> {}],
           disks   |-> [c \in Cluster |-> {}],
           todo    |-> {}, zap |-> {}, blocked |-> {}]

Plan == [flags : SweepFlags, names : SUBSET Cluster, state : SUBSET Cluster,
         live : [Cluster -> SUBSET Engine], disks : [Cluster -> SUBSET Disk],
         todo : SUBSET Cluster, zap : SUBSET Cluster, blocked : SUBSET Cluster]

Stages == {"idle", "lock", "delete", "teardown", "rmdir", "release"}

SweepTypeOK ==
  /\ spc \in [Sweeper -> Stages]
  /\ plan \in [Sweeper -> Plan]

TypeOK == HostTypeOK /\ RunTypeOK /\ SweepTypeOK

Init ==
  /\ HostInit
  /\ RunInit
  /\ spc = [p \in Sweeper |-> "idle"]
  /\ plan = [p \in Sweeper |-> NoPlan]

In(p, s) == spc[p] = s

Enter(p, s) == spc' = [spc EXCEPT ![p] = s]

(* down --all removes targets, images and state dirs. *)
TearsDownDisks(f) == f.deleteDisks /\ ~f.skipBlock

(* The order the names are sorted in, whichever it is. *)
First(S) == CHOOSE c \in S : TRUE

-----------------------------------------------------------------------------
(* The scans, which hold nothing. *)

(* Mutant of ScanAll: only the live clusters are to be locked. *)
MutScanAll(p) ==
  /\ In(p, "idle")
  /\ \E f \in SweepFlags :
       LET names == stateDir \cup {c \in Cluster : Live(c)} IN
       /\ f.cmd = "all"
       /\ names # {}
       /\ plan' = [plan EXCEPT ![p] =
            [NoPlan EXCEPT !.flags = f, !.names = names, !.state = stateDir,
               !.live = [c \in Cluster |-> LiveUnder(c)],
               !.todo = {c \in names : Live(c)}]]
  /\ Enter(p, "lock")
  /\ UNCHANGED hostVars

(* downAllRun, to its prompt.  A cluster with only a state dir is to be
   locked only if its disks are to be torn down. *)
ScanAll(p) ==
  /\ In(p, "idle")
  /\ \E f \in SweepFlags :
       LET names == stateDir \cup {c \in Cluster : Live(c)} IN
       /\ f.cmd = "all"
       /\ names # {}
       /\ plan' = [plan EXCEPT ![p] =
            [NoPlan EXCEPT !.flags = f, !.names = names, !.state = stateDir,
               !.live = [c \in Cluster |-> LiveUnder(c)],
               !.todo = {c \in names : Live(c) \/ TearsDownDisks(f)}]]
  /\ Enter(p, "lock")
  /\ UNCHANGED hostVars

(* prunePlan: a state dir of no live cluster whose owner is gone, unless
   parked ones are in scope too, is an orphan. *)
Orphaned(c, f) == ~Live(c) /\ (f.parked \/ OwnerGone(c))

(* strandableClusters: targets with neither state dir nor live cluster. *)
Stranded(c) == targets[c] # {} /\ c \notin stateDir /\ ~Live(c)

(* prune, to its prompt.  The disks are named now, while the images exist. *)
ScanPrune(p) ==
  /\ In(p, "idle")
  /\ \E f \in SweepFlags :
       LET orphans == {c \in stateDir : Orphaned(c, f)}
           names   == orphans \cup {c \in Cluster : Stranded(c)} IN
       /\ f.cmd = "prune"
       /\ names # {}
       /\ plan' = [plan EXCEPT ![p] =
            [NoPlan EXCEPT !.flags = f, !.names = names, !.state = orphans,
               !.disks = [c \in Cluster |->
                            IF c \in names THEN TeardownDisks(c) ELSE {}],
               !.todo = names]]
  /\ Enter(p, "lock")
  /\ UNCHANGED hostVars

-----------------------------------------------------------------------------
(* lockSweep, and the second look. *)

(* One name: locked, or skipped with a warning. *)
LockNext(p) ==
  LET c == First(plan[p].todo) IN
  /\ In(p, "lock") /\ plan[p].todo # {}
  /\ \/ /\ Acquire(p, c)
        /\ plan' = [plan EXCEPT ![p].todo = @ \ {c}]
     \/ /\ LockBusy(c)
        /\ UNCHANGED lock
        /\ plan' = [plan EXCEPT ![p].todo = @ \ {c}, ![p].blocked = @ \cup {c}]
  /\ UNCHANGED <<stateDir, owned, imgs, dirty, targets, reported, unwiped, node, spc>>

(* Mutant of RecheckAll: the scan's answer is used for the deletes. *)
MutRecheckAll(p) ==
  /\ In(p, "lock") /\ plan[p].todo = {} /\ plan[p].flags.cmd = "all"
  /\ plan' = [plan EXCEPT
       ![p].todo = {c \in HeldBy(p) : plan[p].live[c] # {}}]
  /\ Enter(p, "delete")
  /\ UNCHANGED hostVars

(* down --all asks where each cluster it holds is live now. *)
RecheckAll(p) ==
  LET held == HeldBy(p)
      live == [c \in Cluster |->
                 IF c \in held THEN LiveUnder(c) ELSE plan[p].live[c]] IN
  /\ In(p, "lock") /\ plan[p].todo = {} /\ plan[p].flags.cmd = "all"
  /\ plan' = [plan EXCEPT ![p].live = live,
                          ![p].todo = {c \in held : live[c] # {}}]
  /\ Enter(p, "delete")
  /\ UNCHANGED hostVars

(* Mutant of Changed: an orphan's owner is not asked for again. *)
MutChanged(c, pl) == Live(c) \/ (c \notin pl.state /\ c \in stateDir)

(* pruneRecheck: why a planned cluster no longer is what the scan took it
   for. *)
Changed(c, pl) ==
  \/ Live(c)
  \/ c \in pl.state /\ ~pl.flags.parked /\ ~OwnerGone(c)
  \/ c \notin pl.state /\ c \in stateDir

RecheckPrune(p) ==
  LET changed == {c \in HeldBy(p) : Changed(c, plan[p])} IN
  /\ In(p, "lock") /\ plan[p].todo = {} /\ plan[p].flags.cmd = "prune"
  /\ lock' = [c \in Cluster |-> IF c \in changed THEN Nobody ELSE lock[c]]
  /\ plan' = [plan EXCEPT ![p].blocked = @ \cup changed]
  /\ Enter(p, "teardown")
  /\ UNCHANGED <<stateDir, owned, imgs, dirty, targets, reported, unwiped, node>>

(* An engine cannot be queried: the sweep stops, having touched nothing. *)
RecheckFails(p) ==
  /\ "list" \in Faults
  /\ In(p, "lock") /\ plan[p].todo = {}
  /\ Enter(p, "release")
  /\ UNCHANGED <<hostVars, plan>>

-----------------------------------------------------------------------------
(* The deletes of down --all, concurrent over the clusters. *)

(* One cluster under every engine it is live under.  failed: the engines
   whose delete does not work.  Unless every listing then shows it gone, its
   disks and state are left alone.  Nor is a state dir zapped that was made
   since the scan (hasState is not looked up again): a known gap, so its
   images count as left. *)
DeleteCluster(p, c) ==
  /\ In(p, "delete") /\ c \in plan[p].todo
  /\ \E failed \in SUBSET plan[p].live[c], unlisted \in BOOLEAN :
       LET f    == plan[p].flags
           gone == failed = {} /\ ~unlisted
           zap  == gone /\ ~f.deleteDisks /\ c \in plan[p].state IN
       /\ "delete" \notin Faults => failed = {}
       /\ "list" \notin Faults => ~unlisted
       /\ DeleteUnder(c, plan[p].live[c] \ failed)
       /\ IF gone /\ (c \in stateDir => c \in plan[p].state)
          THEN UNCHANGED unwiped ELSE StopOver({c})
       /\ plan' = [plan EXCEPT
            ![p].todo = @ \ {c},
            ![p].blocked = IF gone THEN @ ELSE @ \cup {c},
            ![p].zap = IF zap THEN @ \cup {c} ELSE @]
  /\ UNCHANGED <<lock, stateDir, owned, imgs, dirty, targets, reported, spc>>

(* Its preserved images, for the next up; a failure is only a warning. *)
ZapCluster(p, c) ==
  /\ In(p, "delete") /\ c \in plan[p].zap
  /\ Zap(c) \/ ZapSome(c)
  /\ plan' = [plan EXCEPT ![p].zap = @ \ {c}]
  /\ UNCHANGED <<lock, stateDir, owned, imgs, targets, reported, node, spc>>

(* The join of the deletes. *)
DeletesDone(p) ==
  /\ In(p, "delete") /\ plan[p].todo = {} /\ plan[p].zap = {}
  /\ Enter(p, IF TearsDownDisks(plan[p].flags) THEN "teardown" ELSE "release")
  /\ UNCHANGED <<hostVars, plan>>

-----------------------------------------------------------------------------
(* The batch of both sweeps, and the state dirs. *)

Spared(p) == plan[p].names \ plan[p].blocked

(* down --all names the disks under the locks, prune named them in its scan. *)
Batch(p) ==
  [c \in Cluster |->
     IF c \notin Spared(p) THEN {}
     ELSE IF plan[p].flags.cmd = "all" THEN TeardownDisks(c)
     ELSE plan[p].disks[c]]

TearDownBatch(p) ==
  /\ In(p, "teardown")
  /\ \E left \in Leftovers(Batch(p)) : TearDown(Batch(p), left)
  /\ plan' = [plan EXCEPT ![p].todo = plan[p].state \cap Spared(p)]
  /\ Enter(p, "rmdir")
  /\ UNCHANGED <<lock, stateDir, owned, imgs, dirty, unwiped, node>>

(* Mutant of TearDownBatchFails: the failure is a warning. *)
MutTearDownBatchFails(p) ==
  /\ "teardown" \in Faults
  /\ In(p, "teardown")
  /\ \E c \in Cluster : Batch(p)[c] # {}
  /\ plan' = [plan EXCEPT ![p].todo = plan[p].state \cap Spared(p)]
  /\ Enter(p, "rmdir")
  /\ UNCHANGED hostVars

(* The privileged run fails: no state dir is removed. *)
TearDownBatchFails(p) ==
  /\ "teardown" \in Faults
  /\ In(p, "teardown")
  /\ \E c \in Cluster : Batch(p)[c] # {}
  /\ \E left \in Leftovers(Batch(p)) : TearDown(Batch(p), left)
  /\ Enter(p, "release")
  /\ UNCHANGED <<lock, stateDir, owned, imgs, dirty, node, plan>>
  /\ StopOver(HeldBy(p))

RemoveNext(p) ==
  LET c == First(plan[p].todo) IN
  /\ In(p, "rmdir") /\ plan[p].todo # {}
  /\ \/ RemoveStateDir(c)
     \/ /\ "rmdir" \in Faults
        /\ UNCHANGED <<stateDir, owned, imgs, dirty, node>>
        /\ StopOver({c})
  /\ plan' = [plan EXCEPT ![p].todo = @ \ {c}]
  /\ UNCHANGED <<lock, targets, reported, node, spc>>

RemovesDone(p) ==
  /\ In(p, "rmdir") /\ plan[p].todo = {}
  /\ Enter(p, "release")
  /\ UNCHANGED <<hostVars, plan>>

(* releaseAll. *)
Release(p) ==
  /\ In(p, "release")
  /\ ReleaseAll(p)
  /\ plan' = [plan EXCEPT ![p] = NoPlan]
  /\ Enter(p, "idle")
  /\ UNCHANGED <<stateDir, owned, imgs, dirty, targets, reported, unwiped, node>>

SweeperCrash(p) ==
  /\ "crash" \in Faults
  /\ ~In(p, "idle")
  /\ ReleaseAll(p)
  /\ plan' = [plan EXCEPT ![p] = NoPlan]
  /\ Enter(p, "idle")
  /\ UNCHANGED <<stateDir, owned, imgs, dirty, targets, reported, node>>
  /\ StopOver(HeldBy(p))

-----------------------------------------------------------------------------
SweeperStep(p) ==
  \/ ScanAll(p) \/ ScanPrune(p) \/ LockNext(p)
  \/ RecheckAll(p) \/ RecheckPrune(p) \/ RecheckFails(p)
  \/ \E c \in Cluster : DeleteCluster(p, c) \/ ZapCluster(p, c)
  \/ DeletesDone(p) \/ TearDownBatch(p) \/ TearDownBatchFails(p)
  \/ RemoveNext(p) \/ RemovesDone(p) \/ Release(p) \/ SweeperCrash(p)

Quiet == (\A p \in Runner : At(p, "idle")) /\ (\A p \in Sweeper : In(p, "idle"))

(* The host reboots: nodes stop, every process is gone. *)
Reboot ==
  /\ Quiet \/ "crash" \in Faults
  /\ \E c \in Cluster, e \in Engine : node[c][e] = "running"
  /\ NodesStop
  /\ lock' = [c \in Cluster |-> Nobody]
  /\ rpc' = [p \in Runner |-> "idle"]
  /\ job' = [p \in Runner |-> NoJob]
  /\ spc' = [p \in Sweeper |-> "idle"]
  /\ plan' = [p \in Sweeper |-> NoPlan]
  /\ StopOver({c \in Cluster : LockBusy(c)})
  /\ UNCHANGED <<stateDir, owned, imgs, dirty, targets, reported>>

Outside ==
  \/ Reboot
  \/ \E c \in Cluster : OwnerRemoved(c) /\ UNCHANGED <<runVars, sweepVars>>

Next ==
  \/ \E p \in Runner : RunnerStep(p) /\ UNCHANGED sweepVars
  \/ \E p \in Sweeper : SweeperStep(p) /\ UNCHANGED runVars
  \/ Outside

Spec == Init /\ [][Next]_vars

-----------------------------------------------------------------------------
(* What the commands promise each other. *)

(* The sweeper or runner a step is of, told by the record it keeps. *)
StepOf(p) == IF p \in Runner THEN rpc'[p] # rpc[p]
             ELSE spc'[p] # spc[p] \/ plan'[p] # plan[p]

HostOf(c) == <<c \in stateDir, imgs[c], dirty[c], targets[c], node[c]>>

(* A step takes something of c that only a teardown or a zap takes: OSD data,
   an image, a target, the state dir. *)
Destroys(c) ==
  \/ ~(dirty[c] \subseteq dirty'[c]) \/ ~(imgs[c] \subseteq imgs'[c])
  \/ ~(targets[c] \subseteq targets'[c]) \/ c \in stateDir \ stateDir'

(* "Every command that mutates a cluster holds this for its whole run": the
   state of a cluster on the host is only ever changed by the process that
   has its lock, sweeps included; a reboot, which ends every process, aside. *)
OnlyTheHolderTouches ==
  [][\A c \in Cluster : HostOf(c)' # HostOf(c) /\ ~Reboot =>
       lock[c] # Nobody /\ StepOf(lock[c])]_vars

(* downAllRun's and pruneExecute's second look: a sweep takes nothing of a
   cluster that is live under any engine at that moment, however long its
   scan waited at the prompt and whoever brought it up meanwhile. *)
SweepsSpareTheLive ==
  [][\A p \in Sweeper, c \in Cluster : StepOf(p) /\ Destroys(c) => ~Live(c)]_vars

(* deleteClusterAndZap, "only once the cluster is confirmed gone": a disk is
   wiped in place only when no engine has nodes that could be using it. *)
ZapsOnlyTheGone ==
  [][\A c \in Cluster : ~(dirty[c] \subseteq dirty'[c]) /\ imgs'[c] = imgs[c]
       => ~Live(c)]_vars

(* With several engines on the host: what is wiped under nodes is wiped by a
   command on its one cluster, and the nodes are another engine's than the one it
   asked.  No sweep does it. *)
ZapsOnlyUnderAnotherEngine ==
  [][\A c \in Cluster : ~(dirty[c] \subseteq dirty'[c]) /\ imgs'[c] = imgs[c] =>
       \/ ~Live(c)
       \/ \E p \in Runner :
            /\ StepOf(p) /\ lock[c] = p
            /\ job[p].cluster = c /\ ~Exists(c, job[p].eng)]_vars

(* prunePlan and pruneRecheck: without --include-parked, prune takes nothing
   of a cluster whose owner exists when it is taken. *)
PruneKeepsParked ==
  [][\A p \in Sweeper, c \in Cluster :
       StepOf(p) /\ plan[p].flags.cmd = "prune" /\ ~plan[p].flags.parked
         /\ Destroys(c) => c \notin owned]_vars

(* The state directory is the record of a cluster's targets: once it is gone
   no target is left but those a teardown warned of. *)
TargetsRecorded(c) == c \notin stateDir => targets[c] \subseteq reported[c]

NoUnrecordedTargets == \A c \in Cluster : TargetsRecorded(c)

(* Where that fails it is at the end of a prune, which removes the record of what
   it did not tear down: targets made since its scan named the disks.  Nothing
   else loses a target, whichever step of whichever command fails. *)
OnlyPruneForgets ==
  [][\A c \in Cluster : TargetsRecorded(c) /\ ~TargetsRecorded(c)' =>
       \E p \in Sweeper :
         /\ StepOf(p) /\ lock[c] = p /\ plan[p].flags.cmd = "prune"
         /\ (targets[c] \ reported[c]) \cap plan[p].disks[c] = {}]_vars

(* ZapISCSIDisks: fresh nodes are never put on a disk that still carries the
   OSD of a cluster that is gone, which Rook would skip, unless the run that
   was to wipe it was killed, told not to, or ended with an error. *)
FreshNodesOnCleanDisks ==
  [][\A p \in Runner : LET c == job[p].cluster IN
       rpc[p] = "make" /\ node' # node /\ ~Live(c) =>
         dirty[c] \cap job[p].want \subseteq unwiped[c]]_vars
-----------------------------------------------------------------------------
(* What makes these inductive. *)

(* Runner p works on c, from its lock to its end. *)
WorksOn(p, c) == ~At(p, "idle") /\ job[p].cluster = c

(* A sweep that is to lock whatever it names: all but a down --all that keeps
   the disks, which has no use for the locks of clusters that are not live. *)
LocksAll(p) == plan[p].flags.cmd = "prune" \/ TearsDownDisks(plan[p].flags)

(* Sweeper p has c's lock and is still to act on it. *)
SweepsOver(p, c) ==
  \/ In(p, "lock") /\ LocksAll(p) /\ c \in Spared(p) \ plan[p].todo
  \/ In(p, "delete") /\ c \in plan[p].todo \cup plan[p].zap
  \/ In(p, "delete") /\ LocksAll(p) /\ c \in Spared(p)
  \/ In(p, "teardown") /\ c \in Spared(p)
  \/ In(p, "rmdir") /\ c \in plan[p].todo

(* Every process has the locks of what it works on. *)
RunnersHold == \A p \in Runner, c \in Cluster : WorksOn(p, c) => lock[c] = p
SweepersHold == \A p \in Sweeper, c \in Cluster : SweepsOver(p, c) => lock[c] = p

(* What a runner has found, or made so, before it is where it is. *)
RunnerFound(p) ==
  LET c == job[p].cluster IN
  /\ rpc[p] \in {"images", "targets"} => c \in stateDir
  /\ rpc[p] \in {"zap", "rezap"} => ~Exists(c, job[p].eng)
  /\ rpc[p] = "rmdir" => targets[c] \subseteq reported[c]

(* The same of a sweeper and a cluster: what it is to lock or has locked is
   of its names and not blocked; a cluster is gone from the moment its
   delete is done with, and prune's is nobody's. *)
SweeperFound(p, c) ==
  /\ In(p, "idle") => lock[c] # p
  /\ In(p, "lock") =>
       /\ c \notin plan[p].zap
       /\ c \in plan[p].todo \/ lock[c] = p => c \in Spared(p)
       /\ c \in plan[p].todo => lock[c] # p
  /\ In(p, "delete") =>
       /\ plan[p].flags.cmd = "all"
       /\ c \in plan[p].todo => c \in Spared(p) /\ plan[p].live[c] = LiveUnder(c)
       /\ c \in plan[p].zap => ~Live(c)
       /\ LocksAll(p) /\ c \in Spared(p) \ plan[p].todo => ~Live(c)
  /\ In(p, "teardown") /\ c \in Spared(p) =>
       /\ ~Live(c)
       /\ plan[p].flags.cmd = "prune" /\ ~plan[p].flags.parked => c \notin owned
  /\ In(p, "rmdir") /\ c \in plan[p].todo =>
       /\ ~Live(c)
       /\ plan[p].flags.cmd = "prune" /\ ~plan[p].flags.parked => c \notin owned
       /\ plan[p].flags.cmd = "all" => targets[c] \subseteq reported[c]
       /\ plan[p].flags.cmd = "prune" =>
            targets[c] \cap plan[p].disks[c] \subseteq reported[c]

(* The process is yet to wipe or remove the images of c. *)
RunnerWipes(p, c) == job[p].cluster = c /\ rpc[p] \in {"zap", "rezap"}
SweeperWipes(p, c) ==
  \/ In(p, "delete") /\ c \in plan[p].zap
  \/ In(p, "delete") /\ LocksAll(p) /\ c \in Spared(p) \cap plan[p].state
  \/ In(p, "teardown") /\ c \in Spared(p) \cap plan[p].state
  \/ In(p, "rmdir") /\ c \in plan[p].todo

(* The disks of a cluster that is gone are clean but for those somebody is
   about to wipe and those that were left. *)
CleanOrDue(c) ==
  \/ Live(c)
  \/ dirty[c] \subseteq unwiped[c]
  \/ \E p \in Runner : RunnerWipes(p, c)
  \/ \E p \in Sweeper : SweeperWipes(p, c)

WipedOrDue == \A c \in Cluster : CleanOrDue(c)

(* deleteClusterAndZap and the sweeps: the disks of a deleted cluster are wiped,
   due to be wiped, or told of, until a down --all is told both to delete the disks
   and to skip them: it deletes the cluster and does neither. *)
OnlySkippingLeavesDirty ==
  [][\A c \in Cluster : CleanOrDue(c) /\ ~CleanOrDue(c)' =>
       \E p \in Sweeper :
         /\ StepOf(p) /\ lock[c] = p
         /\ plan[p].flags.deleteDisks /\ plan[p].flags.skipBlock]_vars

(* The two conditions on the flags. *)
NoPrune == \A f \in SweepFlags : f.cmd = "all"
NoneKeepsDirty == \A f \in SweepFlags : ~(f.deleteDisks /\ f.skipBlock)

IInv ==
  /\ TypeOK
  /\ RunnersHold
  /\ SweepersHold
  /\ \A p \in Runner : RunnerFound(p)
  /\ \A p \in Sweeper, c \in Cluster : SweeperFound(p, c)
  /\ NoPrune => NoUnrecordedTargets
  /\ NoneKeepsDirty => WipedOrDue
=============================================================================
