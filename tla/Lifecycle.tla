----------------------------- MODULE Lifecycle -----------------------------
(***************************************************************************)
(* The rooket commands that work on one cluster, as runs that hold its     *)
(* lock from before they look at anything to their end:                    *)
(*                                                                         *)
(*   up        block setup, then cluster create                            *)
(*   create    cluster create on the devices already there                 *)
(*   setup     block setup                                                 *)
(*   down      cluster delete, and with --delete-disks block teardown and  *)
(*             the removal of the state directory                          *)
(*   delete    cluster delete                                              *)
(*   teardown  block teardown                                              *)
(*                                                                         *)
(* A run goes through the steps its pc names; each step that can fail ends *)
(* the run with the host as the failure left it.                           *)
(***************************************************************************)
EXTENDS Host

CONSTANT Jobs   \* the commands runners are given, of Job

VARIABLES
  rpc,   \* rpc[p]: the step runner p is about to take
  job    \* job[p]: what p runs

runVars == <<rpc, job>>

Commands == {"up", "create", "setup", "down", "delete", "teardown"}

(* cluster and eng: the cluster and the session's engine.  want: the disks of
   the shape the command asks for.  clone: it runs for a rook clone, which is
   recorded as the owner.  zap: delete's --zap, which down leaves at its
   default.  disks: the --delete-disks of down and block teardown, net of
   down's --skip-block and of a disk count of 0.  keep: down's --skip-cluster. *)
Job == [cmd : Commands, cluster : Cluster, eng : Engine, want : SUBSET Disk,
        clone : BOOLEAN, zap : BOOLEAN, disks : BOOLEAN, keep : BOOLEAN]

ASSUME JobsAssumption == Jobs # {} /\ Jobs \subseteq Job

(* The value job[p] has between runs. *)
NoJob == CHOOSE j \in Jobs : TRUE

(* redelete and rezap are the delete and the zap of a cluster that is then
   made anew. *)
RPC == {"idle", "start", "images", "targets", "create", "make", "delete",
        "redelete", "zap", "rezap", "teardown", "rmdir", "end"}

RunTypeOK ==
  /\ rpc \in [Runner -> RPC]
  /\ job \in [Runner -> Jobs]

RunInit ==
  /\ rpc = [p \in Runner |-> "idle"]
  /\ job = [p \in Runner |-> NoJob]

Goto(p, s) == rpc' = [rpc EXCEPT ![p] = s]

At(p, s) == rpc[p] = s

-----------------------------------------------------------------------------
(* Starting and ending. *)

(* LockCluster, tried once: a run that finds the lock held refuses, which
   changes nothing and so is no step here. *)
Lock(p) ==
  /\ At(p, "idle")
  /\ \E j \in Jobs :
       /\ Acquire(p, j.cluster)
       /\ job' = [job EXCEPT ![p] = j]
  /\ Goto(p, "start")
  /\ UNCHANGED <<stateDir, owned, imgs, dirty, targets, reported, unwiped, node>>

(* The deferred release, of a finished and of a failed run alike. *)
Unlock(p) ==
  /\ At(p, "end")
  /\ ReleaseAll(p)
  /\ Goto(p, "idle")
  /\ job' = [job EXCEPT ![p] = NoJob]
  /\ UNCHANGED <<stateDir, owned, imgs, dirty, targets, reported, unwiped, node>>

(* The process is killed at its next step; the kernel drops the lock. *)
RunnerCrash(p) ==
  /\ "crash" \in Faults
  /\ ~At(p, "idle")
  /\ ReleaseAll(p)
  /\ Goto(p, "idle")
  /\ job' = [job EXCEPT ![p] = NoJob]
  /\ UNCHANGED <<stateDir, owned, imgs, dirty, targets, reported, node>>
  /\ StopOver({job[p].cluster})

-----------------------------------------------------------------------------
(* up, create and setup. *)

(* upSource and the other first writes of a state dir, which record the clone
   (ensureStateDirFrom); block setup only makes the directory. *)
StartUp(p) ==
  LET j == job[p] IN
  /\ At(p, "start") /\ j.cmd \in {"up", "create", "setup"}
  /\ stateDir' = stateDir \cup {j.cluster}
  /\ owned' = IF j.clone /\ j.cmd # "setup" THEN owned \cup {j.cluster} ELSE owned
  /\ Goto(p, IF j.cmd = "create" THEN "create" ELSE "images")
  /\ UNCHANGED <<lock, imgs, dirty, targets, reported, unwiped, node, job>>

(* blockSetupRunTo, step 1: the images that do not exist yet. *)
MakeImages(p) ==
  LET j == job[p] IN
  /\ At(p, "images")
  /\ imgs' = [imgs EXCEPT ![j.cluster] = @ \cup j.want]
  /\ Goto(p, "targets")
  /\ UNCHANGED <<lock, stateDir, owned, dirty, targets, reported, unwiped, node, job>>

(* Steps 2 and 3: the privileged setup and the wait for its devices. *)
MakeTargets(p) ==
  LET j == job[p] IN
  /\ At(p, "targets")
  /\ targets' = [targets EXCEPT ![j.cluster] = @ \cup j.want]
  /\ reported' = [reported EXCEPT ![j.cluster] = @ \ j.want]
  /\ Goto(p, IF j.cmd = "up" THEN "create" ELSE "end")
  /\ UNCHANGED <<lock, stateDir, owned, imgs, dirty, unwiped, node, job>>

(* Setup stops part of the way, or a device never appears. *)
MakeTargetsFails(p) ==
  LET j == job[p] IN
  /\ "setup" \in Faults
  /\ At(p, "targets")
  /\ \E made \in SUBSET j.want :
       /\ targets' = [targets EXCEPT ![j.cluster] = @ \cup made]
       /\ reported' = [reported EXCEPT ![j.cluster] = @ \ made]
  /\ Goto(p, "end")
  /\ UNCHANGED <<lock, stateDir, owned, imgs, dirty, unwiped, node, job>>

(* createClusterRun: a device of the shape is missing. *)
NoDevice(p) ==
  LET j == job[p] IN
  /\ At(p, "create")
  /\ ~(j.want \subseteq targets[j.cluster])
  /\ Goto(p, "end")
  /\ UNCHANGED <<hostVars, job>>

(* The devices are there and the engine has no such cluster. *)
NoCluster(p) ==
  LET j == job[p] IN
  /\ At(p, "create")
  /\ j.want \subseteq targets[j.cluster]
  /\ ~Exists(j.cluster, j.eng)
  /\ Goto(p, "make")
  /\ UNCHANGED <<hostVars, job>>

(* resumeCluster keeps the cluster, starting its stopped nodes. *)
Resume(p) ==
  LET j == job[p] IN
  /\ At(p, "create")
  /\ j.want \subseteq targets[j.cluster]
  /\ Exists(j.cluster, j.eng)
  /\ node' = [node EXCEPT ![j.cluster][j.eng] = "running"]
  /\ Goto(p, "end")
  /\ UNCHANGED <<lock, stateDir, owned, imgs, dirty, targets, reported, unwiped, job>>

(* resumeCluster reports a cluster it cannot resume and will not discard. *)
RefuseResume(p) ==
  LET j == job[p] IN
  /\ At(p, "create")
  /\ j.want \subseteq targets[j.cluster]
  /\ Exists(j.cluster, j.eng)
  /\ Goto(p, "end")
  /\ UNCHANGED <<hostVars, job>>

(* Its nodes are all stopped, and drifted or of another shape: the cluster is
   to be deleted, zapped and made anew. *)
Rebuild(p) ==
  LET j == job[p] IN
  /\ At(p, "create")
  /\ j.want \subseteq targets[j.cluster]
  /\ node[j.cluster][j.eng] = "exited"
  /\ Goto(p, "redelete")
  /\ UNCHANGED <<hostVars, job>>

(* cluster.Create: fresh nodes over the devices, which the deploy that
   follows puts OSDs on. *)
Create(p) ==
  LET j == job[p] IN
  /\ At(p, "make")
  /\ node' = [node EXCEPT ![j.cluster][j.eng] = "running"]
  /\ dirty' = [dirty EXCEPT ![j.cluster] = @ \cup (j.want \cap imgs[j.cluster])]
  /\ unwiped' = [unwiped EXCEPT ![j.cluster] = @ \ j.want]
  /\ Goto(p, "end")
  /\ UNCHANGED <<lock, stateDir, owned, imgs, targets, reported, job>>

CreateFails(p) ==
  /\ "create" \in Faults
  /\ At(p, "make")
  /\ Goto(p, "end")
  /\ UNCHANGED <<hostVars, job>>

-----------------------------------------------------------------------------
(* down, delete and block teardown, and the rebuild of a cluster. *)

(* clusterLeftovers, of the session's engine: whether anything is left. *)
HasLeftovers(c, e) == c \in stateDir \/ targets[c] # {} \/ Exists(c, e)

(* Where down and delete go once the cluster is deleted and zapped. *)
AfterDelete(j) == IF j.cmd = "down" /\ j.disks THEN "teardown" ELSE "end"

StartDown(p) ==
  LET j == job[p] IN
  /\ At(p, "start") /\ j.cmd = "down"
  /\ Goto(p, IF ~HasLeftovers(j.cluster, j.eng) THEN "end"
             ELSE IF j.keep THEN AfterDelete(j) ELSE "delete")
  /\ UNCHANGED <<hostVars, job>>

StartDelete(p) ==
  LET j == job[p] IN
  /\ At(p, "start") /\ j.cmd \in {"delete", "teardown"}
  /\ Goto(p, j.cmd)
  /\ UNCHANGED <<hostVars, job>>

(* Mutant of Delete: a rebuild makes the cluster straight after the delete. *)
MutDelete(p) ==
  LET j == job[p]
      zap == At(p, "redelete") \/ j.cmd = "down" \/ j.zap IN
  /\ \/ At(p, "delete") /\ Goto(p, IF zap THEN "zap" ELSE AfterDelete(j))
     \/ At(p, "redelete") /\ Goto(p, "make")
  /\ DeleteUnder(j.cluster, {j.eng})
  /\ IF zap THEN UNCHANGED unwiped ELSE StopOver({j.cluster})
  /\ UNCHANGED <<lock, stateDir, owned, imgs, dirty, targets, reported, job>>

(* deleteClusterAndZap: the delete succeeds, or fails with the cluster listed
   as gone.  A rebuild always zaps, a delete unless --zap=false. *)
Delete(p) ==
  LET j == job[p]
      zap == At(p, "redelete") \/ j.cmd = "down" \/ j.zap IN
  /\ \/ At(p, "delete") /\ Goto(p, IF zap THEN "zap" ELSE AfterDelete(j))
     \/ At(p, "redelete") /\ Goto(p, "rezap")
  /\ DeleteUnder(j.cluster, {j.eng})
  /\ IF zap THEN UNCHANGED unwiped ELSE StopOver({j.cluster})
  /\ UNCHANGED <<lock, stateDir, owned, imgs, dirty, targets, reported, job>>

(* Mutant of DeleteFails: a failed delete is warned about and passed over. *)
MutDeleteFails(p) ==
  LET j == job[p] IN
  /\ At(p, "delete")
  /\ "delete" \in Faults /\ Exists(j.cluster, j.eng) /\ UNCHANGED node
  /\ Goto(p, "zap")
  /\ UNCHANGED <<lock, stateDir, owned, imgs, dirty, targets, reported, unwiped, job>>

(* The delete fails and the cluster is still listed, or no listing can say:
   its disks are not zapped and the run ends. *)
DeleteFails(p) ==
  LET j == job[p] IN
  /\ At(p, "delete") \/ At(p, "redelete")
  /\ \/ "delete" \in Faults /\ Exists(j.cluster, j.eng) /\ UNCHANGED node
     \/ {"delete", "list"} \subseteq Faults /\ DeleteUnder(j.cluster, {j.eng})
  /\ Goto(p, "end")
  /\ UNCHANGED <<lock, stateDir, owned, imgs, dirty, targets, reported, job>>
  /\ StopOver({j.cluster})

(* The zap of a down, a delete or a rebuild. *)
ZapDisks(p) ==
  LET j == job[p] IN
  /\ \/ At(p, "zap") /\ Goto(p, AfterDelete(j))
     \/ At(p, "rezap") /\ Goto(p, "make")
  /\ Zap(j.cluster)
  /\ UNCHANGED <<lock, stateDir, owned, imgs, targets, reported, node, job>>

(* An image that could not be wiped is an error, and stops the run. *)
ZapFails(p) ==
  LET j == job[p] IN
  /\ At(p, "zap") \/ At(p, "rezap")
  /\ ZapSome(j.cluster)
  /\ Goto(p, "end")
  /\ UNCHANGED <<lock, stateDir, owned, imgs, targets, reported, node, job>>

(* teardownDisks: what the shape, the state dir and the kernel name of c. *)
TeardownDisks(c) == imgs[c] \cup targets[c]

Only(c, ds) == [d \in Cluster |-> IF d = c THEN ds ELSE {}]

(* blockTeardownRun; then, with --delete-disks, the images it named. *)
BlockTeardown(p) ==
  LET j == job[p]
      batch == Only(j.cluster, j.want \cup TeardownDisks(j.cluster)) IN
  /\ At(p, "teardown")
  /\ \E left \in Leftovers(batch) : TearDown(batch, left)
  /\ IF j.disks
     THEN /\ imgs' = [imgs EXCEPT ![j.cluster] = {}]
          /\ dirty' = [dirty EXCEPT ![j.cluster] = {}]
          /\ unwiped' = [unwiped EXCEPT ![j.cluster] = {}]
     ELSE UNCHANGED <<imgs, dirty, unwiped>>
  /\ Goto(p, IF j.cmd = "down" THEN "rmdir" ELSE "end")
  /\ UNCHANGED <<lock, stateDir, owned, node, job>>

(* The privileged run fails or is refused at the prompt. *)
BlockTeardownFails(p) ==
  LET j == job[p]
      batch == Only(j.cluster, j.want \cup TeardownDisks(j.cluster)) IN
  /\ "teardown" \in Faults
  /\ At(p, "teardown")
  /\ batch[j.cluster] # {}
  /\ \E left \in Leftovers(batch) : TearDown(batch, left)
  /\ Goto(p, "end")
  /\ UNCHANGED <<lock, stateDir, owned, imgs, dirty, unwiped, node, job>>

(* down's last step; a directory it cannot remove is a warning. *)
RemoveDir(p) ==
  /\ At(p, "rmdir")
  /\ \/ RemoveStateDir(job[p].cluster)
     \/ "rmdir" \in Faults /\ UNCHANGED <<stateDir, owned, imgs, dirty, unwiped>>
  /\ Goto(p, "end")
  /\ UNCHANGED <<lock, targets, reported, node, job>>

-----------------------------------------------------------------------------
RunnerStep(p) ==
  \/ Lock(p) \/ Unlock(p) \/ RunnerCrash(p)
  \/ StartUp(p) \/ MakeImages(p) \/ MakeTargets(p) \/ MakeTargetsFails(p)
  \/ NoDevice(p) \/ NoCluster(p) \/ Resume(p) \/ RefuseResume(p)
  \/ Rebuild(p) \/ Create(p) \/ CreateFails(p)
  \/ StartDown(p) \/ StartDelete(p) \/ Delete(p) \/ DeleteFails(p)
  \/ ZapDisks(p) \/ ZapFails(p)
  \/ BlockTeardown(p) \/ BlockTeardownFails(p) \/ RemoveDir(p)
=============================================================================
