--------------------------- MODULE Sweeps_proofs ---------------------------
(***************************************************************************)
(* Theorems about Sweeps, for any clusters, engines, disks, processes,     *)
(* commands and flags, and any faults.                                     *)
(***************************************************************************)
EXTENDS Sweeps, TLAPS

-----------------------------------------------------------------------------
(* Types. *)

LEMMA NoJobIsAJob == NoJob \in Jobs
BY JobsAssumption DEF NoJob

LEMMA NoPlanIsAPlan == NoPlan \in Plan
BY FlagsAssumption DEF NoPlan, Plan

LEMMA InitTypeOK == Init => TypeOK
<1> SUFFICES ASSUME Init PROVE TypeOK
  OBVIOUS
<1>1. HostTypeOK
  BY DEF Init, HostInit, HostTypeOK
<1>2. RunTypeOK /\ SweepTypeOK
  BY NoJobIsAJob, NoPlanIsAPlan
  DEF Init, RunInit, RunTypeOK, RPC, SweepTypeOK, Stages
<1> QED BY <1>1, <1>2 DEF TypeOK

(* A job's parts. *)
LEMMA JobParts ==
  ASSUME RunTypeOK, NEW p \in Runner
  PROVE  /\ job[p] \in Jobs
         /\ job[p].cluster \in Cluster /\ job[p].eng \in Engine
         /\ job[p].want \in SUBSET Disk
BY JobsAssumption DEF RunTypeOK, Job

(* An unwiped image stays one that is dirty when a run stops. *)
LEMMA StopOverTypes ==
  ASSUME HostTypeOK, NEW cs, StopOver(cs)
  PROVE  /\ unwiped' \in [Cluster -> SUBSET Disk]
         /\ \A c \in Cluster : unwiped'[c] \subseteq dirty[c]
BY DEF HostTypeOK, StopOver

(* What a teardown leaves, it reports. *)
LEMMA TearDownTypes ==
  ASSUME HostTypeOK, NEW batch \in [Cluster -> SUBSET Disk],
         NEW left \in Leftovers(batch), TearDown(batch, left)
  PROVE  /\ targets' \in [Cluster -> SUBSET Disk]
         /\ reported' \in [Cluster -> SUBSET Disk]
         /\ \A c \in Cluster : reported'[c] \subseteq targets'[c]
BY DEF HostTypeOK, Leftovers, TearDown

LEMMA DeleteTypes ==
  ASSUME HostTypeOK, NEW c \in Cluster, NEW es, DeleteUnder(c, es)
  PROVE  node' \in [Cluster -> [Engine -> {"none", "running", "exited"}]]
BY DEF HostTypeOK, DeleteUnder

LEMMA RemoveTypes ==
  ASSUME HostTypeOK, NEW c \in Cluster, RemoveStateDir(c),
         UNCHANGED <<lock, targets, reported, node>>
  PROVE  HostTypeOK'
BY DEF HostTypeOK, RemoveStateDir

LEMMA ReleaseTypes ==
  ASSUME HostTypeOK, NEW p, ReleaseAll(p)
  PROVE  lock' \in [Cluster -> Proc \cup {Nobody}]
BY DEF HostTypeOK, ReleaseAll

(* A runner's pc, wherever it goes. *)
LEMMA RunnerTypes ==
  ASSUME TypeOK, NEW p \in Runner, RunnerStep(p)
  PROVE  RunTypeOK'
<1> USE NoJobIsAJob DEF TypeOK, RunTypeOK, Goto, At
<1>1. rpc' \in [Runner -> RPC]
  <2> USE DEF RPC
  <2>1. CASE Lock(p) \/ Unlock(p) \/ RunnerCrash(p)
    BY <2>1 DEF Lock, Unlock, RunnerCrash
  <2>2. CASE StartUp(p) \/ MakeImages(p) \/ MakeTargets(p) \/ MakeTargetsFails(p)
    BY <2>2 DEF StartUp, MakeImages, MakeTargets, MakeTargetsFails
  <2>3. CASE NoDevice(p) \/ NoCluster(p) \/ Resume(p) \/ RefuseResume(p)
             \/ Rebuild(p) \/ Create(p) \/ CreateFails(p)
    BY <2>3 DEF NoDevice, NoCluster, Resume, RefuseResume, Rebuild, Create, CreateFails
  <2>4. CASE StartDown(p) \/ StartDelete(p) \/ Delete(p) \/ DeleteFails(p)
    BY <2>4 DEF StartDown, StartDelete, Delete, DeleteFails, AfterDelete
  <2>5. CASE ZapDisks(p) \/ ZapFails(p) \/ BlockTeardown(p)
             \/ BlockTeardownFails(p) \/ RemoveDir(p)
    BY <2>5 DEF ZapDisks, ZapFails, BlockTeardown, BlockTeardownFails, RemoveDir,
                AfterDelete
  <2> QED BY <2>1, <2>2, <2>3, <2>4, <2>5 DEF RunnerStep
<1>2. job' \in [Runner -> Jobs]
  BY DEF RunnerStep, Lock, Unlock, RunnerCrash, StartUp, MakeImages, MakeTargets,
         MakeTargetsFails, NoDevice, NoCluster, Resume, RefuseResume, Rebuild,
         Create, CreateFails, StartDown, StartDelete, Delete, DeleteFails,
         ZapDisks, ZapFails, BlockTeardown, BlockTeardownFails, RemoveDir
<1> QED BY <1>1, <1>2

(* What a step of a runner leaves of the host. *)
LEMMA RunnerHostTypes ==
  ASSUME TypeOK, NEW p \in Runner, RunnerFound(p), RunnerStep(p)
  PROVE  HostTypeOK'
<1> DEFINE c == job[p].cluster
           batch == Only(c, job[p].want \cup TeardownDisks(c))
<1> USE DEF TypeOK
<1>0. c \in Cluster /\ job[p].eng \in Engine /\ job[p].want \in SUBSET Disk /\ HostTypeOK
  BY JobParts
<1>1. CASE UNCHANGED hostVars
  BY <1>0, <1>1 DEF HostTypeOK, hostVars
<1>2. CASE Lock(p)
  <2>1. \A j \in Jobs : j.cluster \in Cluster
    BY JobsAssumption DEF Job
  <2>2. lock' \in [Cluster -> Proc \cup {Nobody}]
    BY <1>0, <1>2, <2>1 DEF Lock, Acquire, HostTypeOK, Proc
  <2> QED BY <1>0, <1>2, <2>2 DEF Lock, HostTypeOK
<1>3. CASE Unlock(p)
  BY <1>0, <1>3, ReleaseTypes DEF Unlock, HostTypeOK
<1>4. CASE RunnerCrash(p)
  BY <1>0, <1>4, ReleaseTypes, StopOverTypes DEF RunnerCrash, HostTypeOK
<1>5. CASE StartUp(p)
  BY <1>0, <1>5 DEF StartUp, HostTypeOK
<1>6. CASE MakeImages(p)
  <2>1. c \in stateDir
    BY <1>6 DEF MakeImages, At, RunnerFound
  <2> QED BY <1>0, <1>6, <2>1 DEF MakeImages, HostTypeOK
<1>7. CASE MakeTargets(p) \/ MakeTargetsFails(p)
  <2>1. PICK made \in SUBSET job[p].want :
          /\ targets' = [targets EXCEPT ![c] = @ \cup made]
          /\ reported' = [reported EXCEPT ![c] = @ \ made]
    BY <1>0, <1>7 DEF MakeTargets, MakeTargetsFails
  <2>2. UNCHANGED <<lock, stateDir, owned, imgs, dirty, unwiped, node>>
    BY <1>7 DEF MakeTargets, MakeTargetsFails
  <2> QED BY <1>0, <2>1, <2>2 DEF HostTypeOK
<1>8. CASE Resume(p)
  BY <1>0, <1>8 DEF Resume, HostTypeOK
<1>9. CASE Create(p)
  BY <1>0, <1>9 DEF Create, HostTypeOK
<1>10. CASE Delete(p) \/ DeleteFails(p)
  <2>1. node' \in [Cluster -> [Engine -> {"none", "running", "exited"}]]
    BY <1>0, <1>10, DeleteTypes DEF Delete, DeleteFails, HostTypeOK
  <2>2. /\ unwiped' \in [Cluster -> SUBSET Disk]
        /\ \A x \in Cluster : unwiped'[x] \subseteq dirty[x]
    BY <1>0, <1>10, StopOverTypes DEF Delete, DeleteFails, HostTypeOK
  <2> QED BY <1>0, <1>10, <2>1, <2>2 DEF Delete, DeleteFails, HostTypeOK
<1>11. CASE ZapDisks(p) \/ ZapFails(p)
  <2>1. PICK left \in SUBSET dirty[c] :
          /\ dirty' = [dirty EXCEPT ![c] = left]
          /\ unwiped' = [unwiped EXCEPT ![c] = left]
    BY <1>0, <1>11 DEF ZapDisks, ZapFails, Zap, ZapSome
  <2>2. UNCHANGED <<lock, stateDir, owned, imgs, targets, reported, node>>
    BY <1>11 DEF ZapDisks, ZapFails
  <2> QED BY <1>0, <2>1, <2>2 DEF HostTypeOK
<1>12. CASE BlockTeardown(p) \/ BlockTeardownFails(p)
  <2>1. batch \in [Cluster -> SUBSET Disk]
    BY <1>0 DEF Only, TeardownDisks, HostTypeOK
  <2>2. /\ targets' \in [Cluster -> SUBSET Disk]
        /\ reported' \in [Cluster -> SUBSET Disk]
        /\ \A x \in Cluster : reported'[x] \subseteq targets'[x]
    BY <1>0, <1>12, <2>1, TearDownTypes DEF BlockTeardown, BlockTeardownFails
  <2>3. UNCHANGED <<lock, stateDir, owned, node>>
    BY <1>12 DEF BlockTeardown, BlockTeardownFails
  <2>4. CASE UNCHANGED <<imgs, dirty, unwiped>>
    BY <1>0, <2>2, <2>3, <2>4 DEF HostTypeOK
  <2>5. CASE /\ imgs' = [imgs EXCEPT ![c] = {}]
             /\ dirty' = [dirty EXCEPT ![c] = {}]
             /\ unwiped' = [unwiped EXCEPT ![c] = {}]
    BY <1>0, <2>2, <2>3, <2>5 DEF HostTypeOK
  <2> QED BY <1>12, <2>4, <2>5 DEF BlockTeardown, BlockTeardownFails
<1>13. CASE RemoveDir(p)
  <2>1. CASE RemoveStateDir(c)
    BY <1>0, <1>13, <2>1, RemoveTypes DEF RemoveDir
  <2>2. CASE UNCHANGED <<stateDir, owned, imgs, dirty, unwiped>>
    BY <1>0, <1>13, <2>2 DEF RemoveDir, HostTypeOK
  <2> QED BY <1>13, <2>1, <2>2 DEF RemoveDir
<1>14. CASE NoDevice(p) \/ NoCluster(p) \/ RefuseResume(p) \/ Rebuild(p)
            \/ CreateFails(p) \/ StartDown(p) \/ StartDelete(p)
  BY <1>1, <1>14 DEF NoDevice, NoCluster, RefuseResume, Rebuild, CreateFails,
     StartDown, StartDelete
<1> QED
  BY <1>2, <1>3, <1>4, <1>5, <1>6, <1>7, <1>8, <1>9, <1>10, <1>11, <1>12, <1>13,
     <1>14 DEF RunnerStep

(* The parts of a plan. *)
LEMMA PlanParts ==
  ASSUME SweepTypeOK, NEW p \in Sweeper
  PROVE  /\ plan[p] \in Plan
         /\ plan[p].flags \in SweepFlags
         /\ plan[p].flags.cmd \in {"all", "prune"}
         /\ plan[p].names \in SUBSET Cluster /\ plan[p].state \in SUBSET Cluster
         /\ plan[p].todo \in SUBSET Cluster /\ plan[p].zap \in SUBSET Cluster
         /\ plan[p].blocked \in SUBSET Cluster
         /\ plan[p].live \in [Cluster -> SUBSET Engine]
         /\ plan[p].disks \in [Cluster -> SUBSET Disk]
         /\ spc[p] \in Stages
BY FlagsAssumption DEF SweepTypeOK, Plan, Flags

(* What a step of a sweeper in the middle of its sweep makes of its plan: it
   goes on with the flags and the names of the scan. *)
SamePlan(p) ==
  /\ plan'[p].flags = plan[p].flags /\ plan'[p].names = plan[p].names
  /\ plan'[p].state = plan[p].state /\ plan'[p].disks = plan[p].disks

LEMMA LockNextPlan ==
  ASSUME SweepTypeOK, NEW p \in Sweeper, LockNext(p)
  PROVE  /\ plan' \in [Sweeper -> Plan] /\ SamePlan(p)
         /\ plan'[p].todo = plan[p].todo \ {First(plan[p].todo)}
         /\ plan'[p].zap = plan[p].zap /\ plan'[p].live = plan[p].live
         /\ \/ Acquire(p, First(plan[p].todo)) /\ plan'[p].blocked = plan[p].blocked
            \/ /\ LockBusy(First(plan[p].todo)) /\ UNCHANGED lock
               /\ plan'[p].blocked = plan[p].blocked \cup {First(plan[p].todo)}
         /\ \A q \in Sweeper \ {p} : plan'[q] = plan[q]
<1> DEFINE c == First(plan[p].todo)
<1>0. plan \in [Sweeper -> Plan] /\ c \in Cluster
  BY PlanParts DEF LockNext, First, SweepTypeOK
<1> HIDE DEF c
<1>1. CASE Acquire(p, c) /\ plan' = [plan EXCEPT ![p].todo = @ \ {c}]
  BY <1>0, <1>1 DEF SamePlan, Plan, c
<1>2. CASE /\ LockBusy(c) /\ UNCHANGED lock
           /\ plan' = [plan EXCEPT ![p].todo = @ \ {c}, ![p].blocked = @ \cup {c}]
  BY <1>0, <1>2 DEF SamePlan, Plan, c
<1> QED BY <1>1, <1>2 DEF LockNext, c

LEMMA ScanAllPlan ==
  ASSUME TypeOK, NEW p \in Sweeper, ScanAll(p)
  PROVE  /\ plan' \in [Sweeper -> Plan]
         /\ plan'[p].flags.cmd = "all" /\ plan'[p].blocked = {}
         /\ plan'[p].zap = {} /\ plan'[p].state = stateDir
         /\ plan'[p].todo \subseteq plan'[p].names
         /\ LET live == {c \in Cluster : Live(c)} IN
              /\ plan'[p].names = stateDir \cup live
              /\ TearsDownDisks(plan'[p].flags) => plan'[p].todo = plan'[p].names
         /\ \A q \in Sweeper \ {p} : plan'[q] = plan[q]
<1> DEFINE names == stateDir \cup {c \in Cluster : Live(c)}
           lives == [c \in Cluster |-> LiveUnder(c)]
           todo(f) == {c \in names : Live(c) \/ TearsDownDisks(f)}
           new(f) == [NoPlan EXCEPT !.flags = f, !.names = names, !.state = stateDir,
                        !.live = lives, !.todo = todo(f)]
<1>1. PICK f \in SweepFlags : f.cmd = "all" /\ plan' = [plan EXCEPT ![p] = new(f)]
  BY DEF ScanAll
<1>2. /\ names \in SUBSET Cluster /\ lives \in [Cluster -> SUBSET Engine]
      /\ todo(f) \in SUBSET Cluster /\ stateDir \in SUBSET Cluster
  BY DEF TypeOK, HostTypeOK, LiveUnder
<1>3. todo(f) \subseteq names /\ (TearsDownDisks(f) => todo(f) = names)
  OBVIOUS
<1> HIDE DEF names, lives, todo
<1>4. /\ new(f) \in Plan /\ new(f).flags = f /\ new(f).blocked = {} /\ new(f).zap = {}
      /\ new(f).state = stateDir /\ new(f).names = names /\ new(f).todo = todo(f)
  BY <1>2, NoPlanIsAPlan DEF Plan, NoPlan
<1>5. plan \in [Sweeper -> Plan]
  BY DEF TypeOK, SweepTypeOK
<1> HIDE DEF new
<1>6. plan' \in [Sweeper -> Plan] /\ plan'[p] = new(f)
      /\ \A q \in Sweeper \ {p} : plan'[q] = plan[q]
  BY <1>1, <1>4, <1>5
<1> QED BY <1>1, <1>3, <1>4, <1>6 DEF names

LEMMA ScanPrunePlan ==
  ASSUME TypeOK, NEW p \in Sweeper, ScanPrune(p)
  PROVE  /\ plan' \in [Sweeper -> Plan]
         /\ plan'[p].flags.cmd = "prune" /\ plan'[p].blocked = {}
         /\ plan'[p].zap = {} /\ plan'[p].todo = plan'[p].names
         /\ \A q \in Sweeper \ {p} : plan'[q] = plan[q]
<1> DEFINE orphans(f) == {c \in stateDir : Orphaned(c, f)}
           names(f) == orphans(f) \cup {c \in Cluster : Stranded(c)}
           disks(f) == [c \in Cluster |-> IF c \in names(f) THEN TeardownDisks(c) ELSE {}]
           new(f) == [NoPlan EXCEPT !.flags = f, !.names = names(f), !.state = orphans(f),
                        !.disks = disks(f), !.todo = names(f)]
<1>1. PICK f \in SweepFlags : f.cmd = "prune" /\ plan' = [plan EXCEPT ![p] = new(f)]
  BY DEF ScanPrune
<1>2. stateDir \in SUBSET Cluster /\ \A c \in Cluster : TeardownDisks(c) \in SUBSET Disk
  BY DEF TypeOK, HostTypeOK, TeardownDisks
<1>3. /\ orphans(f) \in SUBSET Cluster /\ names(f) \in SUBSET Cluster
      /\ disks(f) \in [Cluster -> SUBSET Disk]
  BY <1>2
<1> HIDE DEF orphans, names, disks
<1>4. /\ new(f) \in Plan /\ new(f).flags = f /\ new(f).blocked = {} /\ new(f).zap = {}
      /\ new(f).names = names(f) /\ new(f).todo = names(f)
  BY <1>3, NoPlanIsAPlan DEF Plan, NoPlan
<1>5. plan \in [Sweeper -> Plan]
  BY DEF TypeOK, SweepTypeOK
<1> HIDE DEF new
<1> QED BY <1>1, <1>4, <1>5

LEMMA RecheckAllPlan ==
  ASSUME TypeOK, NEW p \in Sweeper, RecheckAll(p)
  PROVE  /\ plan' \in [Sweeper -> Plan] /\ SamePlan(p)
         /\ plan'[p].zap = plan[p].zap /\ plan'[p].blocked = plan[p].blocked
         /\ \A c \in HeldBy(p) : plan'[p].live[c] = LiveUnder(c)
         /\ plan'[p].todo = {c \in HeldBy(p) : Live(c)}
         /\ \A q \in Sweeper \ {p} : plan'[q] = plan[q]
<1> DEFINE live == [c \in Cluster |->
                      IF c \in HeldBy(p) THEN LiveUnder(c) ELSE plan[p].live[c]]
           todo == {c \in HeldBy(p) : live[c] # {}}
<1>1. plan' = [plan EXCEPT ![p].live = live, ![p].todo = todo]
  BY DEF RecheckAll
<1>2. live \in [Cluster -> SUBSET Engine] /\ todo \in SUBSET Cluster
  BY PlanParts DEF TypeOK, LiveUnder, HeldBy
<1>3. /\ todo = {c \in HeldBy(p) : Live(c)}
      /\ \A c \in HeldBy(p) : live[c] = LiveUnder(c)
  BY DEF HeldBy, Live
<1>4. plan \in [Sweeper -> Plan]
  BY DEF TypeOK, SweepTypeOK
<1> HIDE DEF live, todo
<1> QED BY <1>1, <1>2, <1>3, <1>4 DEF SamePlan, Plan

LEMMA RecheckPrunePlan ==
  ASSUME TypeOK, NEW p \in Sweeper, RecheckPrune(p)
  PROVE  /\ plan' \in [Sweeper -> Plan] /\ SamePlan(p)
         /\ plan'[p].zap = plan[p].zap /\ plan'[p].todo = plan[p].todo
         /\ LET changed == {c \in HeldBy(p) : Changed(c, plan[p])} IN
              /\ plan'[p].blocked = plan[p].blocked \cup changed
              /\ lock' = [c \in Cluster |-> IF c \in changed THEN Nobody ELSE lock[c]]
         /\ \A q \in Sweeper \ {p} : plan'[q] = plan[q]
<1> DEFINE changed == {c \in HeldBy(p) : Changed(c, plan[p])}
<1>1. /\ plan' = [plan EXCEPT ![p].blocked = @ \cup changed]
      /\ lock' = [c \in Cluster |-> IF c \in changed THEN Nobody ELSE lock[c]]
  BY DEF RecheckPrune
<1>2. changed \in SUBSET Cluster
  BY DEF HeldBy
<1>3. plan \in [Sweeper -> Plan]
  BY DEF TypeOK, SweepTypeOK
<1> HIDE DEF changed
<1>4. /\ plan' \in [Sweeper -> Plan] /\ SamePlan(p)
      /\ plan'[p].zap = plan[p].zap /\ plan'[p].todo = plan[p].todo
      /\ plan'[p].blocked = plan[p].blocked \cup changed
      /\ \A q \in Sweeper \ {p} : plan'[q] = plan[q]
  BY <1>1, <1>2, <1>3 DEF SamePlan, Plan
<1> QED BY <1>1, <1>4 DEF changed

(* A delete is done with, one way or the other. *)
LEMMA DeleteClusterPlan ==
  ASSUME TypeOK, NEW p \in Sweeper, NEW c \in Cluster, DeleteCluster(p, c)
  PROVE  /\ plan' \in [Sweeper -> Plan] /\ SamePlan(p)
         /\ plan'[p].todo = plan[p].todo \ {c} /\ plan'[p].live = plan[p].live
         /\ \E failed \in SUBSET plan[p].live[c] :
              /\ DeleteUnder(c, plan[p].live[c] \ failed)
              /\ \/ /\ failed = {} /\ plan'[p].blocked = plan[p].blocked
                    /\ IF ~plan[p].flags.deleteDisks /\ c \in plan[p].state
                       THEN plan'[p].zap = plan[p].zap \cup {c}
                       ELSE plan'[p].zap = plan[p].zap
                    /\ IF c \in stateDir => c \in plan[p].state
                       THEN UNCHANGED unwiped ELSE StopOver({c})
                 \/ /\ plan'[p].blocked = plan[p].blocked \cup {c}
                    /\ plan'[p].zap = plan[p].zap /\ StopOver({c})
         /\ \A q \in Sweeper \ {p} : plan'[q] = plan[q]
<1> DEFINE gone(failed, unlisted) == failed = {} /\ ~unlisted
           zaps(failed, unlisted) == /\ gone(failed, unlisted)
                                     /\ ~plan[p].flags.deleteDisks /\ c \in plan[p].state
           blocked(failed, unlisted) ==
             IF gone(failed, unlisted) THEN plan[p].blocked ELSE plan[p].blocked \cup {c}
           zap(failed, unlisted) ==
             IF zaps(failed, unlisted) THEN plan[p].zap \cup {c} ELSE plan[p].zap
<1>0. plan \in [Sweeper -> Plan]
  BY DEF TypeOK, SweepTypeOK
<1>1. PICK failed \in SUBSET plan[p].live[c], unlisted \in BOOLEAN :
        /\ DeleteUnder(c, plan[p].live[c] \ failed)
        /\ IF gone(failed, unlisted) /\ (c \in stateDir => c \in plan[p].state)
           THEN UNCHANGED unwiped ELSE StopOver({c})
        /\ plan' = [plan EXCEPT ![p].todo = @ \ {c},
                                ![p].blocked = IF gone(failed, unlisted) THEN @ ELSE @ \cup {c},
                                ![p].zap = IF zaps(failed, unlisted) THEN @ \cup {c} ELSE @]
  BY DEF DeleteCluster
<1>2. /\ blocked(failed, unlisted) \in SUBSET Cluster
      /\ zap(failed, unlisted) \in SUBSET Cluster /\ plan[p].todo \ {c} \in SUBSET Cluster
  BY PlanParts DEF TypeOK
<1>3. plan' = [plan EXCEPT ![p].todo = @ \ {c}, ![p].blocked = blocked(failed, unlisted),
                           ![p].zap = zap(failed, unlisted)]
  BY <1>0, <1>1 DEF Plan
<1> HIDE DEF blocked, zap
<1>4. /\ plan' \in [Sweeper -> Plan] /\ SamePlan(p)
      /\ plan'[p].todo = plan[p].todo \ {c} /\ plan'[p].live = plan[p].live
      /\ plan'[p].blocked = blocked(failed, unlisted)
      /\ plan'[p].zap = zap(failed, unlisted)
      /\ \A q \in Sweeper \ {p} : plan'[q] = plan[q]
  BY <1>0, <1>2, <1>3 DEF SamePlan, Plan
<1>5. CASE gone(failed, unlisted)
  BY <1>1, <1>4, <1>5 DEF blocked, zap
<1>6. CASE ~gone(failed, unlisted)
  BY <1>1, <1>4, <1>6 DEF blocked, zap
<1> QED BY <1>5, <1>6

LEMMA ZapClusterPlan ==
  ASSUME TypeOK, NEW p \in Sweeper, NEW c \in Cluster, ZapCluster(p, c)
  PROVE  /\ plan' \in [Sweeper -> Plan] /\ SamePlan(p)
         /\ plan'[p].todo = plan[p].todo /\ plan'[p].live = plan[p].live
         /\ plan'[p].blocked = plan[p].blocked /\ plan'[p].zap = plan[p].zap \ {c}
         /\ \A q \in Sweeper \ {p} : plan'[q] = plan[q]
BY DEF TypeOK, SweepTypeOK, ZapCluster, SamePlan, Plan

LEMMA TearDownBatchPlan ==
  ASSUME TypeOK, NEW p \in Sweeper, TearDownBatch(p)
  PROVE  /\ plan' \in [Sweeper -> Plan] /\ SamePlan(p)
         /\ plan'[p].todo = plan[p].state \cap Spared(p)
         /\ plan'[p].blocked = plan[p].blocked /\ plan'[p].zap = plan[p].zap
         /\ \A q \in Sweeper \ {p} : plan'[q] = plan[q]
<1> DEFINE todo == plan[p].state \cap Spared(p)
<1>1. plan' = [plan EXCEPT ![p].todo = todo]
  BY DEF TearDownBatch
<1>2. todo \in SUBSET Cluster /\ plan \in [Sweeper -> Plan]
  BY PlanParts DEF TypeOK, SweepTypeOK
<1> HIDE DEF todo
<1>3. /\ plan' \in [Sweeper -> Plan] /\ SamePlan(p) /\ plan'[p].todo = todo
      /\ plan'[p].blocked = plan[p].blocked /\ plan'[p].zap = plan[p].zap
      /\ \A q \in Sweeper \ {p} : plan'[q] = plan[q]
  BY <1>1, <1>2 DEF SamePlan, Plan
<1> QED BY <1>3 DEF todo

LEMMA RemoveNextPlan ==
  ASSUME TypeOK, NEW p \in Sweeper, RemoveNext(p)
  PROVE  /\ plan' \in [Sweeper -> Plan] /\ SamePlan(p)
         /\ First(plan[p].todo) \in plan[p].todo
         /\ plan'[p].todo = plan[p].todo \ {First(plan[p].todo)}
         /\ plan'[p].blocked = plan[p].blocked /\ plan'[p].zap = plan[p].zap
         /\ \A q \in Sweeper \ {p} : plan'[q] = plan[q]
<1> DEFINE c == First(plan[p].todo)
<1>1. plan' = [plan EXCEPT ![p].todo = @ \ {c}]
  BY DEF RemoveNext
<1>2. c \in plan[p].todo /\ plan \in [Sweeper -> Plan]
  BY DEF RemoveNext, First, TypeOK, SweepTypeOK
<1> HIDE DEF c
<1>3. /\ plan' \in [Sweeper -> Plan] /\ SamePlan(p) /\ plan'[p].todo = plan[p].todo \ {c}
      /\ plan'[p].blocked = plan[p].blocked /\ plan'[p].zap = plan[p].zap
      /\ \A q \in Sweeper \ {p} : plan'[q] = plan[q]
  BY <1>1, <1>2 DEF SamePlan, Plan
<1> QED BY <1>2, <1>3 DEF c

(* A sweep that is over has no plan. *)
LEMMA NoPlanLeft ==
  ASSUME TypeOK, NEW p \in Sweeper, plan' = [plan EXCEPT ![p] = NoPlan]
  PROVE  /\ plan' \in [Sweeper -> Plan]
         /\ \A q \in Sweeper \ {p} : plan'[q] = plan[q]
BY NoPlanIsAPlan DEF TypeOK, SweepTypeOK

(* What a step of a sweeper leaves: its own plan changes, no other one. *)
LEMMA SweeperTypes ==
  ASSUME TypeOK, NEW p \in Sweeper, SweeperStep(p)
  PROVE  /\ SweepTypeOK'
         /\ \A q \in Sweeper \ {p} : plan'[q] = plan[q] /\ spc'[q] = spc[q]
<1>1. /\ spc' \in [Sweeper -> Stages]
      /\ \A q \in Sweeper \ {p} : spc'[q] = spc[q]
  BY DEF TypeOK, SweepTypeOK, Stages, SweeperStep, Enter, ScanAll, ScanPrune, LockNext,
     RecheckAll, RecheckPrune, RecheckFails, DeleteCluster, ZapCluster, DeletesDone,
     TearDownBatch, TearDownBatchFails, RemoveNext, RemovesDone, Release,
     SweeperCrash
<1> DEFINE Kept == \A q \in Sweeper \ {p} : plan'[q] = plan[q]
           Goal == SweepTypeOK' /\ \A q \in Sweeper \ {p} : plan'[q] = plan[q] /\ spc'[q] = spc[q]
<1>2. UNCHANGED plan => Goal
  BY <1>1 DEF TypeOK, SweepTypeOK
<1>3. plan' \in [Sweeper -> Plan] /\ Kept => Goal
  BY <1>1 DEF SweepTypeOK
<1>4. ScanAll(p) \/ ScanPrune(p) \/ LockNext(p) \/ RecheckAll(p) \/ RecheckPrune(p) => Goal
  <2>1. LockNext(p) => plan' \in [Sweeper -> Plan] /\ Kept
    BY LockNextPlan DEF TypeOK
  <2> HIDE DEF Goal
  <2> QED BY <1>3, <2>1, ScanAllPlan, ScanPrunePlan, RecheckAllPlan, RecheckPrunePlan
<1>5. (\E c \in Cluster : DeleteCluster(p, c) \/ ZapCluster(p, c)) => Goal
  <2> HIDE DEF Goal
  <2> QED BY <1>3, DeleteClusterPlan, ZapClusterPlan
<1>6. TearDownBatch(p) \/ RemoveNext(p) \/ Release(p) \/ SweeperCrash(p) => Goal
  <2> HIDE DEF Goal
  <2> QED BY <1>3, TearDownBatchPlan, RemoveNextPlan, NoPlanLeft DEF Release, SweeperCrash
<1>7. RecheckFails(p) \/ DeletesDone(p) \/ TearDownBatchFails(p) \/ RemovesDone(p) => Goal
  <2> HIDE DEF Goal
  <2> QED BY <1>2 DEF RecheckFails, DeletesDone, TearDownBatchFails, RemovesDone
<1> HIDE DEF Goal
<1>8. Goal
  BY <1>4, <1>5, <1>6, <1>7 DEF SweeperStep
<1> QED BY <1>8 DEF Goal

(* What a sweeper's batch names. *)
LEMMA BatchTypes ==
  ASSUME TypeOK, NEW p \in Sweeper
  PROVE  Batch(p) \in [Cluster -> SUBSET Disk]
<1>1. \A c \in Cluster : TeardownDisks(c) \in SUBSET Disk /\ plan[p].disks[c] \in SUBSET Disk
  BY PlanParts DEF TypeOK, HostTypeOK, TeardownDisks
<1> QED BY <1>1 DEF Batch

LEMMA SweeperHostTypes ==
  ASSUME TypeOK, NEW p \in Sweeper, SweeperStep(p)
  PROVE  HostTypeOK'
<1>0. HostTypeOK /\ p \in Proc /\ SweepTypeOK
  BY DEF TypeOK, Proc
<1>1. CASE UNCHANGED hostVars
  BY <1>0, <1>1 DEF HostTypeOK, hostVars
<1>2. CASE LockNext(p)
  <2>1. First(plan[p].todo) \in Cluster
    BY <1>0, <1>2, PlanParts DEF LockNext, First
  <2>2. lock' \in [Cluster -> Proc \cup {Nobody}]
    BY <1>0, <1>2, <2>1 DEF LockNext, Acquire, HostTypeOK
  <2> QED BY <1>0, <1>2, <2>2 DEF LockNext, HostTypeOK
<1>3. CASE RecheckPrune(p)
  <2>1. lock' \in [Cluster -> Proc \cup {Nobody}]
    BY <1>0, <1>3 DEF RecheckPrune, HostTypeOK
  <2> QED BY <1>0, <1>3, <2>1 DEF RecheckPrune, HostTypeOK
<1>4. ASSUME NEW c \in Cluster, DeleteCluster(p, c) PROVE HostTypeOK'
  <2>1. node' \in [Cluster -> [Engine -> {"none", "running", "exited"}]]
    BY <1>0, <1>4, DeleteClusterPlan, DeleteTypes
  <2>2. CASE UNCHANGED unwiped
    BY <1>0, <1>4, <2>1, <2>2 DEF DeleteCluster, HostTypeOK
  <2>3. CASE StopOver({c})
    <3>1. /\ unwiped' \in [Cluster -> SUBSET Disk]
          /\ \A x \in Cluster : unwiped'[x] \subseteq dirty[x]
      BY <1>0, <2>3, StopOverTypes
    <3> QED BY <1>0, <1>4, <2>1, <3>1 DEF DeleteCluster, HostTypeOK
  <2> QED BY <1>4, <2>2, <2>3, DeleteClusterPlan
<1>5. ASSUME NEW c \in Cluster, ZapCluster(p, c) PROVE HostTypeOK'
  <2>1. PICK left \in SUBSET dirty[c] :
          /\ dirty' = [dirty EXCEPT ![c] = left]
          /\ unwiped' = [unwiped EXCEPT ![c] = left]
    BY <1>0, <1>5 DEF ZapCluster, Zap, ZapSome
  <2>2. UNCHANGED <<lock, stateDir, owned, imgs, targets, reported, node>>
    BY <1>5 DEF ZapCluster
  <2> QED BY <1>0, <2>1, <2>2 DEF HostTypeOK
<1>6. CASE TearDownBatch(p) \/ TearDownBatchFails(p)
  <2>1. /\ targets' \in [Cluster -> SUBSET Disk]
        /\ reported' \in [Cluster -> SUBSET Disk]
        /\ \A x \in Cluster : reported'[x] \subseteq targets'[x]
    BY <1>0, <1>6, BatchTypes, TearDownTypes DEF TearDownBatch, TearDownBatchFails
  <2>2. UNCHANGED <<lock, stateDir, owned, imgs, dirty, node>>
    BY <1>6 DEF TearDownBatch, TearDownBatchFails
  <2>3. CASE UNCHANGED unwiped
    BY <1>0, <2>1, <2>2, <2>3 DEF HostTypeOK
  <2>4. CASE StopOver(HeldBy(p))
    <3>1. /\ unwiped' \in [Cluster -> SUBSET Disk]
          /\ \A x \in Cluster : unwiped'[x] \subseteq dirty[x]
      BY <1>0, <2>4, StopOverTypes
    <3> QED BY <1>0, <2>1, <2>2, <3>1 DEF HostTypeOK
  <2> QED BY <1>6, <2>3, <2>4 DEF TearDownBatch, TearDownBatchFails
<1>7. CASE RemoveNext(p)
  <2> DEFINE c == First(plan[p].todo)
  <2>1. c \in Cluster /\ UNCHANGED <<lock, targets, reported, node>>
    BY <1>0, <1>7, RemoveNextPlan, PlanParts DEF RemoveNext
  <2> HIDE DEF c
  <2>2. CASE RemoveStateDir(c)
    BY <1>0, <2>1, <2>2, RemoveTypes
  <2>3. CASE UNCHANGED <<stateDir, owned, imgs, dirty>> /\ StopOver({c})
    <3>1. /\ unwiped' \in [Cluster -> SUBSET Disk]
          /\ \A x \in Cluster : unwiped'[x] \subseteq dirty[x]
      BY <1>0, <2>3, StopOverTypes
    <3> QED BY <1>0, <2>1, <2>3, <3>1 DEF HostTypeOK
  <2> QED BY <1>7, <2>2, <2>3 DEF RemoveNext, c
<1>8. CASE Release(p)
  BY <1>0, <1>8, ReleaseTypes DEF Release, HostTypeOK
<1>9. CASE SweeperCrash(p)
  <2>1. lock' \in [Cluster -> Proc \cup {Nobody}]
    BY <1>0, <1>9, ReleaseTypes DEF SweeperCrash
  <2>2. /\ unwiped' \in [Cluster -> SUBSET Disk]
        /\ \A x \in Cluster : unwiped'[x] \subseteq dirty[x]
    BY <1>0, <1>9, StopOverTypes DEF SweeperCrash
  <2> QED BY <1>0, <1>9, <2>1, <2>2 DEF SweeperCrash, HostTypeOK
<1>10. CASE ScanAll(p) \/ ScanPrune(p) \/ RecheckAll(p) \/ RecheckFails(p)
            \/ DeletesDone(p) \/ RemovesDone(p)
  BY <1>1, <1>10 DEF ScanAll, ScanPrune, RecheckAll, RecheckFails, DeletesDone, RemovesDone
<1> QED
  BY <1>2, <1>3, <1>4, <1>5, <1>6, <1>7, <1>8, <1>9, <1>10 DEF SweeperStep

(* The types, whoever steps. *)
LEMMA TypeStep ==
  ASSUME TypeOK, \A p \in Runner : RunnerFound(p), [Next]_vars
  PROVE  TypeOK'
<1>1. CASE UNCHANGED vars
  BY <1>1 DEF vars, hostVars, runVars, sweepVars, TypeOK, HostTypeOK, RunTypeOK, SweepTypeOK
<1>2. ASSUME NEW p \in Runner, RunnerStep(p), UNCHANGED sweepVars PROVE TypeOK'
  BY <1>2, RunnerTypes, RunnerHostTypes DEF TypeOK, SweepTypeOK, sweepVars
<1>3. ASSUME NEW p \in Sweeper, SweeperStep(p), UNCHANGED runVars PROVE TypeOK'
  BY <1>3, SweeperTypes, SweeperHostTypes DEF TypeOK, RunTypeOK, runVars
<1>4. CASE Reboot
  <2>1. /\ unwiped' \in [Cluster -> SUBSET Disk]
        /\ \A x \in Cluster : unwiped'[x] \subseteq dirty[x]
    BY <1>4, StopOverTypes DEF Reboot, TypeOK
  <2>2. node' \in [Cluster -> [Engine -> {"none", "running", "exited"}]]
    BY <1>4 DEF Reboot, NodesStop, TypeOK, HostTypeOK
  <2>3. HostTypeOK'
    BY <1>4, <2>1, <2>2 DEF Reboot, TypeOK, HostTypeOK
  <2>4. RunTypeOK' /\ SweepTypeOK'
    BY <1>4, NoJobIsAJob, NoPlanIsAPlan DEF Reboot, RunTypeOK, RPC, SweepTypeOK, Stages
  <2> QED BY <2>3, <2>4 DEF TypeOK
<1>5. ASSUME NEW c \in Cluster, OwnerRemoved(c), UNCHANGED <<runVars, sweepVars>>
      PROVE  TypeOK'
  BY <1>5 DEF OwnerRemoved, TypeOK, HostTypeOK, RunTypeOK, SweepTypeOK, runVars, sweepVars
<1> QED BY <1>1, <1>2, <1>3, <1>4, <1>5 DEF Next, Outside

-----------------------------------------------------------------------------
(* What a process leaves alone. *)

(* A step leaves c as it is; only the user may take its owner away. *)
Keeps(c) ==
  /\ c \in stateDir' <=> c \in stateDir
  /\ c \in owned' => c \in owned
  /\ imgs'[c] = imgs[c] /\ dirty'[c] = dirty[c] /\ unwiped'[c] = unwiped[c]
  /\ targets'[c] = targets[c] /\ reported'[c] = reported[c] /\ node'[c] = node[c]

(* A step of p: of the clusters, it changes those it has the lock of; of the
   locks, its own and the free ones. *)
StepBy(p) ==
  /\ \A c \in Cluster : lock[c] # p => Keeps(c)
  /\ \A c \in Cluster : lock'[c] = lock[c] \/ {lock[c], lock'[c]} \subseteq {p, Nobody}

LEMMA UnchangedKeeps == ASSUME UNCHANGED hostVars PROVE \A c \in Cluster : Keeps(c)
BY DEF hostVars, Keeps

(* The operators that change one cluster change no other one. *)
LEMMA ChangesOne ==
  ASSUME HostTypeOK, NEW c \in Cluster, NEW d \in Cluster, d # c
  PROVE  /\ \A es : DeleteUnder(c, es) => node'[d] = node[d]
         /\ StopOver({c}) => unwiped'[d] = unwiped[d]
         /\ Zap(c) \/ ZapSome(c) => dirty'[d] = dirty[d] /\ unwiped'[d] = unwiped[d]
         /\ RemoveStateDir(c) =>
              /\ imgs'[d] = imgs[d] /\ dirty'[d] = dirty[d] /\ unwiped'[d] = unwiped[d]
              /\ d \in stateDir' <=> d \in stateDir
              /\ d \in owned' => d \in owned
BY DEF HostTypeOK, DeleteUnder, StopOver, Zap, ZapSome, RemoveStateDir

(* A teardown leaves what its batch does not name. *)
LEMMA TearsDownItsOwn ==
  ASSUME HostTypeOK, NEW batch \in [Cluster -> SUBSET Disk],
         NEW left \in Leftovers(batch), TearDown(batch, left),
         NEW d \in Cluster, batch[d] = {}
  PROVE  targets'[d] = targets[d] /\ reported'[d] = reported[d]
BY DEF HostTypeOK, Leftovers, TearDown

(* The locks of the others outlive a process. *)
LEMMA ReleasesItsOwn ==
  ASSUME NEW p, ReleaseAll(p)
  PROVE  \A c \in Cluster : /\ lock'[c] = lock[c] \/ (lock[c] = p /\ lock'[c] = Nobody)
                            /\ lock'[c] # p \/ p = Nobody
<1> SUFFICES ASSUME NEW c \in Cluster
             PROVE  /\ lock'[c] = lock[c] \/ (lock[c] = p /\ lock'[c] = Nobody)
                    /\ lock'[c] # p \/ p = Nobody
  OBVIOUS
<1>1. lock'[c] = IF lock[c] = p THEN Nobody ELSE lock[c]
  BY DEF ReleaseAll
<1> QED BY <1>1

LEMMA RunnerKeepsOthers ==
  ASSUME TypeOK, NEW p \in Runner, RunnerStep(p)
  PROVE  /\ \A d \in Cluster : At(p, "idle") \/ d # job[p].cluster => Keeps(d)
         /\ \A d \in Cluster : lock'[d] = lock[d] \/ {lock[d], lock'[d]} \subseteq {p, Nobody}
         /\ \A q \in Runner \ {p} : rpc'[q] = rpc[q] /\ job'[q] = job[q]
<1> DEFINE c == job[p].cluster
           batch == Only(c, job[p].want \cup TeardownDisks(c))
<1>0. /\ c \in Cluster /\ job[p].eng \in Engine /\ job[p].want \in SUBSET Disk
      /\ HostTypeOK /\ RunTypeOK
  BY JobParts DEF TypeOK
<1>1. \A q \in Runner \ {p} : rpc'[q] = rpc[q] /\ job'[q] = job[q]
  BY <1>0 DEF RunTypeOK, Goto, RunnerStep, Lock, Unlock, RunnerCrash, StartUp, MakeImages,
     MakeTargets, MakeTargetsFails, NoDevice, NoCluster, Resume, RefuseResume, Rebuild,
     Create, CreateFails, StartDown, StartDelete, Delete, DeleteFails, ZapDisks, ZapFails,
     BlockTeardown, BlockTeardownFails, RemoveDir
<1>2. \A d \in Cluster : lock'[d] = lock[d] \/ {lock[d], lock'[d]} \subseteq {p, Nobody}
  <2>1. CASE Lock(p)
    BY <1>0, <2>1, JobsAssumption DEF Lock, Acquire, HostTypeOK, Job
  <2>2. CASE Unlock(p) \/ RunnerCrash(p)
    BY <2>2, ReleasesItsOwn DEF Unlock, RunnerCrash
  <2>3. CASE UNCHANGED lock
    BY <2>3
  <2> QED
    BY <2>1, <2>2, <2>3 DEF RunnerStep, hostVars, StartUp, MakeImages,
     MakeTargets, MakeTargetsFails, NoDevice, NoCluster, Resume, RefuseResume, Rebuild,
     Create, CreateFails, StartDown, StartDelete, Delete, DeleteFails, ZapDisks, ZapFails,
     BlockTeardown, BlockTeardownFails, RemoveDir
<1>3. ASSUME NEW d \in Cluster, d # c PROVE Keeps(d)
  <2>1. CASE UNCHANGED hostVars
    BY <2>1, UnchangedKeeps
  <2>2. CASE Lock(p) \/ Unlock(p)
    BY <2>2 DEF Lock, Unlock, Keeps
  <2>3. CASE RunnerCrash(p)
    BY <1>0, <1>3, <2>3, ChangesOne DEF RunnerCrash, Keeps
  <2>4. CASE StartUp(p) \/ MakeImages(p) \/ MakeTargets(p)
    BY <1>0, <1>3, <2>4 DEF StartUp, MakeImages, MakeTargets, HostTypeOK, Keeps
  <2>5. CASE MakeTargetsFails(p)
    BY <1>0, <1>3, <2>5 DEF MakeTargetsFails, HostTypeOK, Keeps
  <2>6. CASE Resume(p) \/ Create(p)
    BY <1>0, <1>3, <2>6 DEF Resume, Create, HostTypeOK, Keeps
  <2>7. CASE Delete(p)
    BY <1>0, <1>3, <2>7, ChangesOne DEF Delete, Keeps
  <2>8. CASE DeleteFails(p)
    BY <1>0, <1>3, <2>8, ChangesOne DEF DeleteFails, Keeps
  <2>9. CASE ZapDisks(p) \/ ZapFails(p)
    BY <1>0, <1>3, <2>9, ChangesOne DEF ZapDisks, ZapFails, Keeps
  <2>10. CASE BlockTeardown(p) \/ BlockTeardownFails(p)
    <3>1. batch \in [Cluster -> SUBSET Disk] /\ batch[d] = {}
      BY <1>0, <1>3 DEF Only, TeardownDisks, HostTypeOK
    <3>2. targets'[d] = targets[d] /\ reported'[d] = reported[d]
      BY <1>0, <2>10, <3>1, TearsDownItsOwn DEF BlockTeardown, BlockTeardownFails
    <3>3. imgs'[d] = imgs[d] /\ dirty'[d] = dirty[d] /\ unwiped'[d] = unwiped[d]
      BY <1>0, <1>3, <2>10 DEF BlockTeardown, BlockTeardownFails, HostTypeOK
    <3> QED BY <2>10, <3>2, <3>3 DEF BlockTeardown, BlockTeardownFails, Keeps
  <2>11. CASE RemoveDir(p)
    <3>1. CASE RemoveStateDir(c)
      BY <1>0, <1>3, <2>11, <3>1, ChangesOne DEF RemoveDir, Keeps
    <3>2. CASE UNCHANGED <<stateDir, owned, imgs, dirty, unwiped>>
      BY <2>11, <3>2 DEF RemoveDir, Keeps
    <3> QED BY <2>11, <3>1, <3>2 DEF RemoveDir
  <2>12. CASE NoDevice(p) \/ NoCluster(p) \/ RefuseResume(p) \/ Rebuild(p)
              \/ CreateFails(p) \/ StartDown(p) \/ StartDelete(p)
    BY <2>1, <2>12 DEF NoDevice, NoCluster, RefuseResume, Rebuild, CreateFails,
       StartDown, StartDelete
  <2> QED
    BY <2>2, <2>3, <2>4, <2>5, <2>6, <2>7, <2>8, <2>9, <2>10, <2>11, <2>12 DEF RunnerStep
<1>4. ASSUME At(p, "idle"), NEW d \in Cluster PROVE Keeps(d)
  <2>1. Lock(p)
    BY <1>4 DEF RunnerStep, At, Unlock, RunnerCrash, StartUp, MakeImages,
     MakeTargets, MakeTargetsFails, NoDevice, NoCluster, Resume, RefuseResume, Rebuild,
     Create, CreateFails, StartDown, StartDelete, Delete, DeleteFails, ZapDisks, ZapFails,
     BlockTeardown, BlockTeardownFails, RemoveDir
  <2> QED BY <2>1 DEF Lock, Keeps
<1> QED BY <1>1, <1>2, <1>3, <1>4

LEMMA RunnerStaysInside ==
  ASSUME TypeOK, RunnersHold, NEW p \in Runner, RunnerStep(p)
  PROVE  StepBy(p)
BY RunnerKeepsOthers, JobParts DEF TypeOK, RunnersHold, WorksOn, StepBy

LEMMA SweeperStaysInside ==
  ASSUME TypeOK, SweepersHold, NEW p \in Sweeper, SweeperStep(p)
  PROVE  StepBy(p)
<1>0. HostTypeOK /\ SweepTypeOK
  BY DEF TypeOK
<1>1. \A d \in Cluster : lock'[d] = lock[d] \/ {lock[d], lock'[d]} \subseteq {p, Nobody}
  <2>1. CASE LockNext(p)
    <3>1. First(plan[p].todo) \in Cluster
      BY <1>0, <2>1, PlanParts DEF LockNext, First
    <3> QED BY <1>0, <2>1, <3>1 DEF LockNext, Acquire, HostTypeOK
  <2>2. CASE RecheckPrune(p)
    BY <2>2, RecheckPrunePlan DEF HeldBy
  <2>3. CASE Release(p) \/ SweeperCrash(p)
    BY <2>3, ReleasesItsOwn DEF Release, SweeperCrash
  <2>4. CASE UNCHANGED lock
    BY <2>4
  <2> QED
    BY <2>1, <2>2, <2>3, <2>4 DEF SweeperStep, hostVars, ScanAll, ScanPrune, RecheckAll,
       RecheckFails, DeleteCluster, ZapCluster, DeletesDone, TearDownBatch,
       TearDownBatchFails, RemoveNext, RemovesDone
<1>2. ASSUME NEW d \in Cluster, lock[d] # p PROVE Keeps(d)
  <2>0. ~SweepsOver(p, d)
    BY <1>2 DEF SweepersHold
  <2>1. CASE UNCHANGED hostVars
    BY <2>1, UnchangedKeeps
  <2>2. CASE LockNext(p) \/ RecheckPrune(p) \/ Release(p)
    BY <2>2 DEF LockNext, RecheckPrune, Release, Keeps
  <2>3. ASSUME NEW c \in Cluster, DeleteCluster(p, c) PROVE Keeps(d)
    <3>1. d # c
      BY <2>0, <2>3 DEF DeleteCluster, SweepsOver
    <3>2. node'[d] = node[d] /\ unwiped'[d] = unwiped[d]
      BY <1>0, <2>3, <3>1, ChangesOne, DeleteClusterPlan
    <3> QED BY <2>3, <3>2 DEF DeleteCluster, Keeps
  <2>4. ASSUME NEW c \in Cluster, ZapCluster(p, c) PROVE Keeps(d)
    <3>1. d # c
      BY <2>0, <2>4 DEF ZapCluster, SweepsOver
    <3> QED BY <1>0, <2>4, <3>1, ChangesOne DEF ZapCluster, Keeps
  <2>5. CASE TearDownBatch(p) \/ TearDownBatchFails(p)
    <3>1. Batch(p)[d] = {}
      BY <2>0, <2>5 DEF TearDownBatch, TearDownBatchFails, SweepsOver, Batch
    <3>2. targets'[d] = targets[d] /\ reported'[d] = reported[d]
      BY <1>0, <2>5, <3>1, BatchTypes, TearsDownItsOwn DEF TearDownBatch, TearDownBatchFails
    <3>3. unwiped'[d] = unwiped[d]
      BY <1>0, <1>2, <2>5 DEF TearDownBatch, TearDownBatchFails, StopOver, HeldBy
    <3> QED BY <2>5, <3>2, <3>3 DEF TearDownBatch, TearDownBatchFails, Keeps
  <2>6. CASE RemoveNext(p)
    <3> DEFINE c == First(plan[p].todo)
    <3>1. c \in Cluster /\ c # d
      BY <1>0, <2>0, <2>6, RemoveNextPlan, PlanParts DEF RemoveNext, SweepsOver
    <3>2. \/ RemoveStateDir(c)
          \/ UNCHANGED <<stateDir, owned, imgs, dirty>> /\ StopOver({c})
      BY <2>6 DEF RemoveNext
    <3> HIDE DEF c
    <3> QED BY <1>0, <2>6, <3>1, <3>2, ChangesOne DEF RemoveNext, Keeps
  <2>7. CASE SweeperCrash(p)
    BY <1>0, <1>2, <2>7 DEF SweeperCrash, StopOver, HeldBy, Keeps
  <2>8. CASE ScanAll(p) \/ ScanPrune(p) \/ RecheckAll(p) \/ RecheckFails(p)
             \/ DeletesDone(p) \/ RemovesDone(p)
    BY <2>1, <2>8 DEF ScanAll, ScanPrune, RecheckAll, RecheckFails, DeletesDone, RemovesDone
  <2> QED BY <2>2, <2>3, <2>4, <2>5, <2>6, <2>7, <2>8 DEF SweeperStep
<1> QED BY <1>1, <1>2 DEF StepBy

-----------------------------------------------------------------------------
(* What the others keep meanwhile. *)

LEMMA KeepsLive ==
  ASSUME NEW c \in Cluster, Keeps(c)
  PROVE  /\ LiveUnder(c)' = LiveUnder(c) /\ Live(c)' = Live(c)
         /\ \A e \in Engine : Exists(c, e)' = Exists(c, e)
BY DEF Keeps, LiveUnder, Live, Exists

LEMMA OtherRunners ==
  ASSUME TypeOK, RunnersHold, NEW p, StepBy(p), NEW q \in Runner, q # p, RunnerFound(q),
         rpc'[q] = rpc[q], job'[q] = job[q]
  PROVE  /\ \A c \in Cluster : WorksOn(q, c)' => lock'[c] = q
         /\ RunnerFound(q)'
         /\ \A c \in Cluster : RunnerWipes(q, c) => RunnerWipes(q, c)'
<1>1. q # Nobody
  BY ProcessAssumption
<1>2. \A c \in Cluster : WorksOn(q, c)' => lock'[c] = q
  BY <1>1 DEF WorksOn, At, RunnersHold, StepBy
<1>3. RunnerFound(q)'
  <2> DEFINE c == job[q].cluster
  <2>1. c \in Cluster /\ job[q].eng \in Engine
    BY JobParts DEF TypeOK
  <2>2. CASE rpc[q] = "idle"
    BY <2>2 DEF RunnerFound
  <2>3. CASE rpc[q] # "idle"
    <3>1. Keeps(c)
      BY <1>1, <2>1, <2>3 DEF WorksOn, At, RunnersHold, StepBy
    <3>2. Exists(c, job[q].eng)' = Exists(c, job[q].eng)
      BY <2>1, <3>1, KeepsLive
    <3> QED BY <2>1, <3>1, <3>2 DEF RunnerFound, Keeps, Exists
  <2> QED BY <2>2, <2>3
<1>4. \A c \in Cluster : RunnerWipes(q, c) => RunnerWipes(q, c)'
  BY DEF RunnerWipes
<1> QED BY <1>2, <1>3, <1>4

LEMMA OtherSweepers ==
  ASSUME TypeOK, SweepersHold, NEW p, StepBy(p), NEW q \in Sweeper, q # p,
         spc'[q] = spc[q], plan'[q] = plan[q], NEW c \in Cluster, SweeperFound(q, c)
  PROVE  /\ SweepsOver(q, c)' => lock'[c] = q
         /\ SweeperFound(q, c)'
         /\ SweeperWipes(q, c) => SweeperWipes(q, c)'
<1>1. q # Nobody
  BY ProcessAssumption
<1>2. /\ SweepsOver(q, c)' = SweepsOver(q, c)
      /\ SweeperWipes(q, c) => SweeperWipes(q, c)'
  BY DEF SweepsOver, SweeperWipes, In, LocksAll, TearsDownDisks, Spared
<1>3. SweepsOver(q, c) => lock'[c] = q /\ Keeps(c)
  BY <1>1 DEF SweepersHold, StepBy
<1>4. SweeperFound(q, c)'
  <2>0. lock'[c] = q => lock[c] = q
    BY <1>1 DEF StepBy
  <2>1. CASE ~SweepsOver(q, c)
    BY <2>0, <2>1 DEF SweepsOver, SweeperFound, In, LocksAll, TearsDownDisks, Spared
  <2>2. CASE SweepsOver(q, c)
    BY <1>3, <2>0, <2>2, KeepsLive
    DEF SweeperFound, In, LocksAll, TearsDownDisks, Spared, Keeps
  <2> QED BY <2>1, <2>2
<1> QED BY <1>2, <1>3, <1>4

-----------------------------------------------------------------------------
(* What the runner that moves leaves of its own cluster. *)

LEMMA RunnerHoldsItsOwn ==
  ASSUME TypeOK, RunnersHold, NEW p \in Runner, RunnerStep(p)
  PROVE  \A c \in Cluster : WorksOn(p, c)' => lock'[c] = p
<1>0. HostTypeOK /\ RunTypeOK /\ job[p].cluster \in Cluster
  BY JobParts DEF TypeOK
<1>1. CASE Lock(p)
  <2>1. PICK j \in Jobs : Acquire(p, j.cluster) /\ job' = [job EXCEPT ![p] = j]
    BY <1>1 DEF Lock
  <2>2. job'[p] = j /\ j.cluster \in Cluster
    BY <1>0, <2>1, JobsAssumption DEF RunTypeOK, Job
  <2> QED BY <1>0, <2>1, <2>2 DEF Acquire, HostTypeOK, WorksOn
<1>2. CASE Unlock(p) \/ RunnerCrash(p)
  BY <1>0, <1>2 DEF Unlock, RunnerCrash, Goto, RunTypeOK, WorksOn, At
<1>3. CASE ~Lock(p) /\ ~Unlock(p) /\ ~RunnerCrash(p)
  <2>1. UNCHANGED <<lock, job>> /\ ~At(p, "idle")
    BY <1>3 DEF RunnerStep, hostVars, At, StartUp, MakeImages,
     MakeTargets, MakeTargetsFails, NoDevice, NoCluster, Resume, RefuseResume, Rebuild,
     Create, CreateFails, StartDown, StartDelete, Delete, DeleteFails, ZapDisks, ZapFails,
     BlockTeardown, BlockTeardownFails, RemoveDir
  <2> QED BY <2>1 DEF WorksOn, RunnersHold
<1> QED BY <1>1, <1>2, <1>3

(* A delete leaves no nodes under the engines it is of. *)
LEMMA DeletedAreGone ==
  ASSUME HostTypeOK, NEW c \in Cluster, NEW es, DeleteUnder(c, es)
  PROVE  \A e \in Engine : Exists(c, e)' <=> Exists(c, e) /\ e \notin es
BY DEF HostTypeOK, DeleteUnder, Exists

LEMMA RunnerFindsItsOwn ==
  ASSUME TypeOK, NEW p \in Runner, RunnerStep(p), RunnerFound(p)
  PROVE  RunnerFound(p)'
<1> DEFINE c == job[p].cluster
           batch == Only(c, job[p].want \cup TeardownDisks(c))
<1>0. /\ c \in Cluster /\ job[p].eng \in Engine /\ job[p].want \in SUBSET Disk
      /\ HostTypeOK /\ RunTypeOK
  BY JobParts DEF TypeOK
<1>1. CASE rpc'[p] \notin {"images", "targets", "zap", "rezap", "rmdir"}
  BY <1>1 DEF RunnerFound
<1>2. CASE StartUp(p)
  BY <1>0, <1>2 DEF StartUp, Goto, RunTypeOK, RunnerFound
<1>3. CASE MakeImages(p)
  BY <1>0, <1>3 DEF MakeImages, Goto, At, RunTypeOK, RunnerFound
<1>4. CASE Delete(p)
  <2>1. ~Exists(c, job[p].eng)'
    BY <1>0, <1>4, DeletedAreGone DEF Delete
  <2>2. UNCHANGED job /\ rpc'[p] \notin {"images", "targets", "rmdir"}
    BY <1>0, <1>4 DEF Delete, Goto, RunTypeOK, AfterDelete
  <2> QED BY <2>1, <2>2 DEF RunnerFound, Exists
<1>5. CASE BlockTeardown(p)
  <2>1. PICK left \in Leftovers(batch) : TearDown(batch, left)
    BY <1>5 DEF BlockTeardown
  <2>2. batch[c] = job[p].want \cup imgs[c] \cup targets[c]
    BY <1>0 DEF Only, TeardownDisks
  <2>3. targets'[c] \subseteq reported'[c]
    BY <1>0, <2>1, <2>2 DEF TearDown, HostTypeOK
  <2>4. UNCHANGED job /\ rpc'[p] \in {"rmdir", "end"}
    BY <1>0, <1>5 DEF BlockTeardown, Goto, RunTypeOK
  <2> QED BY <2>3, <2>4 DEF RunnerFound
<1> QED
  BY <1>0, <1>1, <1>2, <1>3, <1>4, <1>5 DEF RunnerStep, Goto, RunTypeOK, Lock, Unlock,
     RunnerCrash, MakeTargets, MakeTargetsFails, NoDevice, NoCluster, Resume, RefuseResume,
     Rebuild, Create, CreateFails, StartDown, StartDelete, DeleteFails, ZapDisks, ZapFails,
     BlockTeardownFails, RemoveDir, AfterDelete

(* A run records what it leaves in the kernel, or has its directory. *)
LEMMA RunnerRecords ==
  ASSUME TypeOK, NEW p \in Runner, RunnerStep(p), RunnerFound(p), ~At(p, "idle"),
         LET c == job[p].cluster IN c \notin stateDir => targets[c] \subseteq reported[c]
  PROVE  LET c == job[p].cluster IN c \notin stateDir' => targets'[c] \subseteq reported'[c]
<1> DEFINE c == job[p].cluster
           batch == Only(c, job[p].want \cup TeardownDisks(c))
<1>0. c \in Cluster /\ job[p].want \in SUBSET Disk /\ HostTypeOK
  BY JobParts DEF TypeOK
<1>1. CASE MakeTargets(p) \/ MakeTargetsFails(p)
  BY <1>1 DEF MakeTargets, MakeTargetsFails, At, RunnerFound
<1>2. CASE BlockTeardown(p) \/ BlockTeardownFails(p)
  <2>1. PICK left \in Leftovers(batch) : TearDown(batch, left)
    BY <1>2 DEF BlockTeardown, BlockTeardownFails
  <2>2. batch[c] = job[p].want \cup imgs[c] \cup targets[c]
    BY <1>0 DEF Only, TeardownDisks
  <2> QED BY <1>0, <2>1, <2>2 DEF TearDown, HostTypeOK
<1>3. CASE RemoveDir(p)
  BY <1>3 DEF RemoveDir, At, RunnerFound
<1>4. CASE StartUp(p)
  BY <1>4 DEF StartUp
<1> QED
  BY <1>1, <1>2, <1>3, <1>4 DEF RunnerStep, hostVars, Lock, Unlock,
     RunnerCrash, MakeImages, NoDevice, NoCluster, Resume, RefuseResume,
     Rebuild, Create, CreateFails, StartDown, StartDelete, Delete, DeleteFails, ZapDisks,
     ZapFails

(* Where a run leaves a cluster without nodes, the dirty images are told. *)
LEMMA StopsOver ==
  ASSUME HostTypeOK, NEW cs, StopOver(cs), UNCHANGED dirty, NEW c \in Cluster, c \in cs
  PROVE  Live(c)' \/ dirty'[c] \subseteq unwiped'[c]
BY DEF StopOver

LEMMA RunnerLeavesClean ==
  ASSUME TypeOK, NEW p \in Runner, RunnerStep(p), NEW c \in Cluster, WorksOn(p, c),
         Live(c) \/ dirty[c] \subseteq unwiped[c] \/ RunnerWipes(p, c)
  PROVE  Live(c)' \/ dirty'[c] \subseteq unwiped'[c] \/ RunnerWipes(p, c)'
<1> DEFINE Clean == Live(c) \/ dirty[c] \subseteq unwiped[c]
<1>0. /\ job[p].cluster = c /\ ~At(p, "idle") /\ job[p].eng \in Engine
      /\ HostTypeOK /\ RunTypeOK
  BY JobParts DEF TypeOK, WorksOn
<1>1. rpc[p] \notin {"zap", "rezap"} => Clean
  BY DEF RunnerWipes
<1>2. CASE Clean /\ UNCHANGED <<node, dirty, unwiped>>
  BY <1>2 DEF Live, LiveUnder, Exists
<1>3. CASE Unlock(p) \/ StartUp(p) \/ MakeImages(p) \/ MakeTargets(p) \/ MakeTargetsFails(p)
  BY <1>1, <1>2, <1>3 DEF Unlock, StartUp, MakeImages, MakeTargets, MakeTargetsFails, At
<1>4. CASE NoDevice(p) \/ NoCluster(p) \/ RefuseResume(p) \/ Rebuild(p)
            \/ CreateFails(p) \/ StartDown(p) \/ StartDelete(p)
  BY <1>1, <1>2, <1>4 DEF hostVars, NoDevice, NoCluster, RefuseResume, Rebuild, CreateFails,
     StartDown, StartDelete, At
<1>5. CASE RunnerCrash(p) \/ DeleteFails(p)
  BY <1>0, <1>5, StopsOver DEF RunnerCrash, DeleteFails
<1>6. CASE Resume(p) \/ Create(p)
  <2>1. node' = [node EXCEPT ![c][job[p].eng] = "running"]
    BY <1>0, <1>6 DEF Resume, Create
  <2>2. node'[c][job[p].eng] = "running"
    BY <1>0, <2>1 DEF HostTypeOK
  <2>3. Live(c)'
    BY <1>0, <2>2 DEF Live, LiveUnder, Exists
  <2> QED BY <2>3
<1>7. CASE Delete(p)
  <2>1. CASE StopOver({c})
    BY <1>0, <1>7, <2>1, StopsOver DEF Delete
  <2>2. CASE At(p, "redelete") \/ job[p].cmd = "down" \/ job[p].zap
    <3>1. rpc'[p] \in {"zap", "rezap"} /\ UNCHANGED job
      BY <1>0, <1>7, <2>2 DEF Delete, Goto, At, RunTypeOK
    <3> QED BY <1>0, <3>1 DEF RunnerWipes
  <2> QED BY <1>0, <1>7, <2>1, <2>2 DEF Delete
<1>8. CASE ZapDisks(p)
  BY <1>0, <1>8 DEF ZapDisks, Zap, HostTypeOK
<1>9. CASE ZapFails(p)
  BY <1>0, <1>9 DEF ZapFails, ZapSome, HostTypeOK
<1>10. CASE BlockTeardown(p) \/ BlockTeardownFails(p)
  <2>1. CASE UNCHANGED <<imgs, dirty, unwiped>>
    BY <1>1, <1>2, <1>10, <2>1 DEF BlockTeardown, BlockTeardownFails, At
  <2>2. CASE dirty' = [dirty EXCEPT ![c] = {}]
    BY <1>0, <2>2 DEF HostTypeOK
  <2> QED BY <1>0, <1>10, <2>1, <2>2 DEF BlockTeardown, BlockTeardownFails
<1>11. CASE RemoveDir(p)
  <2>1. CASE RemoveStateDir(c)
    BY <1>0, <2>1 DEF RemoveStateDir, HostTypeOK
  <2>2. CASE UNCHANGED <<stateDir, owned, imgs, dirty, unwiped>>
    BY <1>1, <1>2, <1>11, <2>2 DEF RemoveDir, At
  <2> QED BY <1>0, <1>11, <2>1, <2>2 DEF RemoveDir
<1>12. ~Lock(p)
  BY <1>0 DEF Lock
<1> QED
  BY <1>3, <1>4, <1>5, <1>6, <1>7, <1>8, <1>9, <1>10, <1>11, <1>12 DEF RunnerStep

-----------------------------------------------------------------------------
(* What the sweeper that moves leaves of the clusters it works on. *)

LEMMA SweeperHoldsItsOwn ==
  ASSUME TypeOK, NEW p \in Sweeper, SweeperStep(p),
         \A c \in Cluster : SweepsOver(p, c) => lock[c] = p,
         \A c \in Cluster : SweeperFound(p, c)
  PROVE  \A c \in Cluster : SweepsOver(p, c)' => lock'[c] = p
<1>0. HostTypeOK /\ SweepTypeOK /\ p # Nobody
  BY ProcessAssumption DEF TypeOK
<1> SUFFICES ASSUME NEW c \in Cluster, SweepsOver(p, c)' PROVE lock'[c] = p
  OBVIOUS
<1>1. spc' = [spc EXCEPT ![p] = spc'[p]] /\ spc[p] \in Stages
  BY SweeperTypes DEF TypeOK, SweepTypeOK
<1>2. CASE ScanAll(p) \/ ScanPrune(p)
  <2>1. spc'[p] = "lock"
    BY <1>0, <1>2 DEF ScanAll, ScanPrune, Enter, SweepTypeOK
  <2>2. LocksAll(p)' => plan'[p].todo = plan'[p].names
    BY <1>2, ScanAllPlan, ScanPrunePlan DEF LocksAll
  <2> QED BY <2>1, <2>2 DEF SweepsOver, In, Spared
<1>3. CASE LockNext(p)
  <2>0. spc'[p] = "lock" /\ spc[p] = "lock"
    BY <1>3 DEF LockNext, In
  <2>1. LocksAll(p) /\ c \in Spared(p) /\ c \notin plan'[p].todo /\ c \notin plan'[p].blocked
    BY <1>0, <1>3, <2>0, LockNextPlan DEF SweepsOver, In, Spared, LocksAll, SamePlan
  <2>2. CASE c = First(plan[p].todo)
    BY <1>0, <1>3, <2>1, <2>2, LockNextPlan DEF Acquire, HostTypeOK
  <2>3. CASE c # First(plan[p].todo)
    <3>1. lock[c] = p
      BY <1>0, <1>3, <2>0, <2>1, <2>3, LockNextPlan DEF SweepsOver, In
    <3>2. First(plan[p].todo) \in Cluster
      BY <1>0, <1>3, PlanParts DEF LockNext, First
    <3> QED BY <1>0, <1>3, <2>3, <3>1, <3>2 DEF LockNext, Acquire, HostTypeOK
  <2> QED BY <2>2, <2>3
<1>4. CASE RecheckAll(p)
  <2>1. spc'[p] = "delete" /\ spc[p] = "lock" /\ plan[p].todo = {} /\ UNCHANGED lock
    BY <1>0, <1>4 DEF RecheckAll, Enter, In, SweepTypeOK, hostVars
  <2>2. CASE c \in plan'[p].todo
    BY <1>4, <2>1, <2>2, RecheckAllPlan DEF HeldBy
  <2>3. CASE c \in plan'[p].zap
    BY <1>4, <2>1, <2>3, RecheckAllPlan DEF SweeperFound, In
  <2>4. CASE LocksAll(p)' /\ c \in Spared(p)'
    BY <1>4, <2>1, <2>4, RecheckAllPlan DEF LocksAll, Spared, SamePlan, SweepsOver, In
  <2> QED BY <2>1, <2>2, <2>3, <2>4 DEF SweepsOver, In
<1>5. CASE RecheckPrune(p)
  <2>1. /\ spc'[p] = "teardown" /\ spc[p] = "lock" /\ plan[p].todo = {}
        /\ plan[p].flags.cmd = "prune"
    BY <1>0, <1>5 DEF RecheckPrune, Enter, In, SweepTypeOK
  <2>2. c \in Spared(p)'
    BY <2>1 DEF SweepsOver, In
  <2>3. /\ c \in Spared(p) /\ c \notin {d \in HeldBy(p) : Changed(d, plan[p])}
        /\ lock'[c] = lock[c]
    BY <1>5, <2>2, RecheckPrunePlan DEF Spared, SamePlan
  <2> QED BY <2>1, <2>3 DEF SweepsOver, In, LocksAll
<1>6. ASSUME NEW d \in Cluster, DeleteCluster(p, d) PROVE lock'[c] = p
  <2>1. spc[p] = "delete" /\ spc'[p] = "delete" /\ d \in plan[p].todo /\ UNCHANGED lock
    BY <1>6 DEF DeleteCluster, In
  <2>2. SweepsOver(p, c)
    <3>1. /\ plan'[p].todo \subseteq plan[p].todo
          /\ plan'[p].zap \subseteq plan[p].zap \cup {d}
          /\ plan[p].blocked \subseteq plan'[p].blocked /\ SamePlan(p)
      BY <1>6, DeleteClusterPlan
    <3> QED BY <2>1, <3>1 DEF SweepsOver, In, LocksAll, Spared, SamePlan
  <2> QED BY <2>1, <2>2
<1>7. ASSUME NEW d \in Cluster, ZapCluster(p, d) PROVE lock'[c] = p
  <2>1. spc[p] = "delete" /\ spc'[p] = "delete" /\ UNCHANGED lock
    BY <1>7 DEF ZapCluster, In
  <2>2. SweepsOver(p, c)
    BY <1>7, <2>1, ZapClusterPlan DEF SweepsOver, In, LocksAll, Spared, SamePlan
  <2> QED BY <2>1, <2>2
<1>8. CASE DeletesDone(p)
  <2>1. /\ spc[p] = "delete" /\ UNCHANGED <<lock, plan>>
        /\ spc'[p] = IF TearsDownDisks(plan[p].flags) THEN "teardown" ELSE "release"
    BY <1>0, <1>8 DEF DeletesDone, Enter, In, SweepTypeOK, hostVars
  <2> QED BY <2>1 DEF SweepsOver, In, Spared, LocksAll
<1>9. CASE TearDownBatch(p)
  <2>1. spc[p] = "teardown" /\ spc'[p] = "rmdir" /\ UNCHANGED lock
    BY <1>0, <1>9 DEF TearDownBatch, Enter, In, SweepTypeOK
  <2> QED BY <1>9, <2>1, TearDownBatchPlan DEF SweepsOver, In
<1>10. CASE RemoveNext(p)
  <2>1. spc[p] = "rmdir" /\ spc'[p] = "rmdir" /\ UNCHANGED lock
    BY <1>10 DEF RemoveNext, In
  <2> QED BY <1>10, <2>1, RemoveNextPlan DEF SweepsOver, In
<1>11. CASE RecheckFails(p) \/ TearDownBatchFails(p) \/ RemovesDone(p)
            \/ Release(p) \/ SweeperCrash(p)
  <2>1. spc'[p] \in {"release", "idle"}
    BY <1>0, <1>11 DEF RecheckFails, TearDownBatchFails, RemovesDone, Release,
       SweeperCrash, Enter, SweepTypeOK
  <2> QED BY <2>1 DEF SweepsOver, In
<1> QED
  BY <1>2, <1>3, <1>4, <1>5, <1>6, <1>7, <1>8, <1>9, <1>10, <1>11 DEF SweeperStep

(* A cluster deleted under every engine it is live under is gone. *)
LEMMA DeletedEverywhere ==
  ASSUME HostTypeOK, NEW c \in Cluster, DeleteUnder(c, LiveUnder(c))
  PROVE  ~Live(c)'
BY DeletedAreGone DEF Live, LiveUnder

(* What prune has looked at again is gone and nobody's. *)
LEMMA RecheckedIsGone ==
  ASSUME TypeOK, NEW p \in Sweeper, NEW c \in Cluster, ~Changed(c, plan[p])
  PROVE  /\ ~Live(c)
         /\ ~plan[p].flags.parked => c \notin owned
BY DEF Changed, OwnerGone, TypeOK, HostTypeOK

LEMMA SweeperFindsItsOwn ==
  ASSUME TypeOK, NEW p \in Sweeper, SweeperStep(p),
         \A c \in Cluster : SweepsOver(p, c) => lock[c] = p,
         \A c \in Cluster : SweeperFound(p, c)
  PROVE  \A c \in Cluster : SweeperFound(p, c)'
<1>0. HostTypeOK /\ SweepTypeOK /\ p # Nobody
  BY ProcessAssumption DEF TypeOK
<1> SUFFICES ASSUME NEW c \in Cluster PROVE SweeperFound(p, c)'
  OBVIOUS
<1>1. SweeperFound(p, c)
  OBVIOUS
<1>2. CASE ScanAll(p) \/ ScanPrune(p)
  <2>1. spc'[p] = "lock" /\ spc[p] = "idle" /\ UNCHANGED lock
    BY <1>0, <1>2 DEF ScanAll, ScanPrune, Enter, In, SweepTypeOK, hostVars
  <2>2. lock'[c] # p
    BY <1>1, <2>1 DEF SweeperFound, In
  <2>3. /\ plan'[p].zap = {} /\ plan'[p].blocked = {}
        /\ plan'[p].todo \subseteq plan'[p].names
    BY <1>2, ScanAllPlan, ScanPrunePlan
  <2> QED BY <2>1, <2>2, <2>3 DEF SweeperFound, In, Spared
<1>3. CASE LockNext(p)
  <2>1. spc[p] = "lock" /\ spc'[p] = "lock"
    BY <1>3 DEF LockNext, In
  <2> DEFINE d == First(plan[p].todo)
  <2>2. d \in plan[p].todo /\ d \in Cluster
    BY <1>0, <1>3, PlanParts DEF LockNext, First
  <2>3. CASE c = d
    <3>1. c \in Spared(p) /\ c \notin plan[p].zap /\ lock[c] # p
      BY <1>1, <2>1, <2>2, <2>3 DEF SweeperFound, In
    <3>2. /\ c \notin plan'[p].todo /\ plan'[p].zap = plan[p].zap
          /\ plan'[p].names = plan[p].names
          /\ plan'[p].blocked = plan[p].blocked \/ UNCHANGED lock
      BY <1>0, <1>3, <2>3, LockNextPlan DEF SamePlan
    <3> QED BY <2>1, <3>1, <3>2 DEF SweeperFound, In, Spared
  <2>4. CASE c # d
    <3>1. lock'[c] = lock[c]
      BY <1>0, <1>3, <2>2, <2>4, LockNextPlan DEF Acquire, HostTypeOK
    <3>2. /\ c \in plan'[p].todo <=> c \in plan[p].todo
          /\ c \in plan'[p].blocked <=> c \in plan[p].blocked
          /\ plan'[p].zap = plan[p].zap /\ plan'[p].names = plan[p].names
      BY <1>0, <1>3, <2>4, LockNextPlan DEF SamePlan
    <3> QED BY <1>1, <2>1, <3>1, <3>2 DEF SweeperFound, In, Spared
  <2> QED BY <2>3, <2>4
<1>4. CASE RecheckAll(p)
  <2>1. /\ spc'[p] = "delete" /\ spc[p] = "lock" /\ plan[p].todo = {}
        /\ plan[p].flags.cmd = "all" /\ UNCHANGED hostVars
    BY <1>0, <1>4 DEF RecheckAll, Enter, In, SweepTypeOK
  <2>2. LiveUnder(c)' = LiveUnder(c) /\ Live(c)' = Live(c)
    BY <2>1, UnchangedKeeps, KeepsLive
  <2>3. plan'[p].flags.cmd = "all"
    BY <1>4, <2>1, RecheckAllPlan DEF SamePlan
  <2>4. c \in plan'[p].todo => plan'[p].live[c] = LiveUnder(c) /\ c \in Spared(p)'
    <3>1. c \in plan'[p].todo => plan'[p].live[c] = LiveUnder(c) /\ lock[c] = p
      BY <1>4, RecheckAllPlan DEF HeldBy
    <3>2. lock[c] = p => c \in Spared(p)
      BY <1>1, <2>1 DEF SweeperFound, In
    <3>3. Spared(p)' = Spared(p)
      BY <1>4, RecheckAllPlan DEF Spared, SamePlan
    <3> QED BY <3>1, <3>2, <3>3
  <2>5. c \notin plan'[p].zap
    BY <1>1, <1>4, <2>1, RecheckAllPlan DEF SweeperFound, In
  <2>6. LocksAll(p)' /\ c \in Spared(p)' => c \in HeldBy(p)
    <3>1. LocksAll(p)' /\ c \in Spared(p)' => LocksAll(p) /\ c \in Spared(p)
      BY <1>4, RecheckAllPlan DEF LocksAll, Spared, SamePlan
    <3> QED BY <2>1, <3>1 DEF SweepsOver, In, HeldBy
  <2>7. LocksAll(p)' /\ c \in Spared(p)' /\ c \notin plan'[p].todo => ~Live(c)
    BY <1>4, <2>6, RecheckAllPlan
  <2> QED BY <2>1, <2>2, <2>3, <2>4, <2>5, <2>7 DEF SweeperFound, In, Spared
<1>5. CASE RecheckPrune(p)
  <2>1. /\ spc'[p] = "teardown" /\ spc[p] = "lock" /\ plan[p].todo = {}
        /\ plan[p].flags.cmd = "prune" /\ UNCHANGED <<owned, node>>
    BY <1>0, <1>5 DEF RecheckPrune, Enter, In, SweepTypeOK
  <2> SUFFICES ASSUME c \in Spared(p)'
               PROVE  ~Live(c)' /\ (~plan'[p].flags.parked => c \notin owned')
    BY <2>1 DEF SweeperFound, In
  <2>2. c \in Spared(p) /\ c \notin {d \in HeldBy(p) : Changed(d, plan[p])}
    BY <1>5, RecheckPrunePlan DEF Spared, SamePlan
  <2>3. c \in HeldBy(p)
    BY <2>1, <2>2 DEF SweepsOver, In, LocksAll, HeldBy
  <2>4. ~Live(c) /\ (~plan[p].flags.parked => c \notin owned)
    BY <2>2, <2>3, RecheckedIsGone
  <2>5. plan'[p].flags = plan[p].flags
    BY <1>5, RecheckPrunePlan DEF SamePlan
  <2> QED BY <2>1, <2>4, <2>5 DEF Live, LiveUnder, Exists
<1>6. ASSUME NEW d \in Cluster, DeleteCluster(p, d) PROVE SweeperFound(p, c)'
  <2>1. spc[p] = "delete" /\ spc'[p] = "delete" /\ d \in plan[p].todo
    BY <1>6 DEF DeleteCluster, In
  <2>2. plan[p].live[d] = LiveUnder(d) /\ SweeperFound(p, d)
    BY <2>1 DEF SweeperFound, In
  <2>3. /\ SamePlan(p) /\ plan'[p].live = plan[p].live
        /\ plan'[p].todo = plan[p].todo \ {d}
    BY <1>6, DeleteClusterPlan
  <2> DEFINE zap == plan'[p].zap
             blocked == plan'[p].blocked
  <2>6. PICK failed \in SUBSET plan[p].live[d] :
          /\ DeleteUnder(d, plan[p].live[d] \ failed)
          /\ \/ failed = {} /\ blocked = plan[p].blocked
             \/ blocked = plan[p].blocked \cup {d} /\ zap = plan[p].zap
          /\ zap \in {plan[p].zap, plan[p].zap \cup {d}}
    BY <1>6, DeleteClusterPlan
  <2>4. CASE c # d
    <3>1. node'[c] = node[c]
      BY <1>0, <1>6, <2>4, DeleteClusterPlan, ChangesOne
    <3>2. LiveUnder(c)' = LiveUnder(c) /\ Live(c)' = Live(c)
      BY <3>1 DEF LiveUnder, Live, Exists
    <3>3. /\ c \in plan'[p].zap => c \in plan[p].zap
          /\ c \in plan'[p].blocked <=> c \in plan[p].blocked
          /\ c \in plan'[p].todo <=> c \in plan[p].todo
      BY <2>3, <2>4, <2>6
    <3> QED BY <1>1, <2>1, <2>3, <3>2, <3>3 DEF SweeperFound, In, SamePlan, Spared, LocksAll
  <2>5. CASE c = d
    <3>1. c \notin plan'[p].todo
      BY <2>3, <2>5
    <3>2. \/ ~Live(c)'
          \/ c \in plan'[p].blocked /\ plan'[p].zap = plan[p].zap
      <4>1. CASE failed = {} /\ blocked = plan[p].blocked
        <5>1. DeleteUnder(c, LiveUnder(c))
          BY <2>2, <2>5, <2>6, <4>1
        <5> QED BY <1>0, <5>1, DeletedEverywhere
      <4>2. CASE blocked = plan[p].blocked \cup {d} /\ zap = plan[p].zap
        BY <2>5, <4>2
      <4> QED BY <2>6, <4>1, <4>2
    <3>3. c \in plan[p].zap => ~Live(c)'
      <4>1. c \in plan[p].zap => ~Live(c)
        BY <1>1, <2>1 DEF SweeperFound, In
      <4>2. ~Live(c) => ~Live(c)'
        BY <1>0, <2>5, <2>6, DeletedAreGone DEF Live, LiveUnder
      <4> QED BY <4>1, <4>2
    <3> QED BY <1>1, <2>1, <2>3, <3>1, <3>2, <3>3 DEF SweeperFound, In, SamePlan, Spared
  <2> QED BY <2>4, <2>5
<1>7. ASSUME NEW d \in Cluster, ZapCluster(p, d) PROVE SweeperFound(p, c)'
  <2>1. spc[p] = "delete" /\ spc'[p] = "delete" /\ UNCHANGED node
    BY <1>7 DEF ZapCluster, In
  <2>2. LiveUnder(c)' = LiveUnder(c) /\ Live(c)' = Live(c)
    BY <2>1 DEF LiveUnder, Live, Exists
  <2> QED BY <1>1, <1>7, <2>1, <2>2, ZapClusterPlan
          DEF SweeperFound, In, SamePlan, Spared, LocksAll
<1>8. CASE DeletesDone(p)
  <2>1. /\ spc[p] = "delete" /\ UNCHANGED <<node, plan>> /\ plan[p].todo = {}
        /\ spc'[p] = IF TearsDownDisks(plan[p].flags) THEN "teardown" ELSE "release"
    BY <1>0, <1>8 DEF DeletesDone, Enter, In, SweepTypeOK, hostVars
  <2>2. Live(c)' = Live(c)
    BY <2>1 DEF LiveUnder, Live, Exists
  <2> QED BY <1>1, <2>1, <2>2 DEF SweeperFound, In, Spared, LocksAll
<1>9. CASE TearDownBatch(p)
  <2>1. spc[p] = "teardown" /\ spc'[p] = "rmdir" /\ UNCHANGED <<node, owned>>
    BY <1>0, <1>9 DEF TearDownBatch, Enter, In, SweepTypeOK
  <2>2. Live(c)' = Live(c)
    BY <2>1 DEF LiveUnder, Live, Exists
  <2>3. c \in Spared(p) /\ plan[p].flags.cmd = "all" => targets'[c] \subseteq reported'[c]
    <3>1. PICK left \in Leftovers(Batch(p)) : TearDown(Batch(p), left)
      BY <1>9 DEF TearDownBatch
    <3>2. c \in Spared(p) /\ plan[p].flags.cmd = "all" => Batch(p)[c] = imgs[c] \cup targets[c]
      BY DEF Batch, TeardownDisks
    <3> QED BY <1>0, <3>1, <3>2 DEF TearDown, HostTypeOK
  <2>4. c \in Spared(p) /\ plan[p].flags.cmd = "prune" =>
          targets'[c] \cap plan[p].disks[c] \subseteq reported'[c]
    <3>1. PICK left \in Leftovers(Batch(p)) : TearDown(Batch(p), left)
      BY <1>9 DEF TearDownBatch
    <3>2. c \in Spared(p) /\ plan[p].flags.cmd = "prune" => Batch(p)[c] = plan[p].disks[c]
      BY DEF Batch
    <3> QED BY <1>0, <3>1, <3>2 DEF TearDown, HostTypeOK
  <2> QED BY <1>1, <1>9, <2>1, <2>2, <2>3, <2>4, TearDownBatchPlan DEF SweeperFound, In, SamePlan
<1>10. CASE RemoveNext(p)
  <2>1. spc[p] = "rmdir" /\ spc'[p] = "rmdir" /\ UNCHANGED <<node, targets, reported>>
    BY <1>10 DEF RemoveNext, In
  <2>2. Live(c)' = Live(c) /\ owned' \subseteq owned
    BY <1>10, <2>1 DEF LiveUnder, Live, Exists, RemoveNext, RemoveStateDir
  <2> QED BY <1>1, <1>10, <2>1, <2>2, RemoveNextPlan DEF SweeperFound, In, SamePlan
<1>11. CASE RecheckFails(p) \/ TearDownBatchFails(p) \/ RemovesDone(p)
  <2>1. spc'[p] = "release"
    BY <1>0, <1>11 DEF RecheckFails, TearDownBatchFails, RemovesDone, Enter, SweepTypeOK
  <2> QED BY <2>1 DEF SweeperFound, In
<1>12. CASE Release(p) \/ SweeperCrash(p)
  <2>1. spc'[p] = "idle" /\ lock'[c] # p
    BY <1>0, <1>12, ReleasesItsOwn DEF Release, SweeperCrash, Enter, SweepTypeOK
  <2> QED BY <2>1 DEF SweeperFound, In
<1> QED
  BY <1>2, <1>3, <1>4, <1>5, <1>6, <1>7, <1>8, <1>9, <1>10, <1>11, <1>12
     DEF SweeperStep

(* A sweep loses a record only by the rmdir of a prune: down --all removes a state
   directory when no target is left but those it reported. *)
LEMMA SweeperRecords ==
  ASSUME TypeOK, NEW p \in Sweeper, SweeperStep(p),
         \A c \in Cluster : SweeperFound(p, c),
         NEW c \in Cluster, TargetsRecorded(c), ~TargetsRecorded(c)'
  PROVE  /\ In(p, "rmdir") /\ c \in plan[p].todo /\ plan[p].flags.cmd = "prune"
         /\ UNCHANGED <<targets, reported>>
<1>0. HostTypeOK /\ SweepTypeOK
  BY DEF TypeOK
<1>1. CASE TearDownBatch(p) \/ TearDownBatchFails(p)
  <2>1. PICK left \in Leftovers(Batch(p)) : TearDown(Batch(p), left)
    BY <1>1 DEF TearDownBatch, TearDownBatchFails
  <2>2. UNCHANGED stateDir
    BY <1>1 DEF TearDownBatch, TearDownBatchFails
  <2> QED BY <1>0, <2>1, <2>2 DEF TearDown, HostTypeOK, TargetsRecorded
<1>2. CASE RemoveNext(p)
  <2> DEFINE d == First(plan[p].todo)
  <2>1. d \in plan[p].todo /\ In(p, "rmdir") /\ UNCHANGED <<targets, reported>>
    BY <1>2, RemoveNextPlan DEF RemoveNext
  <2>2. d \in Cluster /\ (plan[p].flags.cmd = "all" => targets[d] \subseteq reported[d])
    BY <1>0, <2>1, PlanParts DEF SweeperFound
  <2>3. stateDir \ {d} \subseteq stateDir'
    BY <1>2 DEF RemoveNext, RemoveStateDir
  <2>4. plan[p].flags.cmd \in {"all", "prune"}
    BY <1>0, PlanParts
  <2> HIDE DEF d
  <2> QED BY <2>1, <2>2, <2>3, <2>4 DEF TargetsRecorded
<1> QED
  BY <1>1, <1>2 DEF SweeperStep, hostVars, ScanAll, ScanPrune, LockNext, RecheckAll,
     RecheckPrune, RecheckFails, DeleteCluster, ZapCluster, DeletesDone, RemovesDone,
     Release, SweeperCrash, TargetsRecorded

(* A sweep leaves what it deletes wiped, due or told of, unless it is told both to
   delete the disks and to skip them. *)
LEMMA SweeperLeavesClean ==
  ASSUME TypeOK, NEW p \in Sweeper, SweeperStep(p),
         ~(plan[p].flags.deleteDisks /\ plan[p].flags.skipBlock),
         \A c \in Cluster : SweeperFound(p, c),
         NEW c \in Cluster, lock[c] = p,
         Live(c) \/ dirty[c] \subseteq unwiped[c] \/ SweeperWipes(p, c)
  PROVE  Live(c)' \/ dirty'[c] \subseteq unwiped'[c] \/ SweeperWipes(p, c)'
<1> DEFINE Clean == Live(c) \/ dirty[c] \subseteq unwiped[c]
<1>0. HostTypeOK /\ SweepTypeOK /\ SweeperFound(p, c)
  BY DEF TypeOK
<1>1. ~In(p, "idle")
  BY <1>0 DEF SweeperFound
<1>2. ASSUME UNCHANGED <<node, dirty, unwiped>>, SweeperWipes(p, c) => SweeperWipes(p, c)'
      PROVE  Live(c)' \/ dirty'[c] \subseteq unwiped'[c] \/ SweeperWipes(p, c)'
  BY <1>2 DEF Live, LiveUnder, Exists
<1>3. ~In(p, "delete") /\ ~In(p, "teardown") /\ ~In(p, "rmdir") => ~SweeperWipes(p, c)
  BY DEF SweeperWipes
<1>4. CASE LockNext(p) \/ RecheckAll(p) \/ RecheckPrune(p) \/ RecheckFails(p) \/ Release(p)
  <2>1. UNCHANGED <<node, dirty, unwiped>> /\ (In(p, "lock") \/ In(p, "release"))
    BY <1>4 DEF LockNext, RecheckAll, RecheckPrune, RecheckFails, Release, hostVars
  <2> QED BY <1>2, <1>3, <2>1 DEF In
<1>5. CASE ScanAll(p) \/ ScanPrune(p)
  BY <1>1, <1>5 DEF ScanAll, ScanPrune
<1>6. ASSUME NEW d \in Cluster, DeleteCluster(p, d)
      PROVE  Live(c)' \/ dirty'[c] \subseteq unwiped'[c] \/ SweeperWipes(p, c)'
  <2>1. /\ spc[p] = "delete" /\ spc'[p] = "delete" /\ d \in plan[p].todo /\ UNCHANGED dirty
    BY <1>6 DEF DeleteCluster, In
  <2>2. SamePlan(p)
    BY <1>6, DeleteClusterPlan
  <2>3. CASE c # d
    <3>1. node'[c] = node[c] /\ unwiped'[c] = unwiped[c]
      BY <1>0, <1>6, <2>3, DeleteClusterPlan, ChangesOne
    <3>2. /\ plan[p].zap \subseteq plan'[p].zap
          /\ c \in plan[p].blocked \/ c \notin plan'[p].blocked
      <4>1. /\ plan'[p].zap \in {plan[p].zap, plan[p].zap \cup {d}}
            /\ plan'[p].blocked \in {plan[p].blocked, plan[p].blocked \cup {d}}
        BY <1>6, DeleteClusterPlan
      <4> QED BY <2>3, <4>1
    <3>3. SweeperWipes(p, c) => SweeperWipes(p, c)'
      BY <2>1, <2>2, <3>2 DEF SweeperWipes, In, LocksAll, Spared, SamePlan
    <3> QED BY <2>1, <3>1, <3>3 DEF Live, LiveUnder, Exists
  <2>4. CASE c = d /\ StopOver({d})
    BY <1>0, <2>1, <2>4, StopsOver
  <2>5. CASE c = d /\ ~StopOver({d})
    <3>1. /\ plan'[p].blocked = plan[p].blocked /\ UNCHANGED unwiped
          /\ IF ~plan[p].flags.deleteDisks /\ d \in plan[p].state
             THEN plan'[p].zap = plan[p].zap \cup {d}
             ELSE plan'[p].zap = plan[p].zap
          /\ d \in stateDir => d \in plan[p].state
      BY <1>6, <2>5, DeleteClusterPlan
    <3>2. CASE d \notin stateDir
      BY <1>0, <2>1, <2>5, <3>2 DEF HostTypeOK
    <3>3. CASE d \in plan[p].state /\ ~plan[p].flags.deleteDisks
      BY <2>1, <2>5, <3>1, <3>3 DEF SweeperWipes, In
    <3>4. CASE d \in plan[p].state /\ plan[p].flags.deleteDisks
      <4>1. TearsDownDisks(plan[p].flags)
        BY <3>4 DEF TearsDownDisks
      <4>2. c \in Spared(p)
        BY <1>0, <2>1, <2>5 DEF SweeperFound, In
      <4> QED BY <2>1, <2>2, <2>5, <3>1, <3>4, <4>1, <4>2
              DEF SweeperWipes, In, LocksAll, Spared, SamePlan
    <3> QED BY <3>1, <3>2, <3>3, <3>4
  <2> QED BY <2>3, <2>4, <2>5
<1>7. ASSUME NEW d \in Cluster, ZapCluster(p, d)
      PROVE  Live(c)' \/ dirty'[c] \subseteq unwiped'[c] \/ SweeperWipes(p, c)'
  <2>1. CASE c = d
    <3>1. dirty'[d] = unwiped'[d]
      BY <1>0, <1>7 DEF ZapCluster, Zap, ZapSome, HostTypeOK
    <3> QED BY <2>1, <3>1
  <2>2. CASE c # d
    <3>1. dirty'[c] = dirty[c] /\ unwiped'[c] = unwiped[c] /\ UNCHANGED node
      BY <1>0, <1>7, <2>2, ChangesOne DEF ZapCluster
    <3>2. SweeperWipes(p, c) => SweeperWipes(p, c)'
      BY <1>7, <2>2, ZapClusterPlan
         DEF ZapCluster, SweeperWipes, In, LocksAll, Spared, SamePlan
    <3> QED BY <3>1, <3>2 DEF Live, LiveUnder, Exists
  <2> QED BY <2>1, <2>2
<1>8. CASE DeletesDone(p)
  <2>1. /\ spc[p] = "delete" /\ UNCHANGED <<node, dirty, unwiped, plan>> /\ plan[p].zap = {}
        /\ spc'[p] = IF TearsDownDisks(plan[p].flags) THEN "teardown" ELSE "release"
    BY <1>0, <1>8 DEF DeletesDone, Enter, In, SweepTypeOK, hostVars
  <2>2. SweeperWipes(p, c) => SweeperWipes(p, c)'
    BY <1>0, <2>1 DEF SweeperWipes, SweeperFound, In, LocksAll, Spared
  <2> QED BY <1>2, <2>1, <2>2
<1>9. CASE TearDownBatch(p)
  <2>1. /\ spc[p] = "teardown" /\ spc'[p] = "rmdir" /\ UNCHANGED <<node, dirty, unwiped>>
    BY <1>0, <1>9 DEF TearDownBatch, Enter, In, SweepTypeOK
  <2>2. SweeperWipes(p, c) => SweeperWipes(p, c)'
    BY <1>9, <2>1, TearDownBatchPlan DEF SweeperWipes, In
  <2> QED BY <1>2, <2>1, <2>2
<1>10. CASE TearDownBatchFails(p) \/ SweeperCrash(p)
  <2>1. c \in HeldBy(p)
    BY DEF HeldBy
  <2> QED BY <1>0, <1>10, <2>1, StopsOver DEF TearDownBatchFails, SweeperCrash
<1>11. CASE RemoveNext(p)
  <2> DEFINE d == First(plan[p].todo)
  <2>0. /\ spc[p] = "rmdir" /\ spc'[p] = "rmdir" /\ UNCHANGED node
        /\ \/ RemoveStateDir(d)
           \/ UNCHANGED <<stateDir, owned, imgs, dirty>> /\ StopOver({d})
        /\ d \in Cluster /\ plan'[p].todo = plan[p].todo \ {d}
    BY <1>0, <1>11, RemoveNextPlan, PlanParts DEF RemoveNext, In
  <2> HIDE DEF d
  <2>1. CASE c # d
    <3>1. dirty'[c] = dirty[c] /\ unwiped'[c] = unwiped[c]
      BY <1>0, <2>0, <2>1, ChangesOne
    <3>2. SweeperWipes(p, c) => SweeperWipes(p, c)'
      BY <2>0, <2>1 DEF SweeperWipes, In
    <3> QED BY <2>0, <3>1, <3>2 DEF Live, LiveUnder, Exists
  <2>2. CASE c = d /\ RemoveStateDir(d)
    BY <1>0, <2>2 DEF RemoveStateDir, HostTypeOK
  <2>3. CASE c = d /\ UNCHANGED dirty /\ StopOver({d})
    BY <1>0, <2>3, StopsOver
  <2> QED BY <2>0, <2>1, <2>2, <2>3
<1>12. CASE RemovesDone(p)
  <2>1. UNCHANGED <<node, dirty, unwiped>> /\ ~SweeperWipes(p, c)
    BY <1>12 DEF RemovesDone, hostVars, SweeperWipes, In
  <2> QED BY <1>2, <2>1
<1> QED
  BY <1>4, <1>5, <1>6, <1>7, <1>8, <1>9, <1>10, <1>11, <1>12 DEF SweeperStep

-----------------------------------------------------------------------------
(* The invariant. *)

LEMMA InitIInv == Init => IInv
<1> SUFFICES ASSUME Init PROVE IInv
  OBVIOUS
<1>1. TypeOK
  BY InitTypeOK
<1>2. /\ \A p \in Runner : rpc[p] = "idle"
      /\ \A p \in Sweeper : spc[p] = "idle"
      /\ \A c \in Cluster : lock[c] = Nobody /\ dirty[c] = {} /\ targets[c] = {}
  BY DEF Init, HostInit, RunInit
<1>3. RunnersHold /\ \A p \in Runner : RunnerFound(p)
  BY <1>2 DEF RunnersHold, WorksOn, At, RunnerFound
<1>4. SweepersHold /\ \A p \in Sweeper, c \in Cluster : SweeperFound(p, c)
  BY <1>2, ProcessAssumption DEF SweepersHold, SweepsOver, In, SweeperFound
<1>5. NoUnrecordedTargets /\ WipedOrDue
  BY <1>2 DEF NoUnrecordedTargets, TargetsRecorded, WipedOrDue, CleanOrDue
<1> QED BY <1>1, <1>3, <1>4, <1>5 DEF IInv

(* What is clean, or told, or due, and kept by a step of p, stays so. *)
LEMMA CleanStays ==
  ASSUME NEW c \in Cluster, Keeps(c), Live(c) \/ dirty[c] \subseteq unwiped[c]
  PROVE  Live(c)' \/ dirty'[c] \subseteq unwiped'[c]
BY KeepsLive DEF Keeps

(* No command on one cluster forgets a target. *)
LEMMA RunnerKeepsRecords ==
  ASSUME IInv, NEW p \in Runner, RunnerStep(p), NEW c \in Cluster, TargetsRecorded(c)
  PROVE  TargetsRecorded(c)'
<1>1. CASE WorksOn(p, c)
  BY <1>1, RunnerRecords DEF WorksOn, TargetsRecorded, IInv
<1>2. CASE ~WorksOn(p, c)
  BY <1>2, RunnerKeepsOthers DEF WorksOn, Keeps, TargetsRecorded, IInv
<1> QED BY <1>1, <1>2

(* None leaves a disk dirty unless it is due or told of. *)
LEMMA RunnerKeepsDue ==
  ASSUME IInv, NEW p \in Runner, RunnerStep(p), UNCHANGED sweepVars,
         NEW c \in Cluster, CleanOrDue(c)
  PROVE  CleanOrDue(c)'
<1> USE DEF IInv
<1>0. /\ StepBy(p)
      /\ \A q \in Runner \ {p} : rpc'[q] = rpc[q] /\ job'[q] = job[q]
      /\ ~WorksOn(p, c) => Keeps(c)
  BY RunnerStaysInside, RunnerKeepsOthers DEF WorksOn
<1>1. \A q \in Sweeper : q # p /\ spc'[q] = spc[q] /\ plan'[q] = plan[q]
  BY ProcessAssumption DEF sweepVars
<1>2. \A q \in Runner : q # p => (RunnerWipes(q, c) => RunnerWipes(q, c)')
  BY <1>0, OtherRunners
<1>3. \A q \in Sweeper : SweeperWipes(q, c) => SweeperWipes(q, c)'
  BY <1>0, <1>1, OtherSweepers
<1>4. RunnerWipes(p, c) => WorksOn(p, c)
  BY DEF RunnerWipes, WorksOn, At
<1>5. CASE WorksOn(p, c)
  BY <1>2, <1>3, <1>5, RunnerLeavesClean DEF CleanOrDue
<1>6. CASE ~WorksOn(p, c)
  BY <1>0, <1>2, <1>3, <1>4, <1>6, CleanStays DEF CleanOrDue
<1> QED BY <1>5, <1>6

LEMMA SweeperKeepsDue ==
  ASSUME IInv, NEW p \in Sweeper, SweeperStep(p), UNCHANGED runVars,
         NEW c \in Cluster, CleanOrDue(c), ~CleanOrDue(c)'
  PROVE  lock[c] = p /\ plan[p].flags.deleteDisks /\ plan[p].flags.skipBlock
<1> USE DEF IInv
<1>0. /\ StepBy(p)
      /\ \A q \in Sweeper \ {p} : plan'[q] = plan[q] /\ spc'[q] = spc[q]
      /\ SweepsOver(p, c) => lock[c] = p
  BY SweeperStaysInside, SweeperTypes DEF SweepersHold
<1>1. \A q \in Runner : q # p /\ rpc'[q] = rpc[q] /\ job'[q] = job[q]
  BY ProcessAssumption DEF runVars
<1>2. \A q \in Runner : RunnerWipes(q, c) => RunnerWipes(q, c)'
  BY <1>0, <1>1, OtherRunners
<1>3. \A q \in Sweeper : q # p => (SweeperWipes(q, c) => SweeperWipes(q, c)')
  BY <1>0, OtherSweepers
<1>4. SweeperWipes(p, c) => lock[c] = p
  BY <1>0 DEF SweeperWipes, SweepsOver
<1>5. lock[c] = p
  <2> SUFFICES ASSUME lock[c] # p PROVE FALSE
    OBVIOUS
  <2>1. Keeps(c)
    BY <1>0 DEF StepBy
  <2> QED BY <1>2, <1>3, <1>4, <2>1, CleanStays DEF CleanOrDue
<1> QED BY <1>2, <1>3, <1>5, SweeperLeavesClean DEF CleanOrDue

LEMMA RunnerKeepsIInv ==
  ASSUME IInv, NEW p \in Runner, RunnerStep(p), UNCHANGED sweepVars, TypeOK'
  PROVE  IInv'
<1> USE DEF IInv
<1>0. /\ StepBy(p)
      /\ \A q \in Runner \ {p} : rpc'[q] = rpc[q] /\ job'[q] = job[q]
      /\ \A d \in Cluster : ~WorksOn(p, d) => Keeps(d)
  BY RunnerStaysInside, RunnerKeepsOthers DEF WorksOn
<1>1. \A q \in Sweeper : q # p /\ spc'[q] = spc[q] /\ plan'[q] = plan[q]
  BY ProcessAssumption DEF sweepVars
<1>2. RunnersHold'
  <2>1. \A q \in Runner, c \in Cluster : WorksOn(q, c)' => lock'[c] = q
    BY <1>0, RunnerHoldsItsOwn, OtherRunners
  <2> QED BY <2>1 DEF RunnersHold
<1>3. \A q \in Runner : RunnerFound(q)'
  BY <1>0, RunnerFindsItsOwn, OtherRunners
<1>4. SweepersHold'
  <2>1. \A q \in Sweeper, c \in Cluster : SweepsOver(q, c)' => lock'[c] = q
    BY <1>0, <1>1, OtherSweepers
  <2> QED BY <2>1 DEF SweepersHold
<1>5. \A q \in Sweeper, c \in Cluster : SweeperFound(q, c)'
  BY <1>0, <1>1, OtherSweepers
<1>6. NoPrune => NoUnrecordedTargets'
  BY RunnerKeepsRecords DEF NoUnrecordedTargets
<1>7. NoneKeepsDirty => WipedOrDue'
  BY RunnerKeepsDue DEF WipedOrDue
<1> QED
  <2>1. NoPrune' = NoPrune /\ NoneKeepsDirty' = NoneKeepsDirty
    BY DEF NoPrune, NoneKeepsDirty, TearsDownDisks
  <2> QED BY <1>2, <1>3, <1>4, <1>5, <1>6, <1>7, <2>1

LEMMA SweeperKeepsIInv ==
  ASSUME IInv, NEW p \in Sweeper, SweeperStep(p), UNCHANGED runVars, TypeOK'
  PROVE  IInv'
<1> USE DEF IInv
<1>0. /\ StepBy(p)
      /\ \A q \in Sweeper \ {p} : plan'[q] = plan[q] /\ spc'[q] = spc[q]
      /\ \A c \in Cluster : SweepsOver(p, c) => lock[c] = p
  BY SweeperStaysInside, SweeperTypes DEF SweepersHold
<1>1. \A q \in Runner : q # p /\ rpc'[q] = rpc[q] /\ job'[q] = job[q]
  BY ProcessAssumption DEF runVars
<1>2. RunnersHold'
  <2>1. \A q \in Runner, c \in Cluster : WorksOn(q, c)' => lock'[c] = q
    BY <1>0, <1>1, OtherRunners
  <2> QED BY <2>1 DEF RunnersHold
<1>3. \A q \in Runner : RunnerFound(q)'
  BY <1>0, <1>1, OtherRunners
<1>4. SweepersHold'
  <2>1. \A c \in Cluster : SweepsOver(p, c)' => lock'[c] = p
    BY <1>0, SweeperHoldsItsOwn
  <2>2. \A q \in Sweeper, c \in Cluster : q # p => (SweepsOver(q, c)' => lock'[c] = q)
    BY <1>0, OtherSweepers
  <2> QED BY <2>1, <2>2 DEF SweepersHold
<1>5. \A q \in Sweeper, c \in Cluster : SweeperFound(q, c)'
  <2>1. \A c \in Cluster : SweeperFound(p, c)'
    BY <1>0, SweeperFindsItsOwn
  <2>2. \A q \in Sweeper, c \in Cluster : q # p => SweeperFound(q, c)'
    BY <1>0, OtherSweepers
  <2> QED BY <2>1, <2>2
<1>6. NoPrune => NoUnrecordedTargets'
  <2>1. NoPrune => plan[p].flags.cmd # "prune"
    BY PlanParts DEF NoPrune, TypeOK
  <2> QED BY <2>1, SweeperRecords DEF NoUnrecordedTargets
<1>7. NoneKeepsDirty => WipedOrDue'
  <2>1. NoneKeepsDirty => ~(plan[p].flags.deleteDisks /\ plan[p].flags.skipBlock)
    BY PlanParts DEF NoneKeepsDirty, TypeOK
  <2> QED BY <2>1, SweeperKeepsDue DEF WipedOrDue
<1> QED
  <2>1. NoPrune' = NoPrune /\ NoneKeepsDirty' = NoneKeepsDirty
    BY DEF NoPrune, NoneKeepsDirty
  <2> QED BY <1>2, <1>3, <1>4, <1>5, <1>6, <1>7, <2>1

(* Nodes that stop are nodes still. *)
LEMMA StoppedIsLive ==
  ASSUME HostTypeOK, NodesStop
  PROVE  \A c \in Cluster : Live(c)' <=> Live(c)
<1>1. \A c \in Cluster, e \in Engine : Exists(c, e)' <=> Exists(c, e)
  BY DEF HostTypeOK, NodesStop, Exists
<1> QED BY <1>1 DEF Live, LiveUnder

(* A reboot cuts every command off, which is told of. *)
LEMMA RebootKeepsDue ==
  ASSUME IInv, Reboot, NEW c \in Cluster, CleanOrDue(c)
  PROVE  CleanOrDue(c)'
<1> USE DEF IInv
<1>0. NodesStop /\ HostTypeOK /\ UNCHANGED dirty
  BY DEF Reboot, TypeOK
<1>1. CASE LockBusy(c)
  BY <1>0, <1>1, StopsOver DEF Reboot, CleanOrDue
<1>2. CASE ~LockBusy(c)
  <2>1. \A p \in Runner : ~RunnerWipes(p, c)
    BY <1>2, ProcessAssumption DEF RunnerWipes, RunnersHold, WorksOn, At, LockBusy
  <2>2. \A p \in Sweeper : ~SweeperWipes(p, c)
    BY <1>2, ProcessAssumption DEF SweeperWipes, SweepersHold, SweepsOver, LockBusy
  <2>3. Live(c) \/ dirty[c] \subseteq unwiped[c]
    BY <2>1, <2>2 DEF CleanOrDue
  <2>4. unwiped'[c] \in {unwiped[c], dirty[c]}
    BY DEF Reboot, StopOver
  <2> QED BY <1>0, <2>3, <2>4, StoppedIsLive DEF CleanOrDue
<1> QED BY <1>1, <1>2

LEMMA RebootKeepsIInv ==
  ASSUME IInv, Reboot, TypeOK'
  PROVE  IInv'
<1> USE DEF IInv
<1>0. /\ \A q \in Runner : rpc'[q] = "idle"
      /\ \A q \in Sweeper : spc'[q] = "idle"
      /\ \A c \in Cluster : lock'[c] = Nobody
      /\ NodesStop /\ HostTypeOK
      /\ UNCHANGED <<stateDir, owned, imgs, dirty, targets, reported>>
  BY DEF Reboot, TypeOK
<1>1. RunnersHold' /\ \A q \in Runner : RunnerFound(q)'
  BY <1>0 DEF RunnersHold, WorksOn, At, RunnerFound
<1>2. SweepersHold' /\ \A q \in Sweeper, c \in Cluster : SweeperFound(q, c)'
  BY <1>0, ProcessAssumption DEF SweepersHold, SweepsOver, In, SweeperFound
<1>3. NoPrune => NoUnrecordedTargets'
  BY <1>0 DEF NoUnrecordedTargets, TargetsRecorded
<1>4. NoneKeepsDirty => WipedOrDue'
  BY RebootKeepsDue DEF WipedOrDue
<1> QED
  <2>1. NoPrune' = NoPrune /\ NoneKeepsDirty' = NoneKeepsDirty
    BY DEF NoPrune, NoneKeepsDirty
  <2> QED BY <1>1, <1>2, <1>3, <1>4, <2>1

(* A step that changes nothing of a cluster, and no process, keeps both. *)
LEMMA QuietKeepsDue ==
  ASSUME UNCHANGED <<runVars, sweepVars>>, NEW c \in Cluster, Keeps(c)
  PROVE  /\ TargetsRecorded(c) => TargetsRecorded(c)'
         /\ CleanOrDue(c) => CleanOrDue(c)'
<1>1. \A q \in Runner : RunnerWipes(q, c) => RunnerWipes(q, c)'
  BY DEF RunnerWipes, runVars
<1>2. \A q \in Sweeper : SweeperWipes(q, c) => SweeperWipes(q, c)'
  BY DEF SweeperWipes, In, LocksAll, TearsDownDisks, Spared, sweepVars
<1>3. TargetsRecorded(c) => TargetsRecorded(c)'
  BY DEF TargetsRecorded, Keeps
<1> QED BY <1>1, <1>2, <1>3, CleanStays DEF CleanOrDue

(* An owner that goes, and a step that is none, leave all of it. *)
LEMMA QuietKeepsIInv ==
  ASSUME IInv, TypeOK', UNCHANGED <<runVars, sweepVars>>, UNCHANGED lock,
         \A c \in Cluster : Keeps(c)
  PROVE  IInv'
<1> USE DEF IInv, runVars, sweepVars
<1>1. RunnersHold' /\ SweepersHold'
  BY DEF RunnersHold, WorksOn, At, SweepersHold, SweepsOver, In, LocksAll,
         TearsDownDisks, Spared
<1>2. \A q \in Runner : RunnerFound(q)'
  <2>1. \A q \in Runner : job[q].cluster \in Cluster
    BY JobParts DEF TypeOK
  <2> QED BY <2>1 DEF RunnerFound, Keeps, Exists
<1>3. \A q \in Sweeper, c \in Cluster : SweeperFound(q, c)'
  BY KeepsLive DEF SweeperFound, In, LocksAll, TearsDownDisks, Spared, Keeps
<1>4. NoPrune => NoUnrecordedTargets'
  BY QuietKeepsDue DEF NoUnrecordedTargets
<1>5. NoneKeepsDirty => WipedOrDue'
  BY QuietKeepsDue DEF WipedOrDue
<1> QED
  <2>1. NoPrune' = NoPrune /\ NoneKeepsDirty' = NoneKeepsDirty
    BY DEF NoPrune, NoneKeepsDirty
  <2> QED BY <1>1, <1>2, <1>3, <1>4, <1>5, <2>1

LEMMA StepIInv == IInv /\ [Next]_vars => IInv'
<1> SUFFICES ASSUME IInv, [Next]_vars PROVE IInv'
  OBVIOUS
<1>0. TypeOK'
  BY TypeStep DEF IInv
<1>1. CASE UNCHANGED vars
  <2>1. /\ UNCHANGED <<runVars, sweepVars>> /\ UNCHANGED lock
        /\ \A c \in Cluster : Keeps(c)
    BY <1>1, UnchangedKeeps DEF vars, hostVars
  <2> QED BY <1>0, <2>1, QuietKeepsIInv
<1>2. ASSUME NEW c \in Cluster, OwnerRemoved(c), UNCHANGED <<runVars, sweepVars>>
      PROVE  IInv'
  <2>1. UNCHANGED lock /\ \A d \in Cluster : Keeps(d)
    BY <1>2 DEF OwnerRemoved, Keeps
  <2> QED BY <1>0, <1>2, <2>1, QuietKeepsIInv
<1>3. ASSUME NEW p \in Runner, RunnerStep(p), UNCHANGED sweepVars PROVE IInv'
  BY <1>0, <1>3, RunnerKeepsIInv
<1>4. ASSUME NEW p \in Sweeper, SweeperStep(p), UNCHANGED runVars PROVE IInv'
  BY <1>0, <1>4, SweeperKeepsIInv
<1>5. CASE Reboot
  BY <1>0, <1>5, RebootKeepsIInv
<1> QED BY <1>1, <1>2, <1>3, <1>4, <1>5 DEF Next, Outside

(* The invariant of the sweeps and the commands they sweep over: whoever works
   on a cluster has its lock, and what it found there stands. *)
THEOREM Invariance == Spec => []IInv
BY InitIInv, StepIInv, PTL DEF Spec

(* cmd/downall.go, cmd/down.go: where no prune is run, a state directory that
   is gone has left no target behind but those a teardown warned of, whatever
   fails or is killed. *)
THEOREM TargetsAreRecorded ==
  ASSUME NoPrune
  PROVE  Spec => []NoUnrecordedTargets
<1>1. IInv => NoUnrecordedTargets
  BY DEF IInv
<1> QED BY <1>1, Invariance, PTL

-----------------------------------------------------------------------------
(* What a step may not do. *)

(* A process that steps is not where it was. *)
LEMMA RunnerMoves ==
  ASSUME TypeOK, NEW p \in Runner, RunnerStep(p)
  PROVE  rpc'[p] # rpc[p]
<1>1. rpc \in [Runner -> RPC]
  BY DEF TypeOK, RunTypeOK
<1>2. CASE StartDown(p) \/ StartDelete(p) \/ Delete(p) \/ ZapDisks(p)
  BY <1>1, <1>2 DEF StartDown, StartDelete, Delete, ZapDisks, AfterDelete, Goto, At
<1> QED
  BY <1>1, <1>2 DEF RunnerStep, Goto, At, Lock, Unlock, RunnerCrash, StartUp, MakeImages,
     MakeTargets, MakeTargetsFails, NoDevice, NoCluster, Resume, RefuseResume, Rebuild,
     Create, CreateFails, DeleteFails, ZapFails, BlockTeardown, BlockTeardownFails,
     RemoveDir

LEMMA SweeperMoves ==
  ASSUME TypeOK, NEW p \in Sweeper, SweeperStep(p)
  PROVE  spc'[p] # spc[p] \/ plan'[p] # plan[p]
<1>1. spc \in [Sweeper -> Stages]
  BY DEF TypeOK, SweepTypeOK
<1>2. CASE LockNext(p)
  <2>1. First(plan[p].todo) \in plan[p].todo /\ First(plan[p].todo) \notin plan'[p].todo
    BY <1>2, LockNextPlan DEF TypeOK, LockNext, First
  <2> QED BY <2>1
<1>3. ASSUME NEW c \in Cluster, DeleteCluster(p, c) PROVE plan'[p] # plan[p]
  <2>1. c \in plan[p].todo
    BY <1>3 DEF DeleteCluster
  <2>2. plan'[p].todo = plan[p].todo \ {c}
    BY <1>3, DeleteClusterPlan
  <2> QED BY <2>1, <2>2
<1>4. ASSUME NEW c \in Cluster, ZapCluster(p, c) PROVE plan'[p] # plan[p]
  <2>1. c \in plan[p].zap
    BY <1>4 DEF ZapCluster
  <2>2. plan'[p].zap = plan[p].zap \ {c}
    BY <1>4, ZapClusterPlan
  <2> QED BY <2>1, <2>2
<1>5. CASE RemoveNext(p)
  <2>1. First(plan[p].todo) \in plan[p].todo /\ First(plan[p].todo) \notin plan'[p].todo
    BY <1>5, RemoveNextPlan
  <2> QED BY <2>1
<1>6. CASE DeletesDone(p)
  BY <1>1, <1>6 DEF DeletesDone, Enter, In
<1> QED
  BY <1>1, <1>2, <1>3, <1>4, <1>5, <1>6 DEF SweeperStep, Enter, In, ScanAll, ScanPrune,
     RecheckAll, RecheckPrune, RecheckFails, TearDownBatch, TearDownBatchFails,
     RemovesDone, Release, SweeperCrash

LEMMA KeepsHostOf ==
  ASSUME NEW c \in Cluster, Keeps(c)
  PROVE  HostOf(c)' = HostOf(c)
BY DEF Keeps, HostOf

(* "Every command that mutates a cluster holds this for its whole run"
   (cmd/lock.go): whatever runs beside, is killed or fails, the state of a
   cluster on the host changes only in a step of the process that has its lock,
   or at a reboot. *)
THEOREM OnlyTheHolderTouchesHolds == Spec => OnlyTheHolderTouches
<1>1. IInv /\ [Next]_vars =>
        [\A c \in Cluster : HostOf(c)' # HostOf(c) /\ ~Reboot =>
           lock[c] # Nobody /\ StepOf(lock[c])]_vars
  <2> SUFFICES ASSUME IInv, Next, NEW c \in Cluster, HostOf(c)' # HostOf(c), ~Reboot
               PROVE  lock[c] # Nobody /\ StepOf(lock[c])
    OBVIOUS
  <2>1. TypeOK /\ RunnersHold /\ SweepersHold
    BY DEF IInv
  <2>2. ~Keeps(c)
    BY KeepsHostOf
  <2>3. ASSUME NEW p \in Runner, RunnerStep(p) PROVE lock[c] # Nobody /\ StepOf(lock[c])
    <3>1. lock[c] = p
      BY <2>1, <2>2, <2>3, RunnerStaysInside DEF StepBy
    <3> QED BY <2>1, <2>3, <3>1, RunnerMoves, ProcessAssumption DEF StepOf
  <2>4. ASSUME NEW p \in Sweeper, SweeperStep(p) PROVE lock[c] # Nobody /\ StepOf(lock[c])
    <3>1. lock[c] = p
      BY <2>1, <2>2, <2>4, SweeperStaysInside DEF StepBy
    <3> QED BY <2>1, <2>4, <3>1, SweeperMoves, ProcessAssumption DEF StepOf
  <2>5. ASSUME NEW d \in Cluster, OwnerRemoved(d) PROVE FALSE
    BY <2>2, <2>5 DEF OwnerRemoved, Keeps
  <2> QED BY <2>3, <2>4, <2>5 DEF Next, Outside
<1> QED BY <1>1, Invariance, PTL DEF Spec, OnlyTheHolderTouches

(* cmd/prune.go: the record of a target outlives the target, in every command and
   every sweep, with or without failures; but a prune forgets those made after its
   scan had named the disks. *)
THEOREM OnlyPruneForgetsHolds == Spec => OnlyPruneForgets
<1>1. IInv /\ [Next]_vars =>
        [\A c \in Cluster : TargetsRecorded(c) /\ ~TargetsRecorded(c)' =>
           \E p \in Sweeper :
             /\ StepOf(p) /\ lock[c] = p /\ plan[p].flags.cmd = "prune"
             /\ (targets[c] \ reported[c]) \cap plan[p].disks[c] = {}]_vars
  <2> SUFFICES ASSUME IInv, Next, NEW c \in Cluster, TargetsRecorded(c), ~TargetsRecorded(c)'
               PROVE  \E p \in Sweeper :
                        /\ StepOf(p) /\ lock[c] = p /\ plan[p].flags.cmd = "prune"
                        /\ (targets[c] \ reported[c]) \cap plan[p].disks[c] = {}
    OBVIOUS
  <2>1. \A p \in Runner : ~RunnerStep(p)
    BY RunnerKeepsRecords
  <2>2. ~Reboot /\ \A d \in Cluster : ~OwnerRemoved(d)
    BY DEF Reboot, OwnerRemoved, TargetsRecorded
  <2>3. PICK p \in Sweeper : SweeperStep(p)
    BY <2>1, <2>2 DEF Next, Outside
  <2>4. TypeOK /\ SweepersHold /\ \A d \in Cluster : SweeperFound(p, d)
    BY DEF IInv
  <2>5. In(p, "rmdir") /\ c \in plan[p].todo /\ plan[p].flags.cmd = "prune"
    BY <2>3, <2>4, SweeperRecords
  <2>6. lock[c] = p
    BY <2>4, <2>5 DEF SweepersHold, SweepsOver
  <2>7. targets[c] \cap plan[p].disks[c] \subseteq reported[c]
    BY <2>4, <2>5 DEF SweeperFound
  <2>8. StepOf(p)
    BY <2>3, <2>4, SweeperMoves, ProcessAssumption DEF StepOf
  <2> QED BY <2>5, <2>6, <2>7, <2>8
<1> QED BY <1>1, Invariance, PTL DEF Spec, OnlyPruneForgets

(* cmd/downall.go, cmd/delete.go: a deleted cluster's disks are wiped, about to be,
   or told of, whatever is killed or fails, until a down --all is told both to
   delete the disks and to skip them. *)
THEOREM OnlySkippingLeavesDirtyHolds == Spec => OnlySkippingLeavesDirty
<1>1. IInv /\ [Next]_vars =>
        [\A c \in Cluster : CleanOrDue(c) /\ ~CleanOrDue(c)' =>
           \E p \in Sweeper :
             /\ StepOf(p) /\ lock[c] = p
             /\ plan[p].flags.deleteDisks /\ plan[p].flags.skipBlock]_vars
  <2> SUFFICES ASSUME IInv, Next, NEW c \in Cluster, CleanOrDue(c), ~CleanOrDue(c)'
               PROVE  \E p \in Sweeper :
                        /\ StepOf(p) /\ lock[c] = p
                        /\ plan[p].flags.deleteDisks /\ plan[p].flags.skipBlock
    OBVIOUS
  <2>1. \A p \in Runner : ~(RunnerStep(p) /\ UNCHANGED sweepVars)
    BY RunnerKeepsDue
  <2>2. ~Reboot
    BY RebootKeepsDue
  <2>3. ASSUME NEW d \in Cluster, OwnerRemoved(d), UNCHANGED <<runVars, sweepVars>>
        PROVE  FALSE
    <3>1. Keeps(c)
      BY <2>3 DEF OwnerRemoved, Keeps
    <3> QED BY <2>3, <3>1, QuietKeepsDue
  <2>4. PICK p \in Sweeper : SweeperStep(p) /\ UNCHANGED runVars
    BY <2>1, <2>2, <2>3 DEF Next, Outside
  <2>5. StepOf(p)
    BY <2>4, SweeperMoves, ProcessAssumption DEF StepOf, IInv
  <2> QED BY <2>4, <2>5, SweeperKeepsDue
<1> QED BY <1>1, Invariance, PTL DEF Spec, OnlySkippingLeavesDirty

(* What a sweep destroys is gone, and is nobody's if prune spares the parked. *)
LEMMA SweeperDestroys ==
  ASSUME IInv, NEW p \in Sweeper, SweeperStep(p), NEW c \in Cluster, Destroys(c)
  PROVE  /\ ~Live(c)
         /\ plan[p].flags.cmd = "prune" /\ ~plan[p].flags.parked => c \notin owned
<1>0. TypeOK /\ HostTypeOK /\ SweeperFound(p, c)
  BY DEF IInv, TypeOK
<1>1. ~Keeps(c) /\ ~(UNCHANGED <<stateDir, imgs, dirty, targets>>)
  BY DEF Keeps, Destroys
<1>2. ASSUME NEW d \in Cluster, ZapCluster(p, d)
      PROVE  c \in plan[p].zap /\ In(p, "delete")
  <2>1. c = d
    BY <1>0, <1>2, ChangesOne DEF ZapCluster, Destroys
  <2> QED BY <1>2, <2>1 DEF ZapCluster
<1>3. CASE TearDownBatch(p) \/ TearDownBatchFails(p)
  <2>1. Batch(p)[c] # {}
    BY <1>0, <1>3, BatchTypes, TearsDownItsOwn DEF TearDownBatch, TearDownBatchFails, Destroys
  <2>2. c \in Spared(p)
    BY <2>1 DEF Batch
  <2> QED BY <1>0, <1>3, <2>2 DEF TearDownBatch, TearDownBatchFails, SweeperFound
<1>4. CASE RemoveNext(p)
  <2> DEFINE d == First(plan[p].todo)
  <2>1. /\ d \in plan[p].todo /\ d \in Cluster /\ In(p, "rmdir") /\ UNCHANGED targets
        /\ RemoveStateDir(d) \/ UNCHANGED <<stateDir, owned, imgs, dirty>>
    BY <1>0, <1>4, RemoveNextPlan, PlanParts DEF RemoveNext, TypeOK
  <2> HIDE DEF d
  <2>2. c = d
    BY <1>0, <2>1, ChangesOne DEF Destroys
  <2> QED BY <1>0, <2>1, <2>2 DEF SweeperFound
<1>5. CASE \E d \in Cluster : ZapCluster(p, d)
  <2>1. c \in plan[p].zap /\ In(p, "delete")
    BY <1>2, <1>5
  <2> QED BY <1>0, <2>1 DEF SweeperFound
<1> QED
  BY <1>1, <1>3, <1>4, <1>5 DEF SweeperStep, hostVars, ScanAll, ScanPrune, LockNext,
     RecheckAll, RecheckPrune, RecheckFails, DeleteCluster, DeletesDone, RemovesDone,
     Release, SweeperCrash

(* A sweeper's record changes in its own steps and at a reboot. *)
LEMMA StepsOfSweepers ==
  ASSUME IInv, Next, NEW p \in Sweeper, StepOf(p)
  PROVE  SweeperStep(p) \/ Reboot
<1>1. p \notin Runner /\ (spc'[p] # spc[p] \/ plan'[p] # plan[p])
  BY ProcessAssumption DEF StepOf
<1>2. ~UNCHANGED sweepVars
  BY <1>1 DEF sweepVars
<1>3. ASSUME NEW q \in Sweeper, SweeperStep(q) PROVE q = p
  BY <1>1, <1>3, SweeperTypes DEF IInv
<1> QED BY <1>2, <1>3 DEF Next, Outside

LEMMA RebootDestroysNothing == ASSUME Reboot, NEW c \in Cluster PROVE ~Destroys(c)
BY DEF Reboot, Destroys

(* cmd/downall.go, cmd/prune.go: what the second look under the locks is for.
   However long the prompt stands and whoever brings a cluster up meanwhile, no
   sweep takes anything of one that is live under any engine. *)
THEOREM SweepsSpareTheLiveHolds == Spec => SweepsSpareTheLive
<1>1. IInv /\ [Next]_vars =>
        [\A p \in Sweeper, c \in Cluster : StepOf(p) /\ Destroys(c) => ~Live(c)]_vars
  BY StepsOfSweepers, RebootDestroysNothing, SweeperDestroys
<1> QED BY <1>1, Invariance, PTL DEF Spec, SweepsSpareTheLive

(* cmd/prune.go: without --include-parked, prune takes nothing of a cluster
   whose clone exists when it is taken. *)
THEOREM PruneKeepsParkedHolds == Spec => PruneKeepsParked
<1>1. IInv /\ [Next]_vars =>
        [\A p \in Sweeper, c \in Cluster :
           StepOf(p) /\ plan[p].flags.cmd = "prune" /\ ~plan[p].flags.parked
             /\ Destroys(c) => c \notin owned]_vars
  BY StepsOfSweepers, RebootDestroysNothing, SweeperDestroys
<1> QED BY <1>1, Invariance, PTL DEF Spec, PruneKeepsParked

(* What a command on one cluster wipes in place is its own cluster's, which it
   found gone under its own engine. *)
LEMMA RunnerZaps ==
  ASSUME IInv, NEW p \in Runner, RunnerStep(p), NEW c \in Cluster,
         ~(dirty[c] \subseteq dirty'[c]), imgs'[c] = imgs[c]
  PROVE  /\ StepOf(p) /\ lock[c] = p
         /\ job[p].cluster = c /\ ~Exists(c, job[p].eng) /\ job[p].eng \in Engine
<1>1. TypeOK /\ HostTypeOK /\ dirty[c] \subseteq imgs[c] /\ dirty[c] # {}
  BY DEF IInv, TypeOK, HostTypeOK
<1>2. WorksOn(p, c)
  BY <1>1, RunnerKeepsOthers DEF Keeps, WorksOn
<1>3. c = job[p].cluster /\ lock[c] = p /\ StepOf(p) /\ job[p].eng \in Engine
  BY <1>1, <1>2, RunnerMoves, JobParts DEF WorksOn, IInv, RunnersHold, StepOf, TypeOK
<1>4. CASE ZapDisks(p) \/ ZapFails(p)
  BY <1>3, <1>4 DEF ZapDisks, ZapFails, At, IInv, RunnerFound
<1>5. CASE BlockTeardown(p) \/ RemoveDir(p)
  BY <1>1, <1>3, <1>5 DEF BlockTeardown, RemoveDir, RemoveStateDir, HostTypeOK
<1>6. CASE Create(p)
  BY <1>1, <1>6 DEF Create, HostTypeOK
<1> QED
  BY <1>3, <1>4, <1>5, <1>6 DEF RunnerStep, hostVars, Lock, Unlock, RunnerCrash, StartUp,
     MakeImages, MakeTargets, MakeTargetsFails, NoDevice, NoCluster, Resume,
     RefuseResume, Rebuild, CreateFails, StartDown, StartDelete, Delete, DeleteFails,
     BlockTeardownFails

(* cmd/delete.go: of any number of engines.  A disk wiped in place under nodes is
   wiped by a command on its one cluster that asked another engine. *)
THEOREM ZapsOnlyUnderAnotherEngineHolds == Spec => ZapsOnlyUnderAnotherEngine
<1>1. IInv /\ [Next]_vars =>
        [\A c \in Cluster : ~(dirty[c] \subseteq dirty'[c]) /\ imgs'[c] = imgs[c] =>
           \/ ~Live(c)
           \/ \E p \in Runner :
                /\ StepOf(p) /\ lock[c] = p
                /\ job[p].cluster = c /\ ~Exists(c, job[p].eng)]_vars
  <2> SUFFICES ASSUME IInv, Next, NEW c \in Cluster,
                      ~(dirty[c] \subseteq dirty'[c]), imgs'[c] = imgs[c], Live(c)
               PROVE  \E p \in Runner :
                        /\ StepOf(p) /\ lock[c] = p
                        /\ job[p].cluster = c /\ ~Exists(c, job[p].eng)
    OBVIOUS
  <2>1. ASSUME NEW p \in Sweeper, SweeperStep(p) PROVE FALSE
    BY <2>1, SweeperDestroys DEF Destroys
  <2>2. ~Reboot /\ \A d \in Cluster : ~OwnerRemoved(d)
    BY DEF Reboot, OwnerRemoved
  <2>3. PICK p \in Runner : RunnerStep(p)
    BY <2>1, <2>2 DEF Next, Outside
  <2> QED BY <2>3, RunnerZaps
<1> QED BY <1>1, Invariance, PTL DEF Spec, ZapsOnlyUnderAnotherEngine

(* So with one engine on the host no disk is wiped in place under nodes, by any
   command or sweep; with a second one it may be, see the findings. *)
THEOREM ZapsOnlyTheGoneHolds ==
  ASSUME \A e1, e2 \in Engine : e1 = e2
  PROVE  Spec => ZapsOnlyTheGone
<1>1. IInv /\ [Next]_vars =>
        [\A c \in Cluster : ~(dirty[c] \subseteq dirty'[c]) /\ imgs'[c] = imgs[c]
           => ~Live(c)]_vars
  <2> SUFFICES ASSUME IInv, Next, NEW c \in Cluster,
                      ~(dirty[c] \subseteq dirty'[c]), imgs'[c] = imgs[c]
               PROVE  ~Live(c)
    OBVIOUS
  <2>1. ASSUME NEW p \in Sweeper, SweeperStep(p) PROVE ~Live(c)
    BY <2>1, SweeperDestroys DEF Destroys
  <2>2. ASSUME NEW p \in Runner, RunnerStep(p) PROVE ~Live(c)
    BY <2>2, RunnerZaps DEF Live, LiveUnder
  <2>3. ~Reboot /\ \A d \in Cluster : ~OwnerRemoved(d)
    BY DEF Reboot, OwnerRemoved
  <2> QED BY <2>1, <2>2, <2>3 DEF Next, Outside
<1> QED BY <1>1, Invariance, PTL DEF Spec, ZapsOnlyTheGone

(* internal/cluster/cluster.go: fresh nodes are put on no disk with the OSD of a
   cluster that is gone, but for those whose wipe was cut off, failed or was
   declined; of any number of engines, if no sweep is told to delete disks and
   to skip them. *)
THEOREM FreshNodesOnCleanDisksHolds ==
  ASSUME NoneKeepsDirty
  PROVE  Spec => FreshNodesOnCleanDisks
<1>1. IInv /\ [Next]_vars =>
        [\A p \in Runner : LET c == job[p].cluster IN
           rpc[p] = "make" /\ node' # node /\ ~Live(c) =>
             dirty[c] \cap job[p].want \subseteq unwiped[c]]_vars
  <2> SUFFICES ASSUME IInv, NEW p \in Runner, rpc[p] = "make", ~Live(job[p].cluster)
               PROVE  dirty[job[p].cluster] \subseteq unwiped[job[p].cluster]
    OBVIOUS
  <2> DEFINE c == job[p].cluster
  <2>1. c \in Cluster /\ lock[c] = p
    BY JobParts DEF IInv, TypeOK, RunnersHold, WorksOn, At
  <2>2. \A q \in Runner : ~RunnerWipes(q, c)
    BY <2>1 DEF RunnerWipes, IInv, RunnersHold, WorksOn, At
  <2>3. \A q \in Sweeper : ~SweeperWipes(q, c)
    BY <2>1, ProcessAssumption DEF SweeperWipes, IInv, SweepersHold, SweepsOver
  <2> QED BY <2>1, <2>2, <2>3 DEF IInv, WipedOrDue, CleanOrDue
<1> QED BY <1>1, Invariance, PTL DEF Spec, FreshNodesOnCleanDisks
=============================================================================
