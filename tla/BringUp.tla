------------------------------ MODULE BringUp ------------------------------
(***************************************************************************)
(* rooket up from its pre-flight checks to its end: block setup and the    *)
(* node-image pre-pull ahead of cluster create, all of them beside make    *)
(* where that is safe, the join, and the publishing of the build.  A run   *)
(* has its cluster's lock, so it is named by it; the clusters are brought  *)
(* up from one clone, whose build-cache lock their runs share.             *)
(***************************************************************************)
EXTENDS Naturals

CONSTANTS
  Cluster,   \* clusters that are brought up
  Branch,    \* the steps of cluster create that run side by side
  Flags,     \* Flags[c]: how c may be brought up, a subset of Flag
  Nobody,    \* no run has the lock of the build cache
  Faults,    \* what may go wrong, a subset of AllFaults
  MaxFaults  \* bound on how often something does

(* build: neither --skip-build nor a released Rook.  force: --force-build.
   block: there are disks to set up. *)
Flag == [build : BOOLEAN, force : BOOLEAN, block : BOOLEAN]

(* crash: a run is killed.  deny: sudo refuses a step that the grant it has does
   not cover.  expire: sudo asks for a password again.  lose: devices are
   detached.  task: a task fails. *)
AllFaults == {"crash", "deny", "expire", "lose", "task"}

Lane == {"block", "pull", "kind", "wire", "make", "push", "deploy"}

ASSUME BranchAssumption == "cache" \in Branch /\ Branch \cap Lane = {}
ASSUME FlagsAssumption ==
  /\ Flags \in [Cluster -> SUBSET Flag]
  /\ \A c \in Cluster : \A f \in Flags[c] : f.force => f.build
ASSUME NobodyAssumption == Nobody \notin Cluster
ASSUME FaultsAssumption == Faults \subseteq AllFaults /\ MaxFaults \in Nat

Task == Lane \cup Branch

VARIABLES
  attached,  \* the clusters whose devices are all there
  grant,     \* sudo needs no password
  lock,      \* the run with the flock of the build cache
  pc,        \* pc[c]: where c's run is, see PC
  flag,      \* flag[c]: what it was asked
  early,     \* the runs whose make is to start before the join
  safe,      \* the runs whose block setup may overlap make
  task,      \* task[c][t]: how far the run is with task t
  asking,    \* the runs at a pkexec prompt
  killed,    \* history: the clusters whose last run was killed
  misled,    \* history: the runs whose pre-flight check no longer holds
  faults     \* history: how often something went wrong

host == <<attached, grant>>
plan == <<flag, early, safe>>
history == <<killed, misled, faults>>
vars == <<host, lock, pc, plan, task, asking, history>>

(* ahead: block setup and the pre-pull run in front of cluster create, alone.
   gate: buildRun after the join.  over: the run has failed. *)
PC == {"idle", "probe", "lock", "ahead", "lanes", "gate", "relock",
       "remake", "push", "deploy", "complete", "over"}

Status == {"todo", "running", "done", "failed"}

Unbegun == [t \in Task |-> "todo"]

TypeOK ==
  /\ attached \in SUBSET Cluster
  /\ grant \in BOOLEAN
  /\ lock \in Cluster \cup {Nobody}
  /\ pc \in [Cluster -> PC]
  /\ flag \in [Cluster -> Flag]
  /\ early \in SUBSET Cluster
  /\ safe \in SUBSET Cluster
  /\ task \in [Cluster -> [Task -> Status]]
  /\ asking \in SUBSET Cluster
  /\ killed \in SUBSET Cluster
  /\ misled \in SUBSET Cluster
  /\ faults \in 0 .. MaxFaults

Plain == [build |-> FALSE, force |-> FALSE, block |-> FALSE]

Init ==
  /\ attached = {}
  /\ grant \in BOOLEAN
  /\ lock = Nobody
  /\ pc = [c \in Cluster |-> "idle"]
  /\ flag = [c \in Cluster |-> Plain]
  /\ early = {}
  /\ safe = {}
  /\ task = [c \in Cluster |-> Unbegun]
  /\ asking = {}
  /\ killed = {}
  /\ misled = {}
  /\ faults = 0

At(c, s) == pc[c] = s

Goto(c, s) == pc' = [pc EXCEPT ![c] = s]

Is(c, t, s) == task[c][t] = s

(* Of c the tasks ts are begun, and those of ended are done, or skipped. *)
Begin(c, ts, ended) ==
  task' = [task EXCEPT ![c] = [t \in Task |->
    IF t \in ts THEN "running" ELSE IF t \in ended THEN "done" ELSE @[t]]]

Fails(c, t) == task' = [task EXCEPT ![c] = [@ EXCEPT ![t] = "failed"]]

(* Block setup, unless it is skipped, and the pre-pull are begun, and ts too. *)
BeginInfra(c, f, ts) ==
  IF f.block THEN Begin(c, {"block", "pull"} \cup ts, {})
  ELSE Begin(c, {"pull"} \cup ts, {"block"})

Fault(f) == f \in Faults /\ faults < MaxFaults /\ faults' = faults + 1

(* Mutant of Release: a run that ends keeps the lock. *)
MutRelease(c) == lock' = lock

(* The release is deferred: every end of a run comes by it. *)
Release(c) == lock' = IF lock = c THEN Nobody ELSE lock

GiveUp(c) == Goto(c, "over") /\ Release(c)

-----------------------------------------------------------------------------
(* Up to the lanes. *)

(* Mutant of PromptFree: nobody asks. *)
MutPromptFree(c, f) == TRUE

(* blockSetupPromptFree, and block setup that is skipped. *)
PromptFree(c, f) == ~f.block \/ c \in attached \/ grant

(* The name, the source and the rest are settled, and whether block setup is
   free of prompts, before anything is stood up. *)
StartUp(c) ==
  /\ At(c, "idle")
  /\ \E f \in Flags[c] :
       /\ flag' = [flag EXCEPT ![c] = f]
       /\ safe' = IF PromptFree(c, f) THEN safe \cup {c} ELSE safe
       /\ IF f.build
          THEN Goto(c, "probe") /\ UNCHANGED task
          ELSE Goto(c, "ahead") /\ BeginInfra(c, f, {})
  /\ killed' = killed \ {c}
  /\ misled' = misled \ {c}
  /\ UNCHANGED <<host, lock, early, asking, faults>>

(* The hint: does make have to run?  No reads as little as the tree unchanged
   since the last push. *)
Probe(c) ==
  /\ At(c, "probe")
  /\ \/ /\ early' = early \cup {c}
        /\ Goto(c, "lock")
        /\ UNCHANGED task
     \/ /\ ~flag[c].force
        /\ Goto(c, "ahead") /\ BeginInfra(c, flag[c], {})
        /\ UNCHANGED early
  /\ UNCHANGED <<host, lock, flag, safe, asking, history>>

(* With the lock, the cache may turn out to have the build: then there is no
   early make, and the lock is for the gate to take again. *)
LockEarly(c) ==
  /\ At(c, "lock") /\ lock = Nobody
  /\ \/ /\ ~flag[c].force
        /\ early' = early \ {c}
        /\ Goto(c, "ahead") /\ BeginInfra(c, flag[c], {})
        /\ UNCHANGED lock
     \/ /\ lock' = c
        /\ IF c \in safe
           THEN Goto(c, "lanes") /\ BeginInfra(c, flag[c], {"make"})
           ELSE Goto(c, "ahead") /\ BeginInfra(c, flag[c], {})
        /\ UNCHANGED early
  /\ UNCHANGED <<host, flag, safe, asking, history>>

(* Mutant of LockTimesOut: the wait has no bound. *)
MutLockTimesOut(c) == FALSE

(* cloneLockWait is over. *)
LockTimesOut(c) ==
  /\ pc[c] \in {"lock", "relock"} /\ lock # Nobody
  /\ GiveUp(c)
  /\ UNCHANGED <<host, plan, task, asking, history>>

(* The infra ran in front; cluster create and make may overlap. *)
EndAhead(c) ==
  /\ At(c, "ahead") /\ ~Is(c, "block", "running") /\ ~Is(c, "pull", "running")
  /\ \/ Is(c, "block", "failed") /\ GiveUp(c) /\ UNCHANGED task
     \/ /\ Is(c, "block", "done")
        /\ Goto(c, "lanes")
        /\ Begin(c, IF c \in early THEN {"make"} ELSE {}, {})
        /\ UNCHANGED lock
  /\ UNCHANGED <<host, plan, asking, history>>

-----------------------------------------------------------------------------
(* The tasks. *)

(* Every device is there, or the privileged steps need no prompt. *)
SetUpBlock(c) ==
  /\ Is(c, "block", "running") /\ c \notin asking
  /\ c \in attached \/ grant
  /\ attached' = attached \cup {c}
  /\ Begin(c, {}, {"block"})
  /\ UNCHANGED <<grant, lock, pc, plan, asking, history>>

(* runPrivileged falls back to pkexec, also where sudo denied a step. *)
AskRoot(c) ==
  /\ Is(c, "block", "running") /\ c \notin asking \cup attached
  /\ \/ ~grant /\ UNCHANGED <<misled, faults>>
     \/ grant /\ Fault("deny") /\ misled' = misled \cup {c}
  /\ asking' = asking \cup {c}
  /\ UNCHANGED <<host, lock, pc, plan, task, killed>>

Answer(c) ==
  /\ c \in asking
  /\ asking' = asking \ {c}
  /\ attached' = attached \cup {c}
  /\ Begin(c, {}, {"block"})
  /\ UNCHANGED <<grant, lock, pc, plan, history>>

(* kind is given the devices and deploy pins the OSDs to them. *)
FindsDevices(c, t) ==
  t \in {"kind", "deploy"} /\ flag[c].block => c \in attached

(* cluster create runs its branches side by side once kind is through, and
   wires containerd once they are. *)
BeginCreate(c) ==
  /\ At(c, "lanes")
  /\ \/ Is(c, "kind", "todo") /\ Is(c, "block", "done") /\ Is(c, "pull", "done")
        /\ Begin(c, {"kind"}, {})
     \/ Is(c, "wire", "todo") /\ (\A b \in Branch : Is(c, b, "done"))
        /\ Begin(c, {"wire"}, {})
  /\ UNCHANGED <<host, lock, pc, plan, asking, history>>

(* The pre-pull is done whether it worked or not, and so is the cache. *)
TaskEnds(c, t) ==
  /\ t \in {"pull", "kind", "wire", "make"} \cup Branch
  /\ Is(c, t, "running") /\ FindsDevices(c, t)
  /\ Begin(c, IF t = "kind" THEN Branch ELSE {}, {t})
  /\ UNCHANGED <<host, lock, pc, plan, asking, history>>

(* A task of the lanes fails; what runs beside it goes on. *)
TaskFails(c, t) ==
  /\ t \in {"block", "kind", "wire", "make"} \cup (Branch \ {"cache"})
  /\ Is(c, t, "running")
  /\ Fails(c, t)
  /\ asking' = asking \ (IF t = "block" THEN {c} ELSE {})
  /\ \/ Fault("task")
     \/ ~FindsDevices(c, t) /\ UNCHANGED faults
  /\ UNCHANGED <<host, lock, pc, plan, killed, misled>>

-----------------------------------------------------------------------------
(* From the join on. *)

(* Mutant of CreateIsOver: the first error of a group ends it. *)
MutCreateIsOver(c) ==
  \/ task[c]["wire"] \in {"done", "failed"}
  \/ \E t \in {"block", "kind"} \cup Branch : Is(c, t, "failed")

(* Cluster create is through, or will not get further. *)
CreateIsOver(c) ==
  \/ task[c]["wire"] \in {"done", "failed"}
  \/ Is(c, "block", "failed") /\ ~Is(c, "pull", "running")
  \/ Is(c, "kind", "failed")
  \/ (\E b \in Branch : Is(c, b, "failed")) /\ (\A b \in Branch : ~Is(c, b, "running"))

Failed(c) == \E t \in Task : Is(c, t, "failed")

(* A make that started early goes straight to its push. *)
Join(c) ==
  /\ At(c, "lanes") /\ CreateIsOver(c) /\ ~Is(c, "make", "running")
  /\ \/ Failed(c) /\ GiveUp(c) /\ UNCHANGED task
     \/ /\ ~Failed(c)
        /\ IF c \in early
           THEN Goto(c, "push") /\ Begin(c, {"push"}, {})
           ELSE Goto(c, "gate") /\ UNCHANGED task
        /\ UNCHANGED lock
  /\ UNCHANGED <<host, plan, asking, history>>

(* There is nothing to build, or nothing is missing. *)
SkipBuild(c) ==
  /\ At(c, "gate")
  /\ Goto(c, "deploy")
  /\ Begin(c, {"deploy"}, {"make", "push"})
  /\ UNCHANGED <<host, lock, plan, asking, history>>

NeedBuild(c) ==
  /\ At(c, "gate") /\ flag[c].build
  /\ Goto(c, "relock")
  /\ UNCHANGED <<host, lock, plan, task, asking, history>>

(* The stamped or the cached images are pushed, or, as that cannot be, make
   runs. *)
Relock(c) ==
  /\ At(c, "relock") /\ lock = Nobody
  /\ lock' = c
  /\ \/ Goto(c, "push") /\ Begin(c, {"push"}, {"make"})
     \/ Goto(c, "remake") /\ Begin(c, {"make"}, {})
  /\ UNCHANGED <<host, plan, asking, history>>

AfterMake(c) ==
  /\ At(c, "remake")
  /\ \/ Is(c, "make", "done") /\ Goto(c, "push") /\ Begin(c, {"push"}, {})
        /\ UNCHANGED lock
     \/ Is(c, "make", "failed") /\ GiveUp(c) /\ UNCHANGED task
  /\ UNCHANGED <<host, plan, asking, history>>

PushEnds(c) ==
  /\ At(c, "push")
  /\ \/ /\ Goto(c, "deploy")
        /\ Begin(c, {"deploy"}, {"push"})
        /\ UNCHANGED faults
     \/ Fault("task") /\ Goto(c, "over") /\ Fails(c, "push")
  /\ Release(c)
  /\ UNCHANGED <<host, plan, asking, killed, misled>>

DeployEnds(c) ==
  /\ At(c, "deploy")
  /\ \/ /\ FindsDevices(c, "deploy")
        /\ Goto(c, "complete") /\ Begin(c, {}, {"deploy"})
        /\ UNCHANGED faults
     \/ /\ Goto(c, "over") /\ Fails(c, "deploy")
        /\ \/ Fault("task")
           \/ ~FindsDevices(c, "deploy") /\ UNCHANGED faults
  /\ UNCHANGED <<host, lock, plan, asking, killed, misled>>

-----------------------------------------------------------------------------

(* Nothing of a run is left but what it did to the host. *)
Gone(c) ==
  /\ Goto(c, "idle")
  /\ flag' = [flag EXCEPT ![c] = Plain]
  /\ early' = early \ {c}
  /\ safe' = safe \ {c}
  /\ task' = [task EXCEPT ![c] = Unbegun]
  /\ misled' = misled \ {c}

Finish(c) ==
  /\ pc[c] \in {"complete", "over"}
  /\ Gone(c)
  /\ UNCHANGED <<host, lock, asking, killed, faults>>

Crash(c) ==
  /\ pc[c] \notin {"idle", "complete", "over"} /\ Fault("crash")
  /\ Gone(c)
  /\ Release(c)
  /\ asking' = asking \ {c}
  /\ killed' = killed \cup {c}
  /\ UNCHANGED host

(* The kernel loses the devices, or somebody detaches them. *)
Lose(c) ==
  /\ c \in attached /\ Fault("lose")
  /\ attached' = attached \ {c}
  /\ misled' = misled \cup {c}
  /\ UNCHANGED <<grant, lock, pc, plan, task, asking, killed>>

(* A grant is cached or installed, and a cached one runs out. *)
Regrant ==
  /\ grant' = ~grant
  /\ \/ ~grant /\ UNCHANGED <<misled, faults>>
     \/ grant /\ Fault("expire") /\ misled' = Cluster
  /\ UNCHANGED <<attached, lock, pc, plan, task, asking, killed>>

(* What the run of c does of itself. *)
Run(c) ==
  \/ Probe(c) \/ LockEarly(c) \/ LockTimesOut(c) \/ EndAhead(c)
  \/ SetUpBlock(c) \/ AskRoot(c) \/ Answer(c)
  \/ BeginCreate(c) \/ (\E t \in Task : TaskEnds(c, t) \/ TaskFails(c, t))
  \/ Join(c) \/ SkipBuild(c) \/ NeedBuild(c) \/ Relock(c) \/ AfterMake(c)
  \/ PushEnds(c) \/ DeployEnds(c) \/ Finish(c)

Next ==
  \/ \E c \in Cluster : StartUp(c) \/ Run(c) \/ Crash(c) \/ Lose(c)
  \/ Regrant

Spec == Init /\ [][Next]_vars

(* A run that can go on does: a task ends, a prompt is answered, and the wait
   for the lock is bounded. *)
FairSpec == Spec /\ \A c \in Cluster : WF_vars(Run(c))

-----------------------------------------------------------------------------
(* Properties. *)

(* Whatever the lanes overlap, up keeps to the dependency graph of
   docs/design/concurrency.md: a task waits for those it needs, runs at most
   once - make, whichever of the two places may run it, included - is not cut
   off by the failure of another, and complete is said of the whole graph. *)
Complete == {c \in Cluster : At(c, "complete")}

Graph == INSTANCE UpGraph WITH status <- task, complete <- Complete

FollowsTheGraph == Graph!Spec

(* Invariant 4 of docs/design/concurrency.md: no run is at a pkexec prompt
   while its make streams to the terminal - as long as what the pre-flight
   check saw still holds. *)
PromptsAlone == \A c \in asking \ misled : ~Is(c, "make", "running")

(* No run of the clone makes or pushes without the lock of its build cache,
   kept from the make through the push and however the run ends let go. *)
BuildsUnderTheLock ==
  \A c \in Cluster :
    /\ Is(c, "make", "running") \/ Is(c, "push", "running") => lock = c
    /\ lock = c => pc[c] \in {"ahead", "lanes", "remake", "push"}

(* Every up comes to an end, whatever holds the lock it waits for. *)
EveryUpEnds == \A c \in Cluster : ~At(c, "idle") ~> At(c, "idle")

-----------------------------------------------------------------------------
(* What makes the safety properties inductive. *)

(* Who has the lock of the build cache follows from where the runs are. *)
LockFollows ==
  \A c \in Cluster :
    /\ lock = c <=> \/ pc[c] \in {"ahead", "lanes"} /\ c \in early
                    \/ pc[c] \in {"remake", "push"}
    /\ pc[c] \in {"idle", "probe"} => c \notin early
    /\ pc[c] = "lock" => c \in early

(* How far a run is with its tasks, by where it is. *)
TasksFollow ==
  \A c \in Cluster :
    /\ pc[c] \in {"idle", "probe", "lock"} => \A t \in Task : Is(c, t, "todo")
    /\ pc[c] = "ahead" => \A t \in Task \ {"block", "pull"} : Is(c, t, "todo")
    /\ pc[c] \in {"lanes", "gate", "relock", "remake"} =>
         Is(c, "push", "todo") /\ Is(c, "deploy", "todo")
    /\ pc[c] = "lanes" => (Is(c, "make", "todo") <=> c \notin early)
    /\ pc[c] \in {"gate", "relock"} => Is(c, "wire", "done") /\ Is(c, "make", "todo")
    /\ pc[c] = "remake" => Is(c, "wire", "done") /\ ~Is(c, "make", "todo")
    /\ pc[c] = "push" =>
         /\ Is(c, "wire", "done") /\ Is(c, "make", "done")
         /\ Is(c, "push", "running") /\ Is(c, "deploy", "todo")
    /\ pc[c] = "deploy" => Is(c, "push", "done") /\ Is(c, "deploy", "running")
    /\ pc[c] = "complete" => Is(c, "deploy", "done")
    /\ pc[c] = "over" => \A t \in Task : ~Is(c, t, "running")

(* What is begun has what it needs. *)
NeedsAreMet ==
  \A c \in Cluster : \A t \in Task :
    ~Is(c, t, "todo") => \A n \in Graph!Needs(t) : Is(c, n, "done")

(* Where block setup runs beside the lanes, a prompt is due to what changed
   since it was looked for. *)
AsksInFront ==
  \A c \in Cluster :
    /\ c \in asking => Is(c, "block", "running")
    /\ Is(c, "block", "running") => flag[c].block
    /\ At(c, "lanes") /\ Is(c, "block", "running") => c \in safe
    /\ At(c, "idle") => c \notin safe
    /\ c \in safe \ misled /\ flag[c].block => c \in attached \/ grant
    /\ c \in asking \ misled => c \notin safe

KilledIsOver == \A c \in killed : At(c, "idle")

IInv ==
  TypeOK /\ LockFollows /\ TasksFollow /\ NeedsAreMet /\ AsksInFront /\ KilledIsOver
=============================================================================
