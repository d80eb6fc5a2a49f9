-------------------------- MODULE BringUp_proofs --------------------------
(***************************************************************************)
(* Proofs about BringUp, for any clusters of a clone, branches, flags and  *)
(* faults.  IInv is inductive; that up asks alone, builds under the lock   *)
(* and keeps to its dependency graph follows from it; and from the graph,  *)
(* for whatever keeps to it, that it deploys last and completes whole.     *)
(***************************************************************************)
EXTENDS BringUp, TLAPS

(* The needs of UpGraph, task by task, for the statuses r of one run. *)
Met(r) ==
  /\ r["kind"] # "todo" => r["block"] = "done" /\ r["pull"] = "done"
  /\ \A b \in Branch : r[b] # "todo" => r["kind"] = "done"
  /\ r["wire"] # "todo" => \A b \in Branch : r[b] = "done"
  /\ r["push"] # "todo" => r["wire"] = "done" /\ r["make"] = "done"
  /\ r["deploy"] # "todo" =>
       r["block"] = "done" /\ r["wire"] = "done" /\ r["push"] = "done"

(* The two graphs have the same tasks. *)
LEMMA SameTasks == Graph!Task = Task
BY DEF Graph!Task, Task, Lane

(* Met says what UpGraph's Needs say. *)
LEMMA MetIsNeeds ==
  ASSUME NEW r
  PROVE  Met(r) <=> \A t \in Task : r[t] # "todo" => \A n \in Graph!Needs(t) : r[n] = "done"
<1> DEFINE NeedsMet(t) == r[t] # "todo" => \A n \in Graph!Needs(t) : r[n] = "done"
<1>1. /\ Graph!Needs("block") = {} /\ Graph!Needs("pull") = {} /\ Graph!Needs("make") = {}
      /\ Graph!Needs("kind") = {"block", "pull"}
  BY BranchAssumption DEF Graph!Needs, Lane
<1>2. /\ Graph!Needs("wire") = Branch
      /\ Graph!Needs("push") = {"wire", "make"}
      /\ Graph!Needs("deploy") = {"block", "wire", "push"}
  BY BranchAssumption DEF Graph!Needs, Lane
<1>3. \A b \in Branch : Graph!Needs(b) = {"kind"}
  BY BranchAssumption DEF Graph!Needs, Lane
<1>4. (\A t \in Task : NeedsMet(t)) <=>
        (\A t \in Lane : NeedsMet(t)) /\ (\A b \in Branch : NeedsMet(b))
  BY DEF Task
<1>5. (\A t \in Lane : NeedsMet(t)) <=>
        /\ NeedsMet("kind") /\ NeedsMet("wire") /\ NeedsMet("push") /\ NeedsMet("deploy")
        /\ NeedsMet("block") /\ NeedsMet("pull") /\ NeedsMet("make")
  BY DEF Lane
<1> QED BY <1>1, <1>2, <1>3, <1>4, <1>5 DEF Met

(* NeedsAreMet, and its next state, by Met. *)
LEMMA NeedsByRun ==
  /\ NeedsAreMet <=> \A c \in Cluster : Met(task[c])
  /\ NeedsAreMet' <=> \A c \in Cluster : Met(task'[c])
<1>1. NeedsAreMet <=> \A c \in Cluster : Met(task[c])
  BY MetIsNeeds DEF NeedsAreMet, Is
<1>2. NeedsAreMet' <=> \A c \in Cluster : Met(task'[c])
  BY MetIsNeeds DEF NeedsAreMet, Is
<1> QED BY <1>1, <1>2

(* What the ways to begin, end and drop tasks leave in task. *)
LEMMA BeginRows ==
  ASSUME TypeOK, NEW c \in Cluster, NEW ts, NEW ended, Begin(c, ts, ended)
  PROVE  /\ task' \in [Cluster -> [Task -> Status]]
         /\ \A d \in Cluster \ {c} : task'[d] = task[d]
         /\ \A t \in Task : task'[c][t] =
              IF t \in ts THEN "running" ELSE IF t \in ended THEN "done" ELSE task[c][t]
BY DEF Begin, TypeOK, Status

(* The same for a task that fails. *)
LEMMA FailsRows ==
  ASSUME TypeOK, NEW c \in Cluster, NEW t \in Task, Fails(c, t)
  PROVE  /\ task' \in [Cluster -> [Task -> Status]]
         /\ \A d \in Cluster \ {c} : task'[d] = task[d]
         /\ \A u \in Task : task'[c][u] = IF u = t THEN "failed" ELSE task[c][u]
BY DEF Fails, TypeOK, Status

(* The same for a run that is over, which leaves nothing. *)
LEMMA GoneRows ==
  ASSUME TypeOK, NEW c \in Cluster, Gone(c)
  PROVE  /\ task' \in [Cluster -> [Task -> Status]]
         /\ \A d \in Cluster \ {c} : task'[d] = task[d]
         /\ \A t \in Task : task'[c][t] = "todo"
         /\ pc' = [pc EXCEPT ![c] = "idle"]
         /\ flag' = [flag EXCEPT ![c] = Plain]
         /\ early' = early \ {c} /\ safe' = safe \ {c} /\ misled' = misled \ {c}
BY DEF Gone, Goto, Unbegun, TypeOK, Status

(* The same for block setup and the pre-pull. *)
LEMMA InfraRows ==
  ASSUME TypeOK, NEW c \in Cluster, NEW f, NEW ts \in SUBSET {"make"}, BeginInfra(c, f, ts)
  PROVE  /\ task' \in [Cluster -> [Task -> Status]]
         /\ \A d \in Cluster \ {c} : task'[d] = task[d]
         /\ \A t \in Task : task'[c][t] =
              IF t = "pull" \/ t \in ts \/ (t = "block" /\ f.block) THEN "running"
              ELSE IF t = "block" THEN "done" ELSE task[c][t]
<1>1. CASE f.block
  BY <1>1, BeginRows DEF BeginInfra
<1>2. CASE ~f.block
  BY <1>2, BeginRows DEF BeginInfra
<1> QED BY <1>1, <1>2

(* The tasks by name, and that no branch is one of the others. *)
LEMMA Names ==
  /\ {"block", "pull", "kind", "wire", "make", "push", "deploy"} \cup Branch = Task
  /\ \A b \in Branch :
       b \notin {"block", "pull", "kind", "wire", "make", "push", "deploy"}
  /\ "cache" \in Branch
BY BranchAssumption DEF Task, Lane

(* What is asked of up is a flag. *)
LEMMA FlagTypes == Plain \in Flag /\ \A c \in Cluster : \A f \in Flags[c] : f \in Flag
BY FlagsAssumption DEF Plain, Flag

(* What d's run is at is as it was. *)
Spared(d) ==
  /\ pc'[d] = pc[d] /\ task'[d] = task[d] /\ flag'[d] = flag[d]
  /\ d \in early' <=> d \in early
  /\ d \in safe' <=> d \in safe
  /\ d \in asking' <=> d \in asking
  /\ d \in misled' <=> d \in misled
  /\ d \in attached => d \in attached'

(* c goes from was to is, begins ts and is done with ended. *)
Moved(c, was, is, ts, ended) ==
  /\ pc[c] = was /\ pc'[c] = is
  /\ \A t \in Task : task'[c][t] =
       IF t \in ts THEN "running" ELSE IF t \in ended THEN "done" ELSE task[c][t]

(* AsksInFront, of the run of c. *)
AsksOf(c) ==
  /\ c \in asking => Is(c, "block", "running")
  /\ Is(c, "block", "running") => flag[c].block
  /\ At(c, "lanes") /\ Is(c, "block", "running") => c \in safe
  /\ At(c, "idle") => c \notin safe
  /\ c \in safe \ misled /\ flag[c].block => c \in attached \/ grant
  /\ c \in asking \ misled => c \notin safe

(* TasksFollow, of a run at p with the statuses r, with (e) or
   without an early make. *)
TasksOf(p, r, e) ==
  /\ p \in {"idle", "probe", "lock"} => \A t \in Task : r[t] = "todo"
  /\ p = "ahead" => \A t \in Task \ {"block", "pull"} : r[t] = "todo"
  /\ p \in {"lanes", "gate", "relock", "remake"} =>
       r["push"] = "todo" /\ r["deploy"] = "todo"
  /\ p = "lanes" => (r["make"] = "todo" <=> ~e)
  /\ p \in {"gate", "relock"} => r["wire"] = "done" /\ r["make"] = "todo"
  /\ p = "remake" => r["wire"] = "done" /\ r["make"] # "todo"
  /\ p = "push" =>
       /\ r["wire"] = "done" /\ r["make"] = "done"
       /\ r["push"] = "running" /\ r["deploy"] = "todo"
  /\ p = "deploy" => r["push"] = "done" /\ r["deploy"] = "running"
  /\ p = "complete" => r["deploy"] = "done"
  /\ p = "over" => \A t \in Task : r[t] # "running"

(* A run is where its tasks say, and its tasks where their needs allow. *)
Sound(p, r, e) == TasksOf(p, r, e) /\ Met(r)

(* What a run leaves has its type. *)
LEMMA GoneTypes ==
  ASSUME TypeOK, NEW c \in Cluster, Gone(c)
  PROVE  /\ task' \in [Cluster -> [Task -> Status]]
         /\ pc' \in [Cluster -> PC] /\ flag' \in [Cluster -> Flag]
         /\ early' \in SUBSET Cluster /\ safe' \in SUBSET Cluster
         /\ misled' \in SUBSET Cluster
<1>1. "idle" \in PC BY DEF PC
<1>2. pc' \in [Cluster -> PC] BY <1>1, GoneRows DEF TypeOK
<1>3. flag' \in [Cluster -> Flag] BY FlagTypes, GoneRows DEF TypeOK
<1> QED BY <1>2, <1>3, GoneRows DEF TypeOK

(* Every step keeps the types. *)
LEMMA TypeStep == IInv /\ [Next]_vars => TypeOK'
<1> SUFFICES ASSUME IInv, [Next]_vars PROVE TypeOK' OBVIOUS
<1> USE DEF TypeOK, PC, host, plan, history, Fault, Goto, GiveUp, Release, At, Is
<1>0. TypeOK BY DEF IInv
<1>1. CASE UNCHANGED vars
  BY <1>1, <1>0, Names, FlagTypes, FaultsAssumption DEF vars
<1>2. ASSUME NEW c \in Cluster, Run(c) PROVE TypeOK'
  <2>1. CASE Probe(c)
    BY <2>1, <1>0, InfraRows, Names, FlagTypes, FaultsAssumption DEF Probe
  <2>2. CASE LockEarly(c)
    BY <2>2, <1>0, InfraRows, Names, FlagTypes, FaultsAssumption DEF LockEarly
  <2>3. CASE LockTimesOut(c)
    BY <2>3, <1>0, Names, FlagTypes, FaultsAssumption DEF LockTimesOut
  <2>4. CASE EndAhead(c)
    BY <2>4, <1>0, BeginRows, Names, FlagTypes, FaultsAssumption DEF EndAhead
  <2>5. CASE SetUpBlock(c)
    BY <2>5, <1>0, BeginRows, Names, FlagTypes, FaultsAssumption DEF SetUpBlock
  <2>6. CASE AskRoot(c)
    BY <2>6, <1>0, Names, FlagTypes, FaultsAssumption DEF AskRoot
  <2>7. CASE Answer(c)
    BY <2>7, <1>0, BeginRows, Names, FlagTypes, FaultsAssumption DEF Answer
  <2>8. CASE BeginCreate(c)
    BY <2>8, <1>0, BeginRows, Names, FlagTypes, FaultsAssumption DEF BeginCreate
  <2>9. CASE Join(c)
    BY <2>9, <1>0, BeginRows, Names, FlagTypes, FaultsAssumption DEF Join
  <2>10. CASE SkipBuild(c)
    BY <2>10, <1>0, BeginRows, Names, FlagTypes, FaultsAssumption DEF SkipBuild
  <2>11. CASE NeedBuild(c)
    BY <2>11, <1>0, Names, FlagTypes, FaultsAssumption DEF NeedBuild
  <2>12. CASE Relock(c)
    BY <2>12, <1>0, BeginRows, Names, FlagTypes, FaultsAssumption DEF Relock
  <2>13. CASE AfterMake(c)
    BY <2>13, <1>0, BeginRows, Names, FlagTypes, FaultsAssumption DEF AfterMake
  <2>14. CASE PushEnds(c)
    BY <2>14, <1>0, BeginRows, FailsRows, Names, FlagTypes, FaultsAssumption DEF PushEnds
  <2>15. CASE DeployEnds(c)
    BY <2>15, <1>0, BeginRows, FailsRows, Names, FlagTypes, FaultsAssumption DEF DeployEnds
  <2>16. CASE Finish(c)
      BY <2>16, <1>0, GoneTypes, FaultsAssumption DEF Finish
  <2>17. ASSUME NEW t \in Task, TaskEnds(c, t) PROVE TypeOK'
    BY <2>17, <1>0, BeginRows, Names, FlagTypes, FaultsAssumption DEF TaskEnds
  <2>18. ASSUME NEW t \in Task, TaskFails(c, t) PROVE TypeOK'
    BY <2>18, <1>0, FailsRows, Names, FlagTypes, FaultsAssumption DEF TaskFails
  <2> QED BY <1>2, <2>1, <2>2, <2>3, <2>4, <2>5, <2>6, <2>7, <2>8, <2>9, <2>10, <2>11, <2>12,
      <2>13, <2>14, <2>15, <2>16, <2>17, <2>18 DEF Run
<1>3. ASSUME NEW c \in Cluster, StartUp(c) PROVE TypeOK'
  BY <1>3, <1>0, InfraRows, Names, FlagTypes, FaultsAssumption DEF StartUp
<1>4. ASSUME NEW c \in Cluster, Crash(c) PROVE TypeOK'
      BY <1>4, <1>0, GoneTypes, FaultsAssumption DEF Crash
<1>5. ASSUME NEW c \in Cluster, Lose(c) PROVE TypeOK'
  BY <1>5, <1>0, Names, FlagTypes, FaultsAssumption DEF Lose
<1>6. CASE Regrant
  BY <1>6, <1>0, Names, FlagTypes, FaultsAssumption DEF Regrant
<1> QED BY <1>1, <1>2, <1>3, <1>4, <1>5, <1>6 DEF Next

(* Who has the lock follows from where the runs are. *)
LEMMA LockStep == IInv /\ [Next]_vars => LockFollows'
<1> SUFFICES ASSUME IInv, [Next]_vars PROVE LockFollows' OBVIOUS
<1> USE DEF IInv, TypeOK, LockFollows, host, plan, history, Fault, Goto, GiveUp, Release, At, Is
<1>0. TypeOK BY DEF IInv
<1>1. CASE UNCHANGED vars
  BY <1>1, <1>0, NobodyAssumption DEF vars
<1>2. ASSUME NEW c \in Cluster, Run(c) PROVE LockFollows'
  <2>1. CASE Probe(c)
    BY <2>1, <1>0, InfraRows, NobodyAssumption DEF Probe
  <2>2. CASE LockEarly(c)
    BY <2>2, <1>0, InfraRows, NobodyAssumption DEF LockEarly
  <2>3. CASE LockTimesOut(c)
    BY <2>3, <1>0, NobodyAssumption DEF LockTimesOut
  <2>4. CASE EndAhead(c)
    BY <2>4, <1>0, BeginRows, NobodyAssumption DEF EndAhead
  <2>5. CASE SetUpBlock(c)
    BY <2>5, <1>0, BeginRows, NobodyAssumption DEF SetUpBlock
  <2>6. CASE AskRoot(c)
    BY <2>6, <1>0, NobodyAssumption DEF AskRoot
  <2>7. CASE Answer(c)
    BY <2>7, <1>0, BeginRows, NobodyAssumption DEF Answer
  <2>8. CASE BeginCreate(c)
    BY <2>8, <1>0, BeginRows, NobodyAssumption DEF BeginCreate
  <2>9. CASE Join(c)
    BY <2>9, <1>0, BeginRows, NobodyAssumption DEF Join
  <2>10. CASE SkipBuild(c)
    BY <2>10, <1>0, BeginRows, NobodyAssumption DEF SkipBuild
  <2>11. CASE NeedBuild(c)
    BY <2>11, <1>0, NobodyAssumption DEF NeedBuild
  <2>12. CASE Relock(c)
    BY <2>12, <1>0, BeginRows, NobodyAssumption DEF Relock
  <2>13. CASE AfterMake(c)
    BY <2>13, <1>0, BeginRows, NobodyAssumption DEF AfterMake
  <2>14. CASE PushEnds(c)
    BY <2>14, <1>0, BeginRows, FailsRows, NobodyAssumption DEF PushEnds
  <2>15. CASE DeployEnds(c)
    BY <2>15, <1>0, BeginRows, FailsRows, NobodyAssumption DEF DeployEnds
  <2>16. CASE Finish(c)
    BY <2>16, <1>0, GoneRows, NobodyAssumption DEF Finish
  <2>17. ASSUME NEW t \in Task, TaskEnds(c, t) PROVE LockFollows'
    BY <2>17, <1>0, BeginRows, NobodyAssumption DEF TaskEnds
  <2>18. ASSUME NEW t \in Task, TaskFails(c, t) PROVE LockFollows'
    BY <2>18, <1>0, FailsRows, NobodyAssumption DEF TaskFails
  <2> QED BY <1>2, <2>1, <2>2, <2>3, <2>4, <2>5, <2>6, <2>7, <2>8, <2>9, <2>10, <2>11, <2>12,
      <2>13, <2>14, <2>15, <2>16, <2>17, <2>18 DEF Run
<1>3. ASSUME NEW c \in Cluster, StartUp(c) PROVE LockFollows'
  BY <1>3, <1>0, InfraRows, NobodyAssumption DEF StartUp
<1>4. ASSUME NEW c \in Cluster, Crash(c) PROVE LockFollows'
  BY <1>4, <1>0, GoneRows, NobodyAssumption DEF Crash
<1>5. ASSUME NEW c \in Cluster, Lose(c) PROVE LockFollows'
  BY <1>5, <1>0, NobodyAssumption DEF Lose
<1>6. CASE Regrant
  BY <1>6, <1>0, NobodyAssumption DEF Regrant
<1> QED BY <1>1, <1>2, <1>3, <1>4, <1>5, <1>6 DEF Next

(* The run of a killed cluster is no more. *)
LEMMA KilledStep == IInv /\ [Next]_vars => KilledIsOver'
<1> SUFFICES ASSUME IInv, [Next]_vars PROVE KilledIsOver' OBVIOUS
<1> USE DEF IInv, TypeOK, KilledIsOver, host, plan, history, Fault, Goto, GiveUp, Release, At, Is
<1>0. TypeOK BY DEF IInv
<1>1. CASE UNCHANGED vars
  BY <1>1, <1>0 DEF vars
<1>2. ASSUME NEW c \in Cluster, Run(c) PROVE KilledIsOver'
  <2>1. CASE Probe(c)
    BY <2>1, <1>0, InfraRows DEF Probe
  <2>2. CASE LockEarly(c)
    BY <2>2, <1>0, InfraRows DEF LockEarly
  <2>3. CASE LockTimesOut(c)
    BY <2>3, <1>0 DEF LockTimesOut
  <2>4. CASE EndAhead(c)
    BY <2>4, <1>0, BeginRows DEF EndAhead
  <2>5. CASE SetUpBlock(c)
    BY <2>5, <1>0, BeginRows DEF SetUpBlock
  <2>6. CASE AskRoot(c)
    BY <2>6, <1>0 DEF AskRoot
  <2>7. CASE Answer(c)
    BY <2>7, <1>0, BeginRows DEF Answer
  <2>8. CASE BeginCreate(c)
    BY <2>8, <1>0, BeginRows DEF BeginCreate
  <2>9. CASE Join(c)
    BY <2>9, <1>0, BeginRows DEF Join
  <2>10. CASE SkipBuild(c)
    BY <2>10, <1>0, BeginRows DEF SkipBuild
  <2>11. CASE NeedBuild(c)
    BY <2>11, <1>0 DEF NeedBuild
  <2>12. CASE Relock(c)
    BY <2>12, <1>0, BeginRows DEF Relock
  <2>13. CASE AfterMake(c)
    BY <2>13, <1>0, BeginRows DEF AfterMake
  <2>14. CASE PushEnds(c)
    BY <2>14, <1>0, BeginRows, FailsRows DEF PushEnds
  <2>15. CASE DeployEnds(c)
    BY <2>15, <1>0, BeginRows, FailsRows DEF DeployEnds
  <2>16. CASE Finish(c)
    BY <2>16, <1>0, GoneRows DEF Finish
  <2>17. ASSUME NEW t \in Task, TaskEnds(c, t) PROVE KilledIsOver'
    BY <2>17, <1>0, BeginRows DEF TaskEnds
  <2>18. ASSUME NEW t \in Task, TaskFails(c, t) PROVE KilledIsOver'
    BY <2>18, <1>0, FailsRows DEF TaskFails
  <2> QED BY <1>2, <2>1, <2>2, <2>3, <2>4, <2>5, <2>6, <2>7, <2>8, <2>9, <2>10, <2>11, <2>12,
      <2>13, <2>14, <2>15, <2>16, <2>17, <2>18 DEF Run
<1>3. ASSUME NEW c \in Cluster, StartUp(c) PROVE KilledIsOver'
  BY <1>3, <1>0, InfraRows DEF StartUp
<1>4. ASSUME NEW c \in Cluster, Crash(c) PROVE KilledIsOver'
  BY <1>4, <1>0, GoneRows DEF Crash
<1>5. ASSUME NEW c \in Cluster, Lose(c) PROVE KilledIsOver'
  BY <1>5, <1>0 DEF Lose
<1>6. CASE Regrant
  BY <1>6, <1>0 DEF Regrant
<1> QED BY <1>1, <1>2, <1>3, <1>4, <1>5, <1>6 DEF Next

(* A run leaves the others be. *)
LEMMA Others ==
  ASSUME NEW c \in Cluster, IInv, StartUp(c) \/ Crash(c) \/ Run(c)
  PROVE  \A d \in Cluster \ {c} : Spared(d)
<1> USE DEF TypeOK, Spared, host, plan, history, Fault, Goto, GiveUp, Release, At, Is
<1>0. TypeOK /\ pc \in [Cluster -> PC] /\ flag \in [Cluster -> Flag] BY DEF IInv, TypeOK
<1>1. CASE StartUp(c)
  BY <1>1, <1>0, InfraRows DEF StartUp
<1>2. CASE Crash(c)
  BY <1>2, <1>0, GoneRows DEF Crash
<1>3. CASE Probe(c)
  BY <1>3, <1>0, InfraRows DEF Probe
<1>4. CASE LockEarly(c)
  BY <1>4, <1>0, InfraRows DEF LockEarly
<1>5. CASE LockTimesOut(c)
  BY <1>5, <1>0 DEF LockTimesOut
<1>6. CASE EndAhead(c)
  BY <1>6, <1>0, BeginRows DEF EndAhead
<1>7. CASE SetUpBlock(c)
  BY <1>7, <1>0, BeginRows DEF SetUpBlock
<1>8. CASE AskRoot(c)
  BY <1>8, <1>0 DEF AskRoot
<1>9. CASE Answer(c)
  BY <1>9, <1>0, BeginRows DEF Answer
<1>10. CASE BeginCreate(c)
  BY <1>10, <1>0, BeginRows DEF BeginCreate
<1>11. CASE Join(c)
  BY <1>11, <1>0, BeginRows DEF Join
<1>12. CASE SkipBuild(c)
  BY <1>12, <1>0, BeginRows DEF SkipBuild
<1>13. CASE NeedBuild(c)
  BY <1>13, <1>0 DEF NeedBuild
<1>14. CASE Relock(c)
  BY <1>14, <1>0, BeginRows DEF Relock
<1>15. CASE AfterMake(c)
  BY <1>15, <1>0, BeginRows DEF AfterMake
<1>16. CASE PushEnds(c)
  <2>1. CASE \E ts, ended : Begin(c, ts, ended)
    BY <1>16, <1>0, <2>1, BeginRows DEF PushEnds
  <2>2. CASE \E t \in Task : Fails(c, t)
    BY <1>16, <1>0, <2>2, FailsRows DEF PushEnds
  <2> QED BY <1>16, <2>1, <2>2, Names DEF PushEnds
<1>17. CASE DeployEnds(c)
  <2>1. CASE \E ts, ended : Begin(c, ts, ended)
    BY <1>17, <1>0, <2>1, BeginRows DEF DeployEnds
  <2>2. CASE \E t \in Task : Fails(c, t)
    BY <1>17, <1>0, <2>2, FailsRows DEF DeployEnds
  <2> QED BY <1>17, <2>1, <2>2, Names DEF DeployEnds
<1>18. CASE Finish(c)
  BY <1>18, <1>0, GoneRows DEF Finish
<1>19. ASSUME NEW t \in Task, TaskEnds(c, t) PROVE \A d \in Cluster \ {c} : Spared(d)
  BY <1>19, <1>0, BeginRows DEF TaskEnds
<1>20. ASSUME NEW t \in Task, TaskFails(c, t) PROVE \A d \in Cluster \ {c} : Spared(d)
  BY <1>20, <1>0, FailsRows DEF TaskFails
<1> QED BY <1>1, <1>2, <1>3, <1>4, <1>5, <1>6, <1>7, <1>8, <1>9, <1>10, <1>11, <1>12, <1>13,
      <1>14, <1>15, <1>16, <1>17, <1>18, <1>19, <1>20 DEF Run

(* A prompt is in front of the lanes, or due to a change. *)
LEMMA AsksOwn ==
  ASSUME NEW c \in Cluster, IInv, AsksOf(c), Sound(pc[c], task[c], c \in early),
         StartUp(c) \/ Crash(c) \/ Run(c)
  PROVE  AsksOf(c)'
<1> USE DEF AsksOf, PromptFree, host, plan, history, Fault, Goto, GiveUp, Release, At, Is
<1>0. TypeOK /\ pc \in [Cluster -> PC] /\ flag \in [Cluster -> Flag] BY DEF IInv, TypeOK
<1>1. CASE StartUp(c)
  <2>1. (pc'[c] = "probe" /\ task' = task) \/ pc'[c] = "ahead"
    BY <1>1, <1>0 DEF StartUp
  <2>2. task[c]["block"] # "running"
    BY <1>1, Names DEF StartUp, Sound, TasksOf
  <2>3. task'[c]["block"] = "running" => flag'[c].block
    BY <1>1, <1>0, <2>2, InfraRows, Names DEF StartUp
  <2>4. c \notin asking'
    BY <1>1, <2>2 DEF StartUp
  <2>5. c \in safe' /\ flag'[c].block => c \in attached' \/ grant'
    BY <1>1, <1>0 DEF StartUp
  <2> QED BY <2>1, <2>3, <2>4, <2>5
<1>2. CASE Crash(c)
  BY <1>2, <1>0, GoneRows, Names DEF Crash
<1>3. CASE Probe(c)
  BY <1>3, <1>0, InfraRows, Names DEF Probe
<1>4. CASE LockEarly(c)
  BY <1>4, <1>0, InfraRows, Names DEF LockEarly
<1>5. CASE LockTimesOut(c)
  BY <1>5, <1>0, Names DEF LockTimesOut
<1>6. CASE EndAhead(c)
  BY <1>6, <1>0, BeginRows, Names DEF EndAhead
<1>7. CASE SetUpBlock(c)
  BY <1>7, <1>0, BeginRows, Names DEF SetUpBlock
<1>8. CASE AskRoot(c)
  BY <1>8, <1>0, Names DEF AskRoot
<1>9. CASE Answer(c)
  BY <1>9, <1>0, BeginRows, Names DEF Answer
<1>10. CASE BeginCreate(c)
  BY <1>10, <1>0, BeginRows, Names DEF BeginCreate
<1>11. CASE Join(c)
  BY <1>11, <1>0, BeginRows, Names DEF Join
<1>12. CASE SkipBuild(c)
  BY <1>12, <1>0, BeginRows, Names DEF SkipBuild
<1>13. CASE NeedBuild(c)
  BY <1>13, <1>0, Names DEF NeedBuild
<1>14. CASE Relock(c)
  BY <1>14, <1>0, BeginRows, Names DEF Relock
<1>15. CASE AfterMake(c)
  <2>1. task'[c]["block"] = task[c]["block"] BY <1>15, <1>0, BeginRows, Names DEF AfterMake
  <2> QED BY <1>15, <1>0, <2>1 DEF AfterMake
<1>16. CASE PushEnds(c)
  BY <1>16, <1>0, BeginRows, FailsRows, Names DEF PushEnds
<1>17. CASE DeployEnds(c)
  BY <1>17, <1>0, BeginRows, FailsRows, Names DEF DeployEnds
<1>18. CASE Finish(c)
  <2>1. task[c]["block"] # "running"
    <3>1. CASE pc[c] = "over" BY <3>1, Names DEF Sound, TasksOf
    <3>2. CASE pc[c] = "complete"
      <4>1. task[c]["deploy"] = "done" BY <3>2 DEF Sound, TasksOf
      <4> QED BY <4>1 DEF Sound, Met
    <3> QED BY <1>18, <3>1, <3>2 DEF Finish
  <2>2. c \notin asking' /\ c \notin safe' BY <1>18, <2>1, GoneRows, <1>0 DEF Finish
  <2>3. task'[c]["block"] = "todo" BY <1>18, GoneRows, Names, <1>0 DEF Finish
  <2> QED BY <2>2, <2>3
<1>19. ASSUME NEW t \in Task, TaskEnds(c, t) PROVE AsksOf(c)'
  BY <1>19, <1>0, BeginRows, Names DEF TaskEnds
<1>20. ASSUME NEW t \in Task, TaskFails(c, t) PROVE AsksOf(c)'
  BY <1>20, <1>0, FailsRows, Names DEF TaskFails
<1> QED BY <1>1, <1>2, <1>3, <1>4, <1>5, <1>6, <1>7, <1>8, <1>9, <1>10, <1>11, <1>12, <1>13,
      <1>14, <1>15, <1>16, <1>17, <1>18, <1>19, <1>20 DEF Run

(* How far a run that is at its wire, or past it, is with cluster create. *)
LEMMA WireMeans ==
  ASSUME NEW r, Met(r), r["wire"] # "todo"
  PROVE  /\ r["block"] = "done" /\ r["pull"] = "done" /\ r["kind"] = "done"
         /\ \A b \in Branch : r[b] = "done"
<1>1. \A b \in Branch : r[b] = "done"
  BY DEF Met
<1>2. r["kind"] = "done"
  BY <1>1, BranchAssumption DEF Met
<1> QED BY <1>1, <1>2 DEF Met

(* How far the tasks are follows from where the run is, and what is begun has
   what it needs. *)
LEMMA TasksOwn ==
  ASSUME NEW c \in Cluster, IInv, Sound(pc[c], task[c], c \in early),
         StartUp(c) \/ Crash(c) \/ Run(c)
  PROVE  Sound(pc'[c], task'[c], (c \in early)')
<1> USE DEF host, plan, history, Fault, Goto, GiveUp, Release, At, Is
<1>0. TypeOK /\ pc \in [Cluster -> PC] /\ (\A d \in Cluster : AsksOf(d))
  BY DEF IInv, TypeOK, AsksInFront, AsksOf
<1>1. CASE StartUp(c)
  <2>1. \/ Moved(c, "idle", "probe", {}, {})
        \/ Moved(c, "idle", "ahead", {"block", "pull"}, {})
        \/ Moved(c, "idle", "ahead", {"pull"}, {"block"})
    BY <1>1, <1>0, BeginRows, Names DEF StartUp, Moved, BeginInfra
  <2>2. ASSUME Moved(c, "idle", "probe", {}, {}) PROVE Sound(pc'[c], task'[c], (c \in early)')
    <3>1. Met(task'[c])
      BY <2>2, WireMeans, Names DEF Moved, Sound, TasksOf, Met
    <3> QED BY <2>2, <3>1, WireMeans, Names DEF Moved, Sound, TasksOf
  <2>3. ASSUME Moved(c, "idle", "ahead", {"block", "pull"}, {})
        PROVE  Sound(pc'[c], task'[c], (c \in early)')
    <3>1. Met(task'[c])
      BY <2>3, WireMeans, Names DEF Moved, Sound, TasksOf, Met
    <3> QED BY <2>3, <3>1, WireMeans, Names DEF Moved, Sound, TasksOf
  <2>4. ASSUME Moved(c, "idle", "ahead", {"pull"}, {"block"})
        PROVE  Sound(pc'[c], task'[c], (c \in early)')
    <3>1. Met(task'[c])
      BY <2>4, WireMeans, Names DEF Moved, Sound, TasksOf, Met
    <3> QED BY <2>4, <3>1, WireMeans, Names DEF Moved, Sound, TasksOf
  <2> QED BY <2>1, <2>2, <2>3, <2>4
<1>2. CASE Crash(c)
  <2>1. pc'[c] = "idle" /\ \A t \in Task : task'[c][t] = "todo"
    BY <1>2, <1>0, GoneRows DEF Crash
  <2> QED BY <2>1, Names DEF Sound, TasksOf, Met
<1>3. CASE Probe(c)
  <2>1. \/ Moved(c, "probe", "lock", {}, {})
        \/ Moved(c, "probe", "ahead", {"block", "pull"}, {})
        \/ Moved(c, "probe", "ahead", {"pull"}, {"block"})
    BY <1>3, <1>0, BeginRows, Names DEF Probe, Moved, BeginInfra
  <2>2. ASSUME Moved(c, "probe", "lock", {}, {}) PROVE Sound(pc'[c], task'[c], (c \in early)')
    <3>1. Met(task'[c])
      BY <2>2, WireMeans, Names DEF Moved, Sound, TasksOf, Met
    <3> QED BY <2>2, <3>1, WireMeans, Names DEF Moved, Sound, TasksOf
  <2>3. ASSUME Moved(c, "probe", "ahead", {"block", "pull"}, {})
        PROVE  Sound(pc'[c], task'[c], (c \in early)')
    <3>1. Met(task'[c])
      BY <2>3, WireMeans, Names DEF Moved, Sound, TasksOf, Met
    <3> QED BY <2>3, <3>1, WireMeans, Names DEF Moved, Sound, TasksOf
  <2>4. ASSUME Moved(c, "probe", "ahead", {"pull"}, {"block"})
        PROVE  Sound(pc'[c], task'[c], (c \in early)')
    <3>1. Met(task'[c])
      BY <2>4, WireMeans, Names DEF Moved, Sound, TasksOf, Met
    <3> QED BY <2>4, <3>1, WireMeans, Names DEF Moved, Sound, TasksOf
  <2> QED BY <2>1, <2>2, <2>3, <2>4
<1>4. CASE LockEarly(c)
  <2>1. \/ Moved(c, "lock", "ahead", {"block", "pull"}, {})
        \/ Moved(c, "lock", "ahead", {"pull"}, {"block"})
        \/ c \in early' /\ Moved(c, "lock", "lanes", {"block", "pull", "make"}, {})
        \/ c \in early' /\ Moved(c, "lock", "lanes", {"pull", "make"}, {"block"})
    BY <1>4, <1>0, BeginRows, Names DEF LockEarly, Moved, BeginInfra, IInv, LockFollows
  <2>2. ASSUME Moved(c, "lock", "ahead", {"block", "pull"}, {})
        PROVE  Sound(pc'[c], task'[c], (c \in early)')
    <3>1. Met(task'[c])
      BY <2>2, WireMeans, Names DEF Moved, Sound, TasksOf, Met
    <3> QED BY <2>2, <3>1, WireMeans, Names DEF Moved, Sound, TasksOf
  <2>3. ASSUME Moved(c, "lock", "ahead", {"pull"}, {"block"})
        PROVE  Sound(pc'[c], task'[c], (c \in early)')
    <3>1. Met(task'[c])
      BY <2>3, WireMeans, Names DEF Moved, Sound, TasksOf, Met
    <3> QED BY <2>3, <3>1, WireMeans, Names DEF Moved, Sound, TasksOf
  <2>4. ASSUME c \in early' /\ Moved(c, "lock", "lanes", {"block", "pull", "make"}, {})
        PROVE  Sound(pc'[c], task'[c], (c \in early)')
    <3>1. Met(task'[c])
      BY <2>4, WireMeans, Names DEF Moved, Sound, TasksOf, Met
    <3> QED BY <2>4, <3>1, WireMeans, Names DEF Moved, Sound, TasksOf
  <2>5. ASSUME c \in early' /\ Moved(c, "lock", "lanes", {"pull", "make"}, {"block"})
        PROVE  Sound(pc'[c], task'[c], (c \in early)')
    <3>1. Met(task'[c])
      BY <2>5, WireMeans, Names DEF Moved, Sound, TasksOf, Met
    <3> QED BY <2>5, <3>1, WireMeans, Names DEF Moved, Sound, TasksOf
  <2> QED BY <2>1, <2>2, <2>3, <2>4, <2>5
<1>5. CASE LockTimesOut(c)
  <2>1. \/ Moved(c, "lock", "over", {}, {})
        \/ Moved(c, "relock", "over", {}, {})
    BY <1>5, <1>0, Names DEF LockTimesOut, Moved
  <2>2. ASSUME Moved(c, "lock", "over", {}, {}) PROVE Sound(pc'[c], task'[c], (c \in early)')
    <3>1. Met(task'[c])
      BY <2>2, WireMeans, Names DEF Moved, Sound, TasksOf, Met
    <3> QED BY <2>2, <3>1, WireMeans, Names DEF Moved, Sound, TasksOf
  <2>3. ASSUME Moved(c, "relock", "over", {}, {}) PROVE Sound(pc'[c], task'[c], (c \in early)')
    <3>1. Met(task'[c])
      BY <2>3, WireMeans, Names DEF Moved, Sound, TasksOf, Met
    <3> QED BY <2>3, <3>1, WireMeans, Names DEF Moved, Sound, TasksOf
  <2> QED BY <2>1, <2>2, <2>3
<1>6. CASE EndAhead(c)
  <2>1. \/ /\ Moved(c, "ahead", "over", {}, {})
          /\ task[c]["block"] # "running" /\ task[c]["pull"] # "running"
        \/ c \in early' /\ Moved(c, "ahead", "lanes", {"make"}, {})
        \/ c \notin early' /\ Moved(c, "ahead", "lanes", {}, {})
    BY <1>6, <1>0, BeginRows, Names DEF EndAhead, Moved
  <2>2. CASE /\ Moved(c, "ahead", "over", {}, {})
          /\ task[c]["block"] # "running" /\ task[c]["pull"] # "running"
    <3>1. Met(task'[c])
      BY <2>2, WireMeans, Names DEF Moved, Sound, TasksOf, Met
    <3> QED BY <2>2, <3>1, WireMeans, Names DEF Moved, Sound, TasksOf
  <2>3. ASSUME c \in early' /\ Moved(c, "ahead", "lanes", {"make"}, {})
        PROVE  Sound(pc'[c], task'[c], (c \in early)')
    <3>1. Met(task'[c])
      BY <2>3, WireMeans, Names DEF Moved, Sound, TasksOf, Met
    <3> QED BY <2>3, <3>1, WireMeans, Names DEF Moved, Sound, TasksOf
  <2>4. ASSUME c \notin early' /\ Moved(c, "ahead", "lanes", {}, {})
        PROVE  Sound(pc'[c], task'[c], (c \in early)')
    <3>1. Met(task'[c])
      BY <2>4, WireMeans, Names DEF Moved, Sound, TasksOf, Met
    <3> QED BY <2>4, <3>1, WireMeans, Names DEF Moved, Sound, TasksOf
  <2> QED BY <2>1, <2>2, <2>3, <2>4
<1>7. CASE SetUpBlock(c)
  <2>1. task[c]["block"] = "running" /\ Moved(c, pc[c], pc[c], {}, {"block"}) /\ UNCHANGED early
    BY <1>7, <1>0, BeginRows, Names DEF SetUpBlock, Moved
  <2>2. Met(task'[c])
    BY <2>1, WireMeans, Names DEF Moved, Sound, TasksOf, Met
  <2> QED BY <2>1, <2>2, WireMeans, Names DEF Moved, Sound, TasksOf
<1>8. CASE AskRoot(c)
  <2>1. Moved(c, pc[c], pc[c], {}, {}) /\ UNCHANGED early
    BY <1>8, <1>0, Names DEF AskRoot, Moved
  <2>2. Met(task'[c])
    BY <2>1, WireMeans, Names DEF Moved, Sound, TasksOf, Met
  <2> QED BY <2>1, <2>2, WireMeans, Names DEF Moved, Sound, TasksOf
<1>9. CASE Answer(c)
  <2>1. task[c]["block"] = "running" /\ Moved(c, pc[c], pc[c], {}, {"block"}) /\ UNCHANGED early
    BY <1>9, <1>0, BeginRows, Names DEF Answer, Moved, AsksOf
  <2>2. Met(task'[c])
    BY <2>1, WireMeans, Names DEF Moved, Sound, TasksOf, Met
  <2> QED BY <2>1, <2>2, WireMeans, Names DEF Moved, Sound, TasksOf
<1>10. CASE BeginCreate(c)
  <2>1. \/ /\ Moved(c, "lanes", "lanes", {"kind"}, {}) /\ UNCHANGED early
          /\ task[c]["kind"] = "todo" /\ task[c]["block"] = "done" /\ task[c]["pull"] = "done"
        \/ /\ Moved(c, "lanes", "lanes", {"wire"}, {}) /\ UNCHANGED early
          /\ task[c]["wire"] = "todo" /\ \A b \in Branch : task[c][b] = "done"
    BY <1>10, <1>0, BeginRows, Names DEF BeginCreate, Moved
  <2>2. CASE /\ Moved(c, "lanes", "lanes", {"kind"}, {}) /\ UNCHANGED early
          /\ task[c]["kind"] = "todo" /\ task[c]["block"] = "done" /\ task[c]["pull"] = "done"
    <3>1. Met(task'[c])
      BY <2>2, WireMeans, Names DEF Moved, Sound, TasksOf, Met
    <3> QED BY <2>2, <3>1, WireMeans, Names DEF Moved, Sound, TasksOf
  <2>3. CASE /\ Moved(c, "lanes", "lanes", {"wire"}, {}) /\ UNCHANGED early
          /\ task[c]["wire"] = "todo" /\ \A b \in Branch : task[c][b] = "done"
    <3>1. Met(task'[c])
      BY <2>3, WireMeans, Names DEF Moved, Sound, TasksOf, Met
    <3> QED BY <2>3, <3>1, WireMeans, Names DEF Moved, Sound, TasksOf
  <2> QED BY <2>1, <2>2, <2>3
<1>11. CASE Join(c)
  <2>1. pc[c] = "lanes" /\ CreateIsOver(c) /\ task[c]["make"] # "running" BY <1>11 DEF Join
  <2>2. \A t \in Task : task[c][t] # "running"
    <3>1. CASE task[c]["wire"] \in {"done", "failed"}
      BY <2>1, <3>1, WireMeans, Names DEF Sound, TasksOf
    <3>2. CASE task[c]["block"] = "failed" /\ task[c]["pull"] # "running"
      <4>1. task[c]["kind"] = "todo" BY <3>2 DEF Sound, Met
      <4>2. \A b \in Branch : task[c][b] = "todo" BY <4>1 DEF Sound, Met
      <4>3. task[c]["wire"] = "todo" BY <4>2, Names DEF Sound, Met
      <4> QED BY <2>1, <3>2, <4>1, <4>2, <4>3, Names DEF Sound, TasksOf
    <3>3. CASE task[c]["kind"] = "failed"
      <4>1. \A b \in Branch : task[c][b] = "todo" BY <3>3 DEF Sound, Met
      <4>2. task[c]["wire"] = "todo" BY <4>1, Names DEF Sound, Met
      <4>3. task[c]["block"] = "done" /\ task[c]["pull"] = "done" BY <3>3 DEF Sound, Met
      <4> QED BY <2>1, <3>3, <4>1, <4>2, <4>3, Names DEF Sound, TasksOf
    <3>4. ASSUME NEW b \in Branch, task[c][b] = "failed",
                 \A a \in Branch : task[c][a] # "running"
          PROVE  \A t \in Task : task[c][t] # "running"
      <4>1. task[c]["wire"] = "todo" BY <3>4 DEF Sound, Met
      <4>2. task[c]["kind"] = "done" BY <3>4 DEF Sound, Met
      <4>3. task[c]["block"] = "done" /\ task[c]["pull"] = "done" BY <4>2 DEF Sound, Met
      <4> QED BY <2>1, <3>4, <4>1, <4>2, <4>3, Names DEF Sound, TasksOf
    <3> QED BY <2>1, <3>1, <3>2, <3>3, <3>4 DEF CreateIsOver
  <2>3. ~Failed(c) => task[c]["wire"] = "done"
    BY <2>1, Names DEF CreateIsOver, Failed
  <2>4. \/ Moved(c, "lanes", "over", {}, {})
        \/ ~Failed(c) /\ c \in early /\ Moved(c, "lanes", "push", {"push"}, {})
        \/ ~Failed(c) /\ c \notin early /\ Moved(c, "lanes", "gate", {}, {})
    BY <1>11, <1>0, BeginRows DEF Join, Moved
  <2>5. CASE Moved(c, "lanes", "over", {}, {})
    BY <2>2, <2>5, Names DEF Moved, Sound, TasksOf, Met
  <2>6. CASE ~Failed(c) /\ c \in early /\ Moved(c, "lanes", "push", {"push"}, {})
    <3>1. task[c]["make"] \notin {"todo", "running", "failed"}
      BY <2>1, <2>6, Names DEF Sound, TasksOf, Failed
    <3>2. task[c]["make"] = "done" BY <1>0, <3>1, Names DEF TypeOK, Status
    <3>3. Met(task'[c]) BY <2>3, <2>6, <3>2, WireMeans, Names DEF Moved, Sound, TasksOf, Met
    <3> QED BY <2>1, <2>3, <2>6, <3>2, <3>3, Names DEF Moved, Sound, TasksOf
  <2>7. CASE ~Failed(c) /\ c \notin early /\ Moved(c, "lanes", "gate", {}, {})
    <3>1. Met(task'[c]) BY <2>7, Names DEF Moved, Sound, Met
    <3> QED BY <2>3, <2>7, <3>1, Names DEF Moved, Sound, TasksOf
  <2> QED BY <2>4, <2>5, <2>6, <2>7
<1>12. CASE SkipBuild(c)
  <2>1. Moved(c, "gate", "deploy", {"deploy"}, {"make", "push"})
    BY <1>12, <1>0, BeginRows, Names DEF SkipBuild, Moved
  <2>2. Met(task'[c])
    BY <2>1, WireMeans, Names DEF Moved, Sound, TasksOf, Met
  <2> QED BY <2>1, <2>2, WireMeans, Names DEF Moved, Sound, TasksOf
<1>13. CASE NeedBuild(c)
  <2>1. Moved(c, "gate", "relock", {}, {})
    BY <1>13, <1>0, Names DEF NeedBuild, Moved
  <2>2. Met(task'[c])
    BY <2>1, WireMeans, Names DEF Moved, Sound, TasksOf, Met
  <2> QED BY <2>1, <2>2, WireMeans, Names DEF Moved, Sound, TasksOf
<1>14. CASE Relock(c)
  <2>1. \/ Moved(c, "relock", "push", {"push"}, {"make"})
        \/ Moved(c, "relock", "remake", {"make"}, {})
    BY <1>14, <1>0, BeginRows, Names DEF Relock, Moved
  <2>2. ASSUME Moved(c, "relock", "push", {"push"}, {"make"})
        PROVE  Sound(pc'[c], task'[c], (c \in early)')
    <3>1. Met(task'[c])
      BY <2>2, WireMeans, Names DEF Moved, Sound, TasksOf, Met
    <3> QED BY <2>2, <3>1, WireMeans, Names DEF Moved, Sound, TasksOf
  <2>3. ASSUME Moved(c, "relock", "remake", {"make"}, {})
        PROVE  Sound(pc'[c], task'[c], (c \in early)')
    <3>1. Met(task'[c])
      BY <2>3, WireMeans, Names DEF Moved, Sound, TasksOf, Met
    <3> QED BY <2>3, <3>1, WireMeans, Names DEF Moved, Sound, TasksOf
  <2> QED BY <2>1, <2>2, <2>3
<1>15. CASE AfterMake(c)
  <2>1. \/ Moved(c, "remake", "push", {"push"}, {}) /\ task[c]["make"] = "done"
        \/ Moved(c, "remake", "over", {}, {}) /\ task[c]["make"] = "failed"
    BY <1>15, <1>0, BeginRows, Names DEF AfterMake, Moved
  <2>2. ASSUME Moved(c, "remake", "push", {"push"}, {}) /\ task[c]["make"] = "done"
        PROVE  Sound(pc'[c], task'[c], (c \in early)')
    <3>1. Met(task'[c])
      BY <2>2, WireMeans, Names DEF Moved, Sound, TasksOf, Met
    <3> QED BY <2>2, <3>1, WireMeans, Names DEF Moved, Sound, TasksOf
  <2>3. ASSUME Moved(c, "remake", "over", {}, {}) /\ task[c]["make"] = "failed"
        PROVE  Sound(pc'[c], task'[c], (c \in early)')
    <3>1. Met(task'[c])
      BY <2>3, WireMeans, Names DEF Moved, Sound, TasksOf, Met
    <3> QED BY <2>3, <3>1, WireMeans, Names DEF Moved, Sound, TasksOf
  <2> QED BY <2>1, <2>2, <2>3
<1>16. CASE PushEnds(c)
  <2>1. CASE Moved(c, "push", "deploy", {"deploy"}, {"push"})
    <3>1. Met(task'[c]) BY <2>1, WireMeans, Names DEF Moved, Sound, TasksOf, Met
    <3> QED BY <2>1, <3>1, Names DEF Moved, Sound, TasksOf
  <2>2. CASE /\ pc[c] = "push" /\ pc'[c] = "over"
            /\ \A u \in Task : task'[c][u] = IF u = "push" THEN "failed" ELSE task[c][u]
    <3>1. Met(task'[c]) BY <2>2, WireMeans, Names DEF Sound, TasksOf, Met
    <3> QED BY <2>2, <3>1, WireMeans, Names DEF Sound, TasksOf
  <2> QED BY <1>16, <1>0, <2>1, <2>2, BeginRows, FailsRows, Names DEF PushEnds, Moved
<1>17. CASE DeployEnds(c)
  <2>1. CASE Moved(c, "deploy", "complete", {}, {"deploy"})
    <3>1. Met(task'[c]) BY <2>1, WireMeans, Names DEF Moved, Sound, TasksOf, Met
    <3> QED BY <2>1, <3>1, Names DEF Moved, Sound, TasksOf
  <2>2. CASE /\ pc[c] = "deploy" /\ pc'[c] = "over"
            /\ \A u \in Task : task'[c][u] = IF u = "deploy" THEN "failed" ELSE task[c][u]
    <3>1. Met(task'[c]) BY <2>2, WireMeans, Names DEF Sound, TasksOf, Met
    <3>2. task[c]["wire"] = "done" /\ task[c]["make"] = "done" /\ task[c]["push"] = "done"
      <4>1. task[c]["deploy"] = "running" BY <2>2 DEF Sound, TasksOf
      <4>2. task[c]["wire"] = "done" /\ task[c]["push"] = "done" BY <4>1 DEF Sound, Met
      <4> QED BY <4>2 DEF Sound, Met
    <3>3. \A t \in Task : task'[c][t] # "running"
      BY <2>2, <3>2, WireMeans, Names DEF Sound
    <3> QED BY <2>2, <3>1, <3>3, Names DEF Sound, TasksOf
  <2> QED BY <1>17, <1>0, <2>1, <2>2, BeginRows, FailsRows, Names DEF DeployEnds, Moved
<1>18. CASE Finish(c)
  <2>1. pc'[c] = "idle" /\ \A t \in Task : task'[c][t] = "todo"
    BY <1>18, <1>0, GoneRows DEF Finish
  <2> QED BY <2>1, Names DEF Sound, TasksOf, Met
<1>19. ASSUME NEW t \in Task, TaskEnds(c, t)
    PROVE  Sound(pc'[c], task'[c], (c \in early)')
  <2>1. /\ t \in {"pull", "kind", "wire", "make"} \cup Branch
        /\ task[c][t] = "running" /\ UNCHANGED early
        /\ Moved(c, pc[c], pc[c], IF t = "kind" THEN Branch ELSE {}, {t})
    BY <1>19, <1>0, BeginRows DEF TaskEnds, Moved
  <2>2. CASE t = "kind"
    <3>1. Met(task'[c]) BY <2>1, <2>2, Names DEF Moved, Sound, Met
    <3>2. task[c]["wire"] = "todo" BY <2>1, <2>2, WireMeans DEF Sound
    <3>3. pc[c] = "ahead" => task[c]["kind"] = "todo" BY Names DEF Sound, TasksOf
    <3> QED BY <2>1, <2>2, <3>1, <3>2, <3>3, Names DEF Moved, Sound, TasksOf, Met
  <2>3. CASE t # "kind"
    <3>1. Met(task'[c]) BY <2>1, <2>3, Names DEF Moved, Sound, Met
    <3> QED BY <2>1, <2>3, <3>1, WireMeans, Names DEF Moved, Sound, TasksOf
  <2> QED BY <2>2, <2>3
<1>20. ASSUME NEW t \in Task, TaskFails(c, t)
    PROVE  Sound(pc'[c], task'[c], (c \in early)')
  <2>1. /\ t \in {"block", "kind", "wire", "make"} \cup Branch
        /\ task[c][t] = "running" /\ UNCHANGED <<pc, early>>
        /\ \A u \in Task : task'[c][u] = IF u = t THEN "failed" ELSE task[c][u]
    BY <1>20, <1>0, FailsRows DEF TaskFails
  <2>2. Met(task'[c]) BY <2>1, Names DEF Sound, Met
  <2> QED BY <2>1, <2>2, WireMeans, Names DEF Sound, TasksOf
<1> QED BY <1>1, <1>2, <1>3, <1>4, <1>5, <1>6, <1>7, <1>8, <1>9, <1>10, <1>11, <1>12, <1>13,
      <1>14, <1>15, <1>16, <1>17, <1>18, <1>19, <1>20 DEF Run

(* A run does not change what sudo grants. *)
LEMMA GrantStays ==
  ASSUME NEW c \in Cluster, IInv, StartUp(c) \/ Crash(c) \/ Run(c)
  PROVE  grant' = grant
<1> USE DEF host, Gone
<1>0. TypeOK /\ pc \in [Cluster -> PC] /\ flag \in [Cluster -> Flag] BY DEF IInv, TypeOK
<1>1. CASE StartUp(c)
  BY <1>1, <1>0, InfraRows DEF StartUp
<1>2. CASE Crash(c)
  BY <1>2, <1>0, GoneRows DEF Crash
<1>3. CASE Probe(c)
  BY <1>3, <1>0, InfraRows DEF Probe
<1>4. CASE LockEarly(c)
  BY <1>4, <1>0, InfraRows DEF LockEarly
<1>5. CASE LockTimesOut(c)
  BY <1>5, <1>0 DEF LockTimesOut
<1>6. CASE EndAhead(c)
  BY <1>6, <1>0, BeginRows DEF EndAhead
<1>7. CASE SetUpBlock(c)
  BY <1>7, <1>0, BeginRows DEF SetUpBlock
<1>8. CASE AskRoot(c)
  BY <1>8, <1>0 DEF AskRoot
<1>9. CASE Answer(c)
  BY <1>9, <1>0, BeginRows DEF Answer
<1>10. CASE BeginCreate(c)
  BY <1>10, <1>0, BeginRows DEF BeginCreate
<1>11. CASE Join(c)
  BY <1>11, <1>0, BeginRows DEF Join
<1>12. CASE SkipBuild(c)
  BY <1>12, <1>0, BeginRows DEF SkipBuild
<1>13. CASE NeedBuild(c)
  BY <1>13, <1>0 DEF NeedBuild
<1>14. CASE Relock(c)
  BY <1>14, <1>0, BeginRows DEF Relock
<1>15. CASE AfterMake(c)
  BY <1>15, <1>0, BeginRows DEF AfterMake
<1>16. CASE PushEnds(c)
  BY <1>16, <1>0, BeginRows, FailsRows DEF PushEnds
<1>17. CASE DeployEnds(c)
  BY <1>17, <1>0, BeginRows, FailsRows DEF DeployEnds
<1>18. CASE Finish(c)
  BY <1>18, <1>0, GoneRows DEF Finish
<1>19. ASSUME NEW t \in Task, TaskEnds(c, t) PROVE grant' = grant
  BY <1>19, <1>0, BeginRows DEF TaskEnds
<1>20. ASSUME NEW t \in Task, TaskFails(c, t) PROVE grant' = grant
  BY <1>20, <1>0, FailsRows DEF TaskFails
<1> QED BY <1>1, <1>2, <1>3, <1>4, <1>5, <1>6, <1>7, <1>8, <1>9, <1>10, <1>11, <1>12, <1>13,
      <1>14, <1>15, <1>16, <1>17, <1>18, <1>19, <1>20 DEF Run

(* The parts of IInv that are kept run by run, of each run. *)
LEMMA RunByRun ==
  /\ TasksFollow /\ NeedsAreMet <=> \A c \in Cluster : Sound(pc[c], task[c], c \in early)
  /\ AsksInFront <=> \A c \in Cluster : AsksOf(c)
<1>1. TasksFollow <=> \A c \in Cluster : TasksOf(pc[c], task[c], c \in early)
  BY DEF TasksFollow, TasksOf, Is
<1>2. AsksInFront <=> \A c \in Cluster : AsksOf(c)
  BY DEF AsksInFront, AsksOf
<1> QED BY <1>1, <1>2, NeedsByRun DEF Sound

(* The same of the next state. *)
LEMMA RunByRunNext ==
  /\ (TasksFollow /\ NeedsAreMet)' <=>
       \A c \in Cluster : Sound(pc'[c], task'[c], (c \in early)')
  /\ AsksInFront' <=> \A c \in Cluster : AsksOf(c)'
<1>1. TasksFollow' <=> \A c \in Cluster : TasksOf(pc'[c], task'[c], (c \in early)')
  BY DEF TasksFollow, TasksOf, Is
<1>2. AsksInFront' <=> \A c \in Cluster : AsksOf(c)'
  BY DEF AsksInFront, AsksOf
<1> QED BY <1>1, <1>2, NeedsByRun DEF Sound

(* The tasks, what they need and who asks: of the run that moves by TasksOwn
   and AsksOwn, of the others as they are spared. *)
LEMMA RunsStep == IInv /\ [Next]_vars => (TasksFollow /\ NeedsAreMet /\ AsksInFront)'
<1> SUFFICES ASSUME IInv, [Next]_vars
             PROVE  \A d \in Cluster :
                      Sound(pc'[d], task'[d], (d \in early)') /\ AsksOf(d)'
  BY RunByRunNext
<1>1. \A d \in Cluster : Sound(pc[d], task[d], d \in early) /\ AsksOf(d)
  BY RunByRun DEF IInv
<1>2. ASSUME NEW c \in Cluster, StartUp(c) \/ Crash(c) \/ Run(c)
      PROVE  \A d \in Cluster : Sound(pc'[d], task'[d], (d \in early)') /\ AsksOf(d)'
  <2>1. Sound(pc'[c], task'[c], (c \in early)') /\ AsksOf(c)'
    BY <1>1, <1>2, TasksOwn, AsksOwn
  <2>2. ASSUME NEW d \in Cluster \ {c}
        PROVE  Sound(pc'[d], task'[d], (d \in early)') /\ AsksOf(d)'
    <3>1. Spared(d) /\ grant' = grant
      BY <1>2, Others, GrantStays
    <3>2. AsksOf(d)'
      BY <1>1, <3>1 DEF AsksOf, Spared, Is, At
    <3>3. (d \in early)' <=> d \in early
      BY <3>1 DEF Spared
    <3>4. Sound(pc[d], task[d], d \in early)
      BY <1>1
    <3>5. Sound(pc[d], task[d], (d \in early)')
      BY <3>3, <3>4 DEF Sound, TasksOf
    <3>6. pc'[d] = pc[d] /\ task'[d] = task[d]
      BY <3>1 DEF Spared
    <3> QED BY <3>2, <3>5, <3>6
  <2> QED BY <2>1, <2>2
<1>3. ASSUME NEW c \in Cluster, Lose(c)
      PROVE  \A d \in Cluster : Sound(pc'[d], task'[d], (d \in early)') /\ AsksOf(d)'
  <2>1. UNCHANGED <<pc, task, flag, early, safe, asking, grant>>
    BY <1>3 DEF Lose, plan
  <2>2. attached' = attached \ {c} /\ misled' = misled \cup {c}
    BY <1>3 DEF Lose
  <2>3. \A d \in Cluster : AsksOf(d)'
    BY <1>1, <2>1, <2>2 DEF AsksOf, Is, At
  <2> QED BY <1>1, <2>1, <2>3
<1>4. CASE Regrant
  <2>1. UNCHANGED <<pc, task, flag, early, safe, asking, attached>>
    BY <1>4 DEF Regrant, plan
  <2>2. (grant' /\ misled' = misled) \/ misled' = Cluster
    BY <1>4 DEF Regrant, IInv, TypeOK
  <2>3. \A d \in Cluster : AsksOf(d)'
    BY <1>1, <2>1, <2>2 DEF AsksOf, Is, At
  <2> QED BY <1>1, <2>1, <2>3
<1>5. CASE UNCHANGED vars
  <2>1. UNCHANGED <<pc, task, flag, early, safe, asking, attached, grant, misled>>
    BY <1>5 DEF vars, host, plan, history
  <2>2. \A d \in Cluster : AsksOf(d)'
    BY <1>1, <2>1 DEF AsksOf, Is, At
  <2> QED BY <1>1, <2>1, <2>2
<1> QED BY <1>2, <1>3, <1>4, <1>5 DEF Next

(* IInv holds at first. *)
LEMMA Initially == Init => IInv
<1> SUFFICES ASSUME Init PROVE IInv OBVIOUS
<1>1. TypeOK
  BY FlagTypes, FaultsAssumption DEF Init, TypeOK, PC, Status, Unbegun
<1>2. \A c \in Cluster : task[c] = Unbegun /\ pc[c] = "idle"
  BY DEF Init
<1>3. \A t \in Task : Unbegun[t] = "todo"
  BY DEF Unbegun
<1>4. \A c \in Cluster : Sound(pc[c], task[c], c \in early)
  BY <1>2, <1>3, Names DEF Sound, TasksOf, Met
<1>5. \A c \in Cluster : AsksOf(c)
  BY <1>2, <1>3, Names DEF AsksOf, Init, Is, At
<1>6. LockFollows /\ KilledIsOver
  BY NobodyAssumption DEF Init, LockFollows, KilledIsOver
<1> QED BY <1>1, <1>4, <1>5, <1>6, RunByRun DEF IInv

(* The inductive invariant holds of every behaviour. *)
THEOREM Invariance == Spec => []IInv
<1>1. IInv /\ [Next]_vars => IInv'
  BY TypeStep, LockStep, KilledStep, RunsStep DEF IInv
<1> QED BY Initially, <1>1, PTL DEF Spec

(* However the lanes overlap, no run is at a pkexec prompt while its make
   streams, as long as what blockSetupPromptFree saw still holds. *)
THEOREM PromptsAloneHolds == Spec => []PromptsAlone
<1>1. IInv => PromptsAlone
  <2> SUFFICES ASSUME IInv, NEW c \in Cluster, c \in asking \ misled,
                      task[c]["make"] = "running"
               PROVE  FALSE
    BY DEF PromptsAlone, Is, IInv, TypeOK
  <2>1. Sound(pc[c], task[c], c \in early) /\ AsksOf(c) /\ pc[c] \in PC
    BY RunByRun DEF IInv, TypeOK
  <2>2. task[c]["block"] = "running" /\ pc[c] # "lanes"
    BY <2>1 DEF AsksOf, Is, At
  <2>3. task[c]["wire"] = "todo" /\ task[c]["deploy"] = "todo"
    BY <2>1, <2>2, WireMeans DEF Sound, Met
  <2>4. pc[c] \notin {"idle", "probe", "lock", "ahead", "over"}
    BY <2>1, <2>2, Names DEF Sound, TasksOf
  <2>5. pc[c] \notin {"gate", "relock", "remake", "push", "deploy", "complete"}
    BY <2>1, <2>3 DEF Sound, TasksOf
  <2> QED BY <2>1, <2>2, <2>4, <2>5 DEF PC
<1> QED BY Invariance, <1>1, PTL

(* No run of a clone makes or pushes without the lock of its build cache, nor
   has the lock where it neither does nor is about to. *)
THEOREM BuildsUnderTheLockHolds == Spec => []BuildsUnderTheLock
<1>1. IInv => BuildsUnderTheLock
  <2> SUFFICES ASSUME IInv, NEW c \in Cluster
               PROVE  /\ task[c]["make"] = "running" \/ task[c]["push"] = "running" => lock = c
                      /\ lock = c => pc[c] \in {"ahead", "lanes", "remake", "push"}
    BY DEF BuildsUnderTheLock, Is
  <2>1. Sound(pc[c], task[c], c \in early) /\ pc[c] \in PC
    BY RunByRun DEF IInv, TypeOK
  <2>2. lock = c <=> \/ pc[c] \in {"ahead", "lanes"} /\ c \in early
                     \/ pc[c] \in {"remake", "push"}
    BY DEF IInv, LockFollows
  <2>3. ASSUME task[c]["make"] = "running" \/ task[c]["push"] = "running" PROVE lock = c
    <3>1. pc[c] \notin {"idle", "probe", "lock", "ahead", "over"}
      BY <2>1, <2>3, Names DEF Sound, TasksOf
    <3>2. pc[c] \notin {"gate", "relock"}
      BY <2>1, <2>3 DEF Sound, TasksOf
    <3>3. pc[c] = "lanes" => c \in early
      BY <2>1, <2>3 DEF Sound, TasksOf
    <3>4. pc[c] \notin {"deploy", "complete"}
      <4>1. task[c]["deploy"] = "todo"
        BY <2>1, <2>3 DEF Sound, Met
      <4> QED BY <2>1, <4>1 DEF Sound, TasksOf
    <3> QED BY <2>1, <2>2, <3>1, <3>2, <3>3, <3>4 DEF PC
  <2> QED BY <2>2, <2>3
<1> QED BY Invariance, <1>1, PTL

(* UpGraph's operators, at BringUp's tasks. *)
LEMMA GraphIs ==
  /\ Graph!Task = Task /\ Graph!Status = Status /\ Graph!Unbegun = Unbegun
  /\ \A was, is : Graph!Moves(was, is) <=>
       \/ was = is
       \/ was = "todo" /\ is \in {"running", "done"}
       \/ was = "running" /\ is \in {"done", "failed"}
BY SameTasks DEF Graph!Status, Status, Graph!Unbegun, Unbegun, Graph!Moves

(* What begins was not begun, and what ends was not failed. *)
LEMMA BeginMoves ==
  ASSUME TypeOK, NEW c \in Cluster, NEW ts, NEW ended, Begin(c, ts, ended),
         \A u \in ts : task[c][u] = "todo",
         \A u \in ended : task[c][u] \in {"todo", "running", "done"}
  PROVE  \A u \in Task : Graph!Moves(task[c][u], task'[c][u])
BY BeginRows, GraphIs

(* What fails was running. *)
LEMMA FailsMoves ==
  ASSUME TypeOK, NEW c \in Cluster, NEW t \in Task, Fails(c, t), task[c][t] = "running"
  PROVE  \A u \in Task : Graph!Moves(task[c][u], task'[c][u])
BY FailsRows, GraphIs

(* The tasks of the run go on as the graph has it. *)
LEMMA MovesOn ==
  ASSUME NEW c \in Cluster, IInv, Sound(pc[c], task[c], c \in early),
         StartUp(c) \/ (Run(c) /\ ~Finish(c))
  PROVE  \A u \in Task : Graph!Moves(task[c][u], task'[c][u])
<1> USE DEF host, plan, history, Fault, Goto, GiveUp, Release, At, Is
<1>0. TypeOK /\ pc \in [Cluster -> PC] /\ flag \in [Cluster -> Flag] BY DEF IInv, TypeOK
<1>1. CASE StartUp(c)
  <2>1. \A u \in Task : task[c][u] = "todo"
    BY <1>1, Names DEF StartUp, Sound, TasksOf
  <2> QED BY <1>1, <1>0, <2>1, BeginMoves, GraphIs, Names DEF StartUp, BeginInfra
<1>2. CASE Probe(c)
  <2>1. \A u \in Task : task[c][u] = "todo"
    BY <1>2, Names DEF Probe, Sound, TasksOf
  <2> QED BY <1>2, <1>0, <2>1, BeginMoves, GraphIs, Names DEF Probe, BeginInfra
<1>3. CASE LockEarly(c)
  <2>1. \A u \in Task : task[c][u] = "todo"
    BY <1>3, Names DEF LockEarly, Sound, TasksOf
  <2> QED BY <1>3, <1>0, <2>1, BeginMoves, GraphIs, Names DEF LockEarly, BeginInfra
<1>4. CASE LockTimesOut(c)
  BY <1>4, <1>0, Names, GraphIs DEF LockTimesOut
<1>5. CASE EndAhead(c)
  <2>1. task[c]["make"] = "todo"
    BY <1>5, Names DEF EndAhead, Sound, TasksOf
  <2> QED BY <1>5, <1>0, <2>1, BeginMoves, GraphIs, Names DEF EndAhead
<1>6. CASE SetUpBlock(c)
  BY <1>6, <1>0, BeginRows, Names, GraphIs DEF SetUpBlock
<1>7. CASE AskRoot(c)
  BY <1>7, <1>0, Names, GraphIs DEF AskRoot
<1>8. CASE Answer(c)
  <2>1. task[c]["block"] = "running"
    BY <1>8, RunByRun DEF Answer, IInv, AsksOf
  <2> QED BY <1>8, <1>0, <2>1, BeginMoves, GraphIs, Names DEF Answer
<1>9. CASE BeginCreate(c)
  BY <1>9, <1>0, BeginRows, Names, GraphIs DEF BeginCreate
<1>10. CASE Join(c)
  <2>1. task[c]["push"] = "todo"
    BY <1>10, Names DEF Join, Sound, TasksOf
  <2> QED BY <1>10, <1>0, <2>1, BeginMoves, GraphIs, Names DEF Join
<1>11. CASE SkipBuild(c)
  <2>1. task[c]["make"] = "todo" /\ task[c]["push"] = "todo" /\ task[c]["deploy"] = "todo"
    BY <1>11, Names DEF SkipBuild, Sound, TasksOf
  <2> QED BY <1>11, <1>0, <2>1, BeginMoves, GraphIs, Names DEF SkipBuild
<1>12. CASE NeedBuild(c)
  BY <1>12, <1>0, Names, GraphIs DEF NeedBuild
<1>13. CASE Relock(c)
  <2>1. task[c]["make"] = "todo" /\ task[c]["push"] = "todo"
    BY <1>13, Names DEF Relock, Sound, TasksOf
  <2> QED BY <1>13, <1>0, <2>1, BeginMoves, GraphIs, Names DEF Relock
<1>14. CASE AfterMake(c)
  <2>1. task[c]["push"] = "todo"
    BY <1>14, Names DEF AfterMake, Sound, TasksOf
  <2> QED BY <1>14, <1>0, <2>1, BeginMoves, GraphIs, Names DEF AfterMake
<1>15. CASE PushEnds(c)
  <2>1. task[c]["push"] = "running" /\ task[c]["deploy"] = "todo"
    BY <1>15, Names DEF PushEnds, Sound, TasksOf
  <2> QED BY <1>15, <1>0, <2>1, BeginMoves, FailsMoves, GraphIs, Names DEF PushEnds
<1>16. CASE DeployEnds(c)
  <2>1. task[c]["deploy"] = "running"
    BY <1>16, Names DEF DeployEnds, Sound, TasksOf
  <2> QED BY <1>16, <1>0, <2>1, BeginMoves, FailsMoves, GraphIs, Names DEF DeployEnds
<1>17. ASSUME NEW t \in Task, TaskEnds(c, t)
       PROVE  \A u \in Task : Graph!Moves(task[c][u], task'[c][u])
  <2>1. task[c][t] = "running" /\ (t = "kind" => \A b \in Branch : task[c][b] = "todo")
    BY <1>17 DEF TaskEnds, Sound, Met
  <2> QED BY <1>17, <1>0, <2>1, BeginMoves DEF TaskEnds
<1>18. ASSUME NEW t \in Task, TaskFails(c, t)
       PROVE  \A u \in Task : Graph!Moves(task[c][u], task'[c][u])
  BY <1>18, <1>0, FailsRows, Names, GraphIs DEF TaskFails
<1> QED BY <1>1, <1>2, <1>3, <1>4, <1>5, <1>6, <1>7, <1>8, <1>9, <1>10, <1>11, <1>12, <1>13,
      <1>14, <1>15, <1>16, <1>17, <1>18 DEF Run

(* Up is complete with every task, and over with none under way. *)
LEMMA EndsWhole ==
  ASSUME NEW p, NEW r, NEW e, Sound(p, r, e)
  PROVE  /\ p = "complete" => \A t \in Task : r[t] = "done"
         /\ p \in {"complete", "over"} => \A t \in Task : r[t] # "running"
<1>1. ASSUME p = "complete" PROVE \A t \in Task : r[t] = "done"
  <2>1. r["deploy"] = "done"
    BY <1>1 DEF Sound, TasksOf
  <2>2. r["wire"] = "done" /\ r["push"] = "done" /\ r["make"] = "done"
    BY <2>1 DEF Sound, Met
  <2> QED BY <2>1, <2>2, WireMeans, Names DEF Sound
<1> QED BY <1>1 DEF Sound, TasksOf

(* Only a run that is under way moves, up to its end. *)
LEMMA Busy ==
  ASSUME NEW c \in Cluster, IInv, Sound(pc[c], task[c], c \in early),
         Run(c), ~Finish(c)
  PROVE  pc[c] \notin {"idle", "complete"}
<1> USE DEF host, plan, history, Fault, Goto, GiveUp, Release, At, Is
<1>0. TypeOK /\ pc \in [Cluster -> PC] /\ flag \in [Cluster -> Flag] BY DEF IInv, TypeOK
<1>a. /\ pc[c] = "idle" => \A t \in Task : task[c][t] = "todo"
      /\ pc[c] = "complete" => \A t \in Task : task[c][t] = "done"
  BY EndsWhole, Names DEF Sound, TasksOf
<1>b. c \in asking => task[c]["block"] = "running"
  BY RunByRun DEF IInv, AsksOf
<1>1. CASE Probe(c)
  BY <1>1, <1>0, InfraRows, <1>a, <1>b, Names DEF Probe
<1>2. CASE LockEarly(c)
  BY <1>2, <1>0, InfraRows, <1>a, <1>b, Names DEF LockEarly
<1>3. CASE LockTimesOut(c)
  BY <1>3, <1>0, <1>a, <1>b, Names DEF LockTimesOut
<1>4. CASE EndAhead(c)
  BY <1>4, <1>0, BeginRows, <1>a, <1>b, Names DEF EndAhead
<1>5. CASE SetUpBlock(c)
  BY <1>5, <1>0, BeginRows, <1>a, <1>b, Names DEF SetUpBlock
<1>6. CASE AskRoot(c)
  BY <1>6, <1>0, <1>a, <1>b, Names DEF AskRoot
<1>7. CASE Answer(c)
  BY <1>7, <1>0, BeginRows, <1>a, <1>b, Names DEF Answer
<1>8. CASE BeginCreate(c)
  BY <1>8, <1>0, BeginRows, <1>a, <1>b, Names DEF BeginCreate
<1>9. CASE Join(c)
  BY <1>9, <1>0, BeginRows, <1>a, <1>b, Names DEF Join
<1>10. CASE SkipBuild(c)
  BY <1>10, <1>0, BeginRows, <1>a, <1>b, Names DEF SkipBuild
<1>11. CASE NeedBuild(c)
  BY <1>11, <1>0, <1>a, <1>b, Names DEF NeedBuild
<1>12. CASE Relock(c)
  BY <1>12, <1>0, BeginRows, <1>a, <1>b, Names DEF Relock
<1>13. CASE AfterMake(c)
  BY <1>13, <1>0, BeginRows, <1>a, <1>b, Names DEF AfterMake
<1>14. CASE PushEnds(c)
  BY <1>14, <1>0, BeginRows, FailsRows, <1>a, <1>b, Names DEF PushEnds
<1>15. CASE DeployEnds(c)
  BY <1>15, <1>0, BeginRows, FailsRows, <1>a, <1>b, Names DEF DeployEnds
<1>16. ASSUME NEW t \in Task, TaskEnds(c, t) PROVE pc[c] \notin {"idle", "complete"}
  BY <1>16, <1>0, BeginRows, <1>a, <1>b, Names DEF TaskEnds
<1>17. ASSUME NEW t \in Task, TaskFails(c, t) PROVE pc[c] \notin {"idle", "complete"}
  BY <1>17, <1>0, FailsRows, <1>a, <1>b, Names DEF TaskFails
<1> QED BY <1>1, <1>2, <1>3, <1>4, <1>5, <1>6, <1>7, <1>8, <1>9, <1>10, <1>11, <1>12, <1>13,
      <1>14, <1>15, <1>16, <1>17 DEF Run

(* Of itself no run is killed. *)
LEMMA KilledStays ==
  ASSUME NEW c \in Cluster, IInv, Run(c), ~Finish(c)
  PROVE  killed' = killed
<1> USE DEF history
<1>0. TypeOK /\ pc \in [Cluster -> PC] /\ flag \in [Cluster -> Flag] BY DEF IInv, TypeOK
<1>1. CASE Probe(c)
  BY <1>1, <1>0, InfraRows DEF Probe
<1>2. CASE LockEarly(c)
  BY <1>2, <1>0, InfraRows DEF LockEarly
<1>3. CASE LockTimesOut(c)
  BY <1>3, <1>0 DEF LockTimesOut
<1>4. CASE EndAhead(c)
  BY <1>4, <1>0, BeginRows DEF EndAhead
<1>5. CASE SetUpBlock(c)
  BY <1>5, <1>0, BeginRows DEF SetUpBlock
<1>6. CASE AskRoot(c)
  BY <1>6, <1>0 DEF AskRoot
<1>7. CASE Answer(c)
  BY <1>7, <1>0, BeginRows DEF Answer
<1>8. CASE BeginCreate(c)
  BY <1>8, <1>0, BeginRows DEF BeginCreate
<1>9. CASE Join(c)
  BY <1>9, <1>0, BeginRows DEF Join
<1>10. CASE SkipBuild(c)
  BY <1>10, <1>0, BeginRows DEF SkipBuild
<1>11. CASE NeedBuild(c)
  BY <1>11, <1>0 DEF NeedBuild
<1>12. CASE Relock(c)
  BY <1>12, <1>0, BeginRows DEF Relock
<1>13. CASE AfterMake(c)
  BY <1>13, <1>0, BeginRows DEF AfterMake
<1>14. CASE PushEnds(c)
  BY <1>14, <1>0, BeginRows, FailsRows DEF PushEnds
<1>15. CASE DeployEnds(c)
  BY <1>15, <1>0, BeginRows, FailsRows DEF DeployEnds
<1>16. ASSUME NEW t \in Task, TaskEnds(c, t) PROVE killed' = killed
  BY <1>16, <1>0, BeginRows DEF TaskEnds
<1>17. ASSUME NEW t \in Task, TaskFails(c, t) PROVE killed' = killed
  BY <1>17, <1>0, FailsRows DEF TaskFails
<1> QED BY <1>1, <1>2, <1>3, <1>4, <1>5, <1>6, <1>7, <1>8, <1>9, <1>10, <1>11, <1>12, <1>13,
      <1>14, <1>15, <1>16, <1>17 DEF Run

(* What follows a step of c, other than its end or a kill, is an advance of c in
   the graph. *)
LEMMA Advances ==
  ASSUME NEW c \in Cluster, IInv, IInv', StartUp(c) \/ (Run(c) /\ ~Finish(c))
  PROVE  Graph!Advance(c)
<1>1. Sound(pc[c], task[c], c \in early) /\ Sound(pc'[c], task'[c], (c \in early)')
  BY RunByRun, RunByRunNext DEF IInv
<1>2. \A d \in Cluster \ {c} : Spared(d)
  BY Others
<1>3. \A t \in Task : Graph!Moves(task[c][t], task'[c][t])
  BY <1>1, MovesOn
<1>4. \A t \in Task : task'[c][t] # "todo" => \A n \in Graph!Needs(t) : task'[c][n] = "done"
  BY <1>1, MetIsNeeds DEF Sound
<1>5. task' \in [Cluster -> [Task -> Status]]
  BY DEF IInv, TypeOK
<1>6. \A d \in Cluster \ {c} : task'[d] = task[d]
  BY <1>2 DEF Spared
<1>7. Complete' \in {Complete, Complete \cup {d \in {c} : \A t \in Task : task'[c][t] = "done"}}
  <2>1. \A d \in Cluster \ {c} : d \in Complete' <=> d \in Complete
    BY <1>2 DEF Complete, Spared, At
  <2>2. c \notin Complete
    BY <1>1, Busy DEF Complete, At, StartUp
  <2>3. c \in Complete' => \A t \in Task : task'[c][t] = "done"
    BY <1>1, EndsWhole DEF Complete, At
  <2>4. Complete \subseteq Cluster /\ Complete' \subseteq Cluster
    BY DEF Complete
  <2>5. CASE c \in Complete'
    <3>1. {d \in {c} : \A t \in Task : task'[c][t] = "done"} = {c}
      BY <2>3, <2>5
    <3> QED BY <2>1, <2>4, <2>5, <3>1
  <2>6. CASE c \notin Complete'
    BY <2>1, <2>2, <2>4, <2>6
  <2> QED BY <2>5, <2>6
<1>8. killed' = killed \ {c}
  <2>1. CASE StartUp(c) BY <2>1 DEF StartUp
  <2>2. CASE Run(c) /\ ~Finish(c)
    <3>1. c \notin killed BY <1>1, <2>2, Busy DEF IInv, KilledIsOver, At
    <3>2. killed' = killed BY <2>2, KilledStays
    <3> QED BY <3>1, <3>2 DEF IInv, TypeOK
  <2> QED BY <2>1, <2>2
<1> QED BY <1>3, <1>4, <1>5, <1>6, <1>7, <1>8, GraphIs DEF Graph!Advance

(* Up keeps to its dependency graph: a task waits for those it needs, runs once
   and is not cut off by another's failure, and up says it is complete of all. *)
THEOREM GraphIsFollowed == Spec => FollowsTheGraph
<1>1. Init => Graph!Init
  BY GraphIs DEF Init, Graph!Init, Complete, At
<1>2. IInv /\ IInv' /\ [Next]_vars => [Graph!Next]_(Graph!vars)
  <2> SUFFICES ASSUME IInv, IInv', [Next]_vars PROVE [Graph!Next]_(Graph!vars)
    OBVIOUS
  <2>1. CASE UNCHANGED vars
    BY <2>1 DEF vars, history, Graph!vars, Complete, At
  <2>2. ASSUME NEW c \in Cluster, Lose(c) PROVE UNCHANGED Graph!vars
    BY <2>2 DEF Lose, Graph!vars, Complete, At
  <2>3. ASSUME Regrant PROVE UNCHANGED Graph!vars
    BY <2>3 DEF Regrant, Graph!vars, Complete, At
  <2>4. ASSUME NEW c \in Cluster, Gone(c), \A d \in Cluster \ {c} : Spared(d)
        PROVE  task' = [task EXCEPT ![c] = Graph!Unbegun] /\ Complete' = Complete \ {c}
    <3>1. pc'[c] = "idle" /\ \A d \in Cluster \ {c} : pc'[d] = pc[d]
      BY <2>4, GoneRows DEF IInv, TypeOK, Spared
    <3>2. Complete' = Complete \ {c}
      BY <3>1 DEF Complete, At
    <3> QED BY <2>4, <3>2, GraphIs DEF Gone
  <2>5. ASSUME NEW c \in Cluster, Crash(c) PROVE Graph!Kill(c)
    BY <2>4, <2>5, Others DEF Crash, Graph!Kill
  <2>6. ASSUME NEW c \in Cluster, Finish(c) PROVE Graph!Leave(c)
    <3>1. Run(c) BY <2>6 DEF Run
    <3>2. Sound(pc[c], task[c], c \in early) BY RunByRun DEF IInv
    <3>3. \A t \in Task : task[c][t] # "running"
      BY <2>6, <3>2, EndsWhole DEF Finish
    <3> QED BY <2>4, <2>6, <3>1, <3>3, Others, GraphIs DEF Finish, Graph!Leave
  <2> QED BY <2>1, <2>2, <2>3, <2>5, <2>6, Advances DEF Next, Graph!Next
<1> QED BY Invariance, <1>1, <1>2, PTL DEF Spec, FollowsTheGraph, Graph!Spec

-----------------------------------------------------------------------------
(* What the graph promises, whoever implements it. *)

(* The needs of one run's tasks, done where a task is begun, are Met. *)
LEMMA GraphMet == Graph!NeedsAreDone <=> \A c \in Cluster : Met(task[c])
BY MetIsNeeds, SameTasks DEF Graph!NeedsAreDone

(* Whatever is begun has what it needs done, and what is complete stays so. *)
LEMMA GraphInvariance == Graph!Spec => []Graph!IInv
<1>1. Graph!Init => Graph!IInv
  BY GraphIs DEF Graph!Init, Graph!IInv, Graph!TypeOK, Graph!NeedsAreDone,
     Graph!CompleteIsOfAll, Unbegun, Status
<1>2. ASSUME Graph!IInv, [Graph!Next]_(Graph!vars) PROVE Graph!IInv'
  <2> USE <1>2 DEF Graph!IInv, Graph!TypeOK, Graph!NeedsAreDone, Graph!CompleteIsOfAll
  <2>1. CASE UNCHANGED Graph!vars
    BY <2>1 DEF Graph!vars
  <2>2. ASSUME NEW c \in Cluster, Graph!Advance(c) PROVE Graph!IInv'
    <3>1. /\ task' \in [Cluster -> [Graph!Task -> Graph!Status]]
          /\ \A d \in Cluster \ {c} : task'[d] = task[d]
          /\ Complete' \subseteq Complete \cup {c}
          /\ c \in Complete' => c \in Complete \/ \A t \in Graph!Task : task'[c][t] = "done"
      BY <2>2 DEF Graph!Advance
    <3>2. \A t \in Graph!Task : task[c][t] = "done" => task'[c][t] = "done"
      BY <2>2 DEF Graph!Advance, Graph!Moves
    <3>3. ASSUME NEW t \in Graph!Task, task'[c][t] # "todo", NEW n \in Graph!Needs(t)
          PROVE  task'[c][n] = "done"
      <4>1. CASE task[c][t] = "todo"
        BY <2>2, <3>3, <4>1 DEF Graph!Advance
      <4>2. CASE task[c][t] # "todo"
        <5>1. task[c][n] = "done" BY <3>3, <4>2
        <5>2. n \in Graph!Task
          BY <3>3, SameTasks DEF Graph!Needs, Task, Lane
        <5> QED BY <3>2, <5>1, <5>2
      <4> QED BY <4>1, <4>2
    <3> QED BY <3>1, <3>2, <3>3
  <2>3. ASSUME NEW c \in Cluster, Graph!Leave(c) \/ Graph!Kill(c) PROVE Graph!IInv'
    <3>1. /\ task' = [task EXCEPT ![c] = Graph!Unbegun]
          /\ Complete' = Complete \ {c}
      BY <2>3 DEF Graph!Leave, Graph!Kill
    <3>2. /\ Graph!Unbegun \in [Graph!Task -> Graph!Status]
          /\ \A t \in Graph!Task : Graph!Unbegun[t] = "todo"
      BY DEF Graph!Unbegun, Graph!Status
    <3>3. task \in [Cluster -> [Graph!Task -> Graph!Status]]
      OBVIOUS
    <3>4. /\ task' \in [Cluster -> [Graph!Task -> Graph!Status]]
          /\ \A d \in Cluster \ {c} : task'[d] = task[d]
          /\ \A t \in Graph!Task : task'[c][t] = "todo"
      BY <3>1, <3>2, <3>3
    <3> QED BY <3>1, <3>4
  <2> QED BY <1>2, <2>1, <2>2, <2>3 DEF Graph!Next
<1> QED BY <1>1, <1>2, PTL DEF Graph!Spec

(* Met, followed to its end. *)
LEMMA DeployNeedsAll ==
  ASSUME NEW r, Met(r), r["deploy"] # "todo"
  PROVE  \A t \in Task \ {"deploy"} : r[t] = "done"
<1>1. r["block"] = "done" /\ r["wire"] = "done" /\ r["push"] = "done"
  BY DEF Met
<1>2. r["make"] = "done" /\ \A b \in Branch : r[b] = "done"
  BY <1>1 DEF Met
<1>3. r["kind"] = "done" /\ r["pull"] = "done"
  BY <1>1, <1>2, BranchAssumption DEF Met
<1> QED BY <1>1, <1>2, <1>3 DEF Task, Lane

(* docs/design/concurrency.md: an implementation of the graph deploys on a cluster
   of which everything else is done, and says it is complete of all. *)
THEOREM GraphPromises == Graph!Spec => [](Graph!DeploysLast /\ Graph!CompleteIsOfAll)
<1>1. Graph!IInv => Graph!DeploysLast /\ Graph!CompleteIsOfAll
  BY GraphMet, DeployNeedsAll, SameTasks DEF Graph!IInv, Graph!DeploysLast
<1> QED BY <1>1, GraphInvariance, PTL

(* And so does up, whatever its lanes overlap and whatever fails or is killed. *)
THEOREM DeploysOnAll == Spec => [](Graph!DeploysLast /\ Graph!CompleteIsOfAll)
BY GraphIsFollowed, GraphPromises DEF FollowsTheGraph
=============================================================================
