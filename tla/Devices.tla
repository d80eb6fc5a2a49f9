------------------------------ MODULE Devices ------------------------------
(***************************************************************************)
(* The disks of the clusters of one host: image files, the kernel's (LIO)  *)
(* storage objects over them, the iSCSI targets that export those, and the *)
(* initiator's sessions with the targets, whose devices the nodes use.     *)
(* block setup, with its repair of what other runs left, and block         *)
(* teardown are lists of commands run as root; a run holds the lock of its *)
(* own cluster, by which it is named, and no other.                        *)
(***************************************************************************)
EXTENDS Naturals, FiniteSets, SequencesExt

CONSTANTS
  Cluster,   \* cluster names
  Most,      \* Most[c]: how many disks c may be set up with
  Places,    \* Places[c]: where c's images may be, a subset of Place
  Foreign,   \* the storage object of another program
  Faults,    \* what may go wrong, a subset of AllFaults
  MaxFaults  \* bound on how often something does

(* root: in the state root, as seen by every run.  elsewhere: in a --data-dir.
   hidden: in another user's home, which only c's own runs can look into. *)
Place == {"root", "elsewhere", "hidden"}

(* crash: a run is killed.  iscsid: the daemon is stopped.  read: the kernel's
   configuration cannot be read.  rm: someone deletes images, or the foreign
   object's file goes.  step: a command fails that need not. *)
AllFaults == {"crash", "iscsid", "read", "rm", "step"}

ASSUME ClusterAssumption ==
  /\ Most \in [Cluster -> Nat \ {0}]
  /\ Places \in [Cluster -> SUBSET Place \ {{}}]
ASSUME FaultsAssumption == Faults \subseteq AllFaults /\ MaxFaults \in Nat

DisksOf(c) == {<<c, i>> : i \in 1 .. Most[c]}
Disk == UNION {DisksOf(c) : c \in Cluster}
Object == Disk \cup {Foreign}

ASSUME DiskAssumption == IsFiniteSet(Disk)
ASSUME ForeignAssumption == Foreign \notin Disk

VARIABLES
  place,   \* place[c]: where c's images are
  img,     \* the objects whose backing path names a file
  obj,     \* obj[o]: the storage object; "image" over the file at its path,
           \* "stale" over one deleted since
  tgt,     \* tgt[o]: its target; "bare" has no LUN, "lun" exports the object
  ses,     \* ses[d]: the session; "empty" has scanned no LUN, "live" has the
           \* device, "dead" has it although its target was deleted
  iscsid,  \* the initiator's daemon runs
  pc,      \* pc[c]: where c's run is, see PC
  run,     \* run[c]: what it was asked, and its script
  faults,  \* history: how often something went wrong
  spoiled  \* history: the disks whose object was ever without its image, or
           \* whose target was deleted under a session

kernel == <<img, obj, tgt, ses>>
vars == <<place, kernel, iscsid, pc, run, faults, spoiled>>

PC == {"idle", "look", "script", "done", "failed"}

(* login is saveconfig, discovery and login: either of the first two is as fatal. *)
Ops == {"start", "logout", "untarget", "unback", "back", "target", "lun",
        "save", "login", "rescan"}

(* A privStep: fatal has neither ignoreErr nor warnOnFailure. *)
PrivStep == [op : Ops, of : Object, fatal : BOOLEAN]

(* A script goes through one object after the other: a list of lists of steps. *)
Script == Seq(Seq(PrivStep) \ {<<>>})

(* todo: the steps still to run.  again: the whole script, while it is run step
   by step under sudo and has pkexec to fall back on, or empty.  blind: LIO could
   not be read.  warned: the objects of deletions that failed. *)
Run == [cmd : {"setup", "teardown"}, disks : SUBSET Disk, delete : BOOLEAN,
        todo : Script, again : Script, blind : BOOLEAN, warned : SUBSET Object]

NoRun == [cmd |-> "setup", disks |-> {}, delete |-> FALSE, todo |-> <<>>,
          again |-> <<>>, blind |-> FALSE, warned |-> {}]

TypeOK ==
  /\ place \in [Cluster -> Place]
  /\ img \in SUBSET Object
  /\ obj \in [Object -> {"none", "image", "stale"}]
  /\ tgt \in [Object -> {"none", "bare", "lun"}]
  /\ ses \in [Disk -> {"none", "empty", "live", "dead"}]
  /\ iscsid \in BOOLEAN
  /\ pc \in [Cluster -> PC]
  /\ run \in [Cluster -> Run]
  /\ faults \in 0 .. MaxFaults
  /\ spoiled \in SUBSET Disk
  /\ \A o \in Object : tgt[o] = "lun" => obj[o] # "none"
  /\ \A o \in Object : obj[o] = "image" => o \in img

Init ==
  /\ place \in [Cluster -> Place] /\ \A c \in Cluster : place[c] \in Places[c]
  /\ img = {Foreign}
  /\ obj = [o \in Object |-> IF o = Foreign THEN "image" ELSE "none"]
  /\ tgt = [o \in Object |-> IF o = Foreign THEN "lun" ELSE "none"]
  /\ ses = [d \in Disk |-> "none"]
  /\ iscsid = FALSE
  /\ pc = [c \in Cluster |-> "idle"]
  /\ run = [c \in Cluster |-> NoRun]
  /\ faults = 0
  /\ spoiled = {}

At(c, s) == pc[c] = s

Goto(c, s) == pc' = [pc EXCEPT ![c] = s]

Settle(c, r) == run' = [run EXCEPT ![c] = r]

Fault(f) == f \in Faults /\ faults < MaxFaults /\ faults' = faults + 1

-----------------------------------------------------------------------------
(* What a run reads of the host. *)

(* iscsiDiskList: the disks of c for a shape of n. *)
Grid(c, n) == {<<c, i>> : i \in 1 .. n}

(* The object stands in the way of every new one. *)
Orphan(o) == obj[o] # "none" /\ o \notin img

(* Mutant of MissingTo: what cannot be looked at counts for missing. *)
MutMissingTo(c, o) ==
  o \notin img \/ (o \in Disk /\ o[1] # c /\ place[o[1]] = "hidden")

(* A stat by a run of c can tell: only a path that is definitely missing counts. *)
MissingTo(c, o) ==
  o \notin img /\ (o \in Disk => o[1] = c \/ place[o[1]] # "hidden")

(* findLIOOrphans. *)
Orphans(c) == {o \in Object : obj[o] # "none" /\ MissingTo(c, o)}

(* rooketOwned: exported under a rooket IQN, or backed by a path in the root. *)
Owned(o) == o \in Disk /\ (tgt[o] = "lun" \/ place[o[1]] # "elsewhere")

(* allISCSIDevicesPresent: the links resolve, whatever is behind them. *)
Present(ds) == \A d \in ds : ses[d] \in {"live", "dead"}

(* Mutant of Named: the kernel is not asked. *)
MutNamed(c, n, blind) == Grid(c, n) \cup {d \in DisksOf(c) : d \in img}

(* teardownDisks: the grid, the images found, and what the kernel holds. *)
Named(c, n, blind) ==
  Grid(c, n) \cup {d \in DisksOf(c) : d \in img}
    \cup IF blind THEN {} ELSE {d \in DisksOf(c) : obj[d] # "none" \/ tgt[d] # "none"}

-----------------------------------------------------------------------------
(* The scripts. *)

Try(op, o) == [op |-> op, of |-> o, fatal |-> FALSE]
Must(op, o) == [op |-> op, of |-> o, fatal |-> TRUE]

(* The steps of a script. *)
Within(script) == UNION {Range(script[i]) : i \in DOMAIN script}

(* steps[o] for the objects of its domain, one object after the other. *)
InTurn(steps) ==
  LET seq == SetToSeq(DOMAIN steps)
  IN [i \in 1 .. Cardinality(DOMAIN steps) |-> steps[seq[i]]]

(* Mutant of RepairSteps: the targets are left to export what is deleted. *)
MutRepairSteps(os) ==
  IF os = {} THEN <<>>
  ELSE <<<<Must("start", Foreign)>>>> \o InTurn([o \in os |-> <<Must("unback", o)>>])

(* buildLIORepairSteps. *)
RepairSteps(os) ==
  IF os = {} THEN <<>>
  ELSE <<<<Must("start", Foreign)>>>> \o
       InTurn([o \in os |->
                 IF tgt[o] = "lun"
                 THEN <<Try("logout", o), Try("untarget", o), Must("unback", o)>>
                 ELSE <<Must("unback", o)>>])

(* buildISCSISteps. *)
SetupSteps(ds) ==
  <<<<Must("start", Foreign)>>>>
    \o InTurn([d \in ds |-> <<Try("back", d), Try("target", d), Try("lun", d)>>])
    \o <<<<Must("login", Foreign)>>>>
    \o InTurn([d \in ds |-> <<Try("rescan", d)>>])

(* buildISCSITeardownSteps. *)
TeardownSteps(ds) ==
  InTurn([d \in ds |-> <<Try("logout", d)>>])
    \o InTurn([d \in ds |-> <<Try("untarget", d), Try("unback", d)>>])
    \o <<<<Must("save", Foreign)>>>>

(* Whether the command succeeds, by what targetcli and iscsiadm refuse. *)
Works(s) ==
  LET o == s.of IN
  CASE s.op \in {"start", "save"} -> TRUE
    [] s.op \in {"logout", "login"} -> iscsid
    [] s.op = "rescan" -> iscsid /\ ses[o] # "none"
    [] s.op = "untarget" -> tgt[o] # "none"
    [] s.op = "unback" -> obj[o] # "none" /\ tgt[o] # "lun"
    [] s.op = "back" -> obj[o] = "none" /\ \A x \in Object : ~Orphan(x)
    [] s.op = "target" -> tgt[o] = "none"
    [] s.op = "lun" -> tgt[o] = "bare" /\ obj[o] # "none"

(* A session as the command leaves it: one with a target that is made anew
   recovers by itself; login is to every target the host has. *)
SessionAfter(s, d) ==
  CASE s.op = "logout" /\ d = s.of -> "none"
    [] s.op = "untarget" /\ d = s.of /\ ses[d] = "live" -> "dead"
    [] s.op = "lun" /\ d = s.of /\ ses[d] = "dead" -> "live"
    [] s.op = "login" /\ ses[d] = "none" /\ tgt[d] # "none" ->
         IF tgt[d] = "lun" THEN "live" ELSE "empty"
    [] s.op = "rescan" /\ d = s.of /\ ses[d] = "empty" /\ tgt[d] = "lun" -> "live"
    [] OTHER -> ses[d]

Apply(s) ==
  LET o == s.of IN
  /\ img' = IF s.op = "back" THEN img \cup {o} ELSE img
  /\ obj' = CASE s.op = "back" -> [obj EXCEPT ![o] = "image"]
              [] s.op = "unback" -> [obj EXCEPT ![o] = "none"]
              [] OTHER -> obj
  /\ tgt' = CASE s.op = "target" -> [tgt EXCEPT ![o] = "bare"]
              [] s.op = "lun" -> [tgt EXCEPT ![o] = "lun"]
              [] s.op = "untarget" -> [tgt EXCEPT ![o] = "none"]
              [] OTHER -> tgt
  /\ ses' = [d \in Disk |-> SessionAfter(s, d)]
  /\ iscsid' = (iscsid \/ s.op = "start")
  /\ spoiled' = spoiled \cup {d \in Disk : ses'[d] = "dead"}

(* The files are deleted: an object keeps the one it had. *)
Unlink(os) ==
  /\ img' = img \ os
  /\ obj' = [o \in Object |-> IF o \in os /\ obj[o] = "image" THEN "stale" ELSE obj[o]]
  /\ spoiled' = spoiled \cup {d \in Disk \cap os : obj[d] # "none"}
  /\ UNCHANGED <<tgt, ses>>

-----------------------------------------------------------------------------
(* The runs. *)

(* Nothing of d is left in the kernel, nor named in another run's script. *)
Fresh(c, d) ==
  /\ d[1] = c /\ obj[d] = "none" /\ tgt[d] = "none" /\ ses[d] = "none"
  /\ \A e \in Cluster \ {c} :
       \A s \in Within(run[e].todo) \cup Within(run[e].again) : s.of # d

(* blockSetupRunTo makes the missing images before it looks at the kernel. *)
StartSetup(c) ==
  /\ At(c, "idle")
  /\ \E n \in 1 .. Most[c] :
       /\ Settle(c, [NoRun EXCEPT !.disks = Grid(c, n)])
       /\ img' = img \cup Grid(c, n)
  /\ Goto(c, "look")
  /\ spoiled' = {d \in spoiled : ~Fresh(c, d)}
  /\ UNCHANGED <<place, obj, tgt, ses, iscsid, faults>>

(* Every device is there, and nothing is to be done as root. *)
Skip(c) ==
  /\ At(c, "look")
  /\ Present(run[c].disks)
  /\ Goto(c, "script")
  /\ UNCHANGED <<place, kernel, iscsid, run, faults, spoiled>>

(* lioRepairSteps, on orphans that are not rooket's to remove. *)
Blocked(c) ==
  /\ \E o \in Orphans(c) : ~Owned(o)
  /\ \E d \in run[c].disks : obj[d] = "none"

Refuse(c) ==
  /\ At(c, "look")
  /\ ~Present(run[c].disks)
  /\ Blocked(c)
  /\ Goto(c, "failed")
  /\ UNCHANGED <<place, kernel, iscsid, run, faults, spoiled>>

Begin(c, r, script) ==
  /\ \E sudo \in BOOLEAN :
       Settle(c, [r EXCEPT !.todo = script, !.again = IF sudo THEN script ELSE <<>>])
  /\ Goto(c, "script")

(* The repair is put ahead of the setup; without a view of the kernel there is
   none. *)
Plan(c) ==
  LET r == run[c] IN
  /\ At(c, "look")
  /\ ~Present(r.disks)
  /\ \/ /\ ~Blocked(c)
        /\ Begin(c, r, RepairSteps({o \in Orphans(c) : Owned(o)}) \o SetupSteps(r.disks))
        /\ UNCHANGED faults
     \/ Fault("read") /\ Begin(c, r, SetupSteps(r.disks))
  /\ UNCHANGED <<place, kernel, iscsid, spoiled>>

(* blockTeardownRun, for the shape on record or on its command line, or none. *)
StartTeardown(c) ==
  /\ At(c, "idle")
  /\ \E n \in 0 .. Most[c], b, del \in BOOLEAN :
       LET ds == Named(c, n, b)
           r == [NoRun EXCEPT !.cmd = "teardown", !.disks = ds, !.delete = del,
                              !.blind = b]
       IN
       /\ IF b THEN Fault("read") ELSE UNCHANGED faults
       /\ IF ds = {} THEN Settle(c, r) /\ Goto(c, "done")
                     ELSE Begin(c, r, TeardownSteps(ds))
  /\ UNCHANGED <<place, kernel, iscsid, spoiled>>

InScript(c) == At(c, "script") /\ run[c].todo # <<>>

Current(c) == Head(Head(run[c].todo))

(* The script without its first step. *)
Rest(script) ==
  IF Len(Head(script)) = 1 THEN Tail(script)
                           ELSE <<Tail(Head(script))>> \o Tail(script)

Advance(c, warned) ==
  Settle(c, [run[c] EXCEPT !.todo = Rest(@), !.warned = @ \cup warned])

(* A step that does not work: runSteps goes on past it, or stops; runPrivileged
   then runs the whole script once more through pkexec, if that was not how it
   was run. *)
Falter(c) ==
  IF ~Current(c).fatal
  THEN /\ Advance(c, IF Current(c).op \in {"untarget", "unback"} THEN {Current(c).of}
                     ELSE {})
       /\ UNCHANGED pc
  ELSE IF run[c].again # <<>>
  THEN /\ Settle(c, [run[c] EXCEPT !.todo = run[c].again, !.again = <<>>, !.warned = {}])
       /\ UNCHANGED pc
  ELSE Goto(c, "failed") /\ UNCHANGED run

Step(c) ==
  /\ InScript(c)
  /\ IF Works(Current(c))
     THEN Apply(Current(c)) /\ Advance(c, {}) /\ UNCHANGED pc
     ELSE Falter(c) /\ UNCHANGED <<kernel, iscsid, spoiled>>
  /\ UNCHANGED <<place, faults>>

StepFails(c) ==
  /\ Fault("step")
  /\ InScript(c)
  /\ Falter(c)
  /\ UNCHANGED <<place, kernel, iscsid, spoiled>>

Through(c, cmd) == At(c, "script") /\ ~InScript(c) /\ run[c].cmd = cmd

(* With --delete-disks the images of every disk named go, last of all. *)
EndTeardown(c) ==
  /\ Through(c, "teardown")
  /\ IF run[c].delete THEN Unlink(run[c].disks) ELSE UNCHANGED <<kernel, spoiled>>
  /\ Goto(c, "done")
  /\ UNCHANGED <<place, iscsid, run, faults>>

(* Mutant of Wait: what is missing is only warned of. *)
MutWait(c) ==
  /\ Through(c, "setup")
  /\ Goto(c, "done")
  /\ UNCHANGED <<place, kernel, iscsid, run, faults, spoiled>>

(* waitForISCSIDevice, for each: links that are to appear do so in time. *)
Wait(c) ==
  /\ Through(c, "setup")
  /\ Goto(c, IF Present(run[c].disks) THEN "done" ELSE "failed")
  /\ UNCHANGED <<place, kernel, iscsid, run, faults, spoiled>>

End(c) == Goto(c, "idle") /\ Settle(c, NoRun)

Finish(c) ==
  /\ pc[c] \in {"done", "failed"}
  /\ End(c)
  /\ UNCHANGED <<place, kernel, iscsid, faults, spoiled>>

-----------------------------------------------------------------------------
(* What else happens. *)

Crash(c) ==
  /\ Fault("crash")
  /\ ~At(c, "idle")
  /\ End(c)
  /\ UNCHANGED <<place, kernel, iscsid, spoiled>>

(* Someone clears a state directory, or the foreign object's file goes. *)
RemoveFiles ==
  /\ Fault("rm")
  /\ \E os \in {DisksOf(c) : c \in Cluster} \cup {{Foreign}} :
       os \cap img # {} /\ Unlink(os)
  /\ UNCHANGED <<place, iscsid, pc, run>>

StopIscsid ==
  /\ Fault("iscsid")
  /\ iscsid /\ iscsid' = FALSE
  /\ UNCHANGED <<place, kernel, pc, run, spoiled>>

(* Its owner brings the foreign object's file back. *)
Restore ==
  /\ Foreign \notin img
  /\ img' = img \cup {Foreign}
  /\ UNCHANGED <<place, obj, tgt, ses, iscsid, pc, run, faults, spoiled>>

-----------------------------------------------------------------------------
SettingUp(c) ==
  Skip(c) \/ Refuse(c) \/ Plan(c) \/ Step(c) \/ Wait(c) \/ Finish(c)

RunStep(c) ==
  \/ StartSetup(c) \/ SettingUp(c) \/ StepFails(c)
  \/ StartTeardown(c) \/ EndTeardown(c) \/ Crash(c)

Next ==
  \/ \E c \in Cluster : RunStep(c)
  \/ RemoveFiles \/ StopIscsid \/ Restore

Spec == Init /\ [][Next]_vars

(* A run goes on by itself. *)
FairSpec == Spec /\ \A c \in Cluster : WF_vars(SettingUp(c) \/ EndTeardown(c))

-----------------------------------------------------------------------------
(* A step of c's run. *)
Acts(c) == <<pc[c], run[c]>>' # <<pc[c], run[c]>>

(* "Removing it would destroy a stranger's storage": the runs of a cluster, and
   their repairs, do nothing to a foreign object, nor to the disks of another
   cluster that have always had their images, wherever those are. *)
SparesTheHealthy ==
  [][\A c \in Cluster, o \in Object :
       Acts(c) /\ (o \in Disk => o[1] # c /\ o \notin spoiled') =>
         /\ obj'[o] = obj[o] /\ tgt'[o] = tgt[o]
         /\ o \in Disk /\ ses[o] = "live" => ses'[o] = "live"]_vars

(* A setup that succeeds has attached every disk it was asked for to that disk's
   image, whatever the runs of other clusters did to the kernel meanwhile; what
   was deleted under an object or a session aside. *)
AttachedToItsImage ==
  \A c \in Cluster : At(c, "done") /\ run[c].cmd = "setup" =>
    \A d \in run[c].disks \ spoiled :
      d \in img /\ obj[d] = "image" /\ tgt[d] = "lun" /\ ses[d] = "live"

(* teardownDisks "deliberately over-collects": whatever shape it was told, a
   teardown that could read the kernel's configuration leaves no object and no
   target of the cluster but those it warned of. *)
TornDownWhole ==
  \A c \in Cluster : At(c, "done") /\ run[c].cmd = "teardown" /\ ~run[c].blind =>
    \A d \in DisksOf(c) \ run[c].warned :
      obj[d] = "none" /\ tgt[d] = "none" /\ (run[c].delete => d \notin img)

(* The repair is enough: whatever is left on the host of runs that failed, were
   killed, or lost their images, a cluster that is set up again and again on a
   quiet host gets its devices, unless an orphan is not rooket's to remove or
   out of its sight. *)
Quiet(c) ==
  <>[][Acts(c) /\ run'[c].cmd = "setup" /\ UNCHANGED faults]_vars

Clearable(c) == \A o \in Object : Orphan(o) => o \in Orphans(c) /\ Owned(o)

RepairIsEnough ==
  \A c \in Cluster :
    Quiet(c) /\ <>[]Clearable(c) /\ []<>At(c, "look") => []<>At(c, "done")

(* "An orphan left in place guarantees every create in this run fails, so
   stopping here": a repair only stops a run over an object that is still
   there. *)
RepairStopsOnlyOnOrphans ==
  [][\A c \in Cluster :
       InScript(c) /\ pc'[c] = "failed" /\ Current(c).op = "unback"
         => obj[Current(c).of] # "none"]_vars
-----------------------------------------------------------------------------
(* What makes these inductive. *)

(* What has a device is exported, what is not over its image or was deleted
   under a session is known, and so is all that a repair is for. *)
DisksAreKnown ==
  \A d \in Disk :
    /\ ses[d] = "live" => tgt[d] = "lun"
    /\ ses[d] = "dead" \/ obj[d] = "stale" => d \in spoiled

(* A step of c's run that leaves foreign objects alone, and of other clusters does
   no more than take away what has lost its image. *)
Spares(c, s) ==
  /\ s.of = Foreign => s.op \in {"start", "save", "login"}
  /\ s.of \in Disk /\ s.of[1] # c =>
       s.of \in spoiled /\ s.op \in {"logout", "untarget", "unback"}

ScriptsSpare ==
  \A c \in Cluster : \A s \in Within(run[c].todo) \cup Within(run[c].again) : Spares(c, s)

(* A run names disks of its own cluster. *)
NamesItsOwn == \A c \in Cluster : run[c].disks \subseteq DisksOf(c)

(* A setup that has waited for its devices has them. *)
DevicesArePresent ==
  \A c \in Cluster : At(c, "done") /\ run[c].cmd = "setup" =>
    Present(run[c].disks \ spoiled)

(* The step of that name on d is still in the script. *)
Due(script, op, d) == \E s \in Within(script) : s.op = op /\ s.of = d

(* What is left of d in the kernel is still to be deleted by c's run, or it has
   warned of it. *)
IsDeleted(c, d) ==
  /\ tgt[d] = "none" \/ d \in run[c].warned \/ Due(run[c].todo, "untarget", d)
  /\ obj[d] = "none" \/ d \in run[c].warned \/ Due(run[c].todo, "unback", d)

(* A teardown makes nothing.  It has named all there is of its cluster and will
   have deleted it; and what it may run once more would delete all it named. *)
TearsDown(c) ==
  /\ ~At(c, "look")
  /\ \A s \in Within(run[c].todo) \cup Within(run[c].again) :
       s.op \notin {"back", "target", "lun"}
  /\ run[c].again # <<>> => \A d \in run[c].disks : Due(run[c].again, "untarget", d)
                                                   /\ Due(run[c].again, "unback", d)
  /\ \A d \in DisksOf(c) \ run[c].disks :
       d \notin img /\ (~run[c].blind => obj[d] = "none" /\ tgt[d] = "none")
  /\ ~run[c].blind => \A d \in run[c].disks : IsDeleted(c, d)
  /\ At(c, "done") =>
       run[c].todo = <<>> /\ (run[c].delete => run[c].disks \cap img = {})

TeardownsAreWhole == \A c \in Cluster : run[c].cmd = "teardown" => TearsDown(c)

IInv ==
  /\ TypeOK
  /\ DisksAreKnown
  /\ ScriptsSpare
  /\ NamesItsOwn
  /\ DevicesArePresent
  /\ TeardownsAreWhole

=============================================================================
