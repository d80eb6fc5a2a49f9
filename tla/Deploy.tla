------------------------------- MODULE Deploy -------------------------------
(***************************************************************************)
(* rooket deploy, deploy operator and deploy cluster on one cluster: what   *)
(* is settled once for the whole deploy, the helm releases in their order,  *)
(* and what the kubelets make of the operator's Deployment, between builds  *)
(* that push to the registry.  The cluster's lock, module Flock, keeps      *)
(* builds and deploys apart.                                                *)
(***************************************************************************)
EXTENDS Naturals

CONSTANTS
  Tag,       \* image tags: the branches of the clone
  Digest,    \* contents that a build may push
  Node,      \* nodes of the cluster
  Version,   \* released Rooks
  Clone,     \* the source that is no released Rook
  Modern,    \* the sources that need the ceph-csi-drivers chart
  Profile,
  Templated, \* the profiles that have templates of their own
  Home,      \* the configuration home, that may have some too
  None,
  Attempts,  \* how often the drivers chart is tried
  Faults,    \* what may go wrong or be changed, a subset of AllFaults
  MaxFaults  \* bound on how often something is

(* evict: the operator's pod is gone.  helm: helm fails.  probe: the registry
   does not answer in time.  edit: the home's templates appear or go.  select:
   the profile selection is edited.  switch: another branch is checked out. *)
AllFaults == {"edit", "evict", "helm", "probe", "select", "switch"}

Source == Version \cup {Clone}

ASSUME SourceAssumption == Clone \notin Version /\ Modern \subseteq Source
ASSUME ProfileAssumption == Templated \subseteq Profile /\ Home \notin Profile
ASSUME NoneAssumption == None \notin Digest \cup Tag \cup Source
ASSUME BoundAssumption ==
  Attempts \in Nat \ {0} /\ Faults \subseteq AllFaults /\ MaxFaults \in Nat

VARIABLES
  branch,    \* what is checked out in the clone
  wanted,    \* the profiles its configuration selects
  local,     \* the configuration home has templates
  record,    \* the cluster's record of its source
  registry,  \* registry[t]: what the tag t names there
  cached,    \* cached[n][t]: what it names on the node n
  template,  \* the pod template of the operator, or None
  pod,       \* the operator's pod, or None
  served,    \* the CRDs the operator chart brings: "no", "soon" or "yes"
  release,   \* release[h]: what the chart h was last installed from, or None
  pc,        \* where the deploy is
  job,       \* the deploy under way
  moved,     \* history: the tag of the template was pushed again since its deploy
  faults     \* history: how often something went wrong or was changed

user == <<branch, wanted, local>>
images == <<registry, cached, pod, moved>>
vars == <<user, record, images, template, served, release, pc, job, faults>>

Chart == {"operator", "drivers", "cluster", "profiles"}

PC == {"idle", "operator", "drivers", "cluster", "profiles", "done"}

(* digest: the annotation that pins the pods to a content, with which they
   always pull; without it an image that the node has is taken. *)
Template == [source : Source, tag : Tag \cup {None}, digest : Digest \cup {None}]

(* what: the operator, the cluster or both; try: attempts at the drivers. *)
Job == [what : {"operator", "cluster", "all"}, source : Source,
        active : SUBSET Profile, try : 0 .. Attempts - 1]

(* with: the profiles whose values or templates went into it, and the home if
   its templates did. *)
Release == [source : Source, with : SUBSET (Profile \cup {Home})]

ASSUME NoneIsNothing == None \notin Job \cup Release

TypeOK ==
  /\ branch \in Tag
  /\ wanted \in SUBSET Profile
  /\ local \in BOOLEAN
  /\ record \in Source
  /\ registry \in [Tag -> Digest \cup {None}]
  /\ cached \in [Node -> [Tag -> Digest \cup {None}]]
  /\ template \in Template \cup {None}
  /\ pod \in [template : Template, image : Digest \cup Version, late : BOOLEAN] \cup {None}
  /\ served \in {"no", "soon", "yes"}
  /\ release \in [Chart -> Release \cup {None}]
  /\ pc \in PC
  /\ job \in Job \cup {None}
  /\ moved \in BOOLEAN
  /\ faults \in 0 .. MaxFaults

Init ==
  /\ branch \in Tag
  /\ wanted \in SUBSET Profile
  /\ local \in BOOLEAN
  /\ record = Clone
  /\ registry = [t \in Tag |-> None]
  /\ cached = [n \in Node |-> registry]
  /\ template = None
  /\ pod = None
  /\ served = "no"
  /\ release = [h \in Chart |-> None]
  /\ pc = "idle"
  /\ job = None
  /\ moved = FALSE
  /\ faults = 0

Fault(f) == f \in Faults /\ faults < MaxFaults /\ faults' = faults + 1

-----------------------------------------------------------------------------
(* The deploy. *)

(* deploySetup: the source is a version given, or the record, and becomes the
   record; the profiles are read here and nowhere else. *)
StartDeploy(what, source) ==
  /\ pc = "idle"
  /\ record' = source
  /\ job' = [what |-> what, source |-> source, active |-> wanted, try |-> 0]
  /\ pc' = IF what = "cluster" THEN "cluster" ELSE "operator"
  /\ UNCHANGED <<user, images, template, served, release, faults>>

(* Mutant of Installed: the selection is read again for each chart. *)
MutInstalled(h) ==
  release' = [release EXCEPT ![h] = [source |-> job.source, with |-> wanted]]

Installed(h) ==
  release' = [release EXCEPT ![h] = [source |-> job.source, with |-> job.active]]

(* helm fails, and the deploy with it. *)
HelmFails ==
  /\ pc \notin {"idle", "drivers", "done"} /\ Fault("helm")
  /\ pc' = "idle" /\ job' = None
  /\ UNCHANGED <<user, record, images, template, served, release>>

(* digestOrEmpty: nothing under the tag and no answer read the same. *)
Pins(digest) ==
  \/ digest = registry[branch] /\ UNCHANGED faults
  \/ digest = None /\ Fault("probe")

TemplateOf(digest) ==
  IF job.source = Clone
  THEN [source |-> Clone, tag |-> branch, digest |-> digest]
  ELSE [source |-> job.source, tag |-> None, digest |-> None]

(* Mutant of ServedAfter: the CRDs are deleted and made anew. *)
MutServedAfter == "soon"

(* The chart is upgraded in place; its CRDs are not served at once. *)
ServedAfter == IF served = "no" THEN "soon" ELSE served

(* installRookCephOperator, up to the drivers. *)
InstallOperator ==
  /\ pc = "operator"
  /\ \E digest \in Digest \cup {None} :
       /\ IF job.source = Clone THEN Pins(digest) ELSE digest = None /\ UNCHANGED faults
       /\ template' = TemplateOf(digest)
  /\ Installed("operator")
  /\ moved' = FALSE
  /\ served' = ServedAfter
  /\ pc' = IF job.source \in Modern THEN "drivers"
           ELSE IF job.what = "all" THEN "cluster" ELSE "done"
  /\ UNCHANGED <<user, record, registry, cached, pod, job>>

(* installCephCsiDrivers: an attempt that fails is followed by another, which
   finds the CRDs there or not; the last one fails the deploy. *)
TryDrivers ==
  /\ pc = "drivers"
  /\ \/ /\ served = "yes"
        /\ Installed("drivers")
        /\ pc' = IF job.what = "all" THEN "cluster" ELSE "done"
        /\ UNCHANGED <<job, faults>>
     \/ /\ \/ served # "yes" /\ UNCHANGED faults
           \/ Fault("helm")
        /\ IF job.try + 1 = Attempts
           THEN pc' = "idle" /\ job' = None
           ELSE job' = [job EXCEPT !.try = @ + 1] /\ UNCHANGED pc
        /\ UNCHANGED release
  /\ UNCHANGED <<user, record, images, template, served>>

(* installRookCephCluster: helm refuses kinds that are not served, and here
   nothing tries again. *)
InstallCluster ==
  /\ pc = "cluster"
  /\ IF served = "yes"
     THEN Installed("cluster") /\ pc' = "profiles" /\ UNCHANGED job
     ELSE pc' = "idle" /\ job' = None /\ UNCHANGED release
  /\ UNCHANGED <<user, record, images, template, served, faults>>

(* profileSources: whoever has templates; the home's are read here, after the
   other charts. *)
Contributors == (job.active \cap Templated) \cup (IF local THEN {Home} ELSE {})

(* installProfilesChart: with nobody's templates its release is uninstalled. *)
InstallProfiles ==
  /\ pc = "profiles"
  /\ release' = [release EXCEPT !["profiles"] =
                   IF Contributors = {} THEN None
                   ELSE [source |-> job.source, with |-> Contributors]]
  /\ pc' = "done"
  /\ UNCHANGED <<user, record, images, template, served, job, faults>>

Finish ==
  /\ pc = "done"
  /\ pc' = "idle" /\ job' = None
  /\ UNCHANGED <<user, record, images, template, served, release, faults>>

-----------------------------------------------------------------------------
(* Around it. *)

(* A build of the branch is pushed. *)
Push(d) ==
  /\ pc = "idle" /\ registry[branch] # d
  /\ registry' = [registry EXCEPT ![branch] = d]
  /\ moved' = (template # None /\ (template.tag = branch \/ moved))
  /\ UNCHANGED <<user, record, cached, pod, template, served, release, pc, job, faults>>

Switch ==
  /\ Fault("switch")
  /\ branch' \in Tag \ {branch}
  /\ UNCHANGED <<wanted, local, record, images, template, served, release, pc, job>>

Select ==
  /\ Fault("select")
  /\ wanted' \in SUBSET Profile \ {wanted}
  /\ UNCHANGED <<branch, local, record, images, template, served, release, pc, job>>

EditHome ==
  /\ Fault("edit")
  /\ local' = ~local
  /\ UNCHANGED <<branch, wanted, record, images, template, served, release, pc, job>>

(* The apiserver has got to the CRDs. *)
Establish ==
  /\ served = "soon"
  /\ served' = "yes"
  /\ UNCHANGED <<user, record, images, template, release, pc, job, faults>>

(* Mutant of PullsAlways: the pull policy is left to the chart. *)
MutPullsAlways == FALSE

(* Else the chart's IfNotPresent stands. *)
PullsAlways == template.digest # None

(* What the node n runs for the template. *)
ImageFor(n) ==
  IF template.source # Clone THEN template.source
  ELSE IF ~PullsAlways /\ cached[n][template.tag] # None
  THEN cached[n][template.tag] ELSE registry[template.tag]

IsCurrent == pod # None /\ pod.template = template

(* A node starts a pod of the template, in the place of the one there is;
   late is history. *)
StartPod(n) ==
  /\ template # None /\ ~IsCurrent
  /\ ImageFor(n) # None
  /\ pod' = [template |-> template, image |-> ImageFor(n), late |-> moved]
  /\ cached' = IF template.source # Clone THEN cached
               ELSE [cached EXCEPT ![n][template.tag] = ImageFor(n)]
  /\ UNCHANGED <<user, record, registry, moved, template, served, release, pc, job, faults>>

Evict ==
  /\ pod # None /\ Fault("evict")
  /\ pod' = None
  /\ UNCHANGED <<user, record, registry, cached, moved, template, served, release, pc, job>>

Deploys(what) == \E source \in Version \cup {record} : StartDeploy(what, source)

Step == HelmFails \/ InstallOperator \/ TryDrivers \/ InstallCluster
          \/ InstallProfiles \/ Finish

Next ==
  \/ \E what \in {"operator", "cluster", "all"} : Deploys(what)
  \/ Step
  \/ \E d \in Digest : Push(d)
  \/ Switch \/ Select \/ EditHome \/ Establish \/ Evict
  \/ \E n \in Node : StartPod(n)

Spec == Init /\ [][Next]_vars

(* A deploy goes on until it ends, the apiserver gets to the CRDs, and deploy
   is run again and again. *)
Fairness == WF_vars(Step) /\ WF_vars(Establish) /\ SF_vars(Deploys("all"))

FairSpec == Spec /\ Fairness

-----------------------------------------------------------------------------
(* Properties. *)

(* The operator runs the content its deploy found under the tag, whatever its
   nodes have cached: values/base.go pins the digest and pulls always for the
   roll to matter.  A pod that starts after the tag was pushed again runs what
   was pushed: the digest is an annotation, and the image is named by the tag. *)
NeverStale ==
  IsCurrent /\ template.digest # None /\ ~pod.late => pod.image = template.digest

Through == pc = "done" /\ job.what = "all"

(* Of the active profiles the release of templates has those of all that have
   any, and it is gone if neither they nor the home had one; whether the home
   is among them is decided when it is installed. *)
TemplatesAreOfJob ==
  LET own == job.active \cap Templated
      installed == release["profiles"]
  IN IF installed = None THEN own = {}
     ELSE /\ installed.source = job.source
          /\ installed.with # {} /\ installed.with \ {Home} = own

(* What a deploy leaves is of a piece: its releases are from one source and
   one selection of profiles, though the configuration is edited meanwhile,
   no profile is left over, and the record names the source. *)
OfAPiece ==
  Through =>
    /\ record = job.source /\ template.source = job.source
    /\ \A h \in {"operator", "cluster"} \cup
                ({"drivers"} \cap (IF job.source \in Modern THEN Chart ELSE {})) :
         release[h] = [source |-> job.source, with |-> job.active]
    /\ TemplatesAreOfJob

(* Deploy run again and again gets through, whatever the earlier ones left
   behind and however long the CRDs took. *)
DeployIsReached == []<>Through

-----------------------------------------------------------------------------
(* What makes the safety properties inductive. *)

(* What a template pins is a content of the tag it names, which nobody pushed
   again since if it has not moved. *)
TemplateIsPinned ==
  template # None =>
    /\ template.source = Clone => template.tag \in Tag
    /\ template.digest # None =>
         /\ template.source = Clone
         /\ moved \/ registry[template.tag] = template.digest

(* A pod has what its own template pins, whichever the template is now. *)
PodIsPinned ==
  pod # None /\ pod.template.digest # None /\ ~pod.late =>
    pod.image = pod.template.digest

(* The deploy under way has its source on record, and goes through the stages
   of what it was asked for. *)
JobFollows ==
  /\ pc = "idle" <=> job = None
  /\ pc # "idle" => job \in Job /\ record = job.source
  /\ pc \in {"operator", "drivers"} => job.what # "cluster"
  /\ pc \in {"cluster", "profiles"} => job.what # "operator"

OfJob == [source |-> job.source, with |-> job.active]

(* What the stages that are behind it have left. *)
StagesAreThrough ==
  /\ pc \in {"drivers", "cluster", "profiles", "done"} /\ job.what # "cluster" =>
       template.source = job.source /\ release["operator"] = OfJob
  /\ pc \in {"cluster", "profiles", "done"} /\ job.what = "all"
       /\ job.source \in Modern => release["drivers"] = OfJob
  /\ pc \in {"profiles", "done"} /\ job.what # "operator" =>
       release["cluster"] = OfJob
  /\ pc = "done" /\ job.what # "operator" => TemplatesAreOfJob

IInv ==
  /\ TypeOK
  /\ TemplateIsPinned
  /\ PodIsPinned
  /\ JobFollows
  /\ StagesAreThrough
=============================================================================
