--------------------------- MODULE Rollout_proofs ---------------------------
(***************************************************************************)
(* Theorems about Deploy and about Wait, which share no state.  Deploy: for *)
(* any number of branches, nodes, versions and profiles, and any faults     *)
(* however often they come; IInv is inductive; that the operator is never   *)
(* stale and a deploy of a piece follow from it.  Wait: for any interval,   *)
(* timeout and budgets, and however often the cluster loses a condition.    *)
(***************************************************************************)
EXTENDS Deploy, Wait, TLAPS

(* It holds at first. *)
LEMMA InitIInv == Init => IInv
<1> SUFFICES ASSUME Init PROVE IInv
  OBVIOUS
<1>1. TypeOK
  <2>1. branch \in Tag /\ wanted \in SUBSET Profile /\ record \in Source
    BY DEF Init, Source
  <2>2. registry \in [Tag -> Digest \cup {None}]
    BY DEF Init
  <2>3. cached \in [Node -> [Tag -> Digest \cup {None}]]
    BY <2>2 DEF Init
  <2>4. release \in [Chart -> Release \cup {None}]
    BY DEF Init
  <2>5. faults \in 0 .. MaxFaults
    BY BoundAssumption DEF Init
  <2> QED BY <2>1, <2>2, <2>3, <2>4, <2>5 DEF Init, TypeOK, PC
<1>2. TemplateIsPinned /\ PodIsPinned /\ JobFollows /\ StagesAreThrough
  BY DEF Init, TemplateIsPinned, PodIsPinned, JobFollows, StagesAreThrough
<1> QED BY <1>1, <1>2 DEF IInv

(* An install is of one release. *)
LEMMA InstallIsOfOne ==
  ASSUME TypeOK, NEW h \in Chart, Installed(h)
  PROVE  release'[h] = OfJob /\ \A k \in Chart \ {h} : release'[k] = release[k]
BY DEF TypeOK, Installed, OfJob

(* And it leaves a release of the chart. *)
LEMMA InstallIsARelease ==
  ASSUME TypeOK, job \in Job, NEW h \in Chart, Installed(h)
  PROVE  release' \in [Chart -> Release \cup {None}]
<1>1. OfJob \in Release
  BY DEF OfJob, Job, Release
<1>2. release' = [release EXCEPT ![h] = OfJob]
  BY DEF Installed, OfJob
<1> QED BY <1>1, <1>2 DEF TypeOK

(* The types are kept, the pod's by what its template is. *)
LEMMA TypeIsKept == IInv /\ [Next]_vars => TypeOK'
<1> SUFFICES ASSUME IInv, [Next]_vars PROVE TypeOK'
  OBVIOUS
<1> USE DEF IInv
<1>1. ASSUME NEW what \in {"operator", "cluster", "all"},
             NEW source \in Version \cup {record}, StartDeploy(what, source)
      PROVE  TypeOK'
  BY <1>1, BoundAssumption DEF StartDeploy, TypeOK, PC, user, images, Job, Source
<1>2. ASSUME NEW d \in Digest, Push(d)
      PROVE  TypeOK'
  <2>1. registry' \in [Tag -> Digest \cup {None}]
    BY <1>2 DEF Push, TypeOK
  <2>2. moved' \in BOOLEAN
    BY <1>2 DEF Push, TypeOK
  <2> QED BY <1>2, <2>1, <2>2 DEF Push, TypeOK, user
<1>3. ASSUME NEW n \in Node, StartPod(n)
      PROVE  TypeOK'
  <2>1. template \in Template  BY <1>3 DEF StartPod, TypeOK
  <2>2. ImageFor(n) \in Digest \cup Version
    BY <1>3, <2>1, SourceAssumption DEF StartPod, ImageFor, TemplateIsPinned, TypeOK, Template, Source
  <2>3. cached' \in [Node -> [Tag -> Digest \cup {None}]]
    <3>1. CASE template.source # Clone
      BY <1>3, <3>1 DEF StartPod, TypeOK
    <3>2. CASE template.source = Clone
      <4>1. template.tag \in Tag /\ ImageFor(n) \in Digest \cup {None}
        BY <1>3, <3>2 DEF StartPod, TemplateIsPinned, ImageFor, TypeOK
      <4> QED BY <1>3, <3>2, <4>1 DEF StartPod, TypeOK
    <3> QED BY <3>1, <3>2
  <2>4. pod' \in [template : Template, image : Digest \cup Version, late : BOOLEAN]
    BY <1>3, <2>1, <2>2 DEF StartPod, TypeOK
  <2> QED BY <1>3, <2>3, <2>4 DEF StartPod, TypeOK, user
<1>4. CASE HelmFails
  BY <1>4, BoundAssumption DEF HelmFails, Fault, TypeOK, PC, user, images
<1>5. CASE InstallOperator
  <2>1. PICK digest \in Digest \cup {None} :
          template' = TemplateOf(digest) /\ faults' \in 0 .. MaxFaults
    BY <1>5, BoundAssumption DEF InstallOperator, Pins, Fault, TypeOK
  <2>2. job \in Job  BY <1>5 DEF InstallOperator, JobFollows
  <2>3. template' \in Template
    BY <2>1, <2>2 DEF TemplateOf, Template, Job, Source, TypeOK
  <2>4. release' \in [Chart -> Release \cup {None}]
    BY <1>5, <2>2, InstallIsARelease DEF InstallOperator, Chart
  <2>5. served' \in {"no", "soon", "yes"} /\ pc' \in PC /\ moved' \in BOOLEAN
    BY <1>5 DEF InstallOperator, ServedAfter, TypeOK, PC
  <2> QED BY <1>5, <2>1, <2>3, <2>4, <2>5 DEF InstallOperator, TypeOK, user
<1>6. CASE TryDrivers
  <2>1. job \in Job  BY <1>6 DEF TryDrivers, JobFollows
  <2>2. release' \in [Chart -> Release \cup {None}]
    BY <1>6, <2>1, InstallIsARelease DEF TryDrivers, TypeOK, Chart
  <2>3. job' \in Job \cup {None}
    BY <1>6, <2>1, BoundAssumption DEF TryDrivers, TypeOK, Job
  <2>4. pc' \in PC /\ faults' \in 0 .. MaxFaults
    BY <1>6, BoundAssumption DEF TryDrivers, Fault, TypeOK, PC
  <2> QED BY <1>6, <2>2, <2>3, <2>4 DEF TryDrivers, TypeOK, user, images
<1>7. CASE InstallCluster
  <2>1. job \in Job  BY <1>7 DEF InstallCluster, JobFollows
  <2>2. release' \in [Chart -> Release \cup {None}]
    BY <1>7, <2>1, InstallIsARelease DEF InstallCluster, TypeOK, Chart
  <2> QED BY <1>7, <2>2 DEF InstallCluster, TypeOK, PC, user, images
<1>8. CASE InstallProfiles
  <2>1. job \in Job  BY <1>8 DEF InstallProfiles, JobFollows
  <2>2. release' \in [Chart -> Release \cup {None}]
    <3>1. [source |-> job.source, with |-> Contributors] \in Release
      BY <2>1 DEF Contributors, Release, Job
    <3> QED BY <1>8, <3>1 DEF InstallProfiles, TypeOK
  <2> QED BY <1>8, <2>2 DEF InstallProfiles, TypeOK, PC, user, images
<1>9. CASE Finish
  BY <1>9, BoundAssumption DEF Finish, TypeOK, PC, user, images
<1>10. CASE Switch
  BY <1>10, BoundAssumption DEF Switch, Fault, TypeOK, PC, user, images
<1>11. CASE Select
  BY <1>11, BoundAssumption DEF Select, Fault, TypeOK, PC, user, images
<1>11a. CASE EditHome
  BY <1>11a, BoundAssumption DEF EditHome, Fault, TypeOK, PC, user, images
<1>12. CASE Establish
  BY <1>12, BoundAssumption DEF Establish, TypeOK, PC, user, images
<1>13. CASE Evict
  BY <1>13, BoundAssumption DEF Evict, Fault, TypeOK, PC, user, images
<1>14. CASE UNCHANGED vars
  BY <1>14 DEF vars, TypeOK, PC, user, images
<1> QED
  BY <1>1, <1>2, <1>3, <1>4, <1>5, <1>6, <1>7, <1>8, <1>9, <1>10, <1>11, <1>11a, <1>12,
     <1>13, <1>14 DEF Next, Step, Deploys

(* An install pins what the tag names, and a push of the tag is remembered. *)
LEMMA PinIsKept == IInv /\ [Next]_vars => TemplateIsPinned'
<1> SUFFICES ASSUME IInv, [Next]_vars PROVE TemplateIsPinned'
  OBVIOUS
<1> USE DEF IInv
<1>1. ASSUME NEW what \in {"operator", "cluster", "all"},
             NEW source \in Version \cup {record}, StartDeploy(what, source)
      PROVE  TemplateIsPinned'
  BY <1>1 DEF StartDeploy, TemplateIsPinned, user, images
<1>2. ASSUME NEW d \in Digest, Push(d)
      PROVE  TemplateIsPinned'
  <2>1. template' = template  BY <1>2 DEF Push
  <2>2. ASSUME template # None, template.digest # None, ~moved'
        PROVE  registry'[template.tag] = template.digest
    <3>1. template.tag # branch /\ ~moved
      BY <1>2, <2>2 DEF Push
    <3>2. template.tag \in Tag /\ registry[template.tag] = template.digest
      BY <2>2, <3>1 DEF TemplateIsPinned
    <3> QED BY <1>2, <3>1, <3>2 DEF Push, TypeOK
  <2> QED BY <2>1, <2>2 DEF TemplateIsPinned
<1>3. ASSUME NEW n \in Node, StartPod(n)
      PROVE  TemplateIsPinned'
  BY <1>3 DEF StartPod, TemplateIsPinned, user, images
<1>4. CASE HelmFails
  BY <1>4 DEF HelmFails, Fault, TemplateIsPinned, user, images
<1>5. CASE InstallOperator
  <2>1. PICK digest \in Digest \cup {None} :
          /\ template' = TemplateOf(digest)
          /\ job.source = Clone => digest = registry[branch] \/ digest = None
          /\ job.source # Clone => digest = None
    BY <1>5 DEF InstallOperator, Pins
  <2>2. registry' = registry /\ branch \in Tag
    BY <1>5 DEF InstallOperator, TypeOK
  <2> QED BY <2>1, <2>2 DEF TemplateOf, TemplateIsPinned
<1>6. CASE TryDrivers
  BY <1>6 DEF TryDrivers, Fault, TemplateIsPinned, user, images
<1>7. CASE InstallCluster
  BY <1>7 DEF InstallCluster, TemplateIsPinned, user, images
<1>8. CASE InstallProfiles
  BY <1>8 DEF InstallProfiles, TemplateIsPinned, user, images
<1>9. CASE Finish
  BY <1>9 DEF Finish, TemplateIsPinned, user, images
<1>10. CASE Switch
  BY <1>10 DEF Switch, Fault, TemplateIsPinned, user, images
<1>11. CASE Select
  BY <1>11 DEF Select, Fault, TemplateIsPinned, user, images
<1>11a. CASE EditHome
  BY <1>11a DEF EditHome, Fault, TemplateIsPinned, user, images
<1>12. CASE Establish
  BY <1>12 DEF Establish, TemplateIsPinned, user, images
<1>13. CASE Evict
  BY <1>13 DEF Evict, Fault, TemplateIsPinned, user, images
<1>14. CASE UNCHANGED vars
  BY <1>14 DEF vars, TemplateIsPinned, user, images
<1> QED
  BY <1>1, <1>2, <1>3, <1>4, <1>5, <1>6, <1>7, <1>8, <1>9, <1>10, <1>11, <1>11a, <1>12,
     <1>13, <1>14 DEF Next, Step, Deploys

(* A pod starts on what its template pins, and keeps its image. *)
LEMMA PodIsKept == IInv /\ [Next]_vars => PodIsPinned'
<1> SUFFICES ASSUME IInv, [Next]_vars PROVE PodIsPinned'
  OBVIOUS
<1> USE DEF IInv
<1>1. ASSUME NEW what \in {"operator", "cluster", "all"},
             NEW source \in Version \cup {record}, StartDeploy(what, source)
      PROVE  PodIsPinned'
  BY <1>1 DEF StartDeploy, PodIsPinned, user, images
<1>2. ASSUME NEW d \in Digest, Push(d)
      PROVE  PodIsPinned'
  BY <1>2 DEF Push, PodIsPinned, user, images
<1>3. ASSUME NEW n \in Node, StartPod(n)
      PROVE  PodIsPinned'
  <2>1. ASSUME template.digest # None, ~moved PROVE ImageFor(n) = template.digest
    BY <1>3, <2>1 DEF StartPod, ImageFor, PullsAlways, TemplateIsPinned
  <2> QED BY <1>3, <2>1 DEF StartPod, PodIsPinned
<1>4. CASE HelmFails
  BY <1>4 DEF HelmFails, Fault, PodIsPinned, user, images
<1>5. CASE InstallOperator
  BY <1>5 DEF InstallOperator, PodIsPinned
<1>6. CASE TryDrivers
  BY <1>6 DEF TryDrivers, Fault, PodIsPinned, user, images
<1>7. CASE InstallCluster
  BY <1>7 DEF InstallCluster, PodIsPinned, user, images
<1>8. CASE InstallProfiles
  BY <1>8 DEF InstallProfiles, PodIsPinned, user, images
<1>9. CASE Finish
  BY <1>9 DEF Finish, PodIsPinned, user, images
<1>10. CASE Switch
  BY <1>10 DEF Switch, Fault, PodIsPinned, user, images
<1>11. CASE Select
  BY <1>11 DEF Select, Fault, PodIsPinned, user, images
<1>11a. CASE EditHome
  BY <1>11a DEF EditHome, Fault, PodIsPinned, user, images
<1>12. CASE Establish
  BY <1>12 DEF Establish, PodIsPinned, user, images
<1>13. CASE Evict
  BY <1>13 DEF Evict, Fault, PodIsPinned, user, images
<1>14. CASE UNCHANGED vars
  BY <1>14 DEF vars, PodIsPinned, user, images
<1> QED
  BY <1>1, <1>2, <1>3, <1>4, <1>5, <1>6, <1>7, <1>8, <1>9, <1>10, <1>11, <1>11a, <1>12,
     <1>13, <1>14 DEF Next, Step, Deploys

(* The deploy under way keeps to its source and to what it was asked for. *)
LEMMA JobIsKept == IInv /\ [Next]_vars => JobFollows'
<1> SUFFICES ASSUME IInv, [Next]_vars PROVE JobFollows'
  OBVIOUS
<1> USE DEF IInv
<1>1. ASSUME NEW what \in {"operator", "cluster", "all"},
             NEW source \in Version \cup {record}, StartDeploy(what, source)
      PROVE  JobFollows'
  BY <1>1, NoneIsNothing, BoundAssumption DEF StartDeploy, JobFollows, TypeOK, Job, Source
<1>2. ASSUME NEW d \in Digest, Push(d)
      PROVE  JobFollows'
  BY <1>2 DEF Push, JobFollows, user, images
<1>3. ASSUME NEW n \in Node, StartPod(n)
      PROVE  JobFollows'
  BY <1>3 DEF StartPod, JobFollows, user, images
<1>4. CASE HelmFails
  BY <1>4 DEF HelmFails, Fault, JobFollows, user, images
<1>5. CASE InstallOperator
  BY <1>5 DEF InstallOperator, JobFollows, user, images
<1>6. CASE TryDrivers
  <2>1. job \in Job /\ record = job.source /\ job.what # "cluster"
    BY <1>6 DEF TryDrivers, JobFollows
  <2>2. CASE pc' = "idle" /\ job' = None
    BY <2>2 DEF JobFollows
  <2>3. CASE /\ pc' # "idle"
             /\ \/ job' = job
                \/ job.try + 1 # Attempts /\ job' = [job EXCEPT !.try = job.try + 1]
    <3>1. job' \in Job /\ job'.source = job.source /\ job'.what = job.what
      BY <2>1, <2>3, BoundAssumption DEF Job
    <3>2. record' = record /\ pc' \in {"drivers", "cluster", "done"}
      BY <1>6, <2>3 DEF TryDrivers
    <3>3. pc' = "cluster" => job.what = "all"
      BY <1>6 DEF TryDrivers
    <3> QED BY <2>1, <2>3, <3>1, <3>2, <3>3, NoneIsNothing DEF JobFollows
  <2> QED BY <1>6, <2>2, <2>3 DEF TryDrivers
<1>7. CASE InstallCluster
  BY <1>7 DEF InstallCluster, JobFollows, user, images
<1>8. CASE InstallProfiles
  BY <1>8 DEF InstallProfiles, JobFollows, user, images
<1>9. CASE Finish
  BY <1>9 DEF Finish, JobFollows, user, images
<1>10. CASE Switch
  BY <1>10 DEF Switch, Fault, JobFollows, user, images
<1>11. CASE Select
  BY <1>11 DEF Select, Fault, JobFollows, user, images
<1>11a. CASE EditHome
  BY <1>11a DEF EditHome, Fault, JobFollows, user, images
<1>12. CASE Establish
  BY <1>12 DEF Establish, JobFollows, user, images
<1>13. CASE Evict
  BY <1>13 DEF Evict, Fault, JobFollows, user, images
<1>14. CASE UNCHANGED vars
  BY <1>14 DEF vars, JobFollows, user, images
<1> QED
  BY <1>1, <1>2, <1>3, <1>4, <1>5, <1>6, <1>7, <1>8, <1>9, <1>10, <1>11, <1>11a, <1>12,
     <1>13, <1>14 DEF Next, Step, Deploys

(* What a stage has installed the later ones leave. *)
LEMMA StagesAreKept == IInv /\ [Next]_vars => StagesAreThrough'
<1> SUFFICES ASSUME IInv, [Next]_vars PROVE StagesAreThrough'
  OBVIOUS
<1> USE DEF IInv
<1>1. ASSUME NEW what \in {"operator", "cluster", "all"},
             NEW source \in Version \cup {record}, StartDeploy(what, source)
      PROVE  StagesAreThrough'
  BY <1>1 DEF StartDeploy, StagesAreThrough
<1>2. ASSUME NEW d \in Digest, Push(d)
      PROVE  StagesAreThrough'
  BY <1>2 DEF Push, StagesAreThrough, TemplatesAreOfJob, OfJob, user, images
<1>3. ASSUME NEW n \in Node, StartPod(n)
      PROVE  StagesAreThrough'
  BY <1>3 DEF StartPod, StagesAreThrough, TemplatesAreOfJob, OfJob, user, images
<1>4. CASE HelmFails
  BY <1>4 DEF HelmFails, Fault, StagesAreThrough, TemplatesAreOfJob, OfJob, user, images
<1>5. CASE InstallOperator
  <2>1. ASSUME Installed("operator")
        PROVE  /\ release'["operator"] = OfJob
               /\ \A k \in Chart \ {"operator"} : release'[k] = release[k]
    BY <2>1, InstallIsOfOne DEF Chart
  <2>2. template'.source = job.source
    BY <1>5 DEF InstallOperator, TemplateOf
  <2>3. job.what \in {"operator", "all"} /\ job' = job
    BY <1>5 DEF InstallOperator, JobFollows, Job
  <2>4. release'["operator"] = OfJob
    BY <1>5, <2>1 DEF InstallOperator
  <2>5. pc' = "cluster" => job.source \notin Modern
    BY <1>5 DEF InstallOperator
  <2>6. pc' = "drivers" \/ pc' = "cluster" \/ (pc' = "done" /\ job.what = "operator")
    BY <1>5, <2>3 DEF InstallOperator
  <2> QED BY <2>2, <2>3, <2>4, <2>5, <2>6 DEF StagesAreThrough, OfJob
<1>6. CASE TryDrivers
  <2>1. ASSUME Installed("drivers")
        PROVE  /\ release'["drivers"] = OfJob
               /\ \A k \in Chart \ {"drivers"} : release'[k] = release[k]
    BY <2>1, InstallIsOfOne DEF Chart
  <2>2. job \in Job /\ job.what \in {"operator", "all"} /\ pc = "drivers" /\ template' = template
    BY <1>6 DEF TryDrivers, JobFollows, Job, images
  <2>3. CASE pc' = "idle"
    BY <2>3 DEF StagesAreThrough
  <2>4. CASE pc' = "drivers"
    <3>1. UNCHANGED release
      BY <1>6, <2>4 DEF TryDrivers
    <3>2. job' = job \/ job' = [job EXCEPT !.try = job.try + 1]
      BY <1>6, <2>4 DEF TryDrivers
    <3>3. job'.source = job.source /\ job'.what = job.what /\ job'.active = job.active
      BY <2>2, <3>2 DEF Job
    <3> QED BY <2>2, <2>4, <3>1, <3>3 DEF StagesAreThrough, OfJob
  <2>5. CASE pc' # "idle" /\ pc' # "drivers"
    <3>1. Installed("drivers") /\ job' = job /\ pc' = IF job.what = "all" THEN "cluster" ELSE "done"
      BY <1>6, <2>2, <2>5 DEF TryDrivers
    <3>2. release'["drivers"] = OfJob /\ release'["operator"] = release["operator"]
      BY <2>1, <3>1 DEF Chart
    <3> QED BY <2>2, <3>1, <3>2 DEF StagesAreThrough, OfJob
  <2> QED BY <2>3, <2>4, <2>5
<1>7. CASE InstallCluster
  <2>1. ASSUME Installed("cluster")
        PROVE  /\ release'["cluster"] = OfJob
               /\ \A k \in Chart \ {"cluster"} : release'[k] = release[k]
    BY <2>1, InstallIsOfOne DEF Chart
  <2> QED BY <1>7, <2>1 DEF InstallCluster, StagesAreThrough, OfJob, JobFollows, Chart
<1>8. CASE InstallProfiles
  <2>1. job \in Job /\ Home \notin job.active
    BY <1>8, ProfileAssumption DEF InstallProfiles, JobFollows, Job
  <2>2. /\ release'["profiles"] = IF Contributors = {} THEN None
                                 ELSE [source |-> job.source, with |-> Contributors]
        /\ \A k \in Chart \ {"profiles"} : release'[k] = release[k]
    BY <1>8 DEF InstallProfiles, TypeOK, Chart
  <2>3. Contributors \ {Home} = job.active \cap Templated
    BY <2>1 DEF Contributors
  <2>4. [source |-> job.source, with |-> Contributors] # None
    <3>1. [source |-> job.source, with |-> Contributors] \in Release
      BY <2>1 DEF Contributors, Release, Job
    <3> QED BY <3>1, NoneIsNothing
  <2>5. TemplatesAreOfJob'
    BY <1>8, <2>2, <2>3, <2>4 DEF InstallProfiles, TemplatesAreOfJob
  <2> QED
    BY <1>8, <2>2, <2>5 DEF InstallProfiles, StagesAreThrough, OfJob, JobFollows, Chart
<1>9. CASE Finish
  BY <1>9 DEF Finish, StagesAreThrough, TemplatesAreOfJob, OfJob, user, images
<1>10. CASE Switch
  BY <1>10 DEF Switch, Fault, StagesAreThrough, TemplatesAreOfJob, OfJob, user, images
<1>11. CASE Select
  BY <1>11 DEF Select, Fault, StagesAreThrough, TemplatesAreOfJob, OfJob, user, images
<1>11a. CASE EditHome
  BY <1>11a DEF EditHome, Fault, StagesAreThrough, TemplatesAreOfJob, OfJob, user, images
<1>12. CASE Establish
  BY <1>12 DEF Establish, StagesAreThrough, TemplatesAreOfJob, OfJob, user, images
<1>13. CASE Evict
  BY <1>13 DEF Evict, Fault, StagesAreThrough, TemplatesAreOfJob, OfJob, user, images
<1>14. CASE UNCHANGED vars
  BY <1>14 DEF vars, StagesAreThrough, TemplatesAreOfJob, OfJob, user, images
<1> QED
  BY <1>1, <1>2, <1>3, <1>4, <1>5, <1>6, <1>7, <1>8, <1>9, <1>10, <1>11, <1>11a, <1>12,
     <1>13, <1>14 DEF Next, Step, Deploys

(* IInv is invariant. *)
LEMMA Invariance == Spec => []IInv
<1>1. IInv /\ [Next]_vars => IInv'
  BY TypeIsKept, PinIsKept, PodIsKept, JobIsKept, StagesAreKept DEF IInv
<1> QED BY InitIInv, <1>1, PTL DEF Spec

(* Whatever the order of deploys, builds and kubelets, the state keeps its types:
   the attempts at the drivers stay below their number. *)
THEOREM TypeOKHolds == Spec => []TypeOK
<1>1. IInv => TypeOK
  BY DEF IInv
<1> QED BY <1>1, Invariance, PTL

(* A pinned operator runs what its deploy found under the tag, whatever the nodes
   have cached. *)
THEOREM NeverStaleHolds == Spec => []NeverStale
<1>1. IInv => NeverStale
  BY DEF IInv, PodIsPinned, NeverStale, IsCurrent
<1> QED BY <1>1, Invariance, PTL

(* A deploy that gets through has left its releases of one source and of the
   selection it read, however often that is edited meanwhile; the release of
   templates has those of the selection's profiles and at most the home's. *)
THEOREM OfAPieceHolds == Spec => []OfAPiece
<1>1. IInv => OfAPiece
  <2> SUFFICES ASSUME IInv, Through PROVE OfAPiece
    BY DEF OfAPiece
  <2>1. job \in Job /\ record = job.source
    BY DEF IInv, JobFollows, Through
  <2>2. /\ template.source = job.source
        /\ release["operator"] = OfJob /\ release["cluster"] = OfJob
        /\ job.source \in Modern => release["drivers"] = OfJob
        /\ TemplatesAreOfJob
    BY DEF IInv, StagesAreThrough, Through
  <2> QED BY <2>1, <2>2 DEF OfAPiece, OfJob, Through
<1> QED BY <1>1, Invariance, PTL

-----------------------------------------------------------------------------
(* The readiness wait. *)

(* What the diagnostics before the last may take is not more than all of them. *)
LEMMA DiagsAddUp ==
  /\ DiagBudget * 1 = DiagBudget
  /\ \A k \in 1 .. Diags : DiagBudget * k \in Nat /\ DiagBudget * k <= DiagBudget * Diags
  /\ \A k \in Nat : DiagBudget * (k + 1) = DiagBudget * k + DiagBudget
  /\ DiagBudget * Diags \in Nat
<1>1. DiagBudget \in Nat /\ Diags \in Nat
  BY TimeAssumption
<1>2. ASSUME NEW k \in 1 .. Diags
      PROVE  DiagBudget * k \in Nat /\ DiagBudget * k <= DiagBudget * Diags
  <2>1. PICK m \in Nat : Diags = k + m
    BY <1>1, SMT
  <2>2. DiagBudget * Diags = DiagBudget * k + DiagBudget * m
    BY <1>1, <2>1
  <2> QED BY <1>1, <2>1, <2>2
<1> QED BY <1>1, <1>2

(* The constants as the arithmetic below needs them. *)
LEMMA Times ==
  /\ Interval \in Nat /\ Timeout \in Nat /\ PollBudget \in Nat /\ DiagBudget \in Nat
  /\ Diags \in Nat /\ 1 <= Interval /\ 1 <= Diags
  /\ Deadline = Timeout
  /\ Never \in Nat /\ Never = Timeout + PollBudget + DiagBudget * Diags + 1
  /\ Deadline + PollBudget < Never
BY TimeAssumption, DiagsAddUp DEF Deadline, Never

(* It holds at first. *)
LEMMA InitWaitInv == WaitInit => WaitInv
<1> SUFFICES ASSUME WaitInit PROVE WaitInv
  OBVIOUS
<1>1. WaitTypeOK
  <2>1. slips \in 0 .. MaxSlips /\ since \in 0 .. Never /\ 0 \in 0 .. Never
    BY Times, TimeAssumption DEF WaitInit
  <2> QED BY <2>1 DEF WaitInit, WaitTypeOK, Place
<1>2. TimeIsBounded /\ PollIsRight /\ NotReadySince
  BY DEF WaitInit, TimeIsBounded, PollIsRight, NotReadySince
<1> QED BY <1>1, <1>2 DEF WaitInv

(* A poll that begins no later than the deadline finds nothing yet. *)
LEMMA ABeginningKeeps ==
  ASSUME WaitInv, BeginPoll, now <= Deadline
  PROVE  WaitInv'
<1>1. WaitTypeOK'
  <2>1. end' \in 0 .. Never
    BY Times DEF BeginPoll, WaitInv, WaitTypeOK
  <2>2. at' \in Place /\ step' \in Condition
    BY DEF BeginPoll, Place, Phase, Condition
  <2>3. mute' \in BOOLEAN
    BY DEF BeginPoll
  <2>4. unmet' = {} /\ lost' = {} /\ begun' = now /\ UNCHANGED <<now, holds, slips, since>>
    BY DEF BeginPoll
  <2> QED BY <2>1, <2>2, <2>3, <2>4 DEF WaitInv, WaitTypeOK
<1>2. TimeIsBounded'
  BY Times DEF BeginPoll, WaitInv, WaitTypeOK, TimeIsBounded, Phase, Condition
<1>3. PollIsRight' /\ NotReadySince'
  BY DEF BeginPoll, WaitInv, PollIsRight, NotReadySince, Phase, Condition
<1> QED BY <1>1, <1>2, <1>3 DEF WaitInv

(* The answer of a query is about what holds while the poll is under way. *)
LEMMA AQueryKeeps ==
  ASSUME WaitInv, Query
  PROVE  WaitInv'
<1> USE DEF WaitInv
<1>1. WaitTypeOK'
  <2>1. step' \in Condition \cup {RGW + 1} /\ step \in Condition
    BY DEF Query, Condition, RGW
  <2>2. unmet' \in SUBSET Condition
    BY <2>1 DEF Query, Answers, NoAnswer, WaitTypeOK
  <2>3. mute' \in BOOLEAN
    BY DEF Query, Answers, NoAnswer, WaitTypeOK
  <2>4. UNCHANGED <<now, holds, at, end, slips, since, begun, lost>>
    BY DEF Query, cluster
  <2> QED BY <2>1, <2>2, <2>3, <2>4 DEF WaitTypeOK
<1>2. TimeIsBounded'
  BY DEF Query, WaitTypeOK, TimeIsBounded, Condition, cluster
<1>3. ASSUME unmet' = {}
      PROVE  unmet = {} /\ step \in holds
  BY <1>3 DEF Query, Answers, NoAnswer, WaitTypeOK, Condition
<1>4. PollIsRight'
  BY <1>3 DEF Query, PollIsRight, WaitTypeOK, Condition, cluster
<1>5. ASSUME unmet' # {}, ~mute'
      PROVE  begun <= since
  <2>1. CASE unmet # {}
    BY <1>5, <2>1 DEF Query, Answers, NoAnswer, WaitTypeOK, NotReadySince
  <2>2. CASE unmet = {}
    <3>1. step \notin holds /\ step \in Condition
      BY <1>5, <2>2 DEF Query, Answers, NoAnswer
    <3>2. since = Never /\ begun <= Deadline
      BY <3>1 DEF Query, NotReadySince, TimeIsBounded
    <3> QED BY <3>2, Times, DiagsAddUp DEF WaitTypeOK
  <2> QED BY <2>1, <2>2
<1>6. NotReadySince'
  BY <1>5 DEF Query, NotReadySince, cluster
<1> QED BY <1>1, <1>2, <1>4, <1>6

(* A poll that ends past the deadline has begun at most its budget before. *)
LEMMA AnEndKeeps ==
  ASSUME WaitInv, EndPoll
  PROVE  WaitInv'
<1> USE DEF WaitInv
<1>1. UNCHANGED <<now, holds, slips, since, lost, unmet, begun, mute>>
  BY DEF EndPoll, cluster, poll
<1>2. /\ at = "poll" /\ step \in Nat /\ RGW < step
      /\ now <= begun + PollBudget /\ begun <= Deadline
  <2>1. at = "poll" /\ step \notin Condition
    BY DEF EndPoll
  <2>2. step \in Nat /\ RGW < step
    BY <2>1, Times DEF TimeIsBounded, WaitTypeOK, Condition, RGW
  <2> QED BY <2>1, <2>2 DEF TimeIsBounded
<1>3. CASE unmet = {}
  <2>1. at' = "ready" /\ UNCHANGED <<step, end>>
    BY <1>3 DEF EndPoll
  <2>2. \A c \in Condition : c < step
    BY <1>2 DEF Condition, RGW
  <2>3. holds \cup lost = Condition
    BY <1>2, <1>3, <2>2 DEF PollIsRight, WaitTypeOK
  <2>4. now <= Deadline + PollBudget
    BY <1>2, Times DEF WaitTypeOK
  <2> QED
    BY <1>1, <2>1, <2>3, <2>4
    DEF WaitTypeOK, Place, TimeIsBounded, PollIsRight, NotReadySince
<1>4. CASE unmet # {} /\ now >= Deadline
  <2>1. at' = "diagnose" /\ step' = 1 /\ end' = now + DiagBudget
    BY <1>4 DEF EndPoll
  <2>2. now <= Deadline + PollBudget
    BY <1>2, Times DEF WaitTypeOK
  <2>3. end' \in 0 .. Never /\ end' <= Deadline + PollBudget + DiagBudget * 1 /\ now <= end'
    <3>1. DiagBudget * 1 <= DiagBudget * Diags /\ DiagBudget * 1 = DiagBudget
      BY DiagsAddUp, Times
    <3> QED BY <2>1, <2>2, <3>1, Times, DiagsAddUp DEF WaitTypeOK
  <2>4. ~mute => Deadline <= since + PollBudget
    BY <1>2, <1>4, Times DEF NotReadySince, WaitTypeOK
  <2> QED
    BY <1>1, <1>4, <2>1, <2>3, <2>4, Times
    DEF WaitTypeOK, Place, TimeIsBounded, PollIsRight, NotReadySince
<1>5. CASE unmet # {} /\ ~(now >= Deadline)
  <2>1. at' = "sleep" /\ step' = 0 /\ end' = now + Sleep
    BY <1>5 DEF EndPoll
  <2>2. end' \in Nat /\ now <= end' /\ end' <= Deadline /\ end' \in 0 .. Never
    BY <1>5, <2>1, Times, DiagsAddUp DEF Sleep, Min2, WaitTypeOK
  <2> QED
    BY <1>1, <2>1, <2>2 DEF WaitTypeOK, Place, TimeIsBounded, PollIsRight, NotReadySince
<1> QED BY <1>3, <1>4, <1>5

(* Each diagnostic adds its budget. *)
LEMMA ADiagnosticKeeps ==
  ASSUME WaitInv, Diagnose
  PROVE  WaitInv'
<1> USE DEF WaitInv
<1>1. UNCHANGED <<now, holds, slips, since, lost, unmet, begun, mute>> /\ at = "diagnose"
  BY DEF Diagnose, cluster, poll
<1>2. /\ step \in 1 .. Diags /\ Deadline <= now /\ now <= end
      /\ end <= Deadline + PollBudget + DiagBudget * step
  BY <1>1 DEF TimeIsBounded
<1>3. CASE step = Diags
  BY <1>1, <1>2, <1>3, Times, DiagsAddUp
  DEF Diagnose, WaitTypeOK, Place, TimeIsBounded, PollIsRight, NotReadySince
<1>4. CASE step # Diags
  <2>1. at' = at /\ step' = step + 1 /\ end' = now + DiagBudget
    BY <1>4 DEF Diagnose
  <2>2. step' \in 1 .. Diags
    BY <1>2, <1>4, <2>1, Times
  <2>3. DiagBudget * step' = DiagBudget * step + DiagBudget
        /\ DiagBudget * step' <= DiagBudget * Diags
        /\ DiagBudget * step \in Nat /\ DiagBudget * step' \in Nat /\ DiagBudget * Diags \in Nat
    BY <1>2, <2>1, <2>2, DiagsAddUp
  <2>4. end' <= Deadline + PollBudget + DiagBudget * step' /\ now <= end' /\ end' \in 0 .. Never
    BY <1>2, <2>1, <2>3, Times DEF WaitTypeOK
  <2> QED
    BY <1>1, <1>2, <2>1, <2>2, <2>4
    DEF WaitTypeOK, Place, TimeIsBounded, PollIsRight, NotReadySince
<1> QED BY <1>3, <1>4

(* The clock does not pass what is under way. *)
LEMMA ATickKeeps ==
  ASSUME WaitInv, Tick
  PROVE  WaitInv'
BY Times DEF WaitInv, Tick, WaitTypeOK, TimeIsBounded, PollIsRight, NotReadySince, cluster, poll

(* A cluster that becomes ready does so now, which is no earlier than the poll. *)
LEMMA SettlingKeeps ==
  ASSUME WaitInv, NEW c \in Condition, Settle(c)
  PROVE  WaitInv'
<1> USE DEF WaitInv
<1>1. UNCHANGED <<now, slips, lost, at, step, unmet, end, begun, mute>>
  BY DEF Settle, poll
<1>2. holds' = holds \cup {c} /\ holds' \subseteq Condition /\ since' \in {now, Never}
  BY DEF Settle, WaitTypeOK
<1>3. now \in Nat /\ begun \in Nat /\ since' \in 0 .. Never
  BY <1>2, Times DEF WaitTypeOK
<1>4. WaitTypeOK' /\ TimeIsBounded'
  BY <1>1, <1>2, <1>3 DEF WaitTypeOK, TimeIsBounded
<1>5. PollIsRight'
  BY <1>1, <1>2 DEF Settle, PollIsRight
<1>6. holds' # Condition => since' = Never
  BY DEF Settle
<1>7. at = "poll" => begun <= since'
  BY <1>2, <1>3, Times, DiagsAddUp DEF TimeIsBounded
<1>8. at = "diagnose" => Deadline <= since' + PollBudget
  <2> SUFFICES ASSUME at = "diagnose" PROVE Deadline <= since' + PollBudget
    OBVIOUS
  <2>1. Deadline <= now
    BY DEF TimeIsBounded
  <2>2. Deadline \in Nat /\ PollBudget \in Nat /\ Never \in Nat /\ Deadline < Never
    BY Times
  <2>3. CASE since' = now
    BY <1>3, <2>1, <2>2, <2>3
  <2>4. CASE since' = Never
    BY <2>2, <2>4
  <2> QED BY <1>2, <2>3, <2>4
<1>9. NotReadySince'
  BY <1>1, <1>6, <1>7, <1>8 DEF Settle, NotReadySince
<1> QED BY <1>4, <1>5, <1>9

(* A condition that is lost is remembered. *)
LEMMA SlippingKeeps ==
  ASSUME WaitInv, NEW c \in Condition, Slip(c)
  PROVE  WaitInv'
<1> USE DEF WaitInv
<1>1. UNCHANGED <<now, at, step, unmet, end, begun, mute>>
  BY DEF Slip, poll
<1>2. /\ holds' = holds \ {c} /\ lost' = lost \cup {c}
      /\ since' = Never /\ slips' = slips + 1 /\ slips < MaxSlips
  BY DEF Slip
<1>3. WaitTypeOK'
  BY <1>1, <1>2, Times, TimeAssumption DEF WaitTypeOK
<1>4. TimeIsBounded'
  BY <1>1 DEF TimeIsBounded
<1>5. PollIsRight'
  BY <1>1, <1>2 DEF Slip, PollIsRight
<1>6. NotReadySince'
  BY <1>1, <1>2, Times, DiagsAddUp DEF NotReadySince, TimeIsBounded, WaitTypeOK
<1> QED BY <1>3, <1>4, <1>5, <1>6

(* WaitInv is invariant. *)
LEMMA WaitInvariance == WaitSpec => []WaitInv
<1>1. WaitInv /\ [WaitNext]_waitVars => WaitInv'
  <2> SUFFICES ASSUME WaitInv, [WaitNext]_waitVars PROVE WaitInv'
    OBVIOUS
  <2>1. CASE Start
    <3>1. now <= Deadline
      BY <2>1, Times DEF Start, WaitInv, TimeIsBounded
    <3> QED BY <2>1, <3>1, ABeginningKeeps DEF Start
  <2>2. CASE Wake
    <3>1. now <= Deadline
      BY <2>2, Times DEF Wake, WaitInv, WaitTypeOK, TimeIsBounded
    <3> QED BY <2>2, <3>1, ABeginningKeeps DEF Wake
  <2>3. CASE Query
    BY <2>3, AQueryKeeps
  <2>4. CASE EndPoll
    BY <2>4, AnEndKeeps
  <2>5. CASE Diagnose
    BY <2>5, ADiagnosticKeeps
  <2>6. CASE Tick
    BY <2>6, ATickKeeps
  <2>7. ASSUME NEW c \in Condition, Settle(c) PROVE WaitInv'
    BY <2>7, SettlingKeeps
  <2>8. ASSUME NEW c \in Condition, Slip(c) PROVE WaitInv'
    BY <2>8, SlippingKeeps
  <2>9. CASE UNCHANGED waitVars
    BY <2>9 DEF waitVars, cluster, poll, WaitInv, WaitTypeOK, TimeIsBounded,
                PollIsRight, NotReadySince
  <2> QED
    BY <2>1, <2>2, <2>3, <2>4, <2>5, <2>6, <2>7, <2>8, <2>9 DEF WaitNext, Command
<1> QED BY InitWaitInv, <1>1, PTL DEF WaitSpec

(* What wait calls ready is, but for what was lost while it polled, and what it
   calls not ready was not as late as a poll before the deadline. *)
THEOREM SaysWhatIsSoHolds == WaitSpec => []SaysWhatIsSo
<1>1. WaitInv => SaysWhatIsSo
  BY Times DEF WaitInv, WaitTypeOK, PollIsRight, NotReadySince, SaysWhatIsSo
<1> QED BY <1>1, WaitInvariance, PTL

(* The clock is at no time more than a poll and the diagnostics past the timeout,
   and no more than a poll where the cluster became ready. *)
THEOREM InTimeHolds == WaitSpec => []InTime
<1>1. WaitInv => InTime
  <2> SUFFICES ASSUME WaitInv PROVE InTime
    OBVIOUS
  <2> USE DEF WaitInv, WaitTypeOK, TimeIsBounded
  <2>1. CASE at \in {"start", "sleep", "poll", "ready"}
    BY <2>1, Times, DiagsAddUp DEF InTime
  <2>2. CASE at = "diagnose"
    <3>1. DiagBudget * step <= DiagBudget * Diags /\ DiagBudget * step \in Nat
      BY <2>2, DiagsAddUp
    <3> QED BY <2>2, <3>1, Times, DiagsAddUp DEF InTime
  <2>3. CASE at = "failed"
    BY <2>3, Times DEF InTime
  <2> QED BY <2>1, <2>2, <2>3 DEF Place
<1> QED BY <1>1, WaitInvariance, PTL
=============================================================================
