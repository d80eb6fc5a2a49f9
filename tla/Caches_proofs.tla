---------------------------- MODULE Caches_proofs ----------------------------
(***************************************************************************)
(* Theorems about the two caches of a host, which share no state.           *)
(* ChartCache: for any number of runs, versions and charts and every choice *)
(* of faults; IInv is inductive; one helm at a time, whole entries and one  *)
(* pull per version follow from it, and the pull lock implements            *)
(* AbstractLock.  ImageCache: for any number of runs and of rooket builds   *)
(* and every choice of mishaps; CacheInv is inductive.                      *)
(***************************************************************************)
EXTENDS ChartCache, ImageCache, TLAPS

(* The initial state satisfies the inductive invariant. *)
LEMMA InitIInv == Init => IInv
<1> SUFFICES ASSUME Init PROVE IInv OBVIOUS
<1>1. (CHOOSE v \in Version : TRUE) \in Version
  BY VersionAssumption
<1>2. TypeOK
  BY <1>1 DEF Init, TypeOK, PC
<1>3. LockedInside
  BY NobodyAssumption DEF Init, LockedInside, Inside
<1>4. InstallIsWhole /\ EntriesAreWhole /\ PullingIsMissing
  BY DEF Init, InstallIsWhole, EntriesAreWhole, PullingIsMissing, Pulling
<1> QED BY <1>2, <1>3, <1>4 DEF IInv

(* Every step keeps the types. *)
LEMMA TypeStep == TypeOK /\ [Next]_vars => TypeOK'
<1> SUFFICES ASSUME TypeOK, [Next]_vars PROVE TypeOK' OBVIOUS
<1> USE DEF TypeOK, PC, Goto, LeaveLock
<1>1. CASE UNCHANGED vars  BY <1>1 DEF vars
<1>2. ASSUME NEW v \in Version, ByHand(v) PROVE TypeOK'
  BY <1>2 DEF ByHand
<1>3. ASSUME NEW p \in Proc, NEW v \in Version, Start(p, v) PROVE TypeOK'
  BY <1>3 DEF Start
<1>4. ASSUME NEW p \in Proc,
             Working(p) \/ LockTimesOut(p) \/ Finish(p) \/ Crash(p)
      PROVE  TypeOK'
  <2>1. CASE Look(p)         BY <2>1 DEF Look, Found
  <2>2. CASE LockPulls(p)    BY <2>2 DEF LockPulls
  <2>3. CASE Recheck(p)      BY <2>3 DEF Recheck, Found
  <2>4. CASE HelmStarts(p)   BY <2>4 DEF HelmStarts
  <2>5. CASE HelmEnds(p)     BY <2>5 DEF HelmEnds
  <2>6. CASE HelmFails(p)    BY <2>6 DEF HelmFails
  <2>7. CASE Pulled(p)       BY <2>7 DEF Pulled
  <2>8. CASE Install(p)      BY <2>8 DEF Install, Found
  <2>9. CASE LockTimesOut(p) BY <2>9 DEF LockTimesOut
  <2>10. CASE Finish(p)      BY <2>10 DEF Finish
  <2>11. CASE Crash(p)       BY <2>11 DEF Crash
  <2> QED BY <1>4, <2>1, <2>2, <2>3, <2>4, <2>5, <2>6, <2>7, <2>8, <2>9,
             <2>10, <2>11 DEF Working
<1> QED BY <1>1, <1>2, <1>3, <1>4 DEF Next

(* A step of one run leaves the others where they are. *)
LEMMA OthersStay ==
  ASSUME TypeOK, NEW p \in Proc,
         \/ \E v \in Version : Start(p, v)
         \/ Working(p) \/ LockTimesOut(p) \/ Finish(p) \/ Crash(p)
  PROVE  \A q \in Proc \ {p} :
           pc'[q] = pc[q] /\ want'[q] = want[q] /\ tmp'[q] = tmp[q]
<1> USE DEF TypeOK, Goto, LeaveLock, Found
<1>1. CASE \E v \in Version : Start(p, v)  BY <1>1 DEF Start
<1>2. CASE Working(p)
  BY <1>2 DEF Working, Look, LockPulls, Recheck, HelmStarts, HelmEnds,
              HelmFails, Pulled, Install
<1>3. CASE LockTimesOut(p) \/ Finish(p) \/ Crash(p)
  BY <1>3 DEF LockTimesOut, Finish, Crash
<1> QED BY <1>1, <1>2, <1>3

(* The lock goes with the region it covers. *)
LEMMA LockStep == TypeOK /\ LockedInside /\ [Next]_vars => LockedInside'
<1> SUFFICES ASSUME TypeOK, LockedInside, [Next]_vars PROVE LockedInside'
  OBVIOUS
<1> USE NobodyAssumption DEF TypeOK, LockedInside, Inside, Goto, LeaveLock, Found
<1>1. CASE UNCHANGED vars  BY <1>1 DEF vars
<1>2. ASSUME NEW v \in Version, ByHand(v) PROVE LockedInside'
  BY <1>2 DEF ByHand
<1>3. ASSUME NEW p \in Proc, NEW v \in Version, Start(p, v) PROVE LockedInside'
  BY <1>3 DEF Start
<1>4. ASSUME NEW p \in Proc,
             Working(p) \/ LockTimesOut(p) \/ Finish(p) \/ Crash(p)
      PROVE  LockedInside'
  <2>1. CASE Look(p)         BY <2>1 DEF Look
  <2>2. CASE LockPulls(p)    BY <2>2 DEF LockPulls
  <2>3. CASE Recheck(p)      BY <2>3 DEF Recheck
  <2>4. CASE HelmStarts(p)   BY <2>4 DEF HelmStarts
  <2>5. CASE HelmEnds(p)     BY <2>5 DEF HelmEnds
  <2>6. CASE HelmFails(p)    BY <2>6 DEF HelmFails
  <2>7. CASE Pulled(p)       BY <2>7 DEF Pulled
  <2>8. CASE Install(p)      BY <2>8 DEF Install
  <2>9. CASE LockTimesOut(p) BY <2>9 DEF LockTimesOut
  <2>10. CASE Finish(p)      BY <2>10 DEF Finish
  <2>11. CASE Crash(p)       BY <2>11 DEF Crash
  <2> QED BY <1>4, <2>1, <2>2, <2>3, <2>4, <2>5, <2>6, <2>7, <2>8, <2>9,
             <2>10, <2>11 DEF Working
<1> QED BY <1>1, <1>2, <1>3, <1>4 DEF Next

(* Only a run with every chart in hand comes to install. *)
LEMMA InstallStep == TypeOK /\ InstallIsWhole /\ [Next]_vars => InstallIsWhole'
<1> SUFFICES ASSUME TypeOK, InstallIsWhole, [Next]_vars PROVE InstallIsWhole'
  OBVIOUS
<1> USE DEF TypeOK, InstallIsWhole
<1>1. CASE UNCHANGED vars  BY <1>1 DEF vars
<1>2. ASSUME NEW v \in Version, ByHand(v) PROVE InstallIsWhole'
  BY <1>2 DEF ByHand
<1>3. ASSUME NEW p \in Proc,
             \/ \E v \in Version : Start(p, v)
             \/ Working(p) \/ LockTimesOut(p) \/ Finish(p) \/ Crash(p)
      PROVE  InstallIsWhole'
  <2>1. pc'[p] = "install" => tmp'[p] = Chart
    BY <1>3 DEF Start, Working, Look, LockPulls, Recheck, HelmStarts, HelmEnds,
         HelmFails, Pulled, Install, LockTimesOut, Finish, Crash, Goto,
         LeaveLock, Found
  <2> QED BY <1>3, <2>1, OthersStay
<1> QED BY <1>1, <1>2, <1>3 DEF Next

(* Entries stay whole: they only come of an install, unless of a hand. *)
LEMMA WholeStep ==
  ASSUME TypeOK, InstallIsWhole, EntriesAreWhole, [Next]_vars
  PROVE  EntriesAreWhole'
<1> USE DEF EntriesAreWhole, Complete
<1>1. CASE entries' = entries /\ holds' = holds /\ touched' = touched  BY <1>1
<1>2. ASSUME NEW p \in Proc, Install(p) PROVE EntriesAreWhole'
  BY <1>2 DEF Install, InstallIsWhole, TypeOK
<1>3. ASSUME NEW v \in Version, ByHand(v) PROVE EntriesAreWhole'
  BY <1>3 DEF ByHand, TypeOK
<1> QED
  BY <1>1, <1>2, <1>3 DEF Next, vars, Start, Working, Look, LockPulls, Recheck,
     HelmStarts, HelmEnds, HelmFails, Pulled, LockTimesOut, Finish, Crash

(* A version that is being pulled gets no entry meanwhile, unless by hand:
   entries are made under the lock the pull has. *)
LEMMA MissingStep ==
  ASSUME TypeOK, LockedInside, PullingIsMissing, [Next]_vars
  PROVE  PullingIsMissing'
<1> USE DEF PullingIsMissing, Pulling
<1>1. CASE UNCHANGED vars  BY <1>1 DEF vars
<1>2. ASSUME NEW p \in Proc, Install(p) PROVE PullingIsMissing'
  <2>1. \A q \in Proc \ {p} : ~Pulling(q)
    BY <1>2 DEF Install, LockedInside, Inside
  <2>2. ~Pulling(p)'
    BY <1>2 DEF Install, Goto, Found, TypeOK
  <2> QED BY <1>2, <2>1, <2>2, OthersStay DEF Working
<1>3. ASSUME NEW p \in Proc,
             \/ \E v \in Version : Start(p, v)
             \/ Working(p) \/ LockTimesOut(p) \/ Finish(p) \/ Crash(p),
             ~Install(p)
      PROVE  PullingIsMissing'
  <2>1. entries' = entries /\ touched' = touched
    BY <1>3 DEF Start, Working, Look, LockPulls, Recheck, HelmStarts, HelmEnds,
         HelmFails, Pulled, LockTimesOut, Finish, Crash
  <2>2. Pulling(p)' => want'[p] \notin entries' \ touched'
    BY <1>3, <2>1 DEF Start, Working, Look, LockPulls, Recheck, HelmStarts,
         HelmEnds, HelmFails, Pulled, LockTimesOut, Finish, Crash, Goto, Found,
         TypeOK
  <2> QED BY <1>3, <2>1, <2>2, OthersStay
<1>4. ASSUME NEW v \in Version, ByHand(v) PROVE PullingIsMissing'
  BY <1>4 DEF ByHand
<1> QED BY <1>1, <1>2, <1>3, <1>4 DEF Next

-----------------------------------------------------------------------------
(* IInv holds in every reachable state. *)
THEOREM Invariance == Spec => []IInv
<1>1. IInv /\ [Next]_vars => IInv'
  <2> SUFFICES ASSUME IInv, [Next]_vars PROVE IInv' OBVIOUS
  <2>1. TypeOK' /\ LockedInside' /\ InstallIsWhole'
    BY TypeStep, LockStep, InstallStep DEF IInv
  <2>2. EntriesAreWhole' /\ PullingIsMissing'
    BY WholeStep, MissingStep DEF IInv
  <2> QED BY <2>1, <2>2 DEF IInv
<1> QED BY <1>1, InitIInv, PTL DEF Spec

(* .pull.lock as its users take it to be. *)
PullLock == INSTANCE AbstractLock WITH holder <- lock

(* lockPulls is had as a lock is to be had: it is taken while nobody has it,
   and who gives it back, at a hit, after an install, by an error of helm's or
   by being killed, is who has it. *)
THEOREM PullLockIsALock == Spec => PullLock!Spec
<1>1. Init => PullLock!Init
  BY DEF Init, PullLock!Init
<1>2. ASSUME IInv, [Next]_vars PROVE [PullLock!Next]_lock
  <2>1. LockedInside
    BY <1>2 DEF IInv
  <2>2. ASSUME NEW p \in Proc,
               \/ \E v \in Version : Start(p, v)
               \/ Working(p) \/ LockTimesOut(p) \/ Finish(p) \/ Crash(p)
        PROVE  PullLock!Acquire(p) \/ PullLock!Release(p) \/ lock' = lock
    <3>1. CASE LockPulls(p)
      BY <3>1 DEF LockPulls, PullLock!Acquire
    <3>2. CASE Recheck(p) \/ HelmFails(p) \/ Install(p)
      <4>1. pc[p] \in Inside
        BY <3>2 DEF Recheck, HelmFails, Install, Inside
      <4>2. lock' = Nobody \/ lock' = lock
        BY <3>2 DEF Recheck, HelmFails, Install, LeaveLock
      <4> QED BY <2>1, <4>1, <4>2 DEF LockedInside, PullLock!Release
    <3>3. CASE Crash(p)
      BY <3>3 DEF Crash, PullLock!Release
    <3>4. CASE \/ \E v \in Version : Start(p, v)
               \/ Look(p) \/ HelmStarts(p) \/ HelmEnds(p) \/ Pulled(p)
               \/ LockTimesOut(p) \/ Finish(p)
      BY <3>4 DEF Start, Look, HelmStarts, HelmEnds, Pulled, LockTimesOut, Finish
    <3> QED BY <2>2, <3>1, <3>2, <3>3, <3>4 DEF Working
  <2>3. CASE UNCHANGED vars
    BY <2>3 DEF vars
  <2>4. CASE \E v \in Version : ByHand(v)
    BY <2>4 DEF ByHand
  <2> QED BY <1>2, <2>2, <2>3, <2>4 DEF Next, PullLock!Next
<1> QED BY <1>1, <1>2, Invariance, PTL DEF Spec, PullLock!Spec

(* lockPulls keeps the pulls of a host apart, whatever their versions, however
   runs die and whatever becomes of the entries. *)
THEOREM OneHelmAtATimeHolds == Spec => []OneHelmAtATime
<1>1. IInv => OneHelmAtATime
  BY NobodyAssumption DEF IInv, LockedInside, Inside, OneHelmAtATime
<1> QED BY <1>1, Invariance, PTL

(* The rename into place: no reader sees part of a pull. *)
THEOREM EntriesAreWholeHolds ==
  Spec => []EntriesAreWhole
<1>1. IInv => EntriesAreWhole
  BY DEF IInv
<1> QED BY <1>1, Invariance, PTL

(* The second look under the lock: nothing is pulled twice. *)
THEOREM PullsOnlyWhatIsMissingHolds ==
  Spec => PullsOnlyWhatIsMissing
<1>1. IInv /\ [Next]_vars =>
        [\A p \in Proc : pc[p] # "helm" /\ pc'[p] = "helm"
           => want[p] \notin entries \ touched]_vars
  <2> SUFFICES ASSUME IInv, Next, NEW p \in Proc,
                      pc[p] # "helm", pc'[p] = "helm"
               PROVE  want[p] \notin entries \ touched
    OBVIOUS
  <2>1. TypeOK /\ PullingIsMissing
    BY DEF IInv
  <2>2. pc[p] = "pull"
    <3>1. PICK q \in Proc :
            \/ \E v \in Version : Start(q, v)
            \/ Working(q) \/ LockTimesOut(q) \/ Finish(q) \/ Crash(q)
      BY DEF Next, ByHand
    <3>2. p = q
      BY <2>1, <3>1, OthersStay
    <3> QED
      BY <2>1, <3>1, <3>2 DEF TypeOK, Start, Working, Look, LockPulls, Recheck,
         HelmStarts, HelmEnds, HelmFails, Pulled, Install, LockTimesOut, Finish,
         Crash, Goto, Found
  <2> QED BY <2>1, <2>2 DEF PullingIsMissing, Pulling
<1> QED BY <1>1, Invariance, PTL DEF Spec, PullsOnlyWhatIsMissing
-----------------------------------------------------------------------------
(* The image cache. *)

(* It holds at first. *)
LEMMA InitCacheInv == CacheInit => CacheInv
<1> SUFFICES ASSUME CacheInit PROVE CacheInv
  OBVIOUS
<1>1. CacheTypeOK
  BY BinaryAssumption DEF CacheInit, CacheTypeOK, Calls
<1>2. RunsTheInstalled /\ ConfigIsRight /\ MadeAnew /\ IsMadeAgain /\ TeardownIsKnown
  BY DEF CacheInit, RunsTheInstalled, ConfigIsRight, Configured, MadeAnew, SawItGone,
     IsMadeAgain, SomeServed, At, TeardownIsKnown
<1>3. NothingIsRemoved
  BY DEF CacheInit, NothingIsRemoved, Exists
<1> QED BY <1>1, <1>2, <1>3 DEF CacheInv

(* Going on to a call keeps the types of the calls and of those that erred. *)
LEMMA GoesOn ==
  ASSUME CacheTypeOK, NEW p \in Caller, NEW s \in Calls, Proceed(p, s) \/ Err(p, s)
  PROVE  call' \in [Caller -> Calls] /\ erred' \subseteq Caller
<1>1. call' = [call EXCEPT ![p] = s]
  BY DEF Proceed, Err
<1>2. erred' \in {erred \ {p}, erred, erred \cup {p}}
  BY DEF Proceed, Err
<1> QED BY <1>1, <1>2 DEF CacheTypeOK

(* Every step keeps the types. *)
LEMMA CacheTypeStep == CacheTypeOK /\ [CacheNext]_cacheVars => CacheTypeOK'
<1> SUFFICES ASSUME CacheTypeOK, [CacheNext]_cacheVars PROVE CacheTypeOK'
  OBVIOUS
<1> DEFINE Calling == call \in [Caller -> Calls] /\ erred \subseteq Caller
<1> DEFINE Known == happened \subseteq Recorded
<1> DEFINE Standing == up => image # None /\ ~broken
<1> DEFINE Others ==
      /\ installed \in Binary /\ config \in Binary \cup {None}
      /\ image \in {ImageOf[b] : b \in Binary} \cup {None}
      /\ up \in BOOLEAN /\ loaded \in Binary \cup {None} /\ broken \in BOOLEAN
      /\ build \in [Caller -> Binary]
<1>1. Calling /\ Known /\ Others /\ Standing
  BY DEF CacheTypeOK
<1>2. SUFFICES Calling' /\ Known' /\ Others' /\ Standing'
  BY DEF CacheTypeOK
<1>3. CASE UNCHANGED cacheVars
  BY <1>1, <1>3 DEF cacheVars, container
<1>4. ASSUME NEW p \in Caller, SetUp(p) \/ TakeDown(p) \/ Kill(p) PROVE Calling'
  <2>1. PICK s \in Calls : Proceed(p, s) \/ Err(p, s)
    <3> USE DEF Calls
    <3>1. CASE Drop(p) \/ Create(p) \/ Gone(p) \/ Replace(p) \/ Lost(p) \/ Taken(p)
               \/ Delete(p)
      BY <3>1 DEF Drop, Create, Gone, Replace, Lost, Taken, Delete, Ask
    <3>2. CASE RemoveDropped(p) \/ RemoveOld(p) \/ RemoveDeleted(p)
      BY <3>2 DEF RemoveDropped, RemoveOld, RemoveDeleted, Remove
    <3>3. CASE StartSetup(p) \/ Read(p) \/ GoOn(p) \/ Inspect(p) \/ Write(p) \/ Fill(p)
      BY <3>3 DEF StartSetup, Read, GoOn, Inspect, Write, Fill
    <3>4. CASE StartContainer(p) \/ Run(p) \/ StartDelete(p) \/ Kill(p)
      BY <3>4 DEF StartContainer, Run, StartDelete, Kill
    <3> QED BY <1>4, <3>1, <3>2, <3>3, <3>4 DEF SetUp, TakeDown
  <2> QED BY <2>1, GoesOn
<1>5. ASSUME NEW p \in Caller, SetUp(p) \/ TakeDown(p) \/ Kill(p) PROVE Known'
  <2>1. happened' = happened \/ \E what \in Recorded : happened' = happened \cup {what}
    <3> USE DEF Happens, Recorded
    <3>1. CASE Drop(p) \/ Create(p) \/ Gone(p) \/ Replace(p) \/ Lost(p) \/ Taken(p)
               \/ Delete(p) \/ Inspect(p)
      BY <3>1 DEF Drop, Create, Gone, Replace, Lost, Taken, Delete, Inspect, Ask, LookFails
    <3>2. CASE RemoveDropped(p) \/ RemoveOld(p) \/ RemoveDeleted(p)
      BY <3>2 DEF RemoveDropped, RemoveOld, RemoveDeleted, Remove
    <3>3. CASE StartSetup(p) \/ Read(p) \/ GoOn(p) \/ Write(p) \/ Fill(p)
      BY <3>3 DEF StartSetup, Read, GoOn, Write, Fill
    <3>4. CASE StartContainer(p) \/ Run(p) \/ StartDelete(p) \/ Kill(p)
      BY <3>4 DEF StartContainer, Run, StartDelete, Kill
    <3> QED BY <1>5, <3>1, <3>2, <3>3, <3>4 DEF SetUp, TakeDown
  <2> QED BY <1>1, <2>1
<1>6. ASSUME NEW p \in Caller, SetUp(p) \/ TakeDown(p) \/ Kill(p) PROVE Others' /\ Standing'
  <2> USE DEF container
  <2>1. CASE \/ Drop(p) \/ Create(p) \/ Gone(p) \/ Replace(p) \/ Lost(p) \/ Taken(p)
             \/ Delete(p) \/ Inspect(p)
    <3>1. UNCHANGED <<installed, config, image, up, loaded, build>>
      BY <2>1 DEF Drop, Create, Gone, Replace, Lost, Taken, Delete, Inspect, Ask
    <3>2. UNCHANGED broken \/ LookFails
      BY <2>1 DEF Drop, Create, Gone, Replace, Lost, Taken, Delete, Inspect, Ask
    <3>3. broken' \in BOOLEAN
      BY <1>1, <3>2 DEF LookFails
    <3>4. up => ~broken'
      BY <1>1, <3>2 DEF LookFails
    <3>5. Others'
      BY <1>1, <3>1, <3>3
    <3>6. Standing'
      BY <1>1, <3>1, <3>4
    <3> QED BY <3>5, <3>6
  <2>2. CASE RemoveDropped(p) \/ RemoveOld(p) \/ RemoveDeleted(p)
    <3>1. UNCHANGED <<installed, config, broken, build>>
      BY <2>2 DEF RemoveDropped, RemoveOld, RemoveDeleted, Remove
    <3>2. UNCHANGED <<image, up, loaded>> \/ (image' = None /\ up' = FALSE /\ loaded' = None)
      BY <2>2 DEF RemoveDropped, RemoveOld, RemoveDeleted, Remove
    <3>3. Others'
      BY <1>1, <3>1, <3>2
    <3>4. Standing'
      BY <1>1, <3>1, <3>2
    <3> QED BY <3>3, <3>4
  <2>4. CASE StartSetup(p)
    BY <1>1, <2>4 DEF StartSetup
  <2>5. CASE Read(p) \/ GoOn(p) \/ StartDelete(p) \/ Kill(p)
    BY <1>1, <2>5 DEF Read, GoOn, StartDelete, Kill
  <2>6. CASE Write(p) \/ Fill(p)
    BY <1>1, <2>6 DEF Write, Fill
  <2>7. CASE StartContainer(p)
    <3>1. UNCHANGED <<installed, config, image, build>>
      BY <2>7 DEF StartContainer
    <3>2. \/ /\ Exists /\ up' = TRUE /\ broken' = FALSE /\ loaded' \in {loaded, config}
          \/ UNCHANGED <<up, loaded, broken>>
      BY <2>7 DEF StartContainer
    <3>3. Others'
      BY <1>1, <3>1, <3>2
    <3>4. Standing'
      BY <1>1, <3>1, <3>2 DEF Exists
    <3> QED BY <3>3, <3>4
  <2>8. CASE Run(p)
    <3>1. build[p] \in Binary /\ ImageOf[build[p]] # None
      BY <1>1, BinaryAssumption
    <3>2. UNCHANGED <<installed, config, build>>
      BY <2>8 DEF Run
    <3>3. \/ UNCHANGED <<image, up, loaded, broken>>
          \/ /\ image' = ImageOf[build[p]] /\ up' = TRUE /\ loaded' = config /\ broken' = FALSE
          \/ /\ ~Exists /\ UNCHANGED <<up, loaded>> /\ broken' = TRUE
             /\ image' \in {None, ImageOf[build[p]]}
      BY <2>8 DEF Run
    <3>4. Others'
      BY <1>1, <3>1, <3>2, <3>3
    <3>5. Standing'
      BY <1>1, <3>1, <3>2, <3>3 DEF Exists
    <3> QED BY <3>4, <3>5
  <2> QED BY <1>6, <2>1, <2>2, <2>4, <2>5, <2>6, <2>7, <2>8 DEF SetUp, TakeDown
<1>7. CASE Reboot
  BY <1>1, <1>7 DEF Reboot, Calls
<1>8. CASE Upgrade
  BY <1>1, <1>8 DEF Upgrade, container
<1> QED BY <1>3, <1>4, <1>5, <1>6, <1>7, <1>8 DEF CacheNext

(* The others are where they were, of the builds they were, and have erred as
   they had. *)
LEMMA OthersWait ==
  ASSUME CacheTypeOK, NEW p \in Caller, SetUp(p) \/ TakeDown(p) \/ Kill(p)
  PROVE  /\ installed' = installed
         /\ \A q \in Caller \ {p} :
              call'[q] = call[q] /\ build'[q] = build[q] /\ (q \in erred' <=> q \in erred)
<1> USE DEF CacheTypeOK, Proceed, Err
<1>1. CASE SetUp(p)
  <2>1. CASE StartSetup(p) \/ Read(p) \/ Write(p) \/ Fill(p) \/ GoOn(p)
    BY <2>1 DEF StartSetup, Read, Write, Fill, GoOn
  <2>2. CASE Drop(p) \/ Create(p) \/ Gone(p) \/ Replace(p) \/ Lost(p) \/ Taken(p) \/ Inspect(p)
    BY <2>2 DEF Drop, Create, Gone, Replace, Lost, Taken, Inspect, Ask
  <2>3. CASE StartContainer(p) \/ Run(p) \/ RemoveDropped(p) \/ RemoveOld(p)
    BY <2>3 DEF StartContainer, Run, RemoveDropped, RemoveOld, Remove
  <2> QED BY <1>1, <2>1, <2>2, <2>3 DEF SetUp
<1>2. CASE TakeDown(p) \/ Kill(p)
  BY <1>2 DEF TakeDown, StartDelete, Delete, RemoveDeleted, Ask, Remove, Kill
<1> QED BY <1>1, <1>2

(* What a look does that is answered: p goes on by what is there. *)
Answered(p) ==
  /\ UNCHANGED <<happened, broken>>
  /\ \/ call[p] = "drop" /\ call'[p] = (IF Exists THEN "rmdrop" ELSE "create")
     \/ call[p] = "create" /\ call'[p] = (IF Exists THEN "inspect" ELSE "run")
     \/ call[p] = "gone" /\ call'[p] = (IF Exists THEN "failed" ELSE "run")
     \/ call[p] = "replace" /\ call'[p] = (IF Exists THEN "rmold" ELSE "run")
     \/ call[p] = "lost" /\ call'[p] = (IF Exists THEN "failed" ELSE "run")
     \/ call[p] = "taken" /\ call'[p] = (IF Exists THEN "served" ELSE "failed")
     \/ /\ call[p] = "inspect"
        /\ call'[p] = (IF Exists /\ image # ImageOf[build[p]] THEN "replace" ELSE "start")
  /\ p \in erred => p \in erred'

(* And one that fails: p goes on as if nothing were there. *)
Unanswered(p) ==
  /\ Exists /\ broken' = (broken \/ ~up) /\ happened' = happened \cup {"look"}
  /\ \/ call[p] = "drop" /\ call'[p] = "create"
     \/ call[p] \in {"create", "gone", "replace", "lost"} /\ call'[p] = "run"
     \/ call[p] = "taken" /\ call'[p] = "failed"
     \/ call[p] = "inspect" /\ call'[p] = "start"
  /\ p \in erred'

(* What a call of p's does, by where p is before and after it. *)
LEMMA SetUpMoves ==
  ASSUME CacheTypeOK, NEW p \in Caller, SetUp(p)
  PROVE  \/ StartSetup(p) \/ Read(p) \/ Write(p) \/ Fill(p) \/ StartContainer(p) \/ Run(p)
         \/ RemoveDropped(p) \/ RemoveOld(p)
         \/ /\ UNCHANGED <<config, image, up, loaded, build>>
            /\ \/ Answered(p)
               \/ Unanswered(p)
               \/ /\ call[p] \in {"served", "failed"} /\ call'[p] = "idle"
                  /\ UNCHANGED <<happened, broken>>
<1> USE DEF CacheTypeOK, At, Proceed, Err
<1>1. CASE Drop(p) \/ Create(p) \/ Gone(p) \/ Replace(p) \/ Lost(p) \/ Taken(p)
  <2>1. UNCHANGED <<config, image, up, loaded, build>>
    BY <1>1 DEF Drop, Create, Gone, Replace, Lost, Taken, Ask
  <2>2. Answered(p) \/ Unanswered(p)
    BY <1>1 DEF Drop, Create, Gone, Replace, Lost, Taken, Ask, LookFails, Happens,
       Answered, Unanswered
  <2> QED BY <2>1, <2>2
<1>2. CASE Inspect(p)
  <2>1. Answered(p) \/ Unanswered(p)
    BY <1>2 DEF Inspect, LookFails, Happens, Answered, Unanswered
  <2> QED BY <1>2, <2>1 DEF Inspect
<1>3. CASE GoOn(p)
  BY <1>3 DEF GoOn, container
<1> QED BY <1>1, <1>2, <1>3 DEF SetUp

(* What p's rm of the container does, at call s. *)
LEMMA RemoveMoves ==
  ASSUME CacheTypeOK, NEW p \in Caller, NEW s, NEW done \in Calls, NEW error \in Calls,
         Remove(p, s, done, error), error # "idle"
  PROVE  /\ UNCHANGED <<config, build, broken>> /\ call[p] = s
         /\ \/ /\ image' = None /\ up' = FALSE /\ loaded' = None /\ happened' = happened
               /\ call'[p] = done \/ (~Exists /\ call'[p] = error)
            \/ /\ UNCHANGED <<image, up, loaded>> /\ happened' = happened \cup {"rm"}
               /\ call'[p] = error /\ p \in erred'
BY DEF CacheTypeOK, Remove, At, Proceed, Err, Happens

(* What a start and a run of the engine do. *)
LEMMA StartMoves ==
  ASSUME CacheTypeOK, NEW p \in Caller, StartContainer(p)
  PROVE  /\ UNCHANGED <<config, image, build, happened>> /\ call[p] = "start"
         /\ \/ /\ Exists /\ up' = TRUE /\ broken' = FALSE /\ call'[p] = "served"
               /\ loaded' = IF up THEN loaded ELSE config
            \/ ~Exists /\ call'[p] = "gone" /\ UNCHANGED <<up, loaded, broken>>
            \/ Exists /\ call'[p] = "gone" /\ p \in erred' /\ UNCHANGED <<up, loaded, broken>>
BY DEF CacheTypeOK, StartContainer, At, Proceed, Err

LEMMA RunMoves ==
  ASSUME CacheTypeOK, NEW p \in Caller, Run(p)
  PROVE  /\ UNCHANGED <<config, build, happened>> /\ call[p] = "run"
         /\ \/ Exists /\ call'[p] = "taken" /\ UNCHANGED <<image, up, loaded, broken>>
            \/ /\ ~Exists /\ call'[p] = "served"
               /\ image' = ImageOf[build[p]] /\ up' = TRUE /\ loaded' = config
               /\ broken' = FALSE
            \/ /\ ~Exists /\ call'[p] = "taken" /\ p \in erred'
               /\ image' \in {None, ImageOf[build[p]]} /\ broken' = TRUE
               /\ up' = FALSE
BY DEF CacheTypeOK, Run, At, Proceed, Err, container, Exists

(* And what its writing of the configuration does. *)
LEMMA WriteMoves ==
  ASSUME CacheTypeOK, NEW p \in Caller, Write(p) \/ Fill(p)
  PROVE  /\ UNCHANGED <<image, up, loaded, broken, build>>
         /\ \/ /\ call[p] = "write" /\ call'[p] = "fill" /\ config' = None
               /\ happened' = happened \cup {"write"}
            \/ /\ call[p] = "fill" /\ call'[p] = "drop" /\ config' = build[p]
               /\ happened' = happened
            \/ /\ call[p] = "write" /\ call'[p] = "failed" /\ p \in erred'
               /\ UNCHANGED <<config, happened>>
            \/ /\ call[p] = "fill" /\ call'[p] = "failed" /\ p \in erred'
               /\ config' = config /\ happened' = happened \cup {"disk"}
BY DEF CacheTypeOK, Write, Fill, At, Proceed, Err, Happens, container

(* What a teardown's calls, a kill and what else happens do. *)
LEMMA TakeDownMoves ==
  ASSUME CacheTypeOK, NEW p \in Caller, TakeDown(p)
  PROVE  /\ UNCHANGED <<config, build>>
         /\ call[p] \in {"idle", "delete", "rmdelete"}
         /\ call'[p] \in {"idle", "delete", "rmdelete"}
         /\ call[p] = "idle" => "teardown" \in happened'
         /\ happened \subseteq happened'
         /\ UNCHANGED <<image, up, loaded>> \/ (image' = None /\ up' = FALSE)
         /\ broken => broken'
<1> USE DEF CacheTypeOK, At, Proceed, Err, Happens
<1>1. CASE StartDelete(p)
  BY <1>1 DEF StartDelete, container
<1>2. CASE Delete(p)
  BY <1>2 DEF Delete, Ask, LookFails
<1>3. CASE RemoveDeleted(p)
  BY <1>3 DEF RemoveDeleted, Remove
<1> QED BY <1>1, <1>2, <1>3 DEF TakeDown

LEMMA KillMoves ==
  ASSUME CacheTypeOK, NEW p \in Caller, Kill(p)
  PROVE  /\ UNCHANGED <<config, image, up, loaded, broken, build>> /\ call'[p] = "idle"
         /\ happened' = happened \cup {"crash"}
BY DEF CacheTypeOK, Kill, At, Proceed, Happens, container

(* After a reboot or an upgrade no run is under way. *)
LEMMA NoneIsUnderWay ==
  ASSUME CacheTypeOK, Reboot \/ Upgrade
  PROVE  /\ \A p \in Caller : call'[p] = "idle"
         /\ UNCHANGED <<config, image, loaded, broken, build, happened>>
         /\ up' => up /\ \A p \in Caller : call[p] = "idle"
BY DEF CacheTypeOK, Reboot, Upgrade, At, container

(* The history only grows. *)
LEMMA HistoryGrows ==
  ASSUME CacheTypeOK, [CacheNext]_cacheVars
  PROVE  happened \subseteq happened'
<1>1. ASSUME NEW p \in Caller, SetUp(p) PROVE happened \subseteq happened'
  <2>1. CASE RemoveDropped(p) \/ RemoveOld(p)
    BY <2>1 DEF RemoveDropped, RemoveOld, Remove, Happens
  <2>2. CASE StartSetup(p) \/ Read(p) \/ Write(p) \/ Fill(p)
    BY <2>2, WriteMoves DEF StartSetup, Read
  <2> QED BY <1>1, <2>1, <2>2, SetUpMoves, StartMoves, RunMoves DEF Answered, Unanswered
<1> QED
  BY <1>1, TakeDownMoves, KillMoves, NoneIsUnderWay DEF CacheNext, cacheVars

LEMMA RunsStep ==
  ASSUME CacheTypeOK, RunsTheInstalled, [CacheNext]_cacheVars
  PROVE  RunsTheInstalled'
<1> USE DEF RunsTheInstalled
<1>1. ASSUME NEW p \in Caller, SetUp(p) PROVE RunsTheInstalled'
  <2>1. CASE StartSetup(p)
    BY <1>1, <2>1, OthersWait DEF CacheTypeOK, StartSetup
  <2>2. CASE build' = build /\ call[p] \notin {"idle", "delete", "rmdelete"}
    BY <1>1, <2>2, OthersWait
  <2>3. CASE Read(p) \/ RemoveDropped(p) \/ RemoveOld(p)
    BY <2>2, <2>3 DEF At, Read, RemoveDropped, RemoveOld, Remove
  <2>4. CASE Write(p) \/ Fill(p) \/ StartContainer(p) \/ Run(p)
    BY <2>2, <2>4, WriteMoves, StartMoves, RunMoves
  <2> QED BY <1>1, <2>1, <2>2, <2>3, <2>4, SetUpMoves DEF Answered, Unanswered
<1>2. ASSUME NEW p \in Caller, TakeDown(p) PROVE RunsTheInstalled'
  BY <1>2, TakeDownMoves, OthersWait
<1>3. ASSUME NEW p \in Caller, Kill(p) PROVE RunsTheInstalled'
  BY <1>3, KillMoves, OthersWait
<1>4. CASE UNCHANGED cacheVars
  BY <1>4 DEF cacheVars
<1> QED BY <1>1, <1>2, <1>3, <1>4, NoneIsUnderWay DEF CacheNext

LEMMA ConfigStep ==
  ASSUME CacheTypeOK, RunsTheInstalled, ConfigIsRight, [CacheNext]_cacheVars
  PROVE  ConfigIsRight'
<1> SUFFICES ASSUME happened' \cap {"crash", "rm", "look", "disk"} = {} PROVE ConfigIsRight'
  BY DEF ConfigIsRight
<1>1. /\ (\E p \in Caller : call[p] \in Configured) =>
           config = installed \/ \E q \in Caller : At(q, "fill")
      /\ up => \/ loaded = config
               \/ \E q \in Caller : call[q] \in {"fill", "drop", "rmdrop"}
  BY HistoryGrows DEF ConfigIsRight
<1> USE DEF ConfigIsRight, Configured, At
<1>2. ASSUME NEW p \in Caller, SetUp(p) PROVE ConfigIsRight'
  <2> USE DEF CacheTypeOK
  <2>1. CASE Write(p) \/ Fill(p)
    <3>1. call[p] = "fill" => build[p] = installed
      BY DEF RunsTheInstalled
    <3> QED BY <1>1, <1>2, <2>1, <3>1, WriteMoves, OthersWait
  <2>2. CASE RemoveDropped(p) \/ RemoveOld(p)
    <3>1. config' = config /\ up' = FALSE /\ call[p] \in {"rmdrop", "rmold"}
      BY <2>2 DEF RemoveDropped, RemoveOld, Remove, Happens
    <3> QED BY <1>1, <1>2, <3>1, OthersWait
  <2>3. CASE StartSetup(p) \/ Read(p)
    <3>1. UNCHANGED <<config, up, loaded>> /\ call[p] \in {"idle", "read"}
      BY <2>3 DEF StartSetup, Read, container
    <3>2. call'[p] \in {"read", "write"} \/ (call'[p] = "create" /\ config = build[p])
      BY <2>3 DEF StartSetup, Read, Proceed
    <3>3. call[p] = "read" => build[p] = installed
      BY DEF RunsTheInstalled
    <3>4. call'[p] = "create" => call[p] = "read"
      BY <2>3 DEF StartSetup, Read, Proceed
    <3> QED BY <1>1, <1>2, <3>1, <3>2, <3>3, <3>4, OthersWait
  <2>4. CASE StartContainer(p)
    BY <1>1, <1>2, <2>4, StartMoves, OthersWait
  <2>5. CASE Run(p)
    BY <1>1, <1>2, <2>5, RunMoves, OthersWait
  <2>6. CASE UNCHANGED <<config, up, loaded>> /\ Answered(p)
    <3>1. Exists <=> image # None
      BY DEF Exists
    <3>2. /\ call[p] \in Configured \ {"rmdrop"} /\ call'[p] \in Configured \cup {"failed"}
          /\ call[p] = "drop" => ~up \/ call'[p] = "rmdrop"
      BY <2>6, <3>1 DEF Answered
    <3> QED BY <1>1, <1>2, <2>6, <3>2, OthersWait
  <2>7. CASE UNCHANGED <<config, up, loaded>> /\ call[p] \in {"served", "failed"}
             /\ call'[p] = "idle"
    BY <1>1, <1>2, <2>7, OthersWait
  <2>8. ~Unanswered(p)
    BY DEF Unanswered
  <2> QED BY <1>2, <2>1, <2>2, <2>3, <2>4, <2>5, <2>6, <2>7, <2>8, SetUpMoves
<1>3. ASSUME NEW p \in Caller, TakeDown(p) PROVE ConfigIsRight'
  <2>1. config' = config /\ (up' => up /\ loaded' = loaded)
    BY <1>3, TakeDownMoves
  <2>2. /\ call[p] \in {"idle", "delete", "rmdelete"}
        /\ call'[p] \in {"idle", "delete", "rmdelete"}
    BY <1>3, TakeDownMoves
  <2>3. installed' = installed /\ \A q \in Caller \ {p} : call'[q] = call[q]
    BY <1>3, OthersWait
  <2> QED BY <1>1, <2>1, <2>2, <2>3
<1>4. ASSUME NEW p \in Caller, Kill(p) PROVE ConfigIsRight'
  BY <1>4, KillMoves
<1>5. CASE Reboot \/ Upgrade
  BY <1>1, <1>5, NoneIsUnderWay
<1>6. CASE UNCHANGED cacheVars
  BY <1>1, <1>6 DEF cacheVars, container
<1> QED BY <1>2, <1>3, <1>4, <1>5, <1>6 DEF CacheNext

(* The first half of MadeAnew: what a run found gone is up, or broken. *)
LEMMA UpStep ==
  ASSUME CacheTypeOK, MadeAnew, [CacheNext]_cacheVars
  PROVE  (\E p \in Caller : call'[p] \in SawItGone) => (Exists' => up' \/ broken')
<1> DEFINE Saw == \E p \in Caller : call[p] \in SawItGone
<1>1. Saw => (Exists => up \/ broken)
  BY DEF MadeAnew
<1> USE DEF SawItGone, Exists
<1>2. ASSUME NEW p \in Caller, SetUp(p) PROVE Saw' => (Exists' => up' \/ broken')
  <2>1. \A q \in Caller \ {p} : call'[q] = call[q]
    BY <1>2, OthersWait
  <2>2. CASE RemoveDropped(p)
    BY <1>1, <2>1, <2>2, RemoveMoves DEF RemoveDropped, Calls
  <2>3. CASE RemoveOld(p)
    BY <1>1, <2>1, <2>3, RemoveMoves DEF RemoveOld, Calls
  <2>4. CASE StartSetup(p) \/ Read(p)
    <3>1. UNCHANGED <<image, up, broken>> /\ call'[p] \in {"read", "create", "write"}
      BY <2>4 DEF CacheTypeOK, StartSetup, Read, Proceed, container
    <3> QED BY <1>1, <2>1, <3>1
  <2>5. CASE Write(p) \/ Fill(p)
    BY <1>1, <2>1, <2>5, WriteMoves
  <2>6. CASE StartContainer(p) \/ Run(p)
    BY <1>1, <2>1, <2>6, StartMoves, RunMoves
  <2>7. CASE UNCHANGED <<image, up>> /\ Unanswered(p)
    BY <2>7 DEF Unanswered, CacheTypeOK
  <2>8. CASE UNCHANGED <<image, up>> /\ Answered(p)
    BY <1>1, <2>1, <2>8 DEF Answered
  <2>9. CASE UNCHANGED <<image, up, broken>> /\ call'[p] = "idle"
    BY <1>1, <2>1, <2>9
  <2> QED BY <1>2, <2>2, <2>3, <2>4, <2>5, <2>6, <2>7, <2>8, <2>9, SetUpMoves
<1>3. ASSUME NEW p \in Caller, TakeDown(p) PROVE Saw' => (Exists' => up' \/ broken')
  BY <1>1, <1>3, TakeDownMoves, OthersWait
<1>4. ASSUME NEW p \in Caller, Kill(p) PROVE Saw' => (Exists' => up' \/ broken')
  BY <1>1, <1>4, KillMoves, OthersWait
<1>5. CASE UNCHANGED cacheVars
  BY <1>1, <1>5 DEF cacheVars, container
<1> QED BY <1>2, <1>3, <1>4, <1>5, NoneIsUnderWay DEF CacheNext

LEMMA MadeAnewStep ==
  ASSUME CacheTypeOK, RunsTheInstalled, MadeAnew, [CacheNext]_cacheVars
  PROVE  MadeAnew'
<1> DEFINE Seen == SawItGone \cup {"start", "gone", "lost"}
<1> DEFINE Right == (\E p \in Caller : call[p] \in Seen) => image \in {None, ImageOf[installed]}
<1> SUFFICES ASSUME happened' \cap {"rm", "look"} = {} PROVE Right'
  BY UpStep DEF MadeAnew
<1>1. Right
  BY HistoryGrows DEF MadeAnew
<1> USE DEF SawItGone
<1>2. ASSUME NEW p \in Caller, SetUp(p) PROVE Right'
  <2>1. installed' = installed /\ \A q \in Caller \ {p} : call'[q] = call[q]
    BY <1>2, OthersWait
  <2>2. call[p] \notin {"idle", "delete", "rmdelete"} => build[p] = installed
    BY DEF RunsTheInstalled
  <2>3. CASE RemoveDropped(p) \/ RemoveOld(p)
    <3>1. image' = None
      BY <2>3 DEF RemoveDropped, RemoveOld, Remove, Happens
    <3> QED BY <3>1
  <2>4. CASE StartSetup(p) \/ Read(p)
    <3>1. image' = image /\ call'[p] \in {"read", "create", "write"}
      BY <2>4 DEF CacheTypeOK, StartSetup, Read, Proceed, container
    <3> QED BY <1>1, <2>1, <3>1
  <2>5. CASE Write(p) \/ Fill(p)
    BY <1>1, <2>1, <2>5, WriteMoves
  <2>6. CASE StartContainer(p)
    BY <1>1, <2>1, <2>6, StartMoves
  <2>7. CASE Run(p)
    BY <1>1, <2>1, <2>2, <2>7, RunMoves
  <2>8. CASE image' = image /\ Answered(p)
    BY <1>1, <2>1, <2>2, <2>8 DEF Answered, Exists
  <2>9. CASE image' = image /\ call'[p] = "idle"
    BY <1>1, <2>1, <2>9
  <2>10. ~Unanswered(p)
    BY DEF Unanswered
  <2> QED BY <1>2, <2>3, <2>4, <2>5, <2>6, <2>7, <2>8, <2>9, <2>10, SetUpMoves
<1>3. ASSUME NEW p \in Caller, TakeDown(p) PROVE Right'
  BY <1>1, <1>3, TakeDownMoves, OthersWait
<1>4. ASSUME NEW p \in Caller, Kill(p) PROVE Right'
  BY <1>1, <1>4, KillMoves, OthersWait
<1>5. CASE UNCHANGED cacheVars
  BY <1>1, <1>5 DEF cacheVars, container
<1> QED BY <1>2, <1>3, <1>4, <1>5, NoneIsUnderWay DEF CacheNext

LEMMA MadeAgainStep ==
  ASSUME CacheTypeOK, IsMadeAgain, TeardownIsKnown, [CacheNext]_cacheVars
  PROVE  IsMadeAgain'
<1> SUFFICES ASSUME happened' \cap {"crash", "teardown"} = {}, SomeServed', ~Exists', ~broken'
             PROVE  \E q \in Caller : call'[q] \in ToMakeIt
  BY DEF IsMadeAgain
<1>1. happened \cap {"crash", "teardown"} = {}
  BY HistoryGrows
<1>2. SomeServed /\ ~Exists /\ ~broken => \E q \in Caller : call[q] \in ToMakeIt
  BY <1>1 DEF IsMadeAgain
<1>3. ASSUME NEW p \in Caller, SetUp(p)
      PROVE  \E q \in Caller : call'[q] \in ToMakeIt
  <2> USE DEF At, Exists, ToMakeIt
  <2>1. CASE call'[p] \in ToMakeIt
    BY <2>1
  <2>2. ASSUME ~Exists, ~broken, call[p] \notin ToMakeIt, call'[p] # "served"
        PROVE  \E q \in Caller : call'[q] \in ToMakeIt
    <3>1. SomeServed
      BY <1>3, <2>2, OthersWait DEF SomeServed
    <3>2. PICK q \in Caller : call[q] \in ToMakeIt
      BY <1>2, <2>2, <3>1
    <3>3. q # p
      BY <2>2, <3>2
    <3> QED BY <1>3, <3>2, <3>3, OthersWait
  <2>3. CASE RemoveDropped(p)
    <3>1. call[p] = "rmdrop" /\ broken' = broken
      BY <2>3, RemoveMoves DEF RemoveDropped, Calls
    <3>2. \/ call'[p] = "create"
          \/ call'[p] = "failed" /\ ~Exists'
      BY <2>3, RemoveMoves DEF RemoveDropped, Calls
    <3>3. call'[p] = "failed" => ~Exists
      BY <2>3, RemoveMoves DEF RemoveDropped, Calls
    <3> QED BY <2>1, <2>2, <3>1, <3>2, <3>3
  <2>4. CASE RemoveOld(p)
    BY <2>1, <2>4, RemoveMoves DEF RemoveOld, Calls
  <2>5. CASE StartSetup(p) \/ Read(p)
    <3>1. UNCHANGED <<image, broken>> /\ call[p] \in {"idle", "read"}
          /\ call'[p] \in {"read", "create", "write"}
      BY <2>5 DEF CacheTypeOK, StartSetup, Read, Proceed, container
    <3> QED BY <2>2, <3>1
  <2>6. CASE Write(p) \/ Fill(p)
    BY <2>2, <2>6, WriteMoves
  <2>7. CASE StartContainer(p)
    BY <2>1, <2>7, StartMoves
  <2>8. ~Run(p)
    <3>1. ImageOf[build[p]] # None
      BY BinaryAssumption DEF CacheTypeOK
    <3> QED BY <3>1, RunMoves
  <2>9. CASE image' = image /\ Answered(p)
    BY <2>1, <2>2, <2>9 DEF Answered
  <2>10. CASE image' = image /\ call[p] \in {"served", "failed"} /\ call'[p] = "idle"
              /\ broken' = broken
    BY <2>2, <2>10
  <2>11. image' = image => ~Unanswered(p)
    BY DEF Unanswered
  <2> QED BY <1>3, <2>3, <2>4, <2>5, <2>6, <2>7, <2>8, <2>9, <2>10, <2>11, SetUpMoves
<1>4. ASSUME NEW p \in Caller, TakeDown(p) PROVE FALSE
  BY <1>1, <1>4, TakeDownMoves DEF TeardownIsKnown
<1>5. ASSUME NEW p \in Caller, Kill(p) PROVE FALSE
  BY <1>5, KillMoves
<1>6. CASE Reboot \/ Upgrade
  BY <1>6, NoneIsUnderWay DEF SomeServed, At
<1>7. CASE UNCHANGED cacheVars
  BY <1>2, <1>7 DEF cacheVars, container, SomeServed, At, Exists
<1> QED BY <1>3, <1>4, <1>5, <1>6, <1>7 DEF CacheNext

LEMMA RemovedStep ==
  ASSUME CacheTypeOK, NothingIsRemoved, TeardownIsKnown, [CacheNext]_cacheVars
  PROVE  NothingIsRemoved'
<1> DEFINE Fine(p) ==
      /\ \/ call[p] \in {"idle", "read", "write", "create", "inspect", "start", "run",
                         "taken", "served"}
         \/ p \in erred /\ call[p] \in {"gone", "failed"}
      /\ call[p] \in {"create", "inspect", "start", "gone", "run", "taken"} =>
           build[p] = config
      /\ call[p] \in {"inspect", "start", "gone"} => Exists
      /\ call[p] = "taken" => Exists \/ p \in erred
<1> DEFINE OfTheConfig == Exists => config \in Binary /\ image = ImageOf[config]
<1> SUFFICES ASSUME happened' \cap {"write", "teardown"} = {}
             PROVE  (\A p \in Caller : Fine(p)') /\ OfTheConfig'
  BY DEF NothingIsRemoved
<1>1. happened \cap {"write", "teardown"} = {}
  BY HistoryGrows
<1>2. (\A p \in Caller : Fine(p)) /\ OfTheConfig
  BY <1>1 DEF NothingIsRemoved
<1>3. ASSUME NEW p \in Caller, SetUp(p), Fine(p)', OfTheConfig', config' = config,
             Exists => Exists'
      PROVE  (\A q \in Caller : Fine(q)') /\ OfTheConfig'
  <2>1. ASSUME NEW q \in Caller \ {p} PROVE Fine(q)'
    <3>1. call'[q] = call[q] /\ build'[q] = build[q] /\ (q \in erred' <=> q \in erred)
      BY <1>3, OthersWait
    <3> QED BY <1>2, <1>3, <3>1
  <2> QED BY <1>3, <2>1
<1>4. ASSUME NEW p \in Caller, SetUp(p)
      PROVE  (\A q \in Caller : Fine(q)') /\ OfTheConfig'
  <2>1. Fine(p) /\ OfTheConfig
    BY <1>2
  <2>2. CASE RemoveDropped(p) \/ RemoveOld(p)
    BY <2>1, <2>2 DEF RemoveDropped, RemoveOld, Remove, At
  <2> SUFFICES \/ Fine(p)' /\ OfTheConfig' /\ config' = config /\ (Exists => Exists')
               \/ RemoveDropped(p) \/ RemoveOld(p)
    BY <1>3, <1>4, <2>2
  <2> USE DEF Exists
  <2>3. CASE StartSetup(p) \/ Read(p)
    BY <2>1, <2>3 DEF CacheTypeOK, StartSetup, Read, Proceed, At, container
  <2>4. CASE Write(p) \/ Fill(p)
    BY <2>1, <2>4, WriteMoves
  <2>5. CASE StartContainer(p)
    BY <2>1, <2>5, StartMoves
  <2>6. CASE Run(p)
    <3>1. build[p] \in Binary /\ UNCHANGED <<config, build>> /\ build[p] = config
      BY <2>1, <2>6, RunMoves DEF CacheTypeOK
    <3>2. \/ Exists /\ call'[p] = "taken" /\ image' = image
          \/ ~Exists /\ call'[p] = "served" /\ image' = ImageOf[build[p]]
          \/ /\ ~Exists /\ call'[p] = "taken" /\ p \in erred'
             /\ image' \in {None, ImageOf[build[p]]}
      BY <2>6, RunMoves
    <3> QED BY <2>1, <3>1, <3>2
  <2>7. CASE UNCHANGED <<config, image, build>> /\ Answered(p)
    BY <2>1, <2>7 DEF Answered
  <2>8. CASE UNCHANGED <<config, image, build>> /\ Unanswered(p)
    BY <2>1, <2>8 DEF Unanswered
  <2>9. CASE UNCHANGED <<config, image, build>> /\ call'[p] = "idle"
    BY <2>1, <2>9
  <2> QED BY <1>4, <2>3, <2>4, <2>5, <2>6, <2>7, <2>8, <2>9, SetUpMoves
<1>5. ASSUME NEW p \in Caller, TakeDown(p) PROVE FALSE
  BY <1>1, <1>5, TakeDownMoves DEF TeardownIsKnown
<1>6. ASSUME NEW p \in Caller, Kill(p)
      PROVE  (\A q \in Caller : Fine(q)') /\ OfTheConfig'
  <2>1. Fine(p)' /\ OfTheConfig'
    BY <1>2, <1>6, KillMoves DEF Exists
  <2>2. ASSUME NEW q \in Caller \ {p} PROVE Fine(q)'
    <3>1. call'[q] = call[q] /\ build'[q] = build[q] /\ (q \in erred' <=> q \in erred)
      BY <1>6, OthersWait
    <3> QED BY <1>2, <1>6, <3>1, KillMoves DEF Exists
  <2> QED BY <2>1, <2>2
<1>7. CASE Reboot \/ Upgrade
  BY <1>2, <1>7, NoneIsUnderWay DEF Exists
<1>8. CASE UNCHANGED cacheVars
  BY <1>2, <1>8 DEF cacheVars, container, Exists
<1> QED BY <1>4, <1>5, <1>6, <1>7, <1>8 DEF CacheNext

LEMMA KnownStep ==
  ASSUME CacheTypeOK, TeardownIsKnown, [CacheNext]_cacheVars
  PROVE  TeardownIsKnown'
<1> USE DEF TeardownIsKnown
<1>1. ASSUME NEW p \in Caller, SetUp(p) PROVE TeardownIsKnown'
  <2>1. call'[p] \notin {"delete", "rmdelete"}
    <3>1. CASE StartSetup(p) \/ Read(p) \/ RemoveDropped(p) \/ RemoveOld(p)
      BY <3>1 DEF CacheTypeOK, StartSetup, Read, RemoveDropped, RemoveOld, Remove, Proceed, Err
    <3> QED BY <1>1, <3>1, SetUpMoves, WriteMoves, StartMoves, RunMoves DEF Answered, Unanswered
  <2> QED BY <1>1, <2>1, OthersWait, HistoryGrows
<1>2. ASSUME NEW p \in Caller, TakeDown(p) PROVE TeardownIsKnown'
  BY <1>2, TakeDownMoves, OthersWait
<1>3. ASSUME NEW p \in Caller, Kill(p) PROVE TeardownIsKnown'
  BY <1>3, KillMoves, OthersWait
<1>4. CASE UNCHANGED cacheVars
  BY <1>4 DEF cacheVars
<1> QED BY <1>1, <1>2, <1>3, <1>4, NoneIsUnderWay DEF CacheNext

LEMMA StepCacheInv == CacheInv /\ [CacheNext]_cacheVars => CacheInv'
BY CacheTypeStep, RunsStep, ConfigStep, MadeAnewStep, MadeAgainStep, RemovedStep, KnownStep
   DEF CacheInv

(* internal/cache/cache.go and cmd/cache.go: the invariant of the runs that set
   up the cache of a host. *)
THEOREM CacheInvariance == CacheSpec => []CacheInv
BY InitCacheInv, StepCacheInv, PTL DEF CacheSpec

(* cache.Create: losing the race is no error, until a configuration is written
   or a cache is deleted, whichever of the runs are killed and whatever calls of
   the others fail. *)
THEOREM NoLostRaceHolds == CacheSpec => []NoLostRace
<1>1. CacheInv => NoLostRace
  BY DEF CacheInv, NothingIsRemoved, NoLostRace, At
<1> QED BY <1>1, CacheInvariance, PTL

(* cache.Create: runs side by side converge on a cache that is up, unless the
   engine failed at it since it was. *)
THEOREM ConvergeHolds == CacheSpec => []Converge
<1>1. CacheInv => Converge
  <2> SUFFICES ASSUME CacheInv, happened \cap {"crash", "teardown"} = {}, Settled, SomeServed,
                      ~broken
               PROVE  up
    BY DEF Converge
  <2>1. Exists
    BY DEF CacheInv, IsMadeAgain, Settled, ToMakeIt
  <2> QED BY <2>1 DEF CacheInv, MadeAnew, SawItGone, SomeServed, At
<1> QED BY <1>1, CacheInvariance, PTL

(* setupCache: and on the image and the configuration of the build they are of,
   unless the old container could not be seen or removed, or a write failed. *)
THEOREM ServesTheConfigHolds == CacheSpec => []ServesTheConfig
<1>1. CacheInv => ServesTheConfig
  <2> SUFFICES ASSUME CacheInv, happened \subseteq {"write"}, Settled, SomeServed, ~broken
               PROVE  loaded = installed /\ image = ImageOf[installed]
    BY DEF ServesTheConfig
  <2>1. Exists
    <3>1. happened \cap {"crash", "teardown"} = {}
      OBVIOUS
    <3> QED BY <3>1 DEF CacheInv, IsMadeAgain, Settled, ToMakeIt
  <2>2. up
    BY <2>1 DEF CacheInv, MadeAnew, SawItGone, SomeServed, At
  <2>3. image = ImageOf[installed]
    <3>1. happened \cap {"rm", "look"} = {}
      OBVIOUS
    <3> QED BY <2>1, <3>1 DEF CacheInv, MadeAnew, SawItGone, SomeServed, At, Exists
  <2>4. \A q \in Caller : call[q] \notin {"fill", "drop", "rmdrop"}
    BY DEF Settled
  <2>5. config = installed /\ loaded = config
    <3>1. happened \cap {"crash", "rm", "look", "disk"} = {}
      OBVIOUS
    <3> QED BY <2>2, <2>4, <3>1 DEF CacheInv, ConfigIsRight, Configured, SomeServed, At
  <2> QED BY <2>3, <2>5
<1> QED BY <1>1, CacheInvariance, PTL
=============================================================================
