---------------------------- MODULE Locks_proofs ----------------------------
(***************************************************************************)
(* Proofs about Flock and about RegistryPorts, which share no state.       *)
(*                                                                         *)
(* Flock, for any number of processes, of inodes and of nested             *)
(* acquisitions.  LockInv is inductive; mutual exclusion, the guarded      *)
(* path, the rule on deletions and the implementation of AbstractLock      *)
(* follow from it.                                                         *)
(*                                                                         *)
(* RegistryPorts, for any number of clusters and of ports.  IInv is        *)
(* inductive, whatever ports are asked for and whatever fails.  From it    *)
(* follow: the lock is had as a lock; a port two clusters share was asked  *)
(* for; only a down --delete-disks takes the record from under a registry; *)
(* a registry loses its port to a stranger, to a request or to such an     *)
(* orphan.  Without requests and without failed deletions, what the runs   *)
(* check: no port shared, no registry in another cluster's way.            *)
(***************************************************************************)
EXTENDS Flock, RegistryPorts, TLAPS

(* The descriptors and the flocks after a close. *)
LEMMA CloseFileFrees ==
  ASSUME NEW p \in Proc, LockTypeOK, CloseFile(p)
  PROVE  /\ path' = path
         /\ fd' \in [Proc -> Inode \cup {NoFile}]
         /\ owner' \in [Inode -> Proc \cup {NoOne}]
         /\ fd'[p] = NoFile
         /\ \A q \in Proc \ {p} : fd'[q] = fd[q]
         /\ \A i \in Inode : owner'[i] = IF owner[i] = p THEN NoOne ELSE owner[i]
  BY DEF CloseFile, LockTypeOK

(* An open changes one descriptor, and moves the path only from nothing. *)
LEMMA OpenFileOpens ==
  ASSUME NEW p \in Proc, LockTypeOK, OpenFile(p)
  PROVE  /\ owner' = owner
         /\ path' \in Inode /\ (path # NoFile => path' = path)
         /\ fd' \in [Proc -> Inode \cup {NoFile}]
         /\ fd'[p] = path'
         /\ \A q \in Proc \ {p} : fd'[q] = fd[q]
  BY InodeAssumption DEF OpenFile, Free, LockTypeOK

(* The initial state satisfies the inductive invariant. *)
LEMMA InitLockInv == LockInit => LockInv
  BY ProcAssumption, InodeAssumption, NestAssumption
     DEF LockInit, LockInv, LockTypeOK, Places, OwnerIsOpen, OwningOwns, OpenedIsOpen,
         HolderIsNamed, NestedHold, Owning, Holding

(* Every step keeps the types. *)
LEMMA LockTypeStep == LockTypeOK /\ [LockNext]_lockVars => LockTypeOK'
<1> SUFFICES ASSUME LockTypeOK, [LockNext]_lockVars PROVE LockTypeOK' OBVIOUS
<1> USE NestAssumption DEF LockTypeOK, Places
<1>1. CASE UNCHANGED lockVars
  BY <1>1 DEF lockVars
<1>2. ASSUME NEW p \in Proc, Step(p) PROVE LockTypeOK'
  <2>1. CASE Open(p)         BY <2>1, OpenFileOpens DEF Open
  <2>2. CASE Reopen(p)       BY <2>2, OpenFileOpens DEF Reopen
  <2>3. CASE TakeFlock(p)    BY <2>3 DEF TakeFlock
  <2>4. CASE Refuse(p)       BY <2>4, CloseFileFrees DEF Refuse
  <2>5. CASE AttemptFails(p) BY <2>5, CloseFileFrees DEF AttemptFails
  <2>6. CASE FindCurrent(p)  BY <2>6 DEF FindCurrent
  <2>7. CASE FindStale(p)    BY <2>7, CloseFileFrees DEF FindStale
  <2>8. CASE NestedLock(p)   BY <2>8 DEF NestedLock
  <2>9. CASE NestedRelease(p) BY <2>9 DEF NestedRelease
  <2>10. CASE SetRemove(p)   BY <2>10 DEF SetRemove
  <2>11. CASE Unlink(p)      BY <2>11 DEF Unlink
  <2>12. CASE Close(p)       BY <2>12, CloseFileFrees DEF Close
  <2>13. CASE Die(p)       BY <2>13, CloseFileFrees DEF Die
  <2> QED
    BY <1>2, <2>1, <2>2, <2>3, <2>4, <2>5, <2>6, <2>7, <2>8, <2>9, <2>10,
       <2>11, <2>12, <2>13 DEF Step, Acquiring
<1> QED BY <1>1, <1>2 DEF LockNext

(* The part of the invariant beside the types, named for the steps below. *)
LockParts == OwnerIsOpen /\ OwningOwns /\ OpenedIsOpen /\ HolderIsNamed /\ NestedHold

(* A process that closes the file and goes elsewhere owns nothing after. *)
LEMMA CloseStep ==
  ASSUME NEW p \in Proc, LockInv, LockTypeOK', CloseFile(p),
         NEW s \in {"idle", "reopen"}, at' = [at EXCEPT ![p] = s],
         nest'[p] = 0, \A q \in Proc \ {p} : nest'[q] = nest[q]
  PROVE  LockParts'
<1> USE DEF LockInv
<1>1. OwnerIsOpen'
  BY CloseFileFrees, ProcAssumption DEF OwnerIsOpen, Owning, LockTypeOK
<1>2. OwningOwns'
  BY CloseFileFrees, ProcAssumption DEF OwningOwns, Owning, LockTypeOK
<1>3. OpenedIsOpen'
  BY CloseFileFrees DEF OpenedIsOpen, LockTypeOK
<1>4. HolderIsNamed'
  BY CloseFileFrees DEF HolderIsNamed, Holding, LockTypeOK
<1>5. NestedHold'
  BY DEF NestedHold, Holding, LockTypeOK
<1> QED BY <1>1, <1>2, <1>3, <1>4, <1>5 DEF LockParts

(* A process that opens the file owns nothing yet; a holder keeps its name. *)
LEMMA OpenStep ==
  ASSUME NEW p \in Proc, LockInv, LockTypeOK', OpenFile(p), at[p] \in {"idle", "reopen"},
         at' = [at EXCEPT ![p] = "opened"], UNCHANGED nest
  PROVE  LockParts'
<1> USE DEF LockInv
<1>1. OwnerIsOpen'
  BY OpenFileOpens, ProcAssumption DEF OwnerIsOpen, Owning, LockTypeOK
<1>2. OwningOwns'
  BY OpenFileOpens DEF OwningOwns, Owning, LockTypeOK
<1>3. OpenedIsOpen'
  BY OpenFileOpens DEF OpenedIsOpen, LockTypeOK
<1>4. HolderIsNamed'
  BY OpenFileOpens, InodeAssumption
     DEF HolderIsNamed, OwningOwns, Owning, Holding, LockTypeOK
<1>5. NestedHold'
  BY DEF NestedHold, Holding, LockTypeOK
<1> QED BY <1>1, <1>2, <1>3, <1>4, <1>5 DEF LockParts

(* Steps that only move a process on, the files and flocks unchanged. *)
LEMMA QuietStep ==
  ASSUME NEW p \in Proc, LockInv, LockTypeOK', UNCHANGED <<path, fd, owner>>,
         \/ FindCurrent(p) \/ NestedLock(p) \/ NestedRelease(p) \/ SetRemove(p)
  PROVE  LockParts'
<1> USE DEF LockInv, LockParts, OwnerIsOpen, OwningOwns, OpenedIsOpen,
            HolderIsNamed, NestedHold, Owning, Holding, LockTypeOK
<1>1. CASE FindCurrent(p)   BY <1>1 DEF FindCurrent, NamesFile
<1>2. CASE NestedLock(p)    BY <1>2 DEF NestedLock
<1>3. CASE NestedRelease(p) BY <1>3 DEF NestedRelease
<1>4. CASE SetRemove(p)     BY <1>4 DEF SetRemove
<1> QED BY <1>1, <1>2, <1>3, <1>4

(* Taking a free flock makes one more owner, of an inode nobody owned. *)
LEMMA TakeFlockStep ==
  ASSUME NEW p \in Proc, LockInv, LockTypeOK', TakeFlock(p)
  PROVE  LockParts'
  BY ProcAssumption
     DEF LockInv, LockParts, OwnerIsOpen, OwningOwns, OpenedIsOpen, HolderIsNamed,
         NestedHold, Owning, Holding, LockTypeOK, TakeFlock

(* Two processes past flockUntil have different inodes. *)
LEMMA OwnersApart ==
  ASSUME OwningOwns, NEW p \in Proc, NEW q \in Proc, Owning(p), Owning(q),
         fd[p] = fd[q]
  PROVE  p = q
  BY DEF OwningOwns

(* The removal takes the name from the remover's inode and from no holder. *)
LEMMA UnlinkStep ==
  ASSUME NEW p \in Proc, LockInv, LockTypeOK', Unlink(p)
  PROVE  LockParts'
<1> USE DEF LockInv, Unlink
<1>1. \A q \in Proc \ {p} : ~Holding(q)
  BY OwnersApart DEF HolderIsNamed, Holding, Owning
<1>2. HolderIsNamed'
  BY <1>1 DEF HolderIsNamed, Holding, LockTypeOK
<1>3. OwnerIsOpen' /\ OwningOwns' /\ OpenedIsOpen'
  BY DEF OwnerIsOpen, OwningOwns, OpenedIsOpen, Owning, LockTypeOK
<1>4. NestedHold'
  BY DEF NestedHold, Holding, LockTypeOK
<1> QED BY <1>2, <1>3, <1>4 DEF LockParts

(* Every step keeps the inductive invariant. *)
LEMMA LockInvStep == LockInv /\ [LockNext]_lockVars => LockInv'
<1> SUFFICES ASSUME LockInv, [LockNext]_lockVars PROVE LockInv' OBVIOUS
<1>1. LockTypeOK' BY LockTypeStep DEF LockInv
<1>2. CASE UNCHANGED lockVars
  BY <1>2 DEF lockVars, LockInv, LockTypeOK, Places, OwnerIsOpen, OwningOwns, OpenedIsOpen,
              HolderIsNamed, NestedHold, Owning, Holding
<1>3. ASSUME NEW p \in Proc, Step(p) PROVE LockParts'
  <2>0. nest[p] \in Nat /\ (at[p] # "held" => nest[p] = 0)
    BY NestAssumption DEF LockInv, LockTypeOK, NestedHold, Holding
  <2>1. CASE Open(p)          BY <1>1, <2>1, OpenStep DEF Open
  <2>2. CASE Reopen(p)        BY <1>1, <2>2, OpenStep DEF Reopen
  <2>3. CASE TakeFlock(p)     BY <1>1, <2>3, TakeFlockStep
  <2>4. CASE Refuse(p)        BY <1>1, <2>0, <2>4, CloseStep DEF Refuse
  <2>5. CASE AttemptFails(p)  BY <1>1, <2>0, <2>5, CloseStep DEF AttemptFails
  <2>6. CASE FindCurrent(p)   BY <1>1, <2>6, QuietStep DEF FindCurrent
  <2>7. CASE FindStale(p)     BY <1>1, <2>0, <2>7, CloseStep DEF FindStale
  <2>8. CASE NestedLock(p)    BY <1>1, <2>8, QuietStep DEF NestedLock
  <2>9. CASE NestedRelease(p) BY <1>1, <2>9, QuietStep DEF NestedRelease
  <2>10. CASE SetRemove(p)    BY <1>1, <2>10, QuietStep DEF SetRemove
  <2>11. CASE Unlink(p)       BY <1>1, <2>11, UnlinkStep
  <2>12. CASE Close(p)        BY <1>1, <2>12, CloseStep DEF Close
  <2>13. CASE Die(p)
    <3>1. nest'[p] = 0 /\ \A q \in Proc \ {p} : nest'[q] = nest[q]
      BY <2>13 DEF Die, LockInv, LockTypeOK
    <3> QED BY <1>1, <2>13, <3>1, CloseStep DEF Die
  <2> QED
    BY <1>3, <2>1, <2>2, <2>3, <2>4, <2>5, <2>6, <2>7, <2>8, <2>9, <2>10,
       <2>11, <2>12, <2>13 DEF Step, Acquiring
<1> QED BY <1>1, <1>2, <1>3 DEF LockNext, LockInv, LockParts

-----------------------------------------------------------------------------
(* LockInv, the types among it, holds of the lock throughout. *)
THEOREM LockInvariance == LockSpec => []LockInv
<1>1. LockInit => LockInv BY InitLockInv
<1>2. LockInv /\ [LockNext]_lockVars => LockInv' BY LockInvStep
<1> QED BY <1>1, <1>2, PTL DEF LockSpec

(* What LockInv says of two holders: their inode is the path's, so it is one
   inode, and a flock has one owner. *)
LEMMA LockInvExcludes == LockInv => MutualExclusion
  BY OwnersApart DEF LockInv, HolderIsNamed, MutualExclusion, Holding, Owning

(* Two runs never both hold the lock of a cluster. *)
THEOREM MutualExclusionHolds == LockSpec => []MutualExclusion
  BY LockInvariance, LockInvExcludes, PTL

(* A holder, its nested calls included, has the flock the next locker of the
   path will meet. *)
THEOREM HolderGuardsThePathHolds == LockSpec => []HolderGuardsThePath
<1>1. LockInv => HolderGuardsThePath
  BY InodeAssumption
     DEF LockInv, HolderGuardsThePath, HolderIsNamed, OwningOwns, NestedHold,
         Holding, Owning
<1> QED BY <1>1, LockInvariance, PTL

(* A step that takes the name away is its holder's Unlink. *)
LEMMA PathStep ==
  ASSUME LockInv, [LockNext]_lockVars, path # NoFile, path' # path
  PROVE  path' = NoFile /\ \E p \in Proc :
           Holding(p) /\ owner[path] = p /\ owner'[path] = p
<1>1. PICK p \in Proc : Step(p) BY DEF LockNext, lockVars
<1>2. Unlink(p)
  BY <1>1, OpenFileOpens, CloseFileFrees
     DEF LockInv, Step, Acquiring, Open, Reopen, TakeFlock, Refuse, AttemptFails,
         FindCurrent, FindStale, NestedLock, NestedRelease, SetRemove, Close,
         Die
<1> QED BY <1>2 DEF Unlink, LockInv, HolderIsNamed, OwningOwns, Holding, Owning

(* Only the process that has the flock deletes the file, still having it. *)
THEOREM OnlyTheHolderUnlinksHolds == LockSpec => OnlyTheHolderUnlinks
<1>1. LockInv /\ [LockNext]_lockVars =>
        [path # NoFile /\ path' # path =>
           path' = NoFile /\ \E p \in Proc :
             Holding(p) /\ owner[path] = p /\ owner'[path] = p]_lockVars
  BY PathStep
<1> QED BY <1>1, LockInvariance, PTL DEF LockSpec, OnlyTheHolderUnlinks

(* A refusal means a live process at work on the same file. *)
THEOREM RefusedOnlyByALiveRunHolds == LockSpec => RefusedOnlyByALiveRun
<1>1. ASSUME LockInv, NEW p \in Proc, Refuse(p)
      PROVE \E q \in Proc \ {p} : at[q] # "idle" /\ fd[q] = fd[p]
  <2>1. fd[p] \in Inode /\ owner[fd[p]] # NoOne /\ at[p] = "opened"
    BY <1>1 DEF LockInv, OpenedIsOpen, Refuse
  <2>2. owner[fd[p]] \in Proc BY <1>1, <2>1 DEF LockInv, LockTypeOK
  <2>3. Owning(owner[fd[p]]) /\ fd[owner[fd[p]]] = fd[p]
    BY <1>1, <2>1 DEF LockInv, OwnerIsOpen
  <2> QED BY <2>1, <2>2, <2>3 DEF Owning
<1>2. LockInv /\ [LockNext]_lockVars =>
        [\A p \in Proc : Refuse(p) =>
           \E q \in Proc \ {p} : at[q] # "idle" /\ fd[q] = fd[p]]_lockVars
  BY <1>1
<1> QED BY <1>2, LockInvariance, PTL DEF LockSpec, RefusedOnlyByALiveRun

-----------------------------------------------------------------------------
(* The holder the abstract lock sees. *)
LEMMA HolderIs ==
  ASSUME MutualExclusion
  PROVE  /\ \A p \in Proc : Holding(p) <=> Owner = p
         /\ (\A p \in Proc : ~Holding(p)) <=> Owner = NoOne
<1>1. CASE \A p \in Proc : ~Holding(p)
  BY <1>1, ProcAssumption DEF Owner
<1>2. CASE \E p \in Proc : Holding(p)
  <2>1. Owner \in Proc /\ Holding(Owner)
    BY <1>2 DEF Owner
  <2> QED BY <1>2, <2>1, ProcAssumption DEF MutualExclusion
<1> QED BY <1>1, <1>2

(* The same of the next state. *)
LEMMA HolderIsNext ==
  ASSUME MutualExclusion'
  PROVE  /\ \A p \in Proc : Holding(p)' <=> Owner' = p
         /\ (\A p \in Proc : ~Holding(p)') <=> Owner' = NoOne
<1>1. CASE \A p \in Proc : ~Holding(p)'
  BY <1>1, ProcAssumption DEF Owner
<1>2. CASE \E p \in Proc : Holding(p)'
  <2>1. Owner' \in Proc /\ (\E p \in Proc : p = Owner' /\ Holding(p)')
    BY <1>2 DEF Owner, Holding
  <2> QED BY <1>2, <2>1, ProcAssumption DEF MutualExclusion
<1> QED BY <1>1, <1>2

(* A step that changes who holds is an acquisition by one process or the end
   of one process's hold. *)
LEMMA HoldStep ==
  ASSUME LockInv, NEW p \in Proc, Step(p)
  PROVE  /\ \A q \in Proc \ {p} : Holding(q)' <=> Holding(q)
         /\ Holding(p)' /\ ~Holding(p) => FindCurrent(p)
<1> USE DEF LockInv, LockTypeOK, Holding
<1>1. CASE Open(p) \/ Reopen(p)
  BY <1>1 DEF Open, Reopen
<1>2. CASE TakeFlock(p) \/ Refuse(p) \/ AttemptFails(p)
  BY <1>2 DEF TakeFlock, Refuse, AttemptFails
<1>3. CASE FindCurrent(p) \/ FindStale(p)
  BY <1>3 DEF FindCurrent, FindStale
<1>4. CASE NestedLock(p) \/ NestedRelease(p) \/ SetRemove(p)
  BY <1>4 DEF NestedLock, NestedRelease, SetRemove
<1>5. CASE Unlink(p) \/ Close(p) \/ Die(p)
  BY <1>5 DEF Unlink, Close, Die
<1> QED BY <1>1, <1>2, <1>3, <1>4, <1>5 DEF Step, Acquiring

(* acquireFlock and the release implement the lock commands rely on. *)
THEOREM FlockImplementsLock == LockSpec => ImplementsLock
<1>1. LockInit => Lock!Init
  BY DEF LockInit, Lock!Init, Owner, Holding
<1>2. ASSUME LockInv, LockInv', [LockNext]_lockVars PROVE [Lock!Next]_Owner
  <2>1. MutualExclusion /\ MutualExclusion'
    <3>1. MutualExclusion BY <1>2, LockInvExcludes
    <3>2. LockInv' => MutualExclusion'
      BY DEF LockInv, HolderIsNamed, OwningOwns, MutualExclusion, Holding, Owning
    <3> QED BY <1>2, <3>1, <3>2
  <2>2. CASE UNCHANGED lockVars
    BY <2>2 DEF lockVars, Owner, Holding
  <2>3. ASSUME NEW p \in Proc, Step(p) PROVE [Lock!Next]_Owner
    <3>1. \A q \in Proc \ {p} : Holding(q)' <=> Holding(q)
      BY <1>2, <2>3, HoldStep
    <3>2. CASE ~Holding(p) /\ Holding(p)'
      <4>1. Owner' = p BY <2>1, <3>2, HolderIsNext
      <4>2. \A q \in Proc : ~Holding(q)
        BY <2>1, <3>1, <3>2 DEF MutualExclusion
      <4>3. Owner = NoOne BY <2>1, <4>2, HolderIs
      <4> QED BY <4>1, <4>3 DEF Lock!Next, Lock!Acquire
    <3>3. CASE Holding(p) /\ ~Holding(p)'
      <4>1. Owner = p BY <2>1, <3>3, HolderIs
      <4>2. \A q \in Proc : ~Holding(q)'
        BY <2>1, <3>1, <3>3 DEF MutualExclusion
      <4>3. Owner' = NoOne BY <2>1, <4>2, HolderIsNext
      <4> QED BY <4>1, <4>3 DEF Lock!Next, Lock!Release
    <3>4. CASE Holding(p)' <=> Holding(p)
      <4>1. \A q \in Proc : Holding(q)' <=> Holding(q) BY <3>1, <3>4
      <4>2. CASE \E q \in Proc : Holding(q)
        BY <2>1, <4>1, <4>2, HolderIs, HolderIsNext
      <4>3. CASE \A q \in Proc : ~Holding(q)
        BY <2>1, <4>1, <4>3, HolderIs, HolderIsNext
      <4> QED BY <4>2, <4>3
    <3> QED BY <3>2, <3>3, <3>4
  <2> QED BY <1>2, <2>2, <2>3 DEF LockNext
<1> QED BY <1>1, <1>2, LockInvariance, PTL DEF LockSpec, ImplementsLock, Lock!Spec

-----------------------------------------------------------------------------
(* The ports. *)

(* The initial state satisfies the inductive invariant. *)
LEMMA InitIInv == Init => IInv
  BY PortAssumption, NobodyAssumption
     DEF Init, IInv, TypeOK, PC, LockedInside, Locked, ChoiceIsOnRecord, Recorded,
         SharedIsAskedFor, RequestsAreFlags, ChoiceIsAskedFor, Decided,
         FollowsContainer, ContainerOnItsRecord, ContainerGoesFirst

(* The steps of the run of one cluster, and those of its registry. *)
RunStep(c) ==
  \/ Start(c) \/ Reserving(c) \/ Serving(c) \/ Down(c)
  \/ Crash(c) \/ LockTimesOut(c) \/ DiscardFails(c)

(* A step is of a run, a registry that stops, or another program's. *)
LEMMA Steps ==
  ASSUME Next
  PROVE  \/ \E c \in Cluster : RunStep(c)
         \/ \E c \in Cluster : RegistryStops(c)
         \/ \E p \in Port : ForeignBinds(p) \/ ForeignFrees(p)
  BY DEF Next, Disturbance, RunStep, Down

(* What the run of a cluster does stays with that cluster. *)
LEMMA OthersStay ==
  ASSUME TypeOK, NEW c \in Cluster, RunStep(c)
  PROVE  \A d \in Cluster \ {c} :
           /\ recorded'[d] = recorded[d]
           /\ container'[d] = container[d]
           /\ pc'[d] = pc[d]
           /\ request'[d] = request[d]
           /\ choice'[d] = choice[d]
<1> USE DEF TypeOK, Goto, Choose, End, hostVars
<1>1. CASE Start(c) BY <1>1 DEF Start
<1>2. CASE Reserving(c)
  BY <1>2 DEF Reserving, LockPorts, Resolve, Probe, Discard, Pick, Write, UnlockPorts
<1>3. CASE Serving(c)
  BY <1>3 DEF Serving, StartContainer, RunContainer, StartFails, RunFails
<1>4. CASE Down(c)
  BY <1>4 DEF Down, DeleteRegistry, KeepRecord, RemoveRecord
<1>5. CASE Crash(c) \/ LockTimesOut(c) \/ DiscardFails(c)
  BY <1>5 DEF Crash, LockTimesOut, DiscardFails
<1> QED BY <1>1, <1>2, <1>3, <1>4, <1>5 DEF RunStep

(* Every step keeps the types. *)
LEMMA TypeStep == TypeOK /\ [Next]_vars => TypeOK'
<1> SUFFICES ASSUME TypeOK, [Next]_vars PROVE TypeOK' OBVIOUS
<1> USE PortAssumption, RequestAssumption
    DEF TypeOK, PC, Goto, Choose, End, hostVars
<1>1. CASE UNCHANGED vars  BY <1>1 DEF vars
<1>2. ASSUME NEW c \in Cluster, RunStep(c) PROVE TypeOK'
  <2>1. CASE Start(c)          BY <2>1 DEF Start
  <2>2. CASE LockPorts(c)      BY <2>2 DEF LockPorts
  <2>3. CASE Resolve(c)        BY <2>3 DEF Resolve, IsFirstFree, Candidates
  <2>4. CASE Probe(c)          BY <2>4 DEF Probe
  <2>5. CASE Discard(c)        BY <2>5 DEF Discard
  <2>6. CASE Pick(c)           BY <2>6 DEF Pick, IsFirstFree, Candidates
  <2>7. CASE Write(c)          BY <2>7 DEF Write
  <2>8. CASE UnlockPorts(c)    BY <2>8 DEF UnlockPorts
  <2>9. CASE StartContainer(c) BY <2>9 DEF StartContainer
  <2>10. CASE RunContainer(c)  BY <2>10 DEF RunContainer
  <2>11. CASE StartFails(c)    BY <2>11 DEF StartFails
  <2>12. CASE RunFails(c)      BY <2>12 DEF RunFails
  <2>13. CASE Down(c)
    BY <2>13 DEF Down, DeleteRegistry, KeepRecord, RemoveRecord
  <2>14. CASE Crash(c) \/ LockTimesOut(c) \/ DiscardFails(c)
    BY <2>14 DEF Crash, LockTimesOut, DiscardFails
  <2> QED BY <1>2, <2>1, <2>2, <2>3, <2>4, <2>5, <2>6, <2>7, <2>8, <2>9, <2>10,
             <2>11, <2>12, <2>13, <2>14 DEF RunStep, Reserving, Serving
<1>3. ASSUME NEW c \in Cluster, RegistryStops(c) PROVE TypeOK'
  BY <1>3 DEF RegistryStops
<1>4. ASSUME NEW p \in Port, ForeignBinds(p) \/ ForeignFrees(p) PROVE TypeOK'
  BY <1>4 DEF ForeignBinds, ForeignFrees
<1> QED BY <1>1, <1>2, <1>3, <1>4, Steps

(* The invariant beside the types speaks of these variables only. *)
LEMMA Untouched ==
  ASSUME IInv, TypeOK', UNCHANGED <<recorded, container, portsLock, pc, request, choice>>
  PROVE  IInv'
  BY DEF IInv, LockedInside, ChoiceIsOnRecord, Recorded, SharedIsAskedFor,
         RequestsAreFlags, ChoiceIsAskedFor, Decided, FollowsContainer,
         ContainerOnItsRecord, ContainerGoesFirst

(* The lock goes with the decision it covers. *)
LEMMA LockStep ==
  ASSUME TypeOK, LockedInside, NEW c \in Cluster, RunStep(c)
  PROVE  LockedInside'
<1>1. /\ portsLock' = c <=> pc'[c] \in Locked
      /\ \A d \in Cluster \ {c} : portsLock' = d <=> portsLock = d
  <2> USE NobodyAssumption DEF TypeOK, LockedInside, Locked, Goto, Choose, End
  <2>1. CASE Start(c)        BY <2>1 DEF Start
  <2>2. CASE LockPorts(c)    BY <2>2 DEF LockPorts
  <2>3. CASE Resolve(c)      BY <2>3 DEF Resolve
  <2>4. CASE Probe(c)        BY <2>4 DEF Probe
  <2>5. CASE Discard(c)      BY <2>5 DEF Discard
  <2>6. CASE Pick(c)         BY <2>6 DEF Pick
  <2>7. CASE Write(c)        BY <2>7 DEF Write
  <2>8. CASE UnlockPorts(c)  BY <2>8 DEF UnlockPorts
  <2>9. CASE Serving(c)
    BY <2>9 DEF Serving, StartContainer, RunContainer, StartFails, RunFails
  <2>10. CASE DeleteRegistry(c) BY <2>10 DEF DeleteRegistry
  <2>11. CASE KeepRecord(c)     BY <2>11 DEF KeepRecord
  <2>12. CASE RemoveRecord(c)   BY <2>12 DEF RemoveRecord
  <2>13. CASE Crash(c)          BY <2>13 DEF Crash
  <2>14. CASE LockTimesOut(c)   BY <2>14 DEF LockTimesOut
  <2>15. CASE DiscardFails(c)   BY <2>15 DEF DiscardFails
  <2> QED
    BY <2>1, <2>2, <2>3, <2>4, <2>5, <2>6, <2>7, <2>8, <2>9, <2>10, <2>11, <2>12,
       <2>13, <2>14, <2>15 DEF RunStep, Reserving, Down
<1> QED BY <1>1, OthersStay DEF LockedInside

(* A run serves the port it recorded. *)
LEMMA RecordStep ==
  ASSUME TypeOK, ChoiceIsOnRecord, NEW c \in Cluster, RunStep(c)
  PROVE  ChoiceIsOnRecord'
<1>1. /\ (Decided(c) \/ Recorded(c))' => choice'[c] # NoPort
      /\ Recorded(c)' => choice'[c] = recorded'[c]
  <2> USE PortAssumption
      DEF TypeOK, ChoiceIsOnRecord, Decided, Recorded, Goto, Choose, End, hostVars
  <2>1. CASE Start(c) \/ LockPorts(c)  BY <2>1 DEF Start, LockPorts
  <2>2. CASE Resolve(c)  BY <2>2 DEF Resolve, IsFirstFree, Candidates
  <2>3. CASE Probe(c) \/ Discard(c)    BY <2>3 DEF Probe, Discard
  <2>4. CASE Pick(c)     BY <2>4 DEF Pick, IsFirstFree, Candidates
  <2>5. CASE Write(c)    BY <2>5 DEF Write
  <2>6. CASE UnlockPorts(c) BY <2>6 DEF UnlockPorts
  <2>7. CASE Serving(c)
    BY <2>7 DEF Serving, StartContainer, RunContainer, StartFails, RunFails
  <2>8. CASE Down(c)
    BY <2>8 DEF Down, DeleteRegistry, KeepRecord, RemoveRecord
  <2>9. CASE Crash(c) \/ LockTimesOut(c) \/ DiscardFails(c)
    BY <2>9 DEF Crash, LockTimesOut, DiscardFails
  <2> QED BY <2>1, <2>2, <2>3, <2>4, <2>5, <2>6, <2>7, <2>8, <2>9
          DEF RunStep, Reserving
<1> QED BY <1>1, OthersStay DEF ChoiceIsOnRecord, Decided, Recorded

(* A record is written by Write, dropped by RemoveRecord, and left otherwise. *)
LEMMA RecordMoves ==
  ASSUME TypeOK, NEW c \in Cluster, RunStep(c), ~Write(c)
  PROVE  recorded'[c] \in {recorded[c], NoPort}
<1> USE DEF TypeOK, End, hostVars
<1>1. CASE Start(c) BY <1>1 DEF Start
<1>2. CASE Reserving(c)
  BY <1>2 DEF Reserving, LockPorts, Resolve, Probe, Discard, Pick, UnlockPorts
<1>3. CASE Serving(c)
  BY <1>3 DEF Serving, StartContainer, RunContainer, StartFails, RunFails
<1>4. CASE Down(c)
  BY <1>4 DEF Down, DeleteRegistry, KeepRecord, RemoveRecord
<1>5. CASE Crash(c) \/ LockTimesOut(c) \/ DiscardFails(c)
  BY <1>5 DEF Crash, LockTimesOut, DiscardFails
<1> QED BY <1>1, <1>2, <1>3, <1>4, <1>5 DEF RunStep

(* The port asked for is the run's flag throughout. *)
LEMMA RequestStep ==
  ASSUME TypeOK, RequestsAreFlags, NEW c \in Cluster, RunStep(c)
  PROVE  RequestsAreFlags'
<1>1. request'[c] \in Requests \cup {NoPort}
  <2> USE DEF TypeOK, RequestsAreFlags, End
  <2>1. CASE Start(c) BY <2>1 DEF Start
  <2>2. CASE Reserving(c)
    BY <2>2 DEF Reserving, LockPorts, Resolve, Probe, Discard, Pick, Write,
                UnlockPorts
  <2>3. CASE Serving(c)
    BY <2>3 DEF Serving, StartContainer, RunContainer, StartFails, RunFails
  <2>4. CASE Down(c)
    BY <2>4 DEF Down, DeleteRegistry, KeepRecord, RemoveRecord
  <2>5. CASE Crash(c) \/ LockTimesOut(c) \/ DiscardFails(c)
    BY <2>5 DEF Crash, LockTimesOut, DiscardFails
  <2> QED BY <2>1, <2>2, <2>3, <2>4, <2>5 DEF RunStep
<1> QED BY <1>1, OthersStay DEF RequestsAreFlags

(* What is decided is a port asked for, a free port, the port on record, or was
   decided before. *)
LEMMA DecisionIsOwn ==
  ASSUME TypeOK, SharedIsAskedFor, RequestsAreFlags, ChoiceIsAskedFor,
         NEW c \in Cluster, RunStep(c), Decided(c)'
  PROVE  /\ recorded' = recorded
         /\ \A d \in Cluster \ {c} : recorded[d] = choice'[c] => choice'[c] \in Requests
<1> USE DEF TypeOK, Decided, Goto, Choose, End, hostVars
<1>1. CASE Start(c) \/ LockPorts(c)  BY <1>1 DEF Start, LockPorts
<1>2. CASE Resolve(c)
  <2>1. CASE request[c] # NoPort
    BY <1>2, <2>1 DEF Resolve, RequestsAreFlags
  <2>2. CASE request[c] = NoPort /\ recorded[c] # NoPort
    BY <1>2, <2>2 DEF Resolve, SharedIsAskedFor
  <2>3. CASE request[c] = NoPort /\ recorded[c] = NoPort
    BY <1>2, <2>3, PortAssumption
       DEF Resolve, IsFirstFree, Candidates, RecordedByOthers
  <2> QED BY <2>1, <2>2, <2>3
<1>3. CASE Probe(c)  BY <1>3 DEF Probe, ChoiceIsAskedFor
<1>4. CASE Pick(c)
  <2>1. recorded' = recorded /\ \E p \in Port : IsFirstFree(c, p) /\ choice'[c] = p
    BY <1>4 DEF Pick
  <2> QED
    BY <2>1, PortAssumption DEF IsFirstFree, Candidates, RecordedByOthers
<1>5. CASE Discard(c) \/ Write(c) \/ UnlockPorts(c)
  BY <1>5 DEF Discard, Write, UnlockPorts
<1>6. CASE Serving(c)
  BY <1>6 DEF Serving, StartContainer, RunContainer, StartFails, RunFails
<1>7. CASE Down(c)
  BY <1>7 DEF Down, DeleteRegistry, KeepRecord, RemoveRecord
<1>8. CASE Crash(c) \/ LockTimesOut(c)
  BY <1>8 DEF Crash, LockTimesOut
<1>9. CASE DiscardFails(c)
  BY <1>9 DEF DiscardFails
<1> QED BY <1>1, <1>2, <1>3, <1>4, <1>5, <1>6, <1>7, <1>8, <1>9
        DEF RunStep, Reserving

(* Records that nobody asked for stay apart: they are written under the lock,
   and what is written was looked for under that same hold of it. *)
LEMMA SharedStep ==
  ASSUME TypeOK, LockedInside, ChoiceIsOnRecord,
         SharedIsAskedFor, RequestsAreFlags, ChoiceIsAskedFor,
         NEW c \in Cluster, RunStep(c)
  PROVE  SharedIsAskedFor' /\ ChoiceIsAskedFor'
<1>1. CASE Write(c)
  <2>1. recorded'[c] = choice[c] /\ pc[c] = "write"
    BY <1>1 DEF Write, TypeOK
  <2>2. SharedIsAskedFor'
    BY <2>1, OthersStay DEF SharedIsAskedFor, ChoiceIsAskedFor, Decided
  <2>3. \A d \in Cluster \ {c} : ~Decided(d)
    <3>1. portsLock = c
      BY <2>1 DEF LockedInside, Locked
    <3> QED BY <3>1 DEF LockedInside, Locked, Decided
  <2>4. ~Decided(c)'
    BY <1>1 DEF Write, Goto, Decided, TypeOK
  <2>5. ChoiceIsAskedFor'
    BY <2>3, <2>4, OthersStay DEF ChoiceIsAskedFor, Decided
  <2> QED BY <2>2, <2>5
<1>2. CASE ~Write(c)
  <2>1. recorded'[c] \in {recorded[c], NoPort}
    BY <1>2, RecordMoves
  <2>2. SharedIsAskedFor'
    BY <2>1, OthersStay DEF SharedIsAskedFor
  <2>3. ASSUME NEW d \in Cluster, Decided(d)', NEW e \in Cluster \ {d},
               recorded'[e] = choice'[d]
        PROVE  choice'[d] \in Requests
    <3>1. CASE d = c
      BY <2>3, <3>1, DecisionIsOwn
    <3>2. CASE d # c
      <4>1. Decided(d) /\ choice'[d] = choice[d] /\ choice[d] # NoPort
        BY <2>3, <3>2, OthersStay DEF ChoiceIsOnRecord, Decided
      <4>2. recorded[e] = choice[d]
        BY <2>1, <2>3, <4>1, OthersStay
      <4> QED BY <4>1, <4>2 DEF ChoiceIsAskedFor
    <3> QED BY <3>1, <3>2
  <2> QED BY <2>2, <2>3 DEF ChoiceIsAskedFor
<1> QED BY <1>1, <1>2

(* A container made by a run is on the port the run recorded; another is left as
   it is, or is gone. *)
LEMMA ContainerMoves ==
  ASSUME TypeOK, ChoiceIsOnRecord, NEW c \in Cluster, RunStep(c)
  PROVE  \/ container'[c] \in {container[c], NoPort}
         \/ container'[c] = recorded'[c] /\ pc'[c] = "idle"
<1> USE DEF TypeOK, ChoiceIsOnRecord, Recorded, Goto, End, hostVars
<1>1. CASE Start(c) BY <1>1 DEF Start
<1>2. CASE Reserving(c)
  BY <1>2 DEF Reserving, LockPorts, Resolve, Probe, Discard, Pick, Write, UnlockPorts
<1>3. CASE StartContainer(c) \/ StartFails(c)
  BY <1>3 DEF StartContainer, StartFails
<1>4. CASE RunContainer(c) BY <1>4 DEF RunContainer
<1>5. CASE RunFails(c)     BY <1>5 DEF RunFails
<1>6. CASE Down(c)
  BY <1>6 DEF Down, DeleteRegistry, KeepRecord, RemoveRecord
<1>7. CASE Crash(c) \/ LockTimesOut(c) \/ DiscardFails(c)
  BY <1>7 DEF Crash, LockTimesOut, DiscardFails
<1> QED BY <1>1, <1>2, <1>3, <1>4, <1>5, <1>6, <1>7 DEF RunStep, Serving

(* A container on the port on record: the run that means to change the record
   discards the container first, and only RemoveRecord does otherwise. *)
LEMMA FollowStep ==
  ASSUME TypeOK, ChoiceIsOnRecord, FollowsContainer, NEW c \in Cluster, RunStep(c)
  PROVE  /\ FollowsContainer'
         /\ OnRecord(c) /\ ~OnRecord(c)' => RemoveRecord(c)
<1>1. ASSUME container'[c] # NoPort, container'[c] = container[c], container[c] = recorded[c]
      PROVE  /\ recorded'[c] = recorded[c] \/ RemoveRecord(c)
             /\ pc'[c] # "pick"
             /\ Decided(c)' => choice'[c] = recorded[c]
  <2>1. container[c] # NoPort /\ pc[c] # "pick" /\ (Decided(c) => choice[c] = recorded[c])
    BY <1>1 DEF FollowsContainer
  <2> USE <2>1 DEF TypeOK, Decided, Goto, Choose, End, hostVars
  <2>2. CASE Start(c)        BY <2>2 DEF Start
  <2>3. CASE LockPorts(c)    BY <2>3 DEF LockPorts
  <2>4. CASE Resolve(c)      BY <1>1, <2>4, PortAssumption DEF Resolve
  <2>5. CASE Probe(c)        BY <2>5 DEF Probe
  <2>6. CASE Discard(c)      BY <1>1, <2>6 DEF Discard
  <2>7. CASE Write(c)        BY <2>7 DEF Write
  <2>8. CASE UnlockPorts(c)  BY <2>8 DEF UnlockPorts
  <2>9. CASE Serving(c)
    BY <2>9 DEF Serving, StartContainer, RunContainer, StartFails, RunFails
  <2>10. CASE DeleteRegistry(c) \/ KeepRecord(c)
    BY <2>10 DEF DeleteRegistry, KeepRecord
  <2>11. CASE Crash(c) \/ LockTimesOut(c)
    BY <2>11 DEF Crash, LockTimesOut
  <2>12. CASE DiscardFails(c)
    BY <2>12 DEF DiscardFails
  <2>13. CASE RemoveRecord(c)
    BY <2>13 DEF RemoveRecord
  <2>14. CASE Pick(c)
    BY <2>14 DEF Pick
  <2> QED BY <2>2, <2>3, <2>4, <2>5, <2>6, <2>7, <2>8, <2>9, <2>10, <2>11, <2>12,
             <2>13, <2>14 DEF RunStep, Reserving, Down
<1>2. OnRecord(c) /\ ~OnRecord(c)' => RemoveRecord(c)
  BY <1>1, ContainerMoves DEF OnRecord
<1>3. container'[c] # NoPort /\ container'[c] = recorded'[c] =>
        pc'[c] # "pick" /\ (Decided(c)' => choice'[c] = recorded'[c])
  <2>1. CASE pc'[c] = "idle"
    BY <2>1 DEF Decided
  <2>2. CASE container'[c] = container[c] /\ container[c] = recorded[c]
    <3>1. RemoveRecord(c) => pc'[c] = "idle"
      BY DEF RemoveRecord, Goto, TypeOK
    <3> QED BY <1>1, <2>1, <2>2, <3>1
  <2>3. CASE container'[c] = container[c] /\ container[c] # recorded[c]
    <3>1. ASSUME Write(c) PROVE pc'[c] = "unlock"
      BY <3>1 DEF Write, Goto, TypeOK
    <3>2. ASSUME ~Write(c), container'[c] # NoPort PROVE container'[c] # recorded'[c]
      BY <2>3, <3>2, RecordMoves
    <3> QED BY <3>1, <3>2 DEF Decided
  <2> QED BY <2>1, <2>2, <2>3, ContainerMoves
<1> QED BY <1>2, <1>3, OthersStay DEF FollowsContainer, Decided

(* While a down can delete it, the registry never outlives the record. *)
LEMMA ContainerStep ==
  ASSUME TypeOK, ChoiceIsOnRecord, FollowsContainer, "delete" \notin Faults,
         ContainerOnItsRecord, ContainerGoesFirst,
         NEW c \in Cluster, RunStep(c)
  PROVE  ContainerOnItsRecord' /\ ContainerGoesFirst'
<1>1. ContainerOnItsRecord'
  <2>1. OnRecord(c)'
    <3>1. RemoveRecord(c) => container'[c] = NoPort
      BY DEF RemoveRecord, ContainerGoesFirst, TypeOK
    <3> QED BY <3>1, FollowStep DEF OnRecord, ContainerOnItsRecord
  <2> QED BY <2>1, OthersStay DEF OnRecord, ContainerOnItsRecord
<1>2. pc'[c] = "down" => container'[c] = NoPort
  <2> USE DEF TypeOK, ContainerGoesFirst, Goto, End, hostVars
  <2>1. CASE Start(c) BY <2>1 DEF Start
  <2>2. CASE Reserving(c)
    BY <2>2 DEF Reserving, LockPorts, Resolve, Probe, Discard, Pick, Write, UnlockPorts
  <2>3. CASE Serving(c)
    BY <2>3 DEF Serving, StartContainer, RunContainer, StartFails, RunFails
  <2>4. CASE Down(c)
    BY <2>4 DEF Down, DeleteRegistry, KeepRecord, RemoveRecord
  <2>5. CASE Crash(c) \/ LockTimesOut(c) \/ DiscardFails(c)
    BY <2>5 DEF Crash, LockTimesOut, DiscardFails
  <2> QED BY <2>1, <2>2, <2>3, <2>4, <2>5 DEF RunStep
<1> QED BY <1>1, <1>2, OthersStay DEF ContainerGoesFirst

-----------------------------------------------------------------------------
(* IInv holds in every reachable state. *)
THEOREM Invariance == Spec => []IInv
<1>1. IInv /\ [Next]_vars => IInv'
  <2> SUFFICES ASSUME IInv, [Next]_vars PROVE IInv' OBVIOUS
  <2>1. TypeOK'  BY TypeStep DEF IInv
  <2>2. ASSUME NEW c \in Cluster, RunStep(c) PROVE IInv'
    <3>1. LockedInside' /\ ChoiceIsOnRecord' /\ RequestsAreFlags' /\ FollowsContainer'
      BY <2>2, LockStep, RecordStep, RequestStep, FollowStep DEF IInv
    <3>2. SharedIsAskedFor' /\ ChoiceIsAskedFor'
      BY <2>2, SharedStep DEF IInv
    <3>3. ASSUME "delete" \notin Faults
          PROVE  ContainerOnItsRecord' /\ ContainerGoesFirst'
      BY <2>2, <3>3, ContainerStep DEF IInv
    <3> QED BY <2>1, <3>1, <3>2, <3>3 DEF IInv
  <2>3. CASE UNCHANGED vars  BY <2>1, <2>3, Untouched DEF vars, hostVars
  <2>4. ASSUME NEW c \in Cluster, RegistryStops(c) PROVE IInv'
    BY <2>1, <2>4, Untouched DEF RegistryStops
  <2>5. ASSUME NEW p \in Port, ForeignBinds(p) \/ ForeignFrees(p) PROVE IInv'
    BY <2>1, <2>5, Untouched DEF ForeignBinds, ForeignFrees
  <2> QED BY <2>2, <2>3, <2>4, <2>5, Steps
<1> QED BY <1>1, InitIInv, PTL DEF Spec

(* .ports.lock as its users take it to be. *)
PortsLock == INSTANCE AbstractLock WITH Proc <- Cluster, holder <- portsLock

(* reserveRegistryPort has its lock as a lock is to be had: it is taken while
   nobody has it, and who gives it back, by a decision, by an error or by being
   killed, is who has it. *)
THEOREM PortsLockIsALock == Spec => PortsLock!Spec
<1>1. Init => PortsLock!Init
  BY DEF Init, PortsLock!Init
<1>2. ASSUME IInv, [Next]_vars PROVE [PortsLock!Next]_portsLock
  <2>1. TypeOK /\ LockedInside
    BY <1>2 DEF IInv
  <2>2. ASSUME NEW c \in Cluster, RunStep(c)
        PROVE  \/ PortsLock!Acquire(c) \/ PortsLock!Release(c)
               \/ portsLock' = portsLock
    <3>1. CASE LockPorts(c)
      BY <3>1 DEF LockPorts, PortsLock!Acquire
    <3>2. CASE UnlockPorts(c)
      <4>1. pc[c] \in Locked
        BY <3>2 DEF UnlockPorts, Locked
      <4> QED BY <2>1, <3>2, <4>1 DEF UnlockPorts, LockedInside, PortsLock!Release
    <3>3. CASE Crash(c)
      BY <3>3 DEF Crash, PortsLock!Release
    <3>4. CASE Resolve(c) \/ Probe(c) \/ Discard(c) \/ Pick(c) \/ Write(c)
      BY <3>4 DEF Resolve, Probe, Discard, Pick, Write, hostVars
    <3>5. CASE Start(c) \/ Serving(c) \/ Down(c) \/ LockTimesOut(c) \/ DiscardFails(c)
      BY <3>5 DEF Start, Serving, StartContainer, RunContainer, StartFails, RunFails, Down,
         DeleteRegistry, KeepRecord, RemoveRecord, LockTimesOut, DiscardFails
    <3> QED BY <2>2, <3>1, <3>2, <3>3, <3>4, <3>5 DEF RunStep, Reserving
  <2>3. CASE UNCHANGED vars
    BY <2>3 DEF vars
  <2>4. CASE \E c \in Cluster : RegistryStops(c)
    BY <2>4 DEF RegistryStops
  <2>5. CASE \E p \in Port : ForeignBinds(p) \/ ForeignFrees(p)
    BY <2>5 DEF ForeignBinds, ForeignFrees
  <2>6. CASE \E c \in Cluster : RunStep(c)
    BY <2>2, <2>6 DEF PortsLock!Next
  <2> QED BY <1>2, <2>3, <2>4, <2>5, <2>6, Steps
<1> QED BY <1>1, <1>2, Invariance, PTL DEF Spec, PortsLock!Spec

(* The allocation lock and recordedPorts: two clusters of a host have one port on
   record only if it is one a --registry-port asked for. *)
THEOREM SharedIsAskedForHolds == Spec => []SharedIsAskedFor
<1>1. IInv => SharedIsAskedFor  BY DEF IInv
<1> QED BY <1>1, Invariance, PTL

(* So as long as ports are left to rooket to choose, no two clusters of a host
   have one on record. *)
THEOREM PortsNeverSharedHolds ==
  ASSUME Requests \subseteq {NoPort}
  PROVE  Spec => []PortsNeverShared
<1>1. IInv => PortsNeverShared  BY DEF IInv, SharedIsAskedFor, PortsNeverShared
<1> QED BY <1>1, Invariance, PTL

(* Whatever fails, only a down --delete-disks takes the record from under a
   registry. *)
THEOREM OnlyRemovalOrphansHolds == Spec => OnlyRemovalOrphans
<1>1. IInv /\ [Next]_vars =>
        [\A c \in Cluster : OnRecord(c) /\ ~OnRecord(c)' => RemoveRecord(c)]_vars
  <2> SUFFICES ASSUME IInv, Next, NEW c \in Cluster, OnRecord(c), ~OnRecord(c)'
               PROVE  RemoveRecord(c)
    OBVIOUS
  <2>1. TypeOK /\ ChoiceIsOnRecord /\ FollowsContainer
    BY DEF IInv
  <2>2. ASSUME NEW d \in Cluster, RunStep(d) PROVE RemoveRecord(c)
    <3>1. d = c
      BY <2>1, <2>2, OthersStay DEF OnRecord
    <3> QED BY <2>1, <2>2, <3>1, FollowStep
  <2>3. UNCHANGED <<container, recorded>> => FALSE
    BY DEF OnRecord
  <2> QED BY <2>2, <2>3, Steps DEF RegistryStops, ForeignBinds, ForeignFrees
<1> QED BY <1>1, Invariance, PTL DEF Spec, OnlyRemovalOrphans

(* As long as a down can delete the registry, a container is on the port its
   cluster has on record. *)
THEOREM ContainerOnItsRecordHolds ==
  ASSUME "delete" \notin Faults
  PROVE  Spec => []ContainerOnItsRecord
<1>1. IInv => ContainerOnItsRecord  BY DEF IInv
<1> QED BY <1>1, Invariance, PTL

(* A port a run cannot have, and nobody asked for, is had by another program or
   by a registry that is off its record. *)
LEMMA BoundPortIsExplained ==
  ASSUME TypeOK, NEW c \in Cluster, NEW p \in Port, Bound(p), ~ServesOn(c, p),
         \A d \in Cluster \ {c} : recorded[d] = p => p \in Requests
  PROVE  Explained(p)
<1>1. ASSUME NEW d \in running, container[d] = p, p \notin Requests
      PROVE  d \in Cluster /\ recorded[d] # p
  BY <1>1 DEF TypeOK, ServesOn
<1> QED BY <1>1 DEF Bound, Explained

(* Only Probe goes on to discard. *)
LEMMA ProbeDiscards ==
  ASSUME TypeOK, Next, NEW c \in Cluster, pc[c] = "probe", pc'[c] = "discard"
  PROVE  Probe(c)
<1>1. PICK d \in Cluster : RunStep(d)
  BY Steps DEF RegistryStops, ForeignBinds, ForeignFrees
<1>2. d = c  BY <1>1, OthersStay
<1> QED
  BY <1>1, <1>2 DEF RunStep, Start, Reserving, LockPorts, Resolve, Discard,
     Pick, Write, UnlockPorts, Serving, StartContainer, RunContainer, StartFails,
     RunFails, Down, DeleteRegistry, KeepRecord, RemoveRecord, Crash,
     LockTimesOut, DiscardFails, Goto, End, TypeOK

(* A registry that cannot bind its port, or is discarded over it, meets another
   program, a port asked for, or a registry that has outlived its record. *)
LEMMA CollisionStep ==
  ASSUME IInv, Next, NEW c \in Cluster
  PROVE  /\ StartFails(c) => Explained(container[c])
         /\ RunFails(c) => Explained(choice[c])
         /\ pc[c] = "probe" /\ pc'[c] = "discard" => Explained(choice[c])
<1>1. TypeOK /\ SharedIsAskedFor /\ ChoiceIsAskedFor /\ ChoiceIsOnRecord
  BY DEF IInv
<1>2. ASSUME StartFails(c) PROVE Explained(container[c])
  <2>1. container[c] \in Port /\ Bound(container[c]) /\ ~ServesOn(c, container[c])
    BY <1>1, <1>2 DEF StartFails, TypeOK, ServesOn
  <2>2. CASE container[c] = recorded[c]
    BY <1>1, <2>1, <2>2, PortAssumption, BoundPortIsExplained DEF SharedIsAskedFor
  <2>3. CASE container[c] # recorded[c]
    BY <2>3 DEF Explained
  <2> QED BY <2>2, <2>3
<1>3. ASSUME RunFails(c) PROVE Explained(choice[c])
  <2>1. /\ choice[c] \in Port /\ choice[c] = recorded[c]
        /\ Bound(choice[c]) /\ ~ServesOn(c, choice[c])
    BY <1>1, <1>3 DEF RunFails, TypeOK, ChoiceIsOnRecord, Recorded
  <2> QED BY <1>1, <2>1, PortAssumption, BoundPortIsExplained DEF SharedIsAskedFor
<1>4. ASSUME pc[c] = "probe", pc'[c] = "discard" PROVE Explained(choice[c])
  <2>1. Bound(choice[c]) /\ ~ServesOn(c, choice[c])
    BY <1>1, <1>4, ProbeDiscards DEF Probe, Goto, TypeOK
  <2>2. /\ choice[c] \in Port
        /\ \A d \in Cluster \ {c} : recorded[d] = choice[c] => choice[c] \in Requests
    BY <1>1, <1>4 DEF TypeOK, ChoiceIsAskedFor, ChoiceIsOnRecord, Decided
  <2> QED BY <1>1, <2>1, <2>2, BoundPortIsExplained
<1> QED BY <1>2, <1>3, <1>4

(* What is left of rooket colliding with itself, whatever is asked for and
   whatever fails: a port asked for twice, or a registry a down left behind. *)
THEOREM CollisionsAreExplainedHolds == Spec => CollisionsAreExplained
<1>1. IInv /\ [Next]_vars =>
        [\A c \in Cluster :
           /\ StartFails(c) => Explained(container[c])
           /\ RunFails(c) => Explained(choice[c])
           /\ pc[c] = "probe" /\ pc'[c] = "discard" => Explained(choice[c])]_vars
  BY CollisionStep
<1> QED BY <1>1, Invariance, PTL DEF Spec, CollisionsAreExplained

(* Without either, no registry ever fails to bind its port because of another
   cluster's, or is discarded on another cluster's account. *)
THEOREM NoSelfCollisionHolds ==
  ASSUME Requests \subseteq {NoPort}, "delete" \notin Faults
  PROVE  Spec => NoSelfCollision
<1>1. IInv /\ [Next]_vars =>
        [\A c \in Cluster :
           /\ StartFails(c) => container[c] \in foreign
           /\ RunFails(c) => choice[c] \in foreign
           /\ pc[c] = "probe" /\ pc'[c] = "discard" => choice[c] \in foreign]_vars
  <2> SUFFICES ASSUME IInv, Next, NEW c \in Cluster
               PROVE  /\ StartFails(c) => container[c] \in foreign
                      /\ RunFails(c) => choice[c] \in foreign
                      /\ pc[c] = "probe" /\ pc'[c] = "discard" => choice[c] \in foreign
    OBVIOUS
  <2>1. ASSUME NEW p \in Port, Explained(p) PROVE p \in foreign
    BY <2>1, PortAssumption DEF Explained, IInv, ContainerOnItsRecord
  <2>2. StartFails(c) => container[c] \in Port
    BY DEF StartFails, IInv, TypeOK
  <2>3. RunFails(c) \/ pc[c] = "probe" => choice[c] \in Port
    BY DEF RunFails, IInv, TypeOK, ChoiceIsOnRecord, Recorded, Decided
  <2> QED BY <2>1, <2>2, <2>3, CollisionStep
<1> QED BY <1>1, Invariance, PTL DEF Spec, NoSelfCollision
=============================================================================
