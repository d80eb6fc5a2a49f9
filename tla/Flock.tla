------------------------------- MODULE Flock -------------------------------
(***************************************************************************)
(* The lock of one cluster: cmd/lock.go's lockClusterIn and acquireFlock   *)
(* over the kernel's flock, which locks an inode and not the path that     *)
(* names it.                                                               *)
(*                                                                         *)
(* A process opens the lock file (creating it when the path names          *)
(* nothing), takes the flock of the inode it got, and only counts it if    *)
(* the path still names that inode.  A run that leaves nothing of the      *)
(* cluster deletes the file as it lets go, so an inode can be locked by    *)
(* one process while the path names another inode, or nothing.             *)
(***************************************************************************)
EXTENDS Naturals, FiniteSets

CONSTANTS
  Proc,      \* rooket processes
  Inode,     \* inode numbers the file system gives the lock file, reused
  NoOne,     \* no process owns the flock
  NoFile,    \* the path names nothing; a descriptor is closed
  MaxNest    \* bound on the nested acquisitions of one process

ASSUME ProcAssumption  == NoOne \notin Proc
ASSUME InodeAssumption == NoFile \notin Inode
ASSUME NestAssumption  == MaxNest \in Nat

VARIABLES
  path,      \* the inode "<name>.lock" names, or NoFile
  fd,        \* fd[p]: the inode p has the lock file open on, or NoFile
  owner,     \* owner[i]: the process whose descriptor has i's flock
  at,        \* at[p]: where p is, see Places
  nest,      \* nest[p]: the no-op acquisitions p has inside its real one
  remove     \* remove[p]: p's release is to delete the lock file

lockVars == <<path, fd, owner, at, nest, remove>>

(***************************************************************************)
(* idle      outside acquireFlock, not holding                             *)
(* opened    OpenFile has returned, the flock is not taken                 *)
(* flocked   flockUntil has returned, namesFile has not                    *)
(* reopen    namesFile said no and the descriptor is closed                *)
(* held      in the map held: the command runs                             *)
(* unlinked  the release has removed the file and not yet closed it        *)
(***************************************************************************)
Places == {"idle", "opened", "flocked", "reopen", "held", "unlinked"}

LockTypeOK ==
  /\ path \in Inode \cup {NoFile}
  /\ fd \in [Proc -> Inode \cup {NoFile}]
  /\ owner \in [Inode -> Proc \cup {NoOne}]
  /\ at \in [Proc -> Places]
  /\ nest \in [Proc -> 0..MaxNest]
  /\ remove \in [Proc -> BOOLEAN]

LockInit ==
  /\ path = NoFile
  /\ fd = [p \in Proc |-> NoFile]
  /\ owner = [i \in Inode |-> NoOne]
  /\ at = [p \in Proc |-> "idle"]
  /\ nest = [p \in Proc |-> 0]
  /\ remove = [p \in Proc |-> FALSE]

-----------------------------------------------------------------------------
(* The file system and the kernel. *)

(* An inode number a new file may be given: no name and no descriptor keeps
   the file that had it. *)
Free(i) == i # path /\ \A p \in Proc : fd[p] # i

(* Mutant of OpenFile: the file is written aside and renamed into place. *)
MutOpenFile(p) ==
  /\ \E i \in Inode : Free(i) /\ path' = i /\ fd' = [fd EXCEPT ![p] = i]
  /\ UNCHANGED owner

(* open(path, O_CREATE|O_RDWR): the file the path names, else a new one. *)
OpenFile(p) ==
  /\ IF path # NoFile
     THEN fd' = [fd EXCEPT ![p] = path] /\ UNCHANGED path
     ELSE \E i \in Inode :
            Free(i) /\ path' = i /\ fd' = [fd EXCEPT ![p] = i]
  /\ UNCHANGED owner

(* close(fd), by the process or by its death: the flock goes with it. *)
CloseFile(p) ==
  /\ owner' = [i \in Inode |-> IF owner[i] = p THEN NoOne ELSE owner[i]]
  /\ fd' = [fd EXCEPT ![p] = NoFile]
  /\ UNCHANGED path

-----------------------------------------------------------------------------
(* acquireFlock, as lockClusterIn calls it: a wait of zero. *)

(* The first pass of the loop, by a process that has no lock of the name. *)
Open(p) ==
  /\ at[p] = "idle"
  /\ OpenFile(p)
  /\ at' = [at EXCEPT ![p] = "opened"]
  /\ UNCHANGED <<nest, remove>>

(* A further pass: the last flock was of an inode the path had left. *)
Reopen(p) ==
  /\ at[p] = "reopen"
  /\ OpenFile(p)
  /\ at' = [at EXCEPT ![p] = "opened"]
  /\ UNCHANGED <<nest, remove>>

TakeFlock(p) ==
  /\ at[p] = "opened"
  /\ owner[fd[p]] = NoOne
  /\ owner' = [owner EXCEPT ![fd[p]] = p]
  /\ at' = [at EXCEPT ![p] = "flocked"]
  /\ UNCHANGED <<path, fd, nest, remove>>

(* EWOULDBLOCK, with no wait left: errLockBusy, and the command refuses. *)
Refuse(p) ==
  /\ at[p] = "opened"
  /\ owner[fd[p]] # NoOne
  /\ CloseFile(p)
  /\ at' = [at EXCEPT ![p] = "idle"]
  /\ UNCHANGED <<nest, remove>>

(* flock or a stat fails for some other reason: the attempt is an error. *)
AttemptFails(p) ==
  /\ at[p] \in {"opened", "flocked"}
  /\ CloseFile(p)
  /\ at' = [at EXCEPT ![p] = "idle"]
  /\ UNCHANGED <<nest, remove>>

(* namesFile: the inode the path names is the one whose flock p has. *)
NamesFile(p) == path = fd[p]

FindCurrent(p) ==
  /\ at[p] = "flocked"
  /\ NamesFile(p)
  /\ at' = [at EXCEPT ![p] = "held"]
  /\ UNCHANGED <<path, fd, owner, nest, remove>>

(* Mutant of FindStale: the path is looked at again, the file not reopened. *)
MutFindStale(p) ==
  /\ at[p] = "flocked"
  /\ ~NamesFile(p)
  /\ UNCHANGED lockVars

FindStale(p) ==
  /\ at[p] = "flocked"
  /\ ~NamesFile(p)
  /\ CloseFile(p)
  /\ at' = [at EXCEPT ![p] = "reopen"]
  /\ UNCHANGED <<nest, remove>>

-----------------------------------------------------------------------------
(* Holding and releasing. *)

(* lockClusterIn finds the name in held: 'down' calling the body of
   'cluster delete', which locks on its own when invoked directly. *)
NestedLock(p) ==
  /\ at[p] = "held"
  /\ nest[p] < MaxNest
  /\ nest' = [nest EXCEPT ![p] = @ + 1]
  /\ UNCHANGED <<path, fd, owner, at, remove>>

(* The no-op release of a nested acquisition: deferred, so innermost first. *)
NestedRelease(p) ==
  /\ nest[p] > 0
  /\ nest' = [nest EXCEPT ![p] = @ - 1]
  /\ UNCHANGED <<path, fd, owner, at, remove>>

(* removeClusterLockOnRelease, at any depth. *)
SetRemove(p) ==
  /\ at[p] = "held"
  /\ remove' = [remove EXCEPT ![p] = TRUE]
  /\ UNCHANGED <<path, fd, owner, at, nest>>

(* The outermost release with l.remove set: os.Remove, the flock kept. *)
Unlink(p) ==
  /\ at[p] = "held" /\ nest[p] = 0 /\ remove[p]
  /\ path' = NoFile
  /\ at' = [at EXCEPT ![p] = "unlinked"]
  /\ UNCHANGED <<fd, owner, nest, remove>>

(* The outermost release closing the descriptor: straight away when the file
   is to stay or os.Remove failed, or after the removal. *)
Close(p) ==
  /\ at[p] \in {"held", "unlinked"} /\ nest[p] = 0
  /\ CloseFile(p)
  /\ at' = [at EXCEPT ![p] = "idle"]
  /\ remove' = [remove EXCEPT ![p] = FALSE]
  /\ UNCHANGED nest

(* Mutant of Die: the lock is a pid file, which outlives its process. *)
MutDie(p) ==
  /\ at[p] # "idle"
  /\ fd' = [fd EXCEPT ![p] = NoFile]
  /\ at' = [at EXCEPT ![p] = "idle"]
  /\ nest' = [nest EXCEPT ![p] = 0]
  /\ remove' = [remove EXCEPT ![p] = FALSE]
  /\ UNCHANGED <<path, owner>>

(* The process is killed wherever it is; the kernel closes its files. *)
Die(p) ==
  /\ at[p] # "idle"
  /\ CloseFile(p)
  /\ at' = [at EXCEPT ![p] = "idle"]
  /\ nest' = [nest EXCEPT ![p] = 0]
  /\ remove' = [remove EXCEPT ![p] = FALSE]

-----------------------------------------------------------------------------
Acquiring(p) ==
  Reopen(p) \/ TakeFlock(p) \/ Refuse(p) \/ FindCurrent(p) \/ FindStale(p)

Step(p) ==
  \/ Open(p) \/ Acquiring(p) \/ AttemptFails(p)
  \/ NestedLock(p) \/ NestedRelease(p) \/ SetRemove(p)
  \/ Unlink(p) \/ Close(p) \/ Die(p)

LockNext == \E p \in Proc : Step(p)

LockSpec == LockInit /\ [][LockNext]_lockVars

(* acquireFlock with no wait runs straight through its loop: nothing in it
   blocks.  Nothing is assumed of when a command starts, works or lets go. *)
FairLockSpec == LockSpec /\ \A p \in Proc : WF_lockVars(Acquiring(p))

-----------------------------------------------------------------------------
(* The lock as its users see it. *)

Holding(p) == at[p] = "held"

Owner == IF \E p \in Proc : Holding(p)
         THEN CHOOSE p \in Proc : Holding(p)
         ELSE NoOne

Lock == INSTANCE AbstractLock WITH holder <- Owner, Nobody <- NoOne

(* Files that are deleted and recreated under their lockers still make one
   lock: every step of acquireFlock and of the release is a step of
   AbstractLock or changes nothing of it. *)
ImplementsLock == Lock!Spec

(* lockClusterIn: two runs never both believe they hold the cluster, however
   the opens, flocks, checks, deletions and deaths interleave. *)
MutualExclusion ==
  \A p, q \in Proc : Holding(p) /\ Holding(q) => p = q

(* "The one inode the path names": while a command runs, the next locker to
   open the path meets the very flock the command has, nested calls of the
   command and their releases included. *)
HolderGuardsThePath ==
  \A p \in Proc : Holding(p) \/ nest[p] > 0 =>
    path # NoFile /\ fd[p] = path /\ owner[path] = p

(* A lock file is deleted only by the process that has its flock, which it
   still has once the file is gone, and a file is never replaced. *)
OnlyTheHolderUnlinks ==
  [][path # NoFile /\ path' # path =>
       path' = NoFile /\ \E p \in Proc :
         Holding(p) /\ owner[path] = p /\ owner'[path] = p]_lockVars

(* An interrupted run never strands the lock: a command is only ever refused
   by another process that is alive and at work on the lock. *)
RefusedOnlyByALiveRun ==
  [][\A p \in Proc : Refuse(p) =>
       \E q \in Proc \ {p} : at[q] # "idle" /\ fd[q] = fd[p]]_lockVars

Attempting(p) == at[p] \in {"opened", "flocked", "reopen"}

(* The retry loop cannot spin on its own: it retries only after the end of a
   hold that deleted the file, so once deletions stop every attempt ends. *)
AttemptsEnd ==
  <>[][\A q \in Proc : ~Unlink(q)]_lockVars =>
    \A p \in Proc : Attempting(p) ~> ~Attempting(p)

-----------------------------------------------------------------------------
(* The inductive invariant behind them.  A flock is owned exactly by the
   processes past flockUntil, each on the inode it has open; a holder's inode
   is the one the path names, and a releaser's no longer is. *)
Owning(p) == at[p] \in {"flocked", "held", "unlinked"}

OwnerIsOpen ==
  \A i \in Inode : owner[i] # NoOne => Owning(owner[i]) /\ fd[owner[i]] = i

OwningOwns ==
  \A p \in Proc : Owning(p) => fd[p] \in Inode /\ owner[fd[p]] = p

OpenedIsOpen == \A p \in Proc : at[p] = "opened" => fd[p] \in Inode

HolderIsNamed == \A p \in Proc : Holding(p) => path = fd[p]

NestedHold == \A p \in Proc : nest[p] > 0 => Holding(p)

LockInv ==
  /\ LockTypeOK
  /\ OwnerIsOpen
  /\ OwningOwns
  /\ OpenedIsOpen
  /\ HolderIsNamed
  /\ NestedHold
=============================================================================
