----------------------------- MODULE ChartCache -----------------------------
(***************************************************************************)
(* The released-chart cache of a host, chartcache.Ensure: one entry per    *)
(* released Rook version, pulled by helm into a temporary directory and    *)
(* renamed into place.  The runs of one host share the entries, the pull   *)
(* lock and the one helm home the pulls use.                               *)
(***************************************************************************)
EXTENDS FiniteSets

CONSTANTS
  Proc,      \* rooket runs that need a version's charts
  Version,   \* released versions
  Chart,     \* the charts of an entry
  Nobody,    \* no run has the pull lock
  Faults     \* what may go wrong, a subset of AllFaults

(* crash: a run is killed.  pull: helm fails.  wait: lockWait is over before
   the holder is.  byhand: someone makes, breaks or deletes an entry. *)
AllFaults == {"byhand", "crash", "pull", "wait"}

ASSUME ChartAssumption == Chart # {}
ASSUME VersionAssumption == Version # {}
ASSUME NobodyAssumption == Nobody \notin Proc
ASSUME FaultsAssumption == Faults \subseteq AllFaults

VARIABLES
  entries,   \* the versions with a cache entry
  holds,     \* holds[v]: the charts in v's entry
  touched,   \* history: the entries last made or changed by hand
  lock,      \* the run with the flock of .pull.lock
  pc,        \* pc[p]: where p is in Ensure, see PC
  want,      \* want[p]: the version p needs
  tmp        \* tmp[p]: the charts in p's temporary directory

vars == <<entries, holds, touched, lock, pc, want, tmp>>

(* ready and failed: Ensure has returned the entry, or an error. *)
PC == {"idle", "look", "wait", "recheck", "pull", "helm", "install",
       "ready", "failed"}

(* In the region the pull lock covers. *)
Inside == {"recheck", "pull", "helm", "install"}

TypeOK ==
  /\ entries \in SUBSET Version
  /\ holds \in [Version -> SUBSET Chart]
  /\ touched \in SUBSET entries
  /\ lock \in Proc \cup {Nobody}
  /\ pc \in [Proc -> PC]
  /\ want \in [Proc -> Version]
  /\ tmp \in [Proc -> SUBSET Chart]

Init ==
  /\ entries = {}
  /\ holds = [v \in Version |-> {}]
  /\ touched = {}
  /\ lock = Nobody
  /\ pc = [p \in Proc |-> "idle"]
  /\ want = [p \in Proc |-> CHOOSE v \in Version : TRUE]
  /\ tmp = [p \in Proc |-> {}]

Goto(p, s) == pc' = [pc EXCEPT ![p] = s]

(* complete: the entry has every chart. *)
Complete(v) == holds[v] = Chart

(* What Ensure returns on finding the entry of v. *)
Found(p, v) == Goto(p, IF Complete(v) THEN "ready" ELSE "failed")

(* The deferred release and removal of the temporary directory. *)
LeaveLock(p) == /\ lock' = Nobody
                /\ tmp' = [tmp EXCEPT ![p] = {}]

-----------------------------------------------------------------------------
Start(p, v) ==
  /\ pc[p] = "idle"
  /\ want' = [want EXCEPT ![p] = v]
  /\ Goto(p, "look")
  /\ UNCHANGED <<entries, holds, touched, lock, tmp>>

(* The first look, which takes no lock. *)
Look(p) ==
  /\ pc[p] = "look"
  /\ IF want[p] \in entries THEN Found(p, want[p]) ELSE Goto(p, "wait")
  /\ UNCHANGED <<entries, holds, touched, lock, want, tmp>>

LockPulls(p) ==
  /\ pc[p] = "wait"
  /\ lock = Nobody
  /\ lock' = p
  /\ Goto(p, "recheck")
  /\ UNCHANGED <<entries, holds, touched, want, tmp>>

LockTimesOut(p) ==
  /\ "wait" \in Faults
  /\ pc[p] = "wait"
  /\ lock # Nobody
  /\ Goto(p, "failed")
  /\ UNCHANGED <<entries, holds, touched, lock, want, tmp>>

(* Mutant of Recheck: the miss before the wait is taken for granted. *)
MutRecheck(p) ==
  /\ pc[p] = "recheck"
  /\ Goto(p, "pull")
  /\ UNCHANGED <<entries, holds, touched, lock, want, tmp>>

(* The look under the lock. *)
Recheck(p) ==
  /\ pc[p] = "recheck"
  /\ \/ want[p] \in entries /\ Found(p, want[p]) /\ LeaveLock(p)
     \/ want[p] \notin entries /\ Goto(p, "pull") /\ UNCHANGED <<lock, tmp>>
  /\ UNCHANGED <<entries, holds, touched, want>>

(* helm pull of one more chart begins in the shared helm home, and ends. *)
HelmStarts(p) ==
  /\ pc[p] = "pull"
  /\ tmp[p] # Chart
  /\ Goto(p, "helm")
  /\ UNCHANGED <<entries, holds, touched, lock, want, tmp>>

HelmEnds(p) ==
  /\ pc[p] = "helm"
  /\ \E c \in Chart \ tmp[p] : tmp' = [tmp EXCEPT ![p] = @ \cup {c}]
  /\ Goto(p, "pull")
  /\ UNCHANGED <<entries, holds, touched, lock, want>>

(* Mutant of HelmFails: the chart is left out and the rest installed. *)
MutHelmFails(p) ==
  /\ "pull" \in Faults
  /\ pc[p] = "helm"
  /\ Goto(p, "install")
  /\ UNCHANGED <<entries, holds, touched, lock, want, tmp>>

HelmFails(p) ==
  /\ "pull" \in Faults
  /\ pc[p] = "helm"
  /\ Goto(p, "failed")
  /\ LeaveLock(p)
  /\ UNCHANGED <<entries, holds, touched, want>>

Pulled(p) ==
  /\ pc[p] = "pull"
  /\ tmp[p] = Chart
  /\ Goto(p, "install")
  /\ UNCHANGED <<entries, holds, touched, lock, want, tmp>>

(* The rename lands, or finds an entry in its place, which is used. *)
Install(p) ==
  LET v == want[p] IN
  /\ pc[p] = "install"
  /\ IF v \notin entries
     THEN /\ entries' = entries \cup {v}
          /\ holds' = [holds EXCEPT ![v] = tmp[p]]
          /\ touched' = touched \ {v}
          /\ Goto(p, "ready")
     ELSE Found(p, v) /\ UNCHANGED <<entries, holds, touched>>
  /\ LeaveLock(p)
  /\ UNCHANGED want

(* The command goes on with the entry, or reports the error, and a later one
   may ask again. *)
Finish(p) ==
  /\ pc[p] \in {"ready", "failed"}
  /\ Goto(p, "idle")
  /\ UNCHANGED <<entries, holds, touched, lock, want, tmp>>

(* Mutant of Crash: the lock is left to a process that is gone. *)
MutCrash(p) ==
  /\ "crash" \in Faults
  /\ pc[p] \notin {"idle", "ready", "failed"}
  /\ Goto(p, "idle")
  /\ tmp' = [tmp EXCEPT ![p] = {}]
  /\ UNCHANGED <<entries, holds, touched, lock, want>>

(* The run is killed; its temporary directory stays, and is nobody's. *)
Crash(p) ==
  /\ "crash" \in Faults
  /\ pc[p] \notin {"idle", "ready", "failed"}
  /\ lock' = IF lock = p THEN Nobody ELSE lock
  /\ Goto(p, "idle")
  /\ tmp' = [tmp EXCEPT ![p] = {}]
  /\ UNCHANGED <<entries, holds, touched, want>>

(* An entry is copied in, loses charts, or is deleted other than by Ensure.
   What stands in the place of one has at least its directories, so that the
   rename of Install never replaces it. *)
ByHand(v) ==
  /\ "byhand" \in Faults
  /\ \/ /\ entries' = entries \cup {v}
        /\ touched' = touched \cup {v}
        /\ \E cs \in SUBSET Chart : holds' = [holds EXCEPT ![v] = cs]
     \/ /\ entries' = entries \ {v}
        /\ touched' = touched \ {v}
        /\ holds' = [holds EXCEPT ![v] = {}]
  /\ UNCHANGED <<lock, pc, want, tmp>>

-----------------------------------------------------------------------------
Working(p) ==
  \/ Look(p) \/ LockPulls(p) \/ Recheck(p) \/ HelmStarts(p)
  \/ HelmEnds(p) \/ HelmFails(p) \/ Pulled(p) \/ Install(p)

Next ==
  \/ \E p \in Proc :
       \/ \E v \in Version : Start(p, v)
       \/ Working(p) \/ LockTimesOut(p) \/ Finish(p) \/ Crash(p)
  \/ \E v \in Version : ByHand(v)

Spec == Init /\ [][Next]_vars

(* A run works on by itself and a helm ends; a run that polls the lock while
   it comes free again and again gets it. *)
FairSpec ==
  /\ Spec
  /\ \A p \in Proc : WF_vars(Working(p)) /\ SF_vars(LockPulls(p))

-----------------------------------------------------------------------------
(* "rooket keeps every helm home to one helm run at a time": the pulls of a
   host never overlap, of one version or of several, killed runs included. *)
OneHelmAtATime ==
  \A p, q \in Proc : pc[p] = "helm" /\ pc[q] = "helm" => p = q

(* "An entry that exists is whole": a reader, who takes no lock, never sees
   part of a pull, however the pull ended; what is not whole was changed by
   hand since. *)
EntriesAreWhole == \A v \in entries \ touched : Complete(v)

(* "One pull per version rather than one per waiting run": helm is run for a
   version only while no pull has made its entry. *)
PullsOnlyWhatIsMissing ==
  [][\A p \in Proc : pc[p] # "helm" /\ pc'[p] = "helm"
       => want[p] \notin entries \ touched]_vars

(* A killed pull never strands the lock, and no wait is for ever: every run
   that asks for a version is answered, unless it is killed itself. *)
EveryRunIsAnswered ==
  \A p \in Proc : pc[p] = "look" ~> pc[p] \in {"idle", "ready", "failed"}

-----------------------------------------------------------------------------
(* The inductive invariant behind the safety properties: the lock is had
   exactly in the region it covers, what is about to be installed is whole,
   and a run past its second look needs a version that no other pull made. *)
LockedInside == \A p \in Proc : lock = p <=> pc[p] \in Inside

InstallIsWhole == \A p \in Proc : pc[p] = "install" => tmp[p] = Chart

Pulling(p) == pc[p] \in {"pull", "helm", "install"}

PullingIsMissing ==
  \A p \in Proc : Pulling(p) => want[p] \notin entries \ touched

IInv ==
  /\ TypeOK
  /\ LockedInside
  /\ InstallIsWhole
  /\ EntriesAreWhole
  /\ PullingIsMissing
=============================================================================
