--------------------------- MODULE RegistryPorts ---------------------------
(***************************************************************************)
(* The host ports of the clusters' registries.  A run that brings a        *)
(* cluster up settles its port and records it under a host-wide lock       *)
(* (reserveRegistryPort), and binds the port later, outside that lock,     *)
(* when it starts the registry container (registry.Create).  Clusters come *)
(* up and go down at the same time, each run under its own cluster's lock, *)
(* so a run is named by its cluster.                                       *)
(***************************************************************************)
EXTENDS Naturals, FiniteSets

CONSTANTS
  Cluster,    \* cluster names
  Port,       \* the ports freePortFor searches, from 5001
  NoPort,     \* no port is recorded; no container
  Nobody,     \* no run has the allocation lock
  Requests,   \* the ports given as --registry-port; NoPort: no flag
  Faults,     \* what may go wrong, a subset of AllFaults
  MaxForeign  \* bound on the ports other programs have at a time

(* crash: a run is killed.  delete: registry.Delete fails at a down; discard:
   at a repair.  wedge: a holder of the allocation lock keeps it for 30 s. *)
AllFaults == {"crash", "delete", "discard", "wedge"}

ASSUME PortAssumption == Port \subseteq Nat /\ NoPort \notin Port
ASSUME RequestAssumption == Requests \subseteq Port \cup {NoPort}
ASSUME NobodyAssumption == Nobody \notin Cluster
ASSUME FaultsAssumption == Faults \subseteq AllFaults

VARIABLES
  recorded,   \* recorded[c]: the registry-port file of c's state dir
  container,  \* container[c]: the host port c's registry publishes, or NoPort
  running,    \* the clusters whose registry is up, and so bound
  foreign,    \* ports bound by programs that are not rooket registries
  portsLock,  \* the run holding .ports.lock
  pc,         \* pc[c]: the step c's run is about to take
  request,    \* request[c]: the run's --registry-port
  choice      \* choice[c]: the port the run means to use

hostVars == <<recorded, container, running, foreign>>
vars == <<hostVars, portsLock, pc, request, choice>>

PC == {"idle", "lock", "resolve", "probe", "discard", "pick", "write",
       "unlock", "give up", "serve", "down"}

Locked == {"resolve", "probe", "discard", "pick", "write", "unlock", "give up"}

TypeOK ==
  /\ recorded \in [Cluster -> Port \cup {NoPort}]
  /\ container \in [Cluster -> Port \cup {NoPort}]
  /\ running \in SUBSET Cluster
  /\ foreign \in SUBSET Port
  /\ portsLock \in Cluster \cup {Nobody}
  /\ pc \in [Cluster -> PC]
  /\ request \in [Cluster -> Port \cup {NoPort}]
  /\ choice \in [Cluster -> Port \cup {NoPort}]

Init ==
  /\ recorded = [c \in Cluster |-> NoPort]
  /\ container = [c \in Cluster |-> NoPort]
  /\ running = {}
  /\ foreign = {}
  /\ portsLock = Nobody
  /\ pc = [c \in Cluster |-> "idle"]
  /\ request = [c \in Cluster |-> NoPort]
  /\ choice = [c \in Cluster |-> NoPort]

Goto(c, s) == pc' = [pc EXCEPT ![c] = s]

Choose(c, p) == choice' = [choice EXCEPT ![c] = p]

(* The run of c is over, and keeps nothing. *)
End(c) == /\ Goto(c, "idle")
          /\ request' = [request EXCEPT ![c] = NoPort]
          /\ Choose(c, NoPort)

(* A bind of p would fail: portFree says no. *)
Bound(p) == p \in foreign \/ \E c \in running : container[c] = p

(* registryRunningWithPort: c's own registry is what has p. *)
ServesOn(c, p) == c \in running /\ container[c] = p

(* recordedPorts: what the other clusters have on record, running or not. *)
RecordedByOthers(c) == {recorded[d] : d \in Cluster \ {c}} \ {NoPort}

(* Mutant of Candidates: only what a bind probe can see is avoided. *)
MutCandidates(c) == {p \in Port : ~Bound(p)}

(* The ports freePortFor would accept; it returns the lowest. *)
Candidates(c) == {p \in Port : p \notin RecordedByOthers(c) /\ ~Bound(p)}

IsFirstFree(c, p) == p \in Candidates(c) /\ \A q \in Candidates(c) : p <= q

-----------------------------------------------------------------------------
(* reserveRegistryPort. *)

(* up or cluster create; its first look at the flag and the record (up does
   it before anything) is repeated by Resolve. *)
Start(c) ==
  /\ pc[c] = "idle"
  /\ \E r \in Requests : request' = [request EXCEPT ![c] = r]
  /\ Goto(c, "lock")
  /\ UNCHANGED <<hostVars, portsLock, choice>>

(* Mutant of LockPorts: allocations are left to the clusters' own locks. *)
MutLockPorts(c) ==
  /\ pc[c] = "lock"
  /\ portsLock' = c
  /\ Goto(c, "resolve")
  /\ UNCHANGED <<hostVars, request, choice>>

LockPorts(c) ==
  /\ pc[c] = "lock"
  /\ portsLock = Nobody
  /\ portsLock' = c
  /\ Goto(c, "resolve")
  /\ UNCHANGED <<hostVars, request, choice>>

(* portsLockWait is over. *)
LockTimesOut(c) ==
  /\ "wedge" \in Faults
  /\ pc[c] = "lock"
  /\ portsLock # Nobody
  /\ End(c)
  /\ UNCHANGED <<hostVars, portsLock>>

(* resolveRegistryPort: the flag, unless another port is on record; the port
   on record; else the first free one. *)
Resolve(c) ==
  /\ pc[c] = "resolve"
  /\ \/ /\ request[c] # NoPort /\ recorded[c] \in {NoPort, request[c]}
        /\ Choose(c, request[c]) /\ Goto(c, "probe")
     \/ /\ request[c] = NoPort /\ recorded[c] # NoPort
        /\ Choose(c, recorded[c]) /\ Goto(c, "probe")
     \/ /\ request[c] = NoPort /\ recorded[c] = NoPort
        /\ \E p \in Port : IsFirstFree(c, p) /\ Choose(c, p)
        /\ Goto(c, "probe")
     \/ /\ request[c] = NoPort /\ recorded[c] = NoPort /\ Candidates(c) = {}
        /\ Goto(c, "give up") /\ UNCHANGED choice
     \/ /\ request[c] # NoPort /\ recorded[c] \notin {NoPort, request[c]}
        /\ Goto(c, "give up") /\ UNCHANGED choice
  /\ UNCHANGED <<hostVars, portsLock, request>>

(* Mutant of Probe: the port on record is not tried before it is kept. *)
MutProbe(c) ==
  /\ pc[c] = "probe"
  /\ Goto(c, "write")
  /\ UNCHANGED <<hostVars, portsLock, request, choice>>

(* portFree, and registryRunningWithPort when it is not. *)
Probe(c) ==
  /\ pc[c] = "probe"
  /\ Goto(c, IF Bound(choice[c]) /\ ~ServesOn(c, choice[c])
             THEN "discard" ELSE "write")
  /\ UNCHANGED <<hostVars, portsLock, request, choice>>

(* The registry of c, if there is one, goes with the port it cannot have. *)
Discard(c) ==
  /\ pc[c] = "discard"
  /\ container' = [container EXCEPT ![c] = NoPort]
  /\ running' = running \ {c}
  /\ Goto(c, "pick")
  /\ UNCHANGED <<recorded, foreign, portsLock, request, choice>>

DiscardFails(c) ==
  /\ "discard" \in Faults
  /\ pc[c] = "discard" /\ container[c] # NoPort
  /\ Goto(c, "give up")
  /\ UNCHANGED <<hostVars, portsLock, request, choice>>

(* The other freePortFor: a new port for the cluster, or none in the range. *)
Pick(c) ==
  /\ pc[c] = "pick"
  /\ \/ /\ \E p \in Port : IsFirstFree(c, p) /\ Choose(c, p)
        /\ Goto(c, "write")
     \/ /\ Candidates(c) = {}
        /\ Goto(c, "give up") /\ UNCHANGED choice
  /\ UNCHANGED <<hostVars, portsLock, request>>

(* writeRegistryPort. *)
Write(c) ==
  /\ pc[c] = "write"
  /\ recorded' = [recorded EXCEPT ![c] = choice[c]]
  /\ Goto(c, "unlock")
  /\ UNCHANGED <<container, running, foreign, portsLock, request, choice>>

(* The deferred release, of a decision made and of an error. *)
UnlockPorts(c) ==
  /\ portsLock' = Nobody
  /\ \/ pc[c] = "unlock" /\ Goto(c, "serve") /\ UNCHANGED <<request, choice>>
     \/ pc[c] = "give up" /\ End(c)
  /\ UNCHANGED hostVars

-----------------------------------------------------------------------------
(* registry.Create: what the run does about the container later on. *)

(* The container is there and current: it is started, if it is not up, onto
   the port it was created with.  Success and a wait for the recorded port
   that never answers both end the run. *)
StartContainer(c) ==
  /\ pc[c] = "serve"
  /\ container[c] # NoPort
  /\ c \in running \/ ~Bound(container[c])
  /\ running' = running \cup {c}
  /\ End(c)
  /\ UNCHANGED <<recorded, container, foreign, portsLock>>

(* A container is created, there being none or one of another image or
   configuration, which is removed first. *)
RunContainer(c) ==
  /\ pc[c] = "serve"
  /\ ~Bound(choice[c]) \/ ServesOn(c, choice[c])
  /\ container' = [container EXCEPT ![c] = choice[c]]
  /\ running' = running \cup {c}
  /\ End(c)
  /\ UNCHANGED <<recorded, foreign, portsLock>>

(* The port of the container is taken: a fatal bind error. *)
StartFails(c) ==
  /\ pc[c] = "serve"
  /\ container[c] # NoPort /\ c \notin running /\ Bound(container[c])
  /\ End(c)
  /\ UNCHANGED <<hostVars, portsLock>>

(* The engine may leave the container it could not start.  One that was to be
   replaced is gone by then. *)
RunFails(c) ==
  /\ pc[c] = "serve"
  /\ Bound(choice[c]) /\ ~ServesOn(c, choice[c])
  /\ \E left \in {NoPort, choice[c]} :
       container' = [container EXCEPT ![c] = left]
  /\ running' = running \ {c}
  /\ End(c)
  /\ UNCHANGED <<recorded, foreign, portsLock>>

-----------------------------------------------------------------------------
(* down and cluster delete. *)

(* registry.Delete; a failure is only a warning. *)
DeleteRegistry(c) ==
  /\ pc[c] = "idle"
  /\ \/ /\ container' = [container EXCEPT ![c] = NoPort]
        /\ running' = running \ {c}
     \/ "delete" \in Faults /\ UNCHANGED <<container, running>>
  /\ Goto(c, "down")
  /\ UNCHANGED <<recorded, foreign, portsLock, request, choice>>

(* A plain down, or cluster delete, keeps the state dir. *)
KeepRecord(c) ==
  /\ pc[c] = "down"
  /\ Goto(c, "idle")
  /\ UNCHANGED <<hostVars, portsLock, request, choice>>

(* down --delete-disks removes it, the record with it. *)
RemoveRecord(c) ==
  /\ pc[c] = "down"
  /\ recorded' = [recorded EXCEPT ![c] = NoPort]
  /\ Goto(c, "idle")
  /\ UNCHANGED <<container, running, foreign, portsLock, request, choice>>

-----------------------------------------------------------------------------
(* What else happens. *)

(* A run is killed; the kernel drops its flock. *)
Crash(c) ==
  /\ "crash" \in Faults
  /\ pc[c] # "idle"
  /\ portsLock' = IF portsLock = c THEN Nobody ELSE portsLock
  /\ End(c)
  /\ UNCHANGED hostVars

(* The registry stops, as at a reboot of the host. *)
RegistryStops(c) ==
  /\ c \in running
  /\ running' = running \ {c}
  /\ UNCHANGED <<recorded, container, foreign, portsLock, pc, request, choice>>

(* Another program binds a free port or lets one go. *)
ForeignBinds(p) ==
  /\ ~Bound(p)
  /\ Cardinality(foreign) < MaxForeign
  /\ foreign' = foreign \cup {p}
  /\ UNCHANGED <<recorded, container, running, portsLock, pc, request, choice>>

ForeignFrees(p) ==
  /\ p \in foreign
  /\ foreign' = foreign \ {p}
  /\ UNCHANGED <<recorded, container, running, portsLock, pc, request, choice>>

-----------------------------------------------------------------------------
Reserving(c) ==
  \/ LockPorts(c) \/ Resolve(c) \/ Probe(c) \/ Discard(c) \/ Pick(c)
  \/ Write(c) \/ UnlockPorts(c)

Serving(c) ==
  StartContainer(c) \/ RunContainer(c) \/ StartFails(c) \/ RunFails(c)

Down(c) == DeleteRegistry(c) \/ KeepRecord(c) \/ RemoveRecord(c)

Disturbance ==
  \/ \E c \in Cluster :
       \/ DeleteRegistry(c) \/ Crash(c) \/ RegistryStops(c)
       \/ LockTimesOut(c) \/ DiscardFails(c)
  \/ \E p \in Port : ForeignBinds(p) \/ ForeignFrees(p)

Next ==
  \/ \E c \in Cluster : Start(c) \/ Reserving(c) \/ Serving(c) \/ Down(c)
  \/ Disturbance

Spec == Init /\ [][Next]_vars

(* A run goes on by itself, except that another may have the lock whenever it
   polls it; nothing is assumed of when runs are started. *)
FairSpec ==
  /\ Spec
  /\ \A c \in Cluster :
       /\ SF_vars(LockPorts(c))
       /\ WF_vars(Reserving(c))
       /\ WF_vars(Serving(c))
       /\ WF_vars(KeepRecord(c) \/ RemoveRecord(c))

-----------------------------------------------------------------------------
(* Registry host-port allocation, "serialized across every cluster": no two
   clusters ever have one port on record, though their runs overlap, are
   killed, and find records of registries that are not running. *)
PortsNeverShared ==
  \A c, d \in Cluster :
    recorded[c] = recorded[d] /\ recorded[c] # NoPort => c = d

(* "The registry container and every node's containerd mirror config were set
   up with the recorded port": a container, up or stopped, is on the port its
   cluster has on record, or will have when the run deciding it is done. *)
ContainerOnItsRecord ==
  \A c \in Cluster : container[c] # NoPort => container[c] = recorded[c]

(* "What is not left alone is rooket colliding with itself": when a registry
   cannot bind its port, or is discarded over it with the images pushed to it,
   no registry of another cluster is what has the port. *)
NoSelfCollision ==
  [][\A c \in Cluster :
       /\ StartFails(c) => container[c] \in foreign
       /\ RunFails(c) => choice[c] \in foreign
       /\ pc[c] = "probe" /\ pc'[c] = "discard" => choice[c] \in foreign]_vars

(* reserveRegistryPort's repair can be reached: once the host is left alone,
   a cluster that is brought up again and again gets its registry served,
   whatever state earlier runs, crashes and takers of its port left it in. *)
RepairIsReached ==
  <>[][~Disturbance]_vars =>
    \A c \in Cluster : []<><<Start(c)>>_vars => <>[](c \in running)

-----------------------------------------------------------------------------
(* The same when ports are asked for by --registry-port, which is recorded
   although another cluster has it, and when a registry outlives a down. *)

(* Two clusters on one port: it is one that a --registry-port asked for; what
   rooket chooses is nobody's, whoever else's port was asked for. *)
SharedIsAskedFor ==
  \A c, d \in Cluster :
    c # d /\ recorded[c] = recorded[d] /\ recorded[c] # NoPort => recorded[c] \in Requests

(* A container never comes off the port on record but in one way: its cluster
   is taken down with --delete-disks after the registry could not be deleted.
   No repair, no start and no killed run does it. *)
OnRecord(c) == container[c] # NoPort => container[c] = recorded[c]

OnlyRemovalOrphans ==
  [][\A c \in Cluster : OnRecord(c) /\ ~OnRecord(c)' => RemoveRecord(c)]_vars

(* When a registry loses its port, or is discarded over it, the port is another
   program's, or was asked for, or is had by a registry that outlived its record. *)
Explained(p) ==
  \/ p \in foreign \cup Requests
  \/ \E d \in Cluster : container[d] = p /\ recorded[d] # p

CollisionsAreExplained ==
  [][\A c \in Cluster :
       /\ StartFails(c) => Explained(container[c])
       /\ RunFails(c) => Explained(choice[c])
       /\ pc[c] = "probe" /\ pc'[c] = "discard" => Explained(choice[c])]_vars

-----------------------------------------------------------------------------
(* The inductive invariant behind the safety properties.  The lock is had
   exactly while a port is being decided on. *)
LockedInside == \A c \in Cluster : portsLock = c <=> pc[c] \in Locked

(* What a run is about to record, and what it has recorded. *)
Decided(c) == pc[c] \in {"probe", "write"}

Recorded(c) == pc[c] \in {"unlock", "serve"}

ChoiceIsOnRecord ==
  \A c \in Cluster :
    /\ Decided(c) \/ Recorded(c) => choice[c] # NoPort
    /\ Recorded(c) => choice[c] = recorded[c]

RequestsAreFlags == \A c \in Cluster : request[c] \in Requests \cup {NoPort}

(* What is about to be recorded is nobody else's, unless it was asked for. *)
ChoiceIsAskedFor ==
  \A c \in Cluster : Decided(c) =>
    \A d \in Cluster \ {c} : recorded[d] = choice[c] => choice[c] \in Requests

(* The record of a container that is on it changes only once the container is
   gone. *)
FollowsContainer ==
  \A c \in Cluster : container[c] # NoPort /\ container[c] = recorded[c] =>
    /\ pc[c] # "pick"
    /\ Decided(c) => choice[c] = recorded[c]

(* While a down can delete the registry, the record does not go before it. *)
ContainerGoesFirst == \A c \in Cluster : container[c] # NoPort => pc[c] # "down"

IInv ==
  /\ TypeOK
  /\ LockedInside
  /\ ChoiceIsOnRecord
  /\ SharedIsAskedFor /\ RequestsAreFlags /\ ChoiceIsAskedFor
  /\ FollowsContainer
  /\ "delete" \notin Faults => ContainerOnItsRecord /\ ContainerGoesFirst
=============================================================================
