------------------------------- MODULE Builds -------------------------------
(***************************************************************************)
(* Building one clone of rook for the registries of several clusters: the  *)
(* build stamp of a cluster, the build cache of the clone, and make, whose *)
(* output tag they share.  An image is abstracted to the trees make read   *)
(* while it built it, {} being no image; a tree stands for its             *)
(* fingerprint.  A run has its cluster's lock, so it is named by it.       *)
(***************************************************************************)
EXTENDS Naturals, FiniteSets

CONSTANTS
  Cluster,  \* clusters deployed from the clone
  Tree,     \* states of the clone's working tree
  First,    \* the tree at first
  None,     \* no fingerprint, no stamp
  Out,      \* make's output tag, as the name of a source to push
  Nobody,   \* no run has the lock of the build cache
  Keep,     \* buildCacheKeep
  Faults,   \* what may go wrong, a subset of AllFaults
  MaxFaults, \* bound on how often something does
  MaxEdits  \* bound on how often the tree changes

(* crash: a run is killed, and its make with it.  env: no fingerprint, or
   BUILD_CONTAINER_IMAGE=false.  make, pin, push: one of those fails.  untag:
   someone removes local images.  wait: cloneLockWait is over. *)
AllFaults == {"crash", "env", "make", "pin", "push", "untag", "wait"}

ASSUME TreeAssumption == First \in Tree /\ None \notin Tree /\ Out \notin Tree
ASSUME NobodyAssumption == Nobody \notin Cluster
ASSUME KeepAssumption == Keep \in Nat \ {0}
ASSUME FaultsAssumption == Faults \subseteq AllFaults /\ MaxFaults \in Nat
ASSUME EditsAssumption == MaxEdits \in Nat

Image == SUBSET Tree

Stamp == [tree : Tree, src : Tree \cup {Out}, id : Image, digest : Image]

VARIABLES
  tree,    \* the working tree
  edits,   \* history: how often it changed
  reverted, \* history: what it came back to under the make of a run that had it first
  out,     \* the image of make's output tag
  pinned,  \* pinned[t]: the image of the tag builds of t are pinned under
  rank,    \* rank[t]: the record of t's build, 1 the most recent, 0 none
  ids,     \* ids[t]: the image ID in that record
  lock,    \* the run with the flock of the build cache
  reg,     \* reg[c]: what c's registry has under the ref c deploys
  stamp,   \* stamp[c]: build-stamp.json, or None
  pc,      \* pc[c]: where c's run is, see PC
  run,     \* run[c]: what c's run was asked and has settled
  lost,    \* history: the pins that others removed
  faults   \* history: how often something went wrong

clone == <<tree, edits, reverted>>
cache == <<pinned, rank, ids>>
history == <<lost, faults>>
vars == <<clone, out, cache, lock, reg, stamp, pc, run, history>>

PC == {"idle", "print", "check", "lock", "repush", "lookup", "make", "pin",
       "push", "stamp", "done"}

(* Inside the lock. *)
Inside == {"repush", "lookup", "make", "pin", "push", "stamp"}

(* up: the run is an up before its join.  again: it is to repush.  saw: the
   trees since its fingerprint; read: those since make began.  src, id and ok:
   what it pushes, under which ID, and whether that may be stamped. *)
Run == [up : BOOLEAN, force : BOOLEAN, again : BOOLEAN, fp : Tree \cup {None},
        saw : SUBSET Tree, read : SUBSET Tree, src : Tree \cup {Out},
        id : Image, ok : BOOLEAN]

NoRun == [up |-> FALSE, force |-> FALSE, again |-> FALSE, fp |-> None,
          saw |-> {}, read |-> {}, src |-> Out, id |-> {}, ok |-> FALSE]

TypeOK ==
  /\ tree \in Tree
  /\ edits \in 0 .. MaxEdits
  /\ reverted \in SUBSET Tree
  /\ out \in Image
  /\ pinned \in [Tree -> Image]
  /\ rank \in [Tree -> 0 .. Keep]
  /\ ids \in [Tree -> Image]
  /\ lock \in Cluster \cup {Nobody}
  /\ reg \in [Cluster -> Image]
  /\ stamp \in [Cluster -> Stamp \cup {None}]
  /\ pc \in [Cluster -> PC]
  /\ run \in [Cluster -> Run]
  /\ lost \in SUBSET Tree
  /\ faults \in 0 .. MaxFaults

Init ==
  /\ tree = First
  /\ edits = 0
  /\ reverted = {}
  /\ out = {}
  /\ pinned = [t \in Tree |-> {}]
  /\ rank = [t \in Tree |-> 0]
  /\ ids = [t \in Tree |-> {}]
  /\ lock = Nobody
  /\ reg = [c \in Cluster |-> {}]
  /\ stamp = [c \in Cluster |-> None]
  /\ pc = [c \in Cluster |-> "idle"]
  /\ run = [c \in Cluster |-> NoRun]
  /\ lost = {}
  /\ faults = 0

At(c, s) == pc[c] = s

Goto(c, s) == pc' = [pc EXCEPT ![c] = s]

Settle(c, r) == run' = [run EXCEPT ![c] = r]

Fault(f) == f \in Faults /\ faults < MaxFaults /\ faults' = faults + 1

(* The run lets go of the lock if it has it. *)
Leave(c, s) == Goto(c, s) /\ lock' = IF lock = c THEN Nobody ELSE lock

(* The run is over, and keeps nothing. *)
End(c) == Leave(c, "idle") /\ Settle(c, NoRun)

(* localImageID of a source. *)
ImageOf(src) == IF src = Out THEN out ELSE pinned[src]

(* usableFor, of the record of t. *)
Usable(t) == rank[t] # 0 /\ ids[t] # {} /\ pinned[t] = ids[t]

(* t becomes the most recently used of the records. *)
Touched(t) ==
  [u \in Tree |->
     CASE u = t -> 1
       [] u # t /\ rank[u] # 0 /\ (rank[t] = 0 \/ rank[u] < rank[t]) -> rank[u] + 1
       [] OTHER -> rank[u]]

-----------------------------------------------------------------------------
(* The fingerprint and the gate. *)

(* build, and up's build step, with --force-build or without: a forced up goes
   the way of a forced build. *)
Start(c) ==
  /\ At(c, "idle")
  /\ \E u, f \in BOOLEAN :
       ~(u /\ f) /\ Settle(c, [NoRun EXCEPT !.up = u, !.force = f])
  /\ Goto(c, "print")
  /\ UNCHANGED <<clone, out, cache, lock, reg, stamp, history>>

(* treeFingerprint.  No stamp or record ever bears that of a run without
   one, or of one with BUILD_CONTAINER_IMAGE=false. *)
Fingerprint(c) ==
  /\ At(c, "print")
  /\ \/ /\ Settle(c, [run[c] EXCEPT !.fp = tree, !.saw = {tree}])
        /\ UNCHANGED faults
     \/ /\ Fault("env")
        /\ Settle(c, [run[c] EXCEPT !.fp = None, !.saw = {tree}])
  /\ Goto(c, "check")
  /\ UNCHANGED <<clone, out, cache, lock, reg, stamp, lost>>

(* The tree is the stamped one. *)
Unchanged(c) == stamp[c] # None /\ run[c].fp = stamp[c].tree

(* Mutant of Current: any image under the ref will do. *)
MutCurrent(c) == reg[c] # {}

(* The registry has the stamped digest. *)
Current(c) == reg[c] # {} /\ reg[c] = stamp[c].digest

(* buildSkipCheck.  An up that has nothing to make leaves the rest to buildRun
   after the join, which starts over. *)
Check(c) ==
  LET r == run[c] IN
  /\ At(c, "check")
  /\ \/ /\ r.force \/ ~Unchanged(c)
        /\ Goto(c, "lock") /\ UNCHANGED run
     \/ /\ ~r.force /\ Unchanged(c) /\ r.up
        /\ Settle(c, NoRun) /\ Goto(c, "print")
     \/ /\ ~r.force /\ Unchanged(c) /\ ~r.up /\ ~Current(c)
        /\ Settle(c, [r EXCEPT !.again = TRUE]) /\ Goto(c, "lock")
     \/ /\ ~r.force /\ Unchanged(c) /\ ~r.up /\ Current(c)
        /\ Goto(c, "done") /\ UNCHANGED run
  /\ UNCHANGED <<clone, out, cache, lock, reg, stamp, history>>

LockCache(c) ==
  /\ At(c, "lock")
  /\ lock = Nobody
  /\ lock' = c
  /\ Goto(c, IF run[c].again THEN "repush" ELSE "lookup")
  /\ UNCHANGED <<clone, out, cache, reg, stamp, run, history>>

LockTimesOut(c) ==
  /\ Fault("wait")
  /\ At(c, "lock")
  /\ lock # Nobody
  /\ End(c)
  /\ UNCHANGED <<clone, out, cache, reg, stamp, lost>>

(* Mutant of Repush: the source tag is trusted. *)
MutRepush(c) ==
  LET s == stamp[c] IN
  /\ At(c, "repush")
  /\ IF ImageOf(s.src) # {}
     THEN /\ Settle(c, [run[c] EXCEPT !.src = s.src, !.id = s.id, !.ok = TRUE])
          /\ Goto(c, "push")
     ELSE /\ Settle(c, [run[c] EXCEPT !.again = FALSE])
          /\ Goto(c, "lookup")
  /\ UNCHANGED <<clone, out, cache, lock, reg, stamp, history>>

(* repushStampedImages, up to the push: "only the stamped content may be
   republished under this stamp". *)
Repush(c) ==
  LET s == stamp[c] IN
  /\ At(c, "repush")
  /\ IF ImageOf(s.src) = s.id /\ s.id # {}
     THEN /\ Settle(c, [run[c] EXCEPT !.src = s.src, !.id = s.id, !.ok = TRUE])
          /\ Goto(c, "push")
     ELSE /\ Settle(c, [run[c] EXCEPT !.again = FALSE])
          /\ Goto(c, "lookup")
  /\ UNCHANGED <<clone, out, cache, lock, reg, stamp, history>>

(* buildCache.lookup, and what becomes of its answer. *)
Lookup(c) ==
  LET r == run[c]
      hit == ~r.force /\ r.fp # None /\ Usable(r.fp)
  IN
  /\ At(c, "lookup")
  /\ rank' = IF hit THEN Touched(r.fp) ELSE rank
  /\ \/ /\ hit /\ r.up
        /\ Settle(c, NoRun) /\ Leave(c, "print")
     \/ /\ hit /\ ~r.up
        /\ Settle(c, [r EXCEPT !.src = r.fp, !.id = ids[r.fp], !.ok = TRUE])
        /\ Goto(c, "push") /\ UNCHANGED lock
     \/ /\ ~hit
        /\ Settle(c, [NoRun EXCEPT !.fp = r.fp, !.saw = r.saw, !.read = {tree}])
        /\ Goto(c, "make") /\ UNCHANGED lock
  /\ UNCHANGED <<clone, out, pinned, ids, reg, stamp, history>>

-----------------------------------------------------------------------------
(* make, and the pinning of what it made. *)

(* make has read the tree at any time since it began.  With
   BUILD_CONTAINER_IMAGE=false it leaves the tag as it is. *)
MakeEnds(c) ==
  /\ At(c, "make")
  /\ \/ out' \in SUBSET run[c].read \ {{}}
     \/ run[c].fp = None /\ UNCHANGED out
  /\ Settle(c, [run[c] EXCEPT !.read = {}])
  /\ Goto(c, "pin")
  /\ UNCHANGED <<clone, cache, lock, reg, stamp, history>>

(* make fails, before or after it tagged an image. *)
MakeFails(c) ==
  /\ Fault("make")
  /\ At(c, "make")
  /\ out' \in SUBSET run[c].read \ {{}} \/ UNCHANGED out
  /\ End(c)
  /\ UNCHANGED <<clone, cache, reg, stamp, lost>>

(* Mutant of Steady: the tree is not looked at again after make. *)
MutSteady(c) == run[c].fp # None

(* The fingerprint after make is that of before. *)
Steady(c) == run[c].fp # None /\ tree = run[c].fp

(* What is pushed if nothing was pinned: the output tag. *)
PushOut(c, stampable) ==
  /\ Settle(c, [run[c] EXCEPT !.src = Out, !.id = {}, !.ok = stampable])
  /\ Goto(c, "push")

(* Mutant of Stays: the oldest are kept and the newest goes. *)
MutStays(ranks, t) == ranks[t] > 1 \/ \A u \in Tree : ranks[u] <= Keep

(* The records that stay: the Keep most recently used. *)
Stays(ranks, t) == ranks[t] <= Keep

(* The build is pinned and recorded, and the records beyond Keep evicted,
   their pins with them. *)
Pin(c) ==
  LET t == run[c].fp
      ranks == Touched(t)
  IN
  /\ At(c, "pin")
  /\ Steady(c) /\ out # {}
  /\ pinned' = [u \in Tree |-> IF ~Stays(ranks, u) THEN {}
                               ELSE IF u = t THEN out ELSE pinned[u]]
  /\ ids' = [u \in Tree |-> IF ~Stays(ranks, u) THEN {}
                            ELSE IF u = t THEN out ELSE ids[u]]
  /\ rank' = [u \in Tree |-> IF Stays(ranks, u) THEN ranks[u] ELSE 0]
  /\ lost' = lost \ {t}
  /\ Settle(c, [run[c] EXCEPT !.src = t, !.id = out, !.ok = TRUE])
  /\ Goto(c, "push")
  /\ UNCHANGED <<clone, out, lock, reg, stamp, faults>>

(* The tree changed under make: the images are pushed, and that is all. *)
PushUnpinned(c) ==
  /\ At(c, "pin")
  /\ ~Steady(c)
  /\ PushOut(c, FALSE)
  /\ UNCHANGED <<clone, out, cache, lock, reg, stamp, history>>

(* The tag or its ID fails, so that nothing is pinned; or the record does, and
   the build is pinned all the same. *)
PinFails(c) ==
  LET t == run[c].fp IN
  /\ At(c, "pin")
  /\ Steady(c)
  /\ \/ /\ Fault("pin") \/ (out = {} /\ UNCHANGED faults)
        /\ PushOut(c, TRUE) /\ UNCHANGED <<cache, lost>>
     \/ /\ Fault("pin") /\ out # {}
        /\ pinned' = [pinned EXCEPT ![t] = out]
        /\ lost' = lost \ {t}
        /\ Settle(c, [run[c] EXCEPT !.src = t, !.id = out, !.ok = TRUE])
        /\ Goto(c, "push") /\ UNCHANGED <<rank, ids>>
  /\ UNCHANGED <<clone, out, lock, reg, stamp>>

-----------------------------------------------------------------------------
(* buildPushPhase, and the end of repushStampedImages. *)

Push(c) ==
  /\ At(c, "push")
  /\ ImageOf(run[c].src) # {}
  /\ reg' = [reg EXCEPT ![c] = ImageOf(run[c].src)]
  /\ Goto(c, "stamp")
  /\ UNCHANGED <<clone, out, cache, lock, stamp, run, history>>

(* The source is not there, the push fails, or, for a repush, the digest cannot
   be read back.  A repush goes on to build. *)
PushFails(c) ==
  /\ At(c, "push")
  /\ \/ ImageOf(run[c].src) = {} /\ UNCHANGED <<reg, faults>>
     \/ Fault("push") /\ UNCHANGED reg
     \/ /\ Fault("push") /\ run[c].again
        /\ reg' = [reg EXCEPT ![c] = ImageOf(run[c].src)]
  /\ IF run[c].again
     THEN /\ Settle(c, [run[c] EXCEPT !.again = FALSE])
          /\ Goto(c, "lookup") /\ UNCHANGED lock
     ELSE End(c)
  /\ UNCHANGED <<clone, out, cache, stamp, lost>>

(* stampBuild: the ID is the pinned one, or that of the output tag by now; a
   digest or an ID that cannot be read leaves the old stamp. *)
WriteStamp(c) ==
  LET r == run[c]
      id == IF r.id # {} THEN r.id ELSE out
  IN
  /\ At(c, "stamp")
  /\ \/ /\ r.ok /\ r.fp # None /\ id # {}
        /\ stamp' = [stamp EXCEPT ![c] =
                       [tree |-> r.fp, src |-> r.src, id |-> id, digest |-> reg[c]]]
        /\ UNCHANGED faults
     \/ /\ ~r.ok \/ r.fp = None \/ id = {}
        /\ UNCHANGED <<stamp, faults>>
     \/ Fault("push") /\ UNCHANGED stamp
  /\ Settle(c, [NoRun EXCEPT !.fp = r.fp, !.saw = r.saw])
  /\ Leave(c, "done")
  /\ UNCHANGED <<clone, out, cache, reg, lost>>

Finish(c) ==
  /\ At(c, "done")
  /\ End(c)
  /\ UNCHANGED <<clone, out, cache, reg, stamp, history>>

-----------------------------------------------------------------------------
(* What else happens. *)

(* build push: the output tag, whatever it names, with no stamp. *)
BuildPush(c) ==
  /\ At(c, "idle")
  /\ out # {}
  /\ reg' = [reg EXCEPT ![c] = out]
  /\ UNCHANGED <<clone, out, cache, lock, stamp, pc, run, history>>

(* The registry is lost at a down, and with --delete-disks the stamp too; a
   change of the ref that is deployed comes to the same. *)
Down(c) ==
  /\ At(c, "idle")
  /\ reg' = [reg EXCEPT ![c] = {}]
  /\ stamp' \in {stamp, [stamp EXCEPT ![c] = None]}
  /\ UNCHANGED <<clone, out, cache, lock, pc, run, history>>

(* Between the fingerprint of t and that after make. *)
MakesOf(c, t) == pc[c] \in {"make", "pin"} /\ run[c].fp = t

(* The tree is edited, or another branch checked out, at any time; it may come
   back to what it was. *)
Edit(t) ==
  /\ t # tree
  /\ edits < MaxEdits
  /\ tree' = t
  /\ edits' = edits + 1
  /\ reverted' = reverted \cup {u \in {t} : \E c \in Cluster : MakesOf(c, u)}
  /\ run' = [c \in Cluster |->
               [run[c] EXCEPT !.saw = IF @ = {} THEN {} ELSE @ \cup {t},
                              !.read = IF At(c, "make") THEN @ \cup {t} ELSE @]]
  /\ UNCHANGED <<out, cache, lock, reg, stamp, pc, history>>

Untag ==
  /\ Fault("untag")
  /\ \/ /\ out' = {} /\ UNCHANGED <<pinned, lost>>
     \/ \E t \in Tree : /\ pinned[t] # {}
                        /\ pinned' = [pinned EXCEPT ![t] = {}]
                        /\ lost' = lost \cup {t} /\ UNCHANGED out
  /\ UNCHANGED <<clone, rank, ids, lock, reg, stamp, pc, run>>

Crash(c) ==
  /\ Fault("crash")
  /\ ~At(c, "idle")
  /\ End(c)
  /\ UNCHANGED <<clone, out, cache, reg, stamp, lost>>

-----------------------------------------------------------------------------
Gate(c) ==
  \/ Start(c) \/ Fingerprint(c) \/ Check(c) \/ LockCache(c) \/ LockTimesOut(c)
  \/ Repush(c) \/ Lookup(c)

Make(c) ==
  MakeEnds(c) \/ MakeFails(c) \/ Pin(c) \/ PushUnpinned(c) \/ PinFails(c)

Publish(c) == Push(c) \/ PushFails(c) \/ WriteStamp(c) \/ Finish(c)

Next ==
  \/ \E c \in Cluster : Gate(c) \/ Make(c) \/ Publish(c) \/ BuildPush(c)
                          \/ Down(c) \/ Crash(c)
  \/ \E t \in Tree : Edit(t)
  \/ Untag

Spec == Init /\ [][Next]_vars

-----------------------------------------------------------------------------
(* "A stale record costs a build, never a wrong image": what lookup would hand
   out for a tree was built of that tree and nothing else.  Here and in the
   next two not of a tree that was edited and came back within one make, which the
   fingerprints before and after cannot tell. *)
RecordsAreTrue == \A t \in Tree \ reverted : Usable(t) => pinned[t] = {t}

(* "Never bless that as this fingerprint's output": what a stamp would have
   taken for current, or repushed, was built of the stamped tree alone. *)
StampsAreTrue ==
  \A c \in Cluster : stamp[c] # None /\ stamp[c].tree \notin reverted =>
    stamp[c].digest = {stamp[c].tree} /\ stamp[c].id = {stamp[c].tree}

(* A build that succeeds, whether it skipped, repushed, reused or made, leaves
   the cluster's registry with an image of what the tree was during the run:
   no other cluster's, no older tree's, and not what build push put there. *)
ServesItsTree ==
  \A c \in Cluster : At(c, "done") /\ run[c].fp \notin reverted \cup {None} =>
    reg[c] # {} /\ reg[c] \subseteq run[c].saw

(* "A build in use is not one to drop": what a run is about to publish from its
   pin is neither evicted nor retagged, unless someone untags it. *)
PushedIsThere ==
  \A c \in Cluster : At(c, "push") /\ run[c].src \notin lost \cup {Out} =>
    pinned[run[c].src] = run[c].id

-----------------------------------------------------------------------------
(* What makes them inductive. *)

(* A pin and a record of t have nothing but what was built of t. *)
ContentsAreTrue ==
  \A t \in Tree \ reverted : pinned[t] \in {{}, {t}} /\ ids[t] \in {{}, {t}}

LockIsHeld == \A c \in Cluster : pc[c] \in Inside <=> lock = c

(* What a run has seen of the tree: if under make it is what it was, it never
   changed there, unless it came back. *)
Sees(c) ==
  /\ pc[c] \notin {"idle", "print"} => tree \in run[c].saw
  /\ run[c].fp # None => run[c].fp \in run[c].saw
  /\ run[c].saw # {} => tree \in run[c].saw
  /\ run[c].read \subseteq run[c].saw
  /\ pc[c] # "make" => run[c].read = {}
  /\ tree = run[c].fp /\ tree \notin reverted => run[c].read \subseteq {tree}

(* A run that is to repush has the stamp of its tree. *)
Repushes(c) ==
  /\ run[c].again =>
       /\ pc[c] \in {"lock", "repush", "push", "stamp"}
       /\ stamp[c] # None /\ stamp[c].tree = run[c].fp
  /\ pc[c] = "repush" => run[c].again

(* Until it is pinned, the output tag has what make read. *)
Makes(c) ==
  pc[c] = "pin" /\ run[c].fp # None =>
    /\ out \subseteq run[c].saw
    /\ tree = run[c].fp /\ tree \notin reverted => out \subseteq {tree}

(* What is about to be stamped is of the fingerprint alone. *)
Pushes(c) ==
  LET r == run[c] IN
  pc[c] = "push" =>
    /\ r.ok =>
         /\ r.fp # None
         /\ r.fp \notin reverted =>
              ImageOf(r.src) \in {{}, {r.fp}} /\ r.id \in {{}, {r.fp}}
         /\ r.id = {} => r.src = Out
    /\ r.fp \notin reverted \cup {None} => ImageOf(r.src) \subseteq r.saw
    /\ r.src \notin lost \cup {Out} => pinned[r.src] = r.id

Stamps(c) ==
  LET r == run[c] IN
  pc[c] = "stamp" =>
    /\ r.ok =>
         /\ r.fp # None
         /\ r.fp \notin reverted =>
              /\ reg[c] = {r.fp} /\ r.id \in {{}, {r.fp}}
              /\ r.id = {} => out \in {{}, {r.fp}}
    /\ r.fp \notin reverted \cup {None} => reg[c] # {} /\ reg[c] \subseteq r.saw

Served(c) ==
  pc[c] = "done" /\ run[c].fp \notin reverted \cup {None} =>
    reg[c] # {} /\ reg[c] \subseteq run[c].saw

Stamped(c) ==
  stamp[c] # None /\ stamp[c].tree \notin reverted =>
    stamp[c].digest = {stamp[c].tree} /\ stamp[c].id = {stamp[c].tree}

RunInv(c) ==
  Sees(c) /\ Repushes(c) /\ Makes(c) /\ Pushes(c) /\ Stamps(c) /\ Served(c) /\ Stamped(c)

IInv == TypeOK /\ ContentsAreTrue /\ LockIsHeld /\ \A c \in Cluster : RunInv(c)

-----------------------------------------------------------------------------
(* What holds of the lock, for every tree: where it came back under make, and the
   fingerprints say less than they are taken to, this is what is left. *)

(* What one run of make and the build cache leave for the next, the output tag,
   pins and records, is only ever touched by the run that has the lock, or by
   someone who untags. *)
OnlyTheHolderBuilds ==
  [][UNCHANGED <<out, cache>> \/ Untag
       \/ \E c \in Cluster : lock = c /\ (Lookup(c) \/ Make(c))]_vars

(* stampBuild: the digest and the image ID of a stamp are of one image, though
   they are read steps apart, one from the registry and one from a tag. *)
StampsOneImage ==
  \A c \in Cluster : stamp[c] # None => stamp[c].id # {} /\ stamp[c].digest = stamp[c].id

(* A run that ends well has left an image in its registry. *)
DoneIsServed == \A c \in Cluster : At(c, "done") => reg[c] # {}

(* From the push to the stamp a run has to do with one image. *)
PublishesOne(c) ==
  LET r == run[c] IN
  /\ pc[c] = "push" =>
       /\ r.src \notin lost \cup {Out} => pinned[r.src] = r.id
       /\ r.id # {} => ImageOf(r.src) \in {{}, r.id}
       /\ r.id = {} => r.src = Out
  /\ pc[c] = "stamp" =>
       /\ reg[c] # {}
       /\ r.id # {} => reg[c] = r.id
       /\ r.id = {} => out \in {{}, reg[c]}
  /\ pc[c] = "done" => reg[c] # {}
  /\ stamp[c] # None => stamp[c].id # {} /\ stamp[c].digest = stamp[c].id

LockInv ==
  /\ TypeOK
  /\ LockIsHeld
  /\ \A c \in Cluster : Repushes(c) /\ PublishesOne(c)
=============================================================================
