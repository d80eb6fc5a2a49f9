---------------------------- MODULE Builds_proofs ----------------------------
(***************************************************************************)
(* Theorems about Builds, for any number of clusters and trees, any edits   *)
(* and any faults.  What they say of the content of images excepts the      *)
(* trees that came back under a make; what they say of the lock does not.   *)
(***************************************************************************)
EXTENDS Builds, TLAPS

-----------------------------------------------------------------------------
(* Helpers. *)

(* A record that is used comes first, and none goes past Keep by that if it is
   one of those kept. *)
LEMMA TouchedRanks ==
  ASSUME TypeOK, NEW t \in Tree
  PROVE  /\ Touched(t)[t] = 1
         /\ \A u \in Tree : Touched(t)[u] \in Nat
         /\ rank[t] # 0 => Touched(t) \in [Tree -> 0 .. Keep]
<1> USE KeepAssumption DEF Touched, TypeOK
<1>1. Touched(t)[t] = 1
  OBVIOUS
<1>2. ASSUME NEW u \in Tree
      PROVE  /\ Touched(t)[u] \in Nat
             /\ rank[t] # 0 => Touched(t)[u] \in 0 .. Keep
  <2>1. rank[u] \in 0 .. Keep /\ rank[t] \in 0 .. Keep
    OBVIOUS
  <2>2. CASE u = t
    BY <2>2
  <2>3. CASE u # t /\ rank[u] # 0 /\ (rank[t] = 0 \/ rank[u] < rank[t])
    <3>1. Touched(t)[u] = rank[u] + 1
      BY <2>3
    <3> QED BY <2>1, <2>3, <3>1
  <2>4. CASE u # t /\ ~(rank[u] # 0 /\ (rank[t] = 0 \/ rank[u] < rank[t]))
    <3>1. Touched(t)[u] = rank[u]
      BY <2>4
    <3> QED BY <2>1, <3>1
  <2> QED BY <2>2, <2>3, <2>4
<1>3. DOMAIN Touched(t) = Tree
  OBVIOUS
<1> QED BY <1>1, <1>2, <1>3

(* A run that makes or publishes has the lock. *)
LEMMA InsideHoldsTheLock ==
  ASSUME LockIsHeld, NEW c \in Cluster,
         pc[c] \in {"repush", "lookup", "make", "pin", "push", "stamp"}
  PROVE  lock = c
BY DEF LockIsHeld, Inside

(* A step of the run of c, or of build push or down on c. *)
StepOf(c) == Gate(c) \/ Make(c) \/ Publish(c) \/ BuildPush(c) \/ Down(c) \/ Crash(c)

(* It leaves what the other runs have of their own as it is, and the shared
   images too if another has the lock. *)
LEMMA OthersKeepTheirs ==
  ASSUME TypeOK, LockIsHeld, NEW c \in Cluster, StepOf(c), NEW d \in Cluster, d # c
  PROVE  /\ pc'[d] = pc[d] /\ run'[d] = run[d] /\ reg'[d] = reg[d] /\ stamp'[d] = stamp[d]
         /\ tree' = tree /\ reverted' = reverted
         /\ lock = d => lock' = d /\ UNCHANGED <<out, pinned, lost>>
         /\ lock' = d => lock = d
<1> USE NobodyAssumption
    DEF TypeOK, Goto, Settle, At, Leave, End, clone, cache, history, Fault
<1>1. lock = d => pc[c] \notin {"repush", "lookup", "make", "pin", "push", "stamp"}
  BY InsideHoldsTheLock
<1>2. CASE Start(c) \/ Fingerprint(c) \/ Check(c)
  BY <1>2 DEF Start, Fingerprint, Check
<1>3. CASE LockCache(c) \/ LockTimesOut(c)
  BY <1>3 DEF LockCache, LockTimesOut
<1>4. CASE Repush(c) \/ Lookup(c)
  BY <1>1, <1>4 DEF Repush, Lookup
<1>5. CASE MakeEnds(c) \/ MakeFails(c)
  BY <1>1, <1>5 DEF MakeEnds, MakeFails
<1>6. CASE Pin(c)
  BY <1>1, <1>6 DEF Pin
<1>7. CASE PushUnpinned(c) \/ PinFails(c)
  BY <1>1, <1>7 DEF PushUnpinned, PinFails, PushOut
<1>8. CASE Push(c) \/ PushFails(c)
  BY <1>1, <1>8 DEF Push, PushFails
<1>9. CASE WriteStamp(c) \/ Finish(c)
  BY <1>1, <1>9 DEF WriteStamp, Finish
<1>10. CASE BuildPush(c) \/ Down(c)
  BY <1>10 DEF BuildPush, Down
<1>11. CASE Crash(c)
  BY <1>11 DEF Crash
<1> QED
  BY <1>2, <1>3, <1>4, <1>5, <1>6, <1>7, <1>8, <1>9, <1>10, <1>11
  DEF StepOf, Gate, Make, Publish

(* So the others keep their invariant. *)
LEMMA OthersKeep ==
  ASSUME IInv, NEW c \in Cluster, StepOf(c), NEW d \in Cluster, d # c
  PROVE  RunInv(d)'
<1>0. TypeOK /\ LockIsHeld
  BY DEF IInv
<1>1. /\ pc'[d] = pc[d] /\ run'[d] = run[d] /\ reg'[d] = reg[d] /\ stamp'[d] = stamp[d]
      /\ tree' = tree /\ reverted' = reverted
      /\ lock = d => UNCHANGED <<out, pinned, lost>>
  BY <1>0, OthersKeepTheirs
<1>2. pc[d] \in {"pin", "push", "stamp"} => UNCHANGED <<out, pinned, lost>>
  BY <1>0, <1>1, InsideHoldsTheLock
<1>3. RunInv(d)
  BY DEF IInv
<1>4. Sees(d)' /\ Repushes(d)' /\ Served(d)' /\ Stamped(d)'
  BY <1>1, <1>3 DEF RunInv, Sees, Repushes, Served, Stamped
<1>5. Makes(d)' /\ Stamps(d)'
  BY <1>1, <1>2, <1>3 DEF RunInv, Makes, Stamps
<1>6. Pushes(d)'
  BY <1>1, <1>2, <1>3 DEF RunInv, Pushes, ImageOf
<1> QED BY <1>4, <1>5, <1>6 DEF RunInv

-----------------------------------------------------------------------------
(* What the runs' own steps keep of their invariant. *)

(* The core: a build whose tree is that of its fingerprint after make is of that
   tree alone, since if make had read another the tree would have come back. *)
LEMMA BuiltOfItsTree ==
  ASSUME IInv, NEW c \in Cluster, pc[c] = "pin", Steady(c)
  PROVE  /\ run[c].fp \in Tree /\ run[c].fp # None /\ out \subseteq run[c].saw
         /\ run[c].fp \notin reverted => out \in {{}, {run[c].fp}}
<1>1. RunInv(c) /\ run[c].fp # None /\ tree = run[c].fp /\ tree \in Tree
  BY DEF IInv, Steady, TypeOK
<1> QED BY <1>1 DEF RunInv, Makes

(* A run that begins, or begins again, has seen nothing. *)
LEMMA NoRunIsFresh ==
  /\ NoRun \in Run /\ ~NoRun.again /\ NoRun.fp = None /\ NoRun.saw = {} /\ NoRun.read = {}
  /\ ~NoRun.ok
<1>1. NoRun \in Run
  BY DEF NoRun, Run, Image
<1>2. /\ ~NoRun.again /\ NoRun.fp = None /\ NoRun.saw = {} /\ NoRun.read = {}
      /\ ~NoRun.ok
  BY DEF NoRun
<1> QED BY <1>1, <1>2

(* What a run is that keeps its record and stays outside. *)
LEMMA AnEndKeepsIts ==
  ASSUME IInv, NEW c \in Cluster, pc'[c] \in {"idle", "print"},
         ~run'[c].again, run'[c].fp = None, run'[c].saw = {}, run'[c].read = {},
         stamp'[c] = stamp[c] \/ stamp'[c] = None, UNCHANGED reverted
  PROVE  RunInv(c)'
<1>1. Stamped(c)
  BY DEF IInv, RunInv
<1>2. Sees(c)' /\ Repushes(c)'
  BY DEF Sees, Repushes
<1>3. Makes(c)' /\ Pushes(c)' /\ Stamps(c)' /\ Served(c)'
  BY DEF Makes, Pushes, Stamps, Served
<1>4. Stamped(c)'
  BY <1>1 DEF Stamped
<1> QED BY <1>2, <1>3, <1>4 DEF RunInv

(* The gate takes a run to the lock with what it has seen and stamped. *)
LEMMA GateKeeps ==
  ASSUME IInv, NEW c \in Cluster,
         Start(c) \/ Fingerprint(c) \/ Check(c) \/ LockCache(c) \/ LockTimesOut(c)
  PROVE  RunInv(c)'
<1> USE DEF IInv, At, Goto, Settle
<1>0. RunInv(c) /\ run[c] \in Run /\ pc \in [Cluster -> PC] /\ run \in [Cluster -> Run]
  BY DEF TypeOK
<1>1. CASE Start(c)
  <2>1. pc'[c] = "print" /\ UNCHANGED <<reverted, stamp>>
    BY <1>0, <1>1 DEF Start, clone
  <2>2. ~run'[c].again /\ run'[c].fp = None /\ run'[c].saw = {} /\ run'[c].read = {}
    BY <1>0, <1>1 DEF Start, NoRun
  <2> QED BY <2>1, <2>2, AnEndKeepsIts
<1>2. CASE Fingerprint(c)
  <2>1. pc[c] = "print" /\ pc'[c] = "check" /\ UNCHANGED <<tree, reverted, stamp>>
    BY <1>0, <1>2 DEF Fingerprint, clone
  <2>2. /\ run'[c].fp \in {tree, None} /\ run'[c].saw = {tree}
        /\ run'[c].again = run[c].again /\ run'[c].read = run[c].read
    <3>1. PICK f \in {tree, None} : run'[c] = [run[c] EXCEPT !.fp = f, !.saw = {tree}]
      BY <1>0, <1>2 DEF Fingerprint
    <3> QED BY <1>0, <3>1 DEF Run
  <2>3. ~run[c].again
    BY <1>0, <2>1 DEF RunInv, Repushes
  <2>4. run[c].read = {}
    BY <1>0, <2>1 DEF RunInv, Sees
  <2> QED
    BY <1>0, <2>1, <2>2, <2>3, <2>4
    DEF RunInv, Sees, Repushes, Makes, Pushes, Stamps, Served, Stamped
<1>3. CASE Check(c)
  <2>1. pc[c] = "check" /\ UNCHANGED <<tree, reverted, stamp, reg>> /\ ~run[c].again
    BY <1>0, <1>3 DEF Check, clone, RunInv, Repushes
  <2>2. CASE pc'[c] = "print" /\ run'[c] = NoRun
    BY <2>1, <2>2, NoRunIsFresh, AnEndKeepsIts
  <2>3. CASE pc'[c] = "lock" /\ run'[c] = run[c]
    BY <1>0, <2>1, <2>3
    DEF RunInv, Sees, Repushes, Makes, Pushes, Stamps, Served, Stamped
  <2>4. CASE /\ Unchanged(c) /\ pc'[c] = "lock"
             /\ run'[c] = [run[c] EXCEPT !.again = TRUE]
    <3>1. /\ run'[c].fp = run[c].fp /\ run'[c].saw = run[c].saw
          /\ run'[c].read = run[c].read
      BY <1>0, <2>4 DEF Run
    <3> QED
      BY <1>0, <2>1, <2>4, <3>1
      DEF Unchanged, RunInv, Sees, Repushes, Makes, Pushes, Stamps, Served, Stamped
  <2>5. CASE Unchanged(c) /\ Current(c) /\ pc'[c] = "done" /\ run'[c] = run[c]
    <3>1. Sees(c)' /\ Repushes(c)' /\ Makes(c)' /\ Pushes(c)' /\ Stamps(c)' /\ Stamped(c)'
      BY <1>0, <2>1, <2>5
      DEF RunInv, Sees, Repushes, Makes, Pushes, Stamps, Stamped
    <3>2. Served(c)'
      BY <1>0, <2>1, <2>5 DEF Unchanged, Current, RunInv, Sees, Stamped, Served
    <3> QED BY <3>1, <3>2 DEF RunInv
  <2> QED BY <1>0, <1>3, <2>2, <2>3, <2>4, <2>5 DEF Check
<1>4. CASE LockCache(c)
  <2>1. /\ pc[c] = "lock" /\ UNCHANGED <<tree, reverted, stamp, run>>
        /\ pc'[c] = IF run[c].again THEN "repush" ELSE "lookup"
    BY <1>0, <1>4 DEF LockCache, clone
  <2> QED
    BY <1>0, <2>1 DEF RunInv, Sees, Repushes, Makes, Pushes, Stamps, Served, Stamped
<1>5. CASE LockTimesOut(c)
  <2>1. pc'[c] = "idle" /\ run'[c] = NoRun /\ UNCHANGED <<reverted, stamp>>
    BY <1>0, <1>5 DEF LockTimesOut, End, Leave, clone
  <2> QED BY <2>1, NoRunIsFresh, AnEndKeepsIts
<1> QED BY <1>1, <1>2, <1>3, <1>4, <1>5

(* Under the lock: what it repushes or finds on record is of its tree. *)
LEMMA LookupKeeps ==
  ASSUME IInv, NEW c \in Cluster, Repush(c) \/ Lookup(c)
  PROVE  RunInv(c)'
<1> USE DEF IInv, At, Goto, Settle
<1>0. RunInv(c) /\ run[c] \in Run /\ pc \in [Cluster -> PC] /\ run \in [Cluster -> Run]
  BY DEF TypeOK
<1>1. CASE Repush(c)
  <2>1. pc[c] = "repush" /\ UNCHANGED <<tree, reverted, out, pinned, stamp, reg, lost>>
    BY <1>1 DEF Repush, clone, cache, history
  <2>2. CASE /\ ImageOf(stamp[c].src) = stamp[c].id /\ stamp[c].id # {}
             /\ pc'[c] = "push"
             /\ run'[c] = [run[c] EXCEPT !.src = stamp[c].src, !.id = stamp[c].id, !.ok = TRUE]
    <3>1. /\ run'[c].fp = run[c].fp /\ run'[c].saw = run[c].saw
          /\ run'[c].read = run[c].read /\ run'[c].again = run[c].again
          /\ run'[c].src = stamp[c].src /\ run'[c].id = stamp[c].id
      BY <1>0, <2>2 DEF Run
    <3>2. run[c].again
      BY <1>0, <2>1 DEF RunInv, Repushes
    <3>3. stamp[c] # None /\ stamp[c].tree = run[c].fp /\ stamp[c].tree \in Tree
      BY <1>0, <3>2 DEF RunInv, Repushes, TypeOK, Stamp
    <3>4. /\ run[c].fp # None /\ run[c].fp \in run[c].saw
          /\ run[c].fp \notin reverted => stamp[c].id = {run[c].fp}
      BY <1>0, <3>3, TreeAssumption DEF RunInv, Stamped, Sees
    <3>5. IF stamp[c].src = Out THEN out' = stamp[c].id
          ELSE pinned'[stamp[c].src] = stamp[c].id
      BY <2>1, <2>2 DEF ImageOf
    <3>6. Pushes(c)'
      BY <2>1, <2>2, <3>1, <3>4, <3>5 DEF Pushes, ImageOf
    <3>7. Sees(c)' /\ Repushes(c)' /\ Makes(c)' /\ Stamps(c)' /\ Served(c)' /\ Stamped(c)'
      BY <1>0, <2>1, <2>2, <3>1
      DEF RunInv, Sees, Repushes, Makes, Stamps, Served, Stamped
    <3> QED BY <3>6, <3>7 DEF RunInv
  <2>3. CASE pc'[c] = "lookup" /\ run'[c] = [run[c] EXCEPT !.again = FALSE]
    <3>1. /\ run'[c].fp = run[c].fp /\ run'[c].saw = run[c].saw
          /\ run'[c].read = run[c].read /\ ~run'[c].again
      BY <1>0, <2>3 DEF Run
    <3> QED
      BY <1>0, <2>1, <2>3, <3>1
      DEF RunInv, Sees, Repushes, Makes, Pushes, Stamps, Served, Stamped
  <2> QED BY <1>0, <1>1, <2>2, <2>3 DEF Repush
<1>2. CASE Lookup(c)
  <2>1. pc[c] = "lookup" /\ UNCHANGED <<tree, reverted, out, pinned, ids, stamp, reg, lost>>
    BY <1>2 DEF Lookup, clone, history
  <2>2. ~run[c].again /\ tree \in run[c].saw
    BY <1>0, <2>1 DEF RunInv, Repushes, Sees
  <2>3. CASE pc'[c] = "print" /\ run'[c] = NoRun
    BY <2>1, <2>3, NoRunIsFresh, AnEndKeepsIts
  <2>4. CASE /\ run[c].fp # None /\ Usable(run[c].fp) /\ pc'[c] = "push"
             /\ run'[c] = [run[c] EXCEPT !.src = run[c].fp, !.id = ids[run[c].fp], !.ok = TRUE]
    <3>1. /\ run'[c].fp = run[c].fp /\ run'[c].saw = run[c].saw
          /\ run'[c].read = run[c].read /\ run'[c].again = run[c].again
          /\ run'[c].src = run[c].fp /\ run'[c].id = ids[run[c].fp]
      BY <1>0, <2>4 DEF Run
    <3>2. run[c].fp \in Tree /\ run[c].fp # Out
      BY <1>0, <2>4, TreeAssumption DEF Run
    <3>3. /\ ids[run[c].fp] # {} /\ pinned[run[c].fp] = ids[run[c].fp]
          /\ run[c].fp \notin reverted => ids[run[c].fp] = {run[c].fp}
      BY <2>4, <3>2 DEF Usable, ContentsAreTrue
    <3>4. run[c].fp \in run[c].saw
      BY <1>0, <2>4 DEF RunInv, Sees
    <3>5. Pushes(c)'
      BY <2>1, <2>4, <3>1, <3>2, <3>3, <3>4 DEF Pushes, ImageOf
    <3>6. Sees(c)' /\ Repushes(c)' /\ Makes(c)' /\ Stamps(c)' /\ Served(c)' /\ Stamped(c)'
      BY <1>0, <2>1, <2>2, <2>4, <3>1
      DEF RunInv, Sees, Repushes, Makes, Stamps, Served, Stamped
    <3> QED BY <3>5, <3>6 DEF RunInv
  <2>5. CASE /\ pc'[c] = "make"
             /\ run'[c] = [NoRun EXCEPT !.fp = run[c].fp, !.saw = run[c].saw, !.read = {tree}]
    <3>1. /\ run'[c].fp = run[c].fp /\ run'[c].saw = run[c].saw
          /\ run'[c].read = {tree} /\ ~run'[c].again
      BY <2>5 DEF NoRun
    <3> QED
      BY <1>0, <2>1, <2>2, <2>5, <3>1
      DEF RunInv, Sees, Repushes, Makes, Pushes, Stamps, Served, Stamped
  <2> QED BY <1>0, <1>2, <2>3, <2>4, <2>5 DEF Lookup, Leave
<1> QED BY <1>1, <1>2
(* make: what it left under the output tag is of trees it read. *)
LEMMA MakeKeeps ==
  ASSUME IInv, NEW c \in Cluster, MakeEnds(c) \/ MakeFails(c) \/ PushUnpinned(c)
  PROVE  RunInv(c)'
<1> USE DEF IInv, At, Goto, Settle
<1>0. RunInv(c) /\ run[c] \in Run /\ pc \in [Cluster -> PC] /\ run \in [Cluster -> Run]
  BY DEF TypeOK
<1>1. CASE MakeEnds(c)
  <2>1. /\ pc[c] = "make" /\ pc'[c] = "pin" /\ UNCHANGED <<tree, reverted, stamp>>
        /\ run[c].fp = None \/ out' \subseteq run[c].read
    BY <1>0, <1>1 DEF MakeEnds, clone
  <2>2. /\ run'[c].fp = run[c].fp /\ run'[c].saw = run[c].saw
        /\ run'[c].read = {} /\ run'[c].again = run[c].again
    <3>1. run'[c] = [run[c] EXCEPT !.read = {}]
      BY <1>0, <1>1 DEF MakeEnds
    <3> QED BY <1>0, <3>1 DEF Run
  <2> QED
    BY <1>0, <2>1, <2>2 DEF RunInv, Sees, Repushes, Makes, Pushes, Stamps, Served, Stamped
<1>2. CASE MakeFails(c)
  <2>1. pc'[c] = "idle" /\ run'[c] = NoRun /\ UNCHANGED <<reverted, stamp>>
    BY <1>0, <1>2 DEF MakeFails, End, Leave, clone
  <2> QED BY <2>1, NoRunIsFresh, AnEndKeepsIts
<1>3. CASE PushUnpinned(c)
  <2>1. pc[c] = "pin" /\ pc'[c] = "push" /\ UNCHANGED <<tree, reverted, stamp, out>>
    BY <1>0, <1>3 DEF PushUnpinned, PushOut, clone
  <2>2. /\ run'[c].fp = run[c].fp /\ run'[c].saw = run[c].saw
        /\ run'[c].read = run[c].read /\ run'[c].again = run[c].again
        /\ run'[c].src = Out /\ ~run'[c].ok
    <3>1. run'[c] = [run[c] EXCEPT !.src = Out, !.id = {}, !.ok = FALSE]
      BY <1>0, <1>3 DEF PushUnpinned, PushOut
    <3> QED BY <1>0, <3>1 DEF Run
  <2>3. Pushes(c)'
    BY <1>0, <2>1, <2>2 DEF RunInv, Makes, Pushes, ImageOf
  <2>4. Sees(c)' /\ Repushes(c)' /\ Makes(c)' /\ Stamps(c)' /\ Served(c)' /\ Stamped(c)'
    BY <1>0, <2>1, <2>2 DEF RunInv, Sees, Repushes, Makes, Stamps, Served, Stamped
  <2> QED BY <2>3, <2>4 DEF RunInv
<1> QED BY <1>1, <1>2, <1>3

(* A pin is of the tree of the fingerprint, whether or not it gets a record. *)
LEMMA PinKeeps ==
  ASSUME IInv, NEW c \in Cluster, Pin(c) \/ PinFails(c)
  PROVE  RunInv(c)' /\ ContentsAreTrue'
<1> USE DEF IInv, At, Goto, Settle
<1>0. RunInv(c) /\ run[c] \in Run /\ pc \in [Cluster -> PC] /\ run \in [Cluster -> Run]
  BY DEF TypeOK
<1> DEFINE t == run[c].fp
<1>1. /\ pc[c] = "pin" /\ pc'[c] = "push" /\ UNCHANGED <<tree, reverted, stamp, out>> /\ Steady(c)
  BY <1>0 DEF Pin, PinFails, PushOut, clone
<1>2. /\ t \in Tree /\ t # None /\ t # Out
      /\ t \notin reverted => out \in {{}, {t}}
  BY <1>1, BuiltOfItsTree, TreeAssumption
<1>3. ~run[c].again /\ t \in run[c].saw
  BY <1>0, <1>1, <1>2 DEF RunInv, Repushes, Sees
<1>4. ASSUME run'[c].fp = t, run'[c].saw = run[c].saw, run'[c].read = run[c].read,
             run'[c].again = run[c].again
      PROVE  Sees(c)' /\ Repushes(c)' /\ Makes(c)' /\ Stamps(c)' /\ Served(c)' /\ Stamped(c)'
  BY <1>0, <1>1, <1>3, <1>4 DEF RunInv, Sees, Repushes, Makes, Stamps, Served, Stamped
<1>5. CASE /\ run'[c] = [run[c] EXCEPT !.src = Out, !.id = {}, !.ok = TRUE]
           /\ UNCHANGED <<pinned, ids>>
  <2>1. /\ run'[c].fp = t /\ run'[c].saw = run[c].saw /\ run'[c].read = run[c].read
        /\ run'[c].again = run[c].again /\ run'[c].src = Out /\ run'[c].id = {}
    BY <1>0, <1>5 DEF Run
  <2>2. Pushes(c)'
    BY <1>1, <1>2, <1>3, <2>1 DEF Pushes, ImageOf
  <2> QED BY <1>1, <1>4, <1>5, <2>1, <2>2 DEF RunInv, ContentsAreTrue
<1>6. CASE /\ run'[c] = [run[c] EXCEPT !.src = t, !.id = out, !.ok = TRUE]
           /\ out # {} /\ pinned'[t] = out
           /\ \A u \in Tree : pinned'[u] \in {{}, pinned[u]} \/ u = t
           /\ \A u \in Tree : ids'[u] \in {{}, ids[u]} \/ (u = t /\ ids'[u] = out)
  <2>1. /\ run'[c].fp = t /\ run'[c].saw = run[c].saw /\ run'[c].read = run[c].read
        /\ run'[c].again = run[c].again /\ run'[c].src = t /\ run'[c].id = out
    BY <1>0, <1>6 DEF Run
  <2>2. Pushes(c)'
    BY <1>1, <1>2, <1>3, <1>6, <2>1 DEF Pushes, ImageOf
  <2>3. ContentsAreTrue'
    BY <1>1, <1>2, <1>6 DEF ContentsAreTrue
  <2> QED BY <1>4, <2>1, <2>2, <2>3 DEF RunInv
<1>7. CASE Pin(c)
  <2> DEFINE ranks == Touched(t)
  <2>1. Stays(ranks, t)
    BY <1>2, TouchedRanks, KeepAssumption DEF Stays
  <2>2. /\ run'[c] = [run[c] EXCEPT !.src = t, !.id = out, !.ok = TRUE] /\ out # {}
        /\ pinned' = [u \in Tree |-> IF ~Stays(ranks, u) THEN {}
                                     ELSE IF u = t THEN out ELSE pinned[u]]
        /\ ids' = [u \in Tree |-> IF ~Stays(ranks, u) THEN {}
                                  ELSE IF u = t THEN out ELSE ids[u]]
    BY <1>0, <1>7 DEF Pin
  <2> HIDE DEF ranks
  <2> QED BY <1>2, <1>6, <2>1, <2>2
<1>8. CASE PinFails(c)
  <2>1. CASE PushOut(c, TRUE) /\ UNCHANGED cache
    BY <1>0, <1>5, <2>1 DEF PushOut, cache
  <2>2. CASE /\ out # {} /\ pinned' = [pinned EXCEPT ![t] = out] /\ UNCHANGED ids
             /\ Settle(c, [run[c] EXCEPT !.src = t, !.id = out, !.ok = TRUE])
    BY <1>0, <1>2, <1>6, <2>2 DEF TypeOK
  <2> QED BY <1>8, <2>1, <2>2 DEF PinFails
<1> QED BY <1>7, <1>8

(* What is stamped is what was pushed, and that is of the fingerprint. *)
LEMMA PublishKeeps ==
  ASSUME IInv, NEW c \in Cluster, Publish(c)
  PROVE  RunInv(c)'
<1> USE DEF IInv, At, Goto, Settle
<1>0. /\ RunInv(c) /\ run[c] \in Run /\ pc \in [Cluster -> PC] /\ run \in [Cluster -> Run]
      /\ reg \in [Cluster -> Image] /\ stamp \in [Cluster -> Stamp \cup {None}]
  BY DEF TypeOK
<1>1. CASE Push(c)
  <2>1. /\ pc[c] = "push" /\ pc'[c] = "stamp" /\ UNCHANGED <<tree, reverted, stamp, out, run>>
        /\ reg'[c] = ImageOf(run[c].src) /\ reg'[c] # {}
    BY <1>0, <1>1 DEF Push, clone
  <2>2. Stamps(c)'
    BY <1>0, <2>1 DEF RunInv, Pushes, Stamps, ImageOf
  <2>3. Sees(c)' /\ Repushes(c)' /\ Makes(c)' /\ Pushes(c)' /\ Served(c)' /\ Stamped(c)'
    BY <1>0, <2>1 DEF RunInv, Sees, Repushes, Makes, Pushes, Served, Stamped
  <2> QED BY <2>2, <2>3 DEF RunInv
<1>2. CASE PushFails(c)
  <2>1. pc[c] = "push" /\ UNCHANGED <<tree, reverted, stamp>>
    BY <1>2 DEF PushFails, clone
  <2>2. CASE pc'[c] = "lookup" /\ run'[c] = [run[c] EXCEPT !.again = FALSE]
    <3>1. /\ run'[c].fp = run[c].fp /\ run'[c].saw = run[c].saw
          /\ run'[c].read = run[c].read /\ ~run'[c].again
      BY <1>0, <2>2 DEF Run
    <3> QED
      BY <1>0, <2>1, <2>2, <3>1
      DEF RunInv, Sees, Repushes, Makes, Pushes, Stamps, Served, Stamped
  <2>3. CASE pc'[c] = "idle" /\ run'[c] = NoRun
    BY <2>1, <2>3, NoRunIsFresh, AnEndKeepsIts
  <2> QED BY <1>0, <1>2, <2>2, <2>3 DEF PushFails, End, Leave
<1>3. CASE WriteStamp(c)
  <2>1. pc[c] = "stamp" /\ pc'[c] = "done" /\ UNCHANGED <<tree, reverted, reg, out>>
    BY <1>0, <1>3 DEF WriteStamp, clone, Leave
  <2>2. /\ run'[c].fp = run[c].fp /\ run'[c].saw = run[c].saw
        /\ run'[c].read = {} /\ ~run'[c].again
    <3>1. run'[c] = [NoRun EXCEPT !.fp = run[c].fp, !.saw = run[c].saw]
      BY <1>0, <1>3 DEF WriteStamp
    <3> QED BY <3>1 DEF NoRun
  <2>3. Stamped(c)'
    <3>1. CASE stamp' = stamp
      BY <1>0, <2>1, <3>1 DEF RunInv, Stamped
    <3>2. CASE stamp' # stamp
      <4> DEFINE id == IF run[c].id # {} THEN run[c].id ELSE out
      <4>1. run[c].ok /\ id # {}
            /\ stamp'[c] = [tree |-> run[c].fp, src |-> run[c].src, id |-> id, digest |-> reg[c]]
        BY <1>0, <1>3, <3>2 DEF WriteStamp
      <4>2. run[c].fp \notin reverted => reg[c] = {run[c].fp} /\ id = {run[c].fp}
        BY <1>0, <2>1, <4>1 DEF RunInv, Stamps
      <4> HIDE DEF id
      <4> QED BY <2>1, <4>1, <4>2 DEF Stamped
    <3> QED BY <3>1, <3>2
  <2>4. Served(c)'
    BY <1>0, <2>1, <2>2 DEF RunInv, Stamps, Served
  <2>5. Sees(c)' /\ Repushes(c)' /\ Makes(c)' /\ Pushes(c)' /\ Stamps(c)'
    BY <1>0, <2>1, <2>2 DEF RunInv, Sees, Repushes, Makes, Pushes, Stamps
  <2> QED BY <2>3, <2>4, <2>5 DEF RunInv
<1>4. CASE Finish(c)
  <2>1. pc'[c] = "idle" /\ run'[c] = NoRun /\ UNCHANGED <<reverted, stamp>>
    BY <1>0, <1>4 DEF Finish, End, Leave, clone
  <2> QED BY <2>1, NoRunIsFresh, AnEndKeepsIts
<1> QED BY <1>1, <1>2, <1>3, <1>4 DEF Publish
(* build push and down leave the stamp of what it is, or none. *)
LEMMA IdleKeeps ==
  ASSUME IInv, NEW c \in Cluster, BuildPush(c) \/ Down(c) \/ Crash(c)
  PROVE  RunInv(c)'
<1> USE DEF IInv, At, Goto, Settle
<1>0. RunInv(c) /\ pc \in [Cluster -> PC] /\ run \in [Cluster -> Run]
      /\ stamp \in [Cluster -> Stamp \cup {None}]
  BY DEF TypeOK
<1>1. CASE BuildPush(c) \/ Down(c)
  <2>1. pc[c] = "idle" /\ UNCHANGED <<tree, reverted, pc, run>> /\ stamp'[c] \in {stamp[c], None}
    BY <1>0, <1>1 DEF BuildPush, Down, clone
  <2>2. ~run[c].again
    BY <1>0, <2>1 DEF RunInv, Repushes
  <2> QED
    BY <1>0, <2>1, <2>2 DEF RunInv, Sees, Repushes, Makes, Pushes, Stamps, Served, Stamped
<1>2. CASE Crash(c)
  <2>1. pc'[c] = "idle" /\ run'[c] = NoRun /\ UNCHANGED <<reverted, stamp>>
    BY <1>0, <1>2 DEF Crash, End, Leave, clone
  <2> QED BY <2>1, NoRunIsFresh, AnEndKeepsIts
<1> QED BY <1>1, <1>2

-----------------------------------------------------------------------------
(* The parts of IInv over every step. *)

(* An edit takes the tree away from what a run makes of, or back to it, and then
   that tree is excepted from now on. *)
LEMMA EditKeeps ==
  ASSUME IInv, NEW t \in Tree, Edit(t)
  PROVE  ContentsAreTrue' /\ LockIsHeld' /\ \A c \in Cluster : RunInv(c)'
<1>1. /\ UNCHANGED <<out, pinned, ids, lock, reg, stamp, pc, lost>> /\ tree' = t
      /\ reverted \subseteq reverted'
      /\ \A c \in Cluster : MakesOf(c, t) => t \in reverted'
  BY DEF Edit, cache, history
<1>2. ContentsAreTrue' /\ LockIsHeld'
  BY <1>1 DEF IInv, ContentsAreTrue, LockIsHeld
<1>3. ASSUME NEW c \in Cluster
      PROVE  RunInv(c)'
  <2>1. RunInv(c) /\ run[c] \in Run
    BY DEF IInv, TypeOK, Edit
  <2>2. /\ run'[c].fp = run[c].fp /\ run'[c].again = run[c].again
        /\ run'[c].src = run[c].src /\ run'[c].id = run[c].id /\ run'[c].ok = run[c].ok
        /\ run'[c].saw = IF run[c].saw = {} THEN {} ELSE run[c].saw \cup {t}
        /\ run'[c].read = IF pc[c] = "make" THEN run[c].read \cup {t} ELSE run[c].read
    BY <2>1 DEF Edit, At, Run
  <2>3. run[c].saw \subseteq run'[c].saw
    BY <2>2
  <2>4. Sees(c)'
    BY <1>1, <2>1, <2>2 DEF RunInv, Sees, MakesOf
  <2>5. Repushes(c)' /\ Stamped(c)'
    BY <1>1, <2>1, <2>2 DEF RunInv, Repushes, Stamped
  <2>6. Makes(c)' /\ Served(c)'
    BY <1>1, <2>1, <2>2, <2>3 DEF RunInv, Makes, Served, MakesOf
  <2>7. Pushes(c)'
    BY <1>1, <2>1, <2>2, <2>3 DEF RunInv, Pushes, ImageOf
  <2>8. Stamps(c)'
    BY <1>1, <2>1, <2>2, <2>3 DEF RunInv, Stamps
  <2> QED BY <2>4, <2>5, <2>6, <2>7, <2>8 DEF RunInv
<1> QED BY <1>2, <1>3

(* What someone untags is lost, and no other content comes of it. *)
LEMMA UntagKeeps ==
  ASSUME IInv, Untag
  PROVE  ContentsAreTrue' /\ LockIsHeld' /\ \A c \in Cluster : RunInv(c)'
<1>1. /\ UNCHANGED <<tree, reverted, ids, lock, reg, stamp, pc, run>>
      /\ out' \in {out, {}}
      /\ \A u \in Tree : pinned'[u] = pinned[u] \/ (pinned'[u] = {} /\ u \in lost')
      /\ lost \subseteq lost'
  BY DEF Untag, clone, IInv, TypeOK
<1>2. ContentsAreTrue' /\ LockIsHeld'
  BY <1>1 DEF IInv, ContentsAreTrue, LockIsHeld
<1>3. ASSUME NEW c \in Cluster
      PROVE  RunInv(c)'
  <2>1. RunInv(c) /\ run[c].src \in Tree \cup {Out}
    BY DEF IInv, TypeOK, Run
  <2>2. Sees(c)' /\ Repushes(c)' /\ Makes(c)' /\ Served(c)' /\ Stamped(c)'
    BY <1>1, <2>1 DEF RunInv, Sees, Repushes, Makes, Served, Stamped
  <2>3. Pushes(c)'
    BY <1>1, <2>1 DEF RunInv, Pushes, ImageOf
  <2>4. Stamps(c)'
    BY <1>1, <2>1 DEF RunInv, Stamps
  <2> QED BY <2>2, <2>3, <2>4 DEF RunInv
<1> QED BY <1>2, <1>3

(* The lock is with the run that is inside. *)
LEMMA LockIsKept ==
  ASSUME TypeOK, LockIsHeld, NEW c \in Cluster, StepOf(c)
  PROVE  LockIsHeld'
<1>1. pc \in [Cluster -> PC] /\ LockIsHeld
  BY DEF TypeOK
<1>2. pc'[c] \in Inside <=> lock' = c
  BY <1>1, NobodyAssumption
  DEF StepOf, Gate, Make, Publish, Start, Fingerprint, Check, LockCache, LockTimesOut, Repush,
      Lookup, MakeEnds, MakeFails, Pin, PushUnpinned, PinFails, PushOut, Push, PushFails,
      WriteStamp, Finish, BuildPush, Down, Crash, End, Leave, Goto, At, Settle, Inside,
      LockIsHeld
<1>3. ASSUME NEW d \in Cluster, d # c
      PROVE  pc'[d] \in Inside <=> lock' = d
  <2>1. pc'[d] = pc[d] /\ (lock = d <=> lock' = d)
    BY <1>3, OthersKeepTheirs
  <2> QED BY <1>1, <2>1 DEF LockIsHeld
<1> QED BY <1>2, <1>3 DEF LockIsHeld
(* Pins and records change where a build is pinned, and nowhere else. *)
LEMMA ContentsAreKept ==
  ASSUME IInv, NEW c \in Cluster, StepOf(c)
  PROVE  ContentsAreTrue'
<1>1. CASE Pin(c) \/ PinFails(c)
  BY <1>1, PinKeeps
<1>2. CASE ~(Pin(c) \/ PinFails(c))
  <2>1. UNCHANGED <<pinned, ids, reverted>>
    BY <1>2
    DEF StepOf, Gate, Make, Publish, Start, Fingerprint, Check, LockCache, LockTimesOut, Repush,
        Lookup, MakeEnds, MakeFails, PushUnpinned, Push, PushFails, WriteStamp, Finish,
        BuildPush, Down, Crash, cache, clone
  <2> QED BY <2>1 DEF IInv, ContentsAreTrue
<1> QED BY <1>1, <1>2

(* A step on c keeps what the run of c and the others have. *)
LEMMA RunsAreKept ==
  ASSUME IInv, NEW c \in Cluster, StepOf(c)
  PROVE  \A d \in Cluster : RunInv(d)'
<1>1. RunInv(c)'
  BY GateKeeps, LookupKeeps, MakeKeeps, PinKeeps, PublishKeeps, IdleKeeps
  DEF StepOf, Gate, Make
<1> QED BY <1>1, OthersKeep

-----------------------------------------------------------------------------
(* Types. *)

(* Those of the steps up to the lookup. *)
LEMMA GateTypes ==
  ASSUME TypeOK, NEW c \in Cluster, Repushes(c), Gate(c)
  PROVE  TypeOK'
<1> USE NoRunIsFresh DEF At, Goto, Settle, Fault, clone, cache, history
<1>0. run[c] \in Run
  BY DEF TypeOK
<1>1. CASE Start(c)
  <2>1. run' \in [Cluster -> Run]
    <3>1. PICK u, f \in BOOLEAN : run' = [run EXCEPT ![c] = [NoRun EXCEPT !.up = u, !.force = f]]
      BY <1>1 DEF Start
    <3>2. [NoRun EXCEPT !.up = u, !.force = f] \in Run
      BY DEF Run
    <3> QED BY <3>1, <3>2 DEF TypeOK
  <2> QED BY <1>1, <2>1 DEF Start, TypeOK, PC
<1>2. CASE Fingerprint(c)
  <2>1. run' \in [Cluster -> Run]
    <3>1. PICK f \in {tree, None} :
            run' = [run EXCEPT ![c] = [run[c] EXCEPT !.fp = f, !.saw = {tree}]]
      BY <1>2 DEF Fingerprint
    <3>2. [run[c] EXCEPT !.fp = f, !.saw = {tree}] \in Run
      BY <1>0 DEF Run, TypeOK
    <3> QED BY <3>1, <3>2 DEF TypeOK
  <2>2. faults' \in 0 .. MaxFaults
    BY <1>2, FaultsAssumption DEF Fingerprint, TypeOK
  <2> QED BY <1>2, <2>1, <2>2 DEF Fingerprint, TypeOK, PC
<1>3. CASE Check(c)
  <2>1. run' \in [Cluster -> Run]
    <3>1. [run[c] EXCEPT !.again = TRUE] \in Run
      BY <1>0 DEF Run
    <3> QED BY <1>3, <3>1 DEF Check, TypeOK
  <2> QED BY <1>3, <2>1 DEF Check, TypeOK, PC
<1>4. CASE LockCache(c)
  BY <1>4 DEF LockCache, TypeOK, PC
<1>5. CASE LockTimesOut(c)
  <2>1. faults' \in 0 .. MaxFaults
    BY <1>5, FaultsAssumption DEF LockTimesOut, TypeOK
  <2> QED BY <1>5, <2>1 DEF LockTimesOut, End, Leave, TypeOK, PC
<1>6. CASE Repush(c)
  <2>1. run' \in [Cluster -> Run]
    <3>1. CASE Settle(c, [run[c] EXCEPT !.again = FALSE])
      <4>1. [run[c] EXCEPT !.again = FALSE] \in Run
        BY <1>0 DEF Run
      <4> QED BY <3>1, <4>1 DEF TypeOK
    <3>2. CASE /\ stamp[c] # None
               /\ Settle(c, [run[c] EXCEPT !.src = stamp[c].src, !.id = stamp[c].id, !.ok = TRUE])
      <4>1. stamp[c].src \in Tree \cup {Out} /\ stamp[c].id \in Image
        BY <3>2 DEF TypeOK, Stamp
      <4>2. [run[c] EXCEPT !.src = stamp[c].src, !.id = stamp[c].id, !.ok = TRUE] \in Run
        BY <1>0, <4>1 DEF Run
      <4> QED BY <3>2, <4>2 DEF TypeOK
    <3>3. pc[c] = "repush" => stamp[c] # None
      BY DEF Repushes
    <3> QED BY <1>6, <3>1, <3>2, <3>3 DEF Repush
  <2> QED BY <1>6, <2>1 DEF Repush, TypeOK, PC
<1>7. CASE Lookup(c)
  <2>1. rank' \in [Tree -> 0 .. Keep]
    <3>1. CASE run[c].fp # None /\ Usable(run[c].fp)
      <4>1. run[c].fp \in Tree /\ rank[run[c].fp] # 0
        BY <1>0, <3>1 DEF Run, Usable
      <4> QED BY <1>7, <4>1, TouchedRanks DEF Lookup, TypeOK
    <3>2. CASE ~(run[c].fp # None /\ Usable(run[c].fp))
      BY <1>7, <3>2 DEF Lookup, TypeOK
    <3> QED BY <3>1, <3>2
  <2>2. run' \in [Cluster -> Run]
    <3>1. CASE Settle(c, NoRun)
      BY <3>1 DEF TypeOK
    <3>2. CASE /\ run[c].fp # None
               /\ Settle(c, [run[c] EXCEPT !.src = run[c].fp, !.id = ids[run[c].fp], !.ok = TRUE])
      <4>1. run[c].fp \in Tree /\ ids[run[c].fp] \in Image
        BY <1>0, <3>2 DEF Run, TypeOK
      <4>2. [run[c] EXCEPT !.src = run[c].fp, !.id = ids[run[c].fp], !.ok = TRUE] \in Run
        BY <1>0, <4>1 DEF Run
      <4> QED BY <3>2, <4>2 DEF TypeOK
    <3>3. CASE Settle(c, [NoRun EXCEPT !.fp = run[c].fp, !.saw = run[c].saw, !.read = {tree}])
      <4>1. [NoRun EXCEPT !.fp = run[c].fp, !.saw = run[c].saw, !.read = {tree}] \in Run
        BY <1>0 DEF Run, TypeOK
      <4> QED BY <3>3, <4>1 DEF TypeOK
    <3> QED BY <1>7, <3>1, <3>2, <3>3 DEF Lookup
  <2>3. lock' \in Cluster \cup {Nobody} /\ pc' \in [Cluster -> PC]
    BY <1>7 DEF Lookup, Leave, TypeOK, PC
  <2> QED BY <1>7, <2>1, <2>2, <2>3 DEF Lookup, TypeOK
<1> QED BY <1>1, <1>2, <1>3, <1>4, <1>5, <1>6, <1>7 DEF Gate

(* Those of make and the pin. *)
LEMMA MakeTypes ==
  ASSUME TypeOK, NEW c \in Cluster, Make(c)
  PROVE  TypeOK'
<1> USE NoRunIsFresh DEF At, Goto, Settle, Fault, clone, cache, history
<1>0. run[c] \in Run
  BY DEF TypeOK
<1>1. CASE MakeEnds(c)
  <2>1. [run[c] EXCEPT !.read = {}] \in Run /\ run[c].read \in SUBSET Tree
    BY <1>0 DEF Run
  <2>2. out' \in Image
    BY <1>1, <2>1 DEF MakeEnds, TypeOK, Image
  <2> QED BY <1>1, <2>1, <2>2 DEF MakeEnds, TypeOK, PC
<1>2. CASE MakeFails(c)
  <2>1. run[c].read \in SUBSET Tree
    BY <1>0 DEF Run
  <2>2. out' \in Image /\ faults' \in 0 .. MaxFaults
    BY <1>2, <2>1, FaultsAssumption DEF MakeFails, TypeOK, Image
  <2> QED BY <1>2, <2>2 DEF MakeFails, End, Leave, TypeOK, PC
<1>3. ASSUME NEW b \in BOOLEAN, PushOut(c, b)
      PROVE  run' \in [Cluster -> Run] /\ pc' \in [Cluster -> PC]
  <2>1. [run[c] EXCEPT !.src = Out, !.id = {}, !.ok = b] \in Run
    BY <1>0 DEF Run, Image
  <2> QED BY <1>3, <2>1 DEF PushOut, TypeOK, PC
<1>4. ASSUME Steady(c),
             Settle(c, [run[c] EXCEPT !.src = run[c].fp, !.id = out, !.ok = TRUE])
      PROVE  run' \in [Cluster -> Run] /\ run[c].fp \in Tree
  <2>1. run[c].fp \in Tree /\ out \in Image
    BY <1>0, <1>4 DEF Steady, Run, TypeOK
  <2>2. [run[c] EXCEPT !.src = run[c].fp, !.id = out, !.ok = TRUE] \in Run
    BY <1>0, <2>1 DEF Run
  <2> QED BY <1>4, <2>1, <2>2 DEF TypeOK
<1>5. CASE Pin(c)
  <2> DEFINE ranks == Touched(run[c].fp)
  <2>1. run' \in [Cluster -> Run] /\ run[c].fp \in Tree
    BY <1>4, <1>5 DEF Pin
  <2>2. \A u \in Tree : ranks[u] \in Nat
    BY <2>1, TouchedRanks
  <2> HIDE DEF ranks
  <2>3. rank' \in [Tree -> 0 .. Keep]
    <3>1. rank' = [u \in Tree |-> IF Stays(ranks, u) THEN ranks[u] ELSE 0]
      BY <1>5 DEF Pin, ranks
    <3> QED BY <2>2, <3>1, KeepAssumption DEF Stays
  <2>4. pinned' \in [Tree -> Image] /\ ids' \in [Tree -> Image]
    BY <1>5 DEF Pin, TypeOK, Image
  <2>5. lost' \in SUBSET Tree /\ pc' \in [Cluster -> PC]
    BY <1>5 DEF Pin, TypeOK, PC
  <2> QED BY <1>5, <2>1, <2>3, <2>4, <2>5 DEF Pin, TypeOK
<1>6. CASE PushUnpinned(c)
  BY <1>3, <1>6 DEF PushUnpinned, TypeOK
<1>7. CASE PinFails(c)
  <2>1. run' \in [Cluster -> Run] /\ pc' \in [Cluster -> PC]
    BY <1>3, <1>4, <1>7 DEF PinFails, TypeOK, PC
  <2>2. /\ UNCHANGED <<rank, ids>>
        /\ pinned' = pinned \/ pinned' = [pinned EXCEPT ![run[c].fp] = out]
        /\ lost' = lost \/ lost' = lost \ {run[c].fp}
    BY <1>7 DEF PinFails
  <2>3. pinned' \in [Tree -> Image] /\ lost' \in SUBSET Tree
    BY <2>2 DEF TypeOK
  <2>4. faults' \in 0 .. MaxFaults
    <3>1. faults' = faults \/ (faults < MaxFaults /\ faults' = faults + 1)
      BY <1>7 DEF PinFails
    <3> QED BY <3>1, FaultsAssumption DEF TypeOK
  <2> QED BY <1>7, <2>1, <2>2, <2>3, <2>4 DEF PinFails, TypeOK
<1> QED BY <1>1, <1>2, <1>5, <1>6, <1>7 DEF Make

(* Those of the rest of a run, and of what else is done on a cluster. *)
LEMMA PublishTypes ==
  ASSUME TypeOK, NEW c \in Cluster, Publish(c) \/ BuildPush(c) \/ Down(c) \/ Crash(c)
  PROVE  TypeOK'
<1> USE NoRunIsFresh DEF At, Goto, Settle, Fault, clone, cache, history
<1>0. run[c] \in Run /\ out \in Image /\ ImageOf(run[c].src) \in Image
  BY DEF TypeOK, Run, ImageOf
<1>1. CASE Push(c)
  BY <1>0, <1>1 DEF Push, TypeOK, PC
<1>2. CASE PushFails(c)
  <2>1. run' \in [Cluster -> Run]
    <3>1. [run[c] EXCEPT !.again = FALSE] \in Run
      BY <1>0 DEF Run
    <3> QED BY <1>2, <3>1 DEF PushFails, End, TypeOK
  <2>2. reg' \in [Cluster -> Image] /\ faults' \in 0 .. MaxFaults
    BY <1>0, <1>2, FaultsAssumption DEF PushFails, TypeOK
  <2>3. lock' \in Cluster \cup {Nobody} /\ pc' \in [Cluster -> PC]
    BY <1>2 DEF PushFails, End, Leave, TypeOK, PC
  <2> QED BY <1>2, <2>1, <2>2, <2>3 DEF PushFails, TypeOK
<1>3. CASE WriteStamp(c)
  <2>1. run' \in [Cluster -> Run]
    <3>1. [NoRun EXCEPT !.fp = run[c].fp, !.saw = run[c].saw] \in Run
      BY <1>0 DEF Run
    <3> QED BY <1>3, <3>1 DEF WriteStamp, TypeOK
  <2>2. stamp' \in [Cluster -> Stamp \cup {None}]
    <3> DEFINE id == IF run[c].id # {} THEN run[c].id ELSE out
               new == [tree |-> run[c].fp, src |-> run[c].src, id |-> id, digest |-> reg[c]]
    <3>1. CASE UNCHANGED stamp
      BY <3>1 DEF TypeOK
    <3>2. CASE run[c].fp # None /\ stamp' = [stamp EXCEPT ![c] = new]
      <4>1. new \in Stamp
        BY <1>0, <3>2 DEF Run, Stamp, TypeOK
      <4> HIDE DEF new
      <4> QED BY <3>2, <4>1 DEF TypeOK
    <3> QED BY <1>3, <3>1, <3>2 DEF WriteStamp
  <2>3. faults' \in 0 .. MaxFaults
    BY <1>3, FaultsAssumption DEF WriteStamp, TypeOK
  <2> QED BY <1>3, <2>1, <2>2, <2>3 DEF WriteStamp, Leave, TypeOK, PC
<1>4. CASE Finish(c)
  BY <1>4 DEF Finish, End, Leave, TypeOK, PC
<1>5. CASE BuildPush(c)
  BY <1>5 DEF BuildPush, TypeOK
<1>6. CASE Down(c)
  BY <1>6 DEF Down, TypeOK, Image
<1>7. CASE Crash(c)
  <2>1. faults' \in 0 .. MaxFaults
    BY <1>7, FaultsAssumption DEF Crash, TypeOK
  <2> QED BY <1>7, <2>1 DEF Crash, End, Leave, TypeOK, PC
<1> QED BY <1>1, <1>2, <1>3, <1>4, <1>5, <1>6, <1>7 DEF Publish

(* Those of what happens around the runs. *)
LEMMA EnvironmentTypes ==
  ASSUME TypeOK, (\E t \in Tree : Edit(t)) \/ Untag
  PROVE  TypeOK'
<1> USE DEF At, Fault, clone, cache, history
<1>1. ASSUME NEW t \in Tree, Edit(t)
      PROVE  TypeOK'
  <2>1. ASSUME NEW c \in Cluster
        PROVE  run'[c] \in Run
    <3>1. run[c] \in Run
      BY DEF TypeOK
    <3>2. PICK s, r \in SUBSET Tree : run'[c] = [run[c] EXCEPT !.saw = s, !.read = r]
      BY <1>1, <3>1 DEF Edit, Run
    <3> QED BY <3>1, <3>2 DEF Run
  <2>2. run' \in [Cluster -> Run]
    <3>1. run' = [c \in Cluster |-> run'[c]]
      BY <1>1 DEF Edit
    <3> QED BY <2>1, <3>1
  <2>3. edits' \in 0 .. MaxEdits
    <3>1. edits < MaxEdits /\ edits' = edits + 1
      BY <1>1 DEF Edit
    <3> QED BY <3>1, EditsAssumption DEF TypeOK
  <2>4. reverted' \in SUBSET Tree
    BY <1>1 DEF Edit, TypeOK
  <2> QED BY <1>1, <2>2, <2>3, <2>4 DEF Edit, TypeOK
<1>2. CASE Untag
  <2>1. faults' \in 0 .. MaxFaults
    BY <1>2, FaultsAssumption DEF Untag, TypeOK
  <2>2. out' \in Image /\ pinned' \in [Tree -> Image] /\ lost' \in SUBSET Tree
    BY <1>2 DEF Untag, TypeOK, Image
  <2> QED BY <1>2, <2>1, <2>2 DEF Untag, TypeOK
<1> QED BY <1>1, <1>2

-----------------------------------------------------------------------------
(* It holds at first. *)
LEMMA InitIInv == Init => IInv
<1> SUFFICES ASSUME Init PROVE IInv
  OBVIOUS
<1>1. TypeOK
  BY NoRunIsFresh, TreeAssumption, KeepAssumption, FaultsAssumption, EditsAssumption
  DEF Init, TypeOK, Image, PC
<1>2. ContentsAreTrue /\ LockIsHeld
  BY NobodyAssumption DEF Init, ContentsAreTrue, LockIsHeld, Inside
<1>3. ASSUME NEW c \in Cluster
      PROVE  RunInv(c)
  BY NoRunIsFresh
  DEF Init, RunInv, Sees, Repushes, Makes, Pushes, Stamps, Served, Stamped
<1> QED BY <1>1, <1>2, <1>3 DEF IInv

(* IInv is invariant, whatever is edited and however often it comes back. *)
THEOREM Invariance == Spec => []IInv
<1>1. IInv /\ [Next]_vars => IInv'
  <2> SUFFICES ASSUME IInv, [Next]_vars PROVE IInv'
    OBVIOUS
  <2>1. ASSUME NEW c \in Cluster, StepOf(c)
        PROVE  IInv'
    <3>1. TypeOK'
      BY <2>1, GateTypes, MakeTypes, PublishTypes DEF IInv, RunInv, StepOf
    <3> QED BY <2>1, <3>1, ContentsAreKept, LockIsKept, RunsAreKept DEF IInv
  <2>2. ASSUME NEW t \in Tree, Edit(t)
        PROVE  IInv'
    BY <2>2, EditKeeps, EnvironmentTypes DEF IInv
  <2>3. CASE Untag
    BY <2>3, UntagKeeps, EnvironmentTypes DEF IInv
  <2>4. CASE UNCHANGED vars
    BY <2>4
    DEF vars, clone, cache, history, IInv, TypeOK, ContentsAreTrue, LockIsHeld, RunInv, Sees,
        Repushes, Makes, Pushes, Stamps, Served, Stamped, ImageOf
  <2> QED BY <2>1, <2>2, <2>3, <2>4 DEF Next, StepOf
<1> QED BY InitIInv, <1>1, PTL DEF Spec

(* "A stale record costs a build, never a wrong image". *)
THEOREM RecordsAreTrueHolds == Spec => []RecordsAreTrue
<1>1. IInv => RecordsAreTrue
  BY DEF IInv, ContentsAreTrue, RecordsAreTrue, Usable
<1> QED BY <1>1, Invariance, PTL

(* A stamp's digest and ID are of an image built of the stamped tree alone, though
   clusters build in turn and the tree is edited while they do. *)
THEOREM StampsAreTrueHolds == Spec => []StampsAreTrue
<1>1. IInv => StampsAreTrue
  BY DEF IInv, RunInv, Stamped, StampsAreTrue
<1> QED BY <1>1, Invariance, PTL

(* A run that ends well leaves an image of what the tree was during the run, by
   whichever way it went. *)
THEOREM ServesItsTreeHolds == Spec => []ServesItsTree
<1>1. IInv => ServesItsTree
  BY DEF IInv, RunInv, Served, ServesItsTree, At
<1> QED BY <1>1, Invariance, PTL

-----------------------------------------------------------------------------
(* What the lock sees to by itself, whether or not the tree came back. *)

(* A step leaves the other runs what they publish. *)
LEMMA OthersPublishOne ==
  ASSUME LockInv, NEW c \in Cluster, StepOf(c), NEW d \in Cluster, d # c
  PROVE  Repushes(d)' /\ PublishesOne(d)'
<1>1. TypeOK /\ LockIsHeld /\ Repushes(d) /\ PublishesOne(d)
  BY DEF LockInv
<1>2. /\ pc'[d] = pc[d] /\ run'[d] = run[d] /\ reg'[d] = reg[d] /\ stamp'[d] = stamp[d]
      /\ lock = d => UNCHANGED <<out, pinned, lost>>
  BY <1>1, OthersKeepTheirs
<1>3. pc[d] \in {"push", "stamp"} => UNCHANGED <<out, pinned, lost>>
  BY <1>1, <1>2, InsideHoldsTheLock
<1> QED BY <1>1, <1>2, <1>3 DEF Repushes, PublishesOne, ImageOf

(* A run that is over, or starts over. *)
LEMMA AnEndPublishesNothing ==
  ASSUME LockInv, NEW c \in Cluster, pc'[c] \in {"idle", "print"}, ~run'[c].again,
         stamp'[c] = stamp[c] \/ stamp'[c] = None
  PROVE  Repushes(c)' /\ PublishesOne(c)'
BY DEF LockInv, Repushes, PublishesOne

(* Up to the push: what it is to publish is what it saw under its tag. *)
LEMMA GatePublishesOne ==
  ASSUME LockInv, NEW c \in Cluster, Gate(c)
  PROVE  Repushes(c)' /\ PublishesOne(c)'
<1> USE DEF At, Goto, Settle
<1>0. /\ Repushes(c) /\ PublishesOne(c) /\ run[c] \in Run
      /\ pc \in [Cluster -> PC] /\ run \in [Cluster -> Run]
  BY DEF LockInv, TypeOK
<1>1. CASE Start(c)
  <2>1. pc'[c] = "print" /\ UNCHANGED stamp /\ ~run'[c].again
    BY <1>0, <1>1 DEF Start, NoRun
  <2> QED BY <2>1, AnEndPublishesNothing
<1>2. CASE Fingerprint(c)
  <2>1. pc[c] = "print" /\ pc'[c] = "check" /\ UNCHANGED stamp
    BY <1>0, <1>2 DEF Fingerprint
  <2>2. run'[c].again = run[c].again
    BY <1>0, <1>2 DEF Fingerprint, Run
  <2>3. ~run'[c].again
    BY <1>0, <2>1, <2>2 DEF Repushes
  <2> QED BY <1>0, <2>1, <2>3 DEF Repushes, PublishesOne
<1>3. CASE Check(c)
  <2>1. pc[c] = "check" /\ UNCHANGED <<stamp, reg>> /\ ~run[c].again
    BY <1>0, <1>3 DEF Check, Repushes
  <2>2. CASE pc'[c] = "print" /\ run'[c] = NoRun
    BY <2>1, <2>2, NoRunIsFresh, AnEndPublishesNothing
  <2>3. CASE pc'[c] = "lock" /\ run'[c] = run[c]
    BY <1>0, <2>1, <2>3 DEF Repushes, PublishesOne
  <2>4. CASE Unchanged(c) /\ pc'[c] = "lock" /\ run'[c] = [run[c] EXCEPT !.again = TRUE]
    <3>1. run'[c].fp = run[c].fp
      BY <1>0, <2>4 DEF Run
    <3> QED BY <1>0, <2>1, <2>4, <3>1 DEF Unchanged, Repushes, PublishesOne
  <2>5. CASE Current(c) /\ pc'[c] = "done" /\ run'[c] = run[c]
    BY <1>0, <2>1, <2>5 DEF Current, Repushes, PublishesOne
  <2> QED BY <1>0, <1>3, <2>2, <2>3, <2>4, <2>5 DEF Check
<1>4. CASE LockCache(c)
  <2>1. /\ pc[c] = "lock" /\ UNCHANGED <<stamp, run>>
        /\ pc'[c] = IF run[c].again THEN "repush" ELSE "lookup"
    BY <1>0, <1>4 DEF LockCache
  <2> QED BY <1>0, <2>1 DEF Repushes, PublishesOne
<1>5. CASE LockTimesOut(c)
  <2>1. pc'[c] = "idle" /\ run'[c] = NoRun /\ UNCHANGED stamp
    BY <1>0, <1>5 DEF LockTimesOut, End, Leave
  <2> QED BY <2>1, NoRunIsFresh, AnEndPublishesNothing
<1>6. CASE Repush(c)
  <2>1. pc[c] = "repush" /\ UNCHANGED <<out, pinned, stamp, lost>>
    BY <1>6 DEF Repush, cache, history
  <2>2. CASE /\ ImageOf(stamp[c].src) = stamp[c].id /\ stamp[c].id # {}
             /\ pc'[c] = "push"
             /\ run'[c] = [run[c] EXCEPT !.src = stamp[c].src, !.id = stamp[c].id, !.ok = TRUE]
    <3>1. /\ run'[c].fp = run[c].fp /\ run'[c].again = run[c].again
          /\ run'[c].src = stamp[c].src /\ run'[c].id = stamp[c].id
      BY <1>0, <2>2 DEF Run
    <3> QED BY <1>0, <2>1, <2>2, <3>1 DEF Repushes, PublishesOne, ImageOf
  <2>3. CASE pc'[c] = "lookup" /\ run'[c] = [run[c] EXCEPT !.again = FALSE]
    <3>1. ~run'[c].again
      BY <1>0, <2>3 DEF Run
    <3> QED BY <1>0, <2>1, <2>3, <3>1 DEF Repushes, PublishesOne
  <2> QED BY <1>0, <1>6, <2>2, <2>3 DEF Repush
<1>7. CASE Lookup(c)
  <2>1. pc[c] = "lookup" /\ UNCHANGED <<out, pinned, stamp, lost>> /\ ~run[c].again
    BY <1>0, <1>7 DEF Lookup, history, Repushes
  <2>2. CASE pc'[c] = "print" /\ run'[c] = NoRun
    BY <2>1, <2>2, NoRunIsFresh, AnEndPublishesNothing
  <2>3. CASE /\ run[c].fp # None /\ Usable(run[c].fp) /\ pc'[c] = "push"
             /\ run'[c] = [run[c] EXCEPT !.src = run[c].fp, !.id = ids[run[c].fp], !.ok = TRUE]
    <3>1. /\ run'[c].again = run[c].again
          /\ run'[c].src = run[c].fp /\ run'[c].id = ids[run[c].fp]
      BY <1>0, <2>3 DEF Run
    <3>2. run[c].fp # Out
      BY <1>0, <2>3, TreeAssumption DEF Run
    <3> QED BY <1>0, <2>1, <2>3, <3>1, <3>2 DEF Usable, Repushes, PublishesOne, ImageOf
  <2>4. CASE /\ pc'[c] = "make"
             /\ run'[c] = [NoRun EXCEPT !.fp = run[c].fp, !.saw = run[c].saw, !.read = {tree}]
    <3>1. ~run'[c].again
      BY <2>4 DEF NoRun
    <3> QED BY <1>0, <2>1, <2>4, <3>1 DEF Repushes, PublishesOne
  <2> QED BY <1>0, <1>7, <2>2, <2>3, <2>4 DEF Lookup, Leave
<1> QED BY <1>1, <1>2, <1>3, <1>4, <1>5, <1>6, <1>7 DEF Gate

(* A build is to be published under its pin, which has it, or else under the
   output tag. *)
LEMMA MakePublishesOne ==
  ASSUME LockInv, NEW c \in Cluster, Make(c)
  PROVE  Repushes(c)' /\ PublishesOne(c)'
<1> USE DEF At, Goto, Settle
<1>0. /\ Repushes(c) /\ PublishesOne(c) /\ run[c] \in Run
      /\ pc \in [Cluster -> PC] /\ run \in [Cluster -> Run]
  BY DEF LockInv, TypeOK
<1>1. CASE MakeEnds(c)
  <2>1. pc[c] = "make" /\ pc'[c] = "pin" /\ UNCHANGED stamp /\ ~run[c].again
    BY <1>0, <1>1 DEF MakeEnds, Repushes
  <2>2. run'[c].again = run[c].again
    BY <1>0, <1>1 DEF MakeEnds, Run
  <2> QED BY <1>0, <2>1, <2>2 DEF Repushes, PublishesOne
<1>2. CASE MakeFails(c)
  <2>1. pc'[c] = "idle" /\ run'[c] = NoRun /\ UNCHANGED stamp
    BY <1>0, <1>2 DEF MakeFails, End, Leave
  <2> QED BY <2>1, NoRunIsFresh, AnEndPublishesNothing
<1>3. ASSUME pc[c] = "pin", pc'[c] = "push", UNCHANGED <<out, stamp>>,
             run'[c].again = run[c].again,
             \/ run'[c].src = Out /\ run'[c].id = {}
             \/ /\ run'[c].src # Out /\ run'[c].id # {}
                /\ pinned'[run'[c].src] = run'[c].id
      PROVE  Repushes(c)' /\ PublishesOne(c)'
  <2>1. ~run[c].again
    BY <1>0, <1>3 DEF Repushes
  <2> QED BY <1>0, <1>3, <2>1 DEF Repushes, PublishesOne, ImageOf
<1>4. CASE PushUnpinned(c)
  <2>1. /\ pc[c] = "pin" /\ pc'[c] = "push" /\ UNCHANGED <<out, stamp>>
        /\ run'[c] = [run[c] EXCEPT !.src = Out, !.id = {}, !.ok = FALSE]
    BY <1>0, <1>4 DEF PushUnpinned, PushOut
  <2>2. run'[c].again = run[c].again /\ run'[c].src = Out /\ run'[c].id = {}
    BY <1>0, <2>1 DEF Run
  <2> QED BY <1>3, <2>1, <2>2
<1>5. CASE Pin(c)
  <2>1. run[c].fp \in Tree /\ run[c].fp # Out /\ pinned'[run[c].fp] = out
    <3>1. run[c].fp \in Tree /\ run[c].fp # Out
      BY <1>0, <1>5, TreeAssumption DEF Pin, Steady, Run
    <3>2. Stays(Touched(run[c].fp), run[c].fp)
      BY <3>1, TouchedRanks, KeepAssumption DEF Stays, LockInv
    <3> QED BY <1>5, <3>1, <3>2 DEF Pin
  <2>2. /\ pc[c] = "pin" /\ pc'[c] = "push" /\ UNCHANGED <<out, stamp>> /\ out # {}
        /\ run'[c] = [run[c] EXCEPT !.src = run[c].fp, !.id = out, !.ok = TRUE]
    BY <1>0, <1>5 DEF Pin
  <2>3. run'[c].again = run[c].again /\ run'[c].src = run[c].fp /\ run'[c].id = out
    BY <1>0, <2>2 DEF Run
  <2> QED BY <1>3, <2>1, <2>2, <2>3
<1>6. CASE PinFails(c)
  <2>1. run[c].fp \in Tree /\ run[c].fp # Out
    BY <1>0, <1>6, TreeAssumption DEF PinFails, Steady, Run
  <2>2. pc[c] = "pin" /\ pc'[c] = "push" /\ UNCHANGED <<out, stamp>>
    BY <1>0, <1>6 DEF PinFails, PushOut
  <2>3. \/ run'[c] = [run[c] EXCEPT !.src = Out, !.id = {}, !.ok = TRUE]
        \/ /\ out # {} /\ pinned'[run[c].fp] = out
           /\ run'[c] = [run[c] EXCEPT !.src = run[c].fp, !.id = out, !.ok = TRUE]
    BY <1>0, <1>6, <2>1 DEF PinFails, PushOut, LockInv, TypeOK
  <2>4. /\ run'[c].again = run[c].again
        /\ \/ run'[c].src = Out /\ run'[c].id = {}
           \/ /\ out # {} /\ pinned'[run[c].fp] = out
              /\ run'[c].src = run[c].fp /\ run'[c].id = out
    BY <1>0, <2>3 DEF Run
  <2> QED BY <1>3, <2>1, <2>2, <2>4
<1> QED BY <1>1, <1>2, <1>4, <1>5, <1>6 DEF Make

(* Pushed is what was there, and stamped what was pushed. *)
LEMMA PublishPublishesOne ==
  ASSUME LockInv, NEW c \in Cluster, Publish(c) \/ BuildPush(c) \/ Down(c) \/ Crash(c)
  PROVE  Repushes(c)' /\ PublishesOne(c)'
<1> USE DEF At, Goto, Settle
<1>0. /\ Repushes(c) /\ PublishesOne(c) /\ run[c] \in Run
      /\ pc \in [Cluster -> PC] /\ run \in [Cluster -> Run] /\ reg \in [Cluster -> Image]
      /\ stamp \in [Cluster -> Stamp \cup {None}]
  BY DEF LockInv, TypeOK
<1>1. CASE Push(c)
  <2>1. /\ pc[c] = "push" /\ pc'[c] = "stamp" /\ UNCHANGED <<out, stamp, run>>
        /\ ImageOf(run[c].src) # {} /\ reg'[c] = ImageOf(run[c].src)
    BY <1>0, <1>1 DEF Push
  <2> QED BY <1>0, <2>1 DEF Repushes, PublishesOne, ImageOf
<1>2. CASE PushFails(c)
  <2>1. pc[c] = "push" /\ UNCHANGED stamp
    BY <1>2 DEF PushFails
  <2>2. CASE run[c].again
    <3>1. pc'[c] = "lookup" /\ run'[c] = [run[c] EXCEPT !.again = FALSE]
      BY <1>0, <1>2, <2>2 DEF PushFails
    <3>2. ~run'[c].again
      BY <1>0, <3>1 DEF Run
    <3> QED BY <1>0, <2>1, <3>1, <3>2 DEF Repushes, PublishesOne
  <2>3. CASE ~run[c].again
    <3>1. pc'[c] = "idle" /\ run'[c] = NoRun
      BY <1>0, <1>2, <2>3 DEF PushFails, End, Leave
    <3> QED BY <2>1, <3>1, NoRunIsFresh, AnEndPublishesNothing
  <2> QED BY <2>2, <2>3
<1>3. CASE WriteStamp(c)
  <2>1. /\ pc[c] = "stamp" /\ pc'[c] = "done" /\ UNCHANGED <<out, reg>>
        /\ run'[c] = [NoRun EXCEPT !.fp = run[c].fp, !.saw = run[c].saw]
    BY <1>0, <1>3 DEF WriteStamp, Leave
  <2>2. ~run'[c].again
    BY <2>1 DEF NoRun
  <2> DEFINE id == IF run[c].id # {} THEN run[c].id ELSE out
             new == [tree |-> run[c].fp, src |-> run[c].src, id |-> id, digest |-> reg[c]]
  <2>3. stamp'[c] = stamp[c] \/ (id # {} /\ stamp'[c] = new)
    BY <1>0, <1>3 DEF WriteStamp
  <2>4. id # {} => id = reg[c]
    BY <1>0, <2>1 DEF PublishesOne
  <2>5. new.id = id /\ new.digest = reg[c]
    OBVIOUS
  <2> HIDE DEF new, id
  <2> QED BY <1>0, <2>1, <2>2, <2>3, <2>4, <2>5 DEF Repushes, PublishesOne
<1>4. CASE Finish(c) \/ Crash(c)
  <2>1. pc'[c] = "idle" /\ run'[c] = NoRun /\ UNCHANGED stamp
    BY <1>0, <1>4 DEF Finish, Crash, End, Leave
  <2> QED BY <2>1, NoRunIsFresh, AnEndPublishesNothing
<1>5. CASE BuildPush(c) \/ Down(c)
  <2>1. pc[c] = "idle" /\ UNCHANGED <<pc, run>> /\ (stamp'[c] = stamp[c] \/ stamp'[c] = None)
    BY <1>0, <1>5 DEF BuildPush, Down
  <2>2. ~run'[c].again
    BY <1>0, <2>1 DEF Repushes
  <2> QED BY <1>0, <2>1, <2>2, AnEndPublishesNothing
<1> QED BY <1>1, <1>2, <1>3, <1>4, <1>5 DEF Publish

(* LockInv is invariant, without a condition on the tree. *)
LEMMA LockInvariance == Spec => []LockInv
<1>1. Init => LockInv
  <2> SUFFICES ASSUME Init PROVE LockInv
    OBVIOUS
  <2>1. IInv
    BY InitIInv
  <2>2. ASSUME NEW c \in Cluster
        PROVE  Repushes(c) /\ PublishesOne(c)
    BY NoRunIsFresh DEF Init, Repushes, PublishesOne
  <2> QED BY <2>1, <2>2 DEF IInv, LockInv
<1>2. LockInv /\ [Next]_vars => LockInv'
  <2> SUFFICES ASSUME LockInv, [Next]_vars PROVE LockInv'
    OBVIOUS
  <2>1. TypeOK /\ LockIsHeld /\ \A c \in Cluster : Repushes(c) /\ PublishesOne(c)
    BY DEF LockInv
  <2>2. ASSUME NEW c \in Cluster, StepOf(c)
        PROVE  LockInv'
    <3>1. TypeOK'
      BY <2>1, <2>2, GateTypes, MakeTypes, PublishTypes DEF StepOf
    <3>2. Repushes(c)' /\ PublishesOne(c)'
      BY <2>2, GatePublishesOne, MakePublishesOne, PublishPublishesOne DEF StepOf
    <3>3. LockIsHeld'
      BY <2>1, <2>2, LockIsKept
    <3> QED BY <2>2, <3>1, <3>2, <3>3, OthersPublishOne DEF LockInv
  <2>3. ASSUME NEW t \in Tree, Edit(t)
        PROVE  LockInv'
    <3>1. TypeOK'
      BY <2>1, <2>3, EnvironmentTypes
    <3>2. UNCHANGED <<out, pinned, lock, reg, stamp, pc, lost>>
      BY <2>3 DEF Edit, cache, history
    <3>3. ASSUME NEW c \in Cluster
          PROVE  Repushes(c)' /\ PublishesOne(c)'
      <4>1. /\ run'[c].fp = run[c].fp /\ run'[c].again = run[c].again
            /\ run'[c].src = run[c].src /\ run'[c].id = run[c].id
        BY <2>1, <2>3 DEF Edit, TypeOK, Run
      <4> QED BY <2>1, <3>2, <4>1 DEF Repushes, PublishesOne, ImageOf
    <3> QED BY <2>1, <3>1, <3>2, <3>3 DEF LockInv, LockIsHeld
  <2>4. CASE Untag
    <3>1. TypeOK'
      BY <2>1, <2>4, EnvironmentTypes
    <3>2. /\ UNCHANGED <<lock, reg, stamp, pc, run>>
          /\ out' \in {out, {}}
          /\ \A u \in Tree : pinned'[u] = pinned[u] \/ (pinned'[u] = {} /\ u \in lost')
          /\ lost \subseteq lost'
      BY <2>1, <2>4 DEF Untag, clone, TypeOK
    <3>3. ASSUME NEW c \in Cluster
          PROVE  Repushes(c)' /\ PublishesOne(c)'
      <4>1. run[c].src \in Tree \cup {Out}
        BY <2>1 DEF TypeOK, Run
      <4> QED BY <2>1, <3>2, <4>1 DEF Repushes, PublishesOne, ImageOf
    <3> QED BY <2>1, <3>1, <3>2, <3>3 DEF LockInv, LockIsHeld
  <2>5. CASE UNCHANGED vars
    BY <2>5 DEF vars, clone, cache, history, LockInv, TypeOK, LockIsHeld, Repushes,
                PublishesOne, ImageOf
  <2> QED BY <2>2, <2>3, <2>4, <2>5 DEF Next, StepOf
<1> QED BY <1>1, <1>2, PTL DEF Spec

(* The pin a run is about to publish is neither evicted nor retagged. *)
THEOREM PushedIsThereHolds == Spec => []PushedIsThere
<1>1. LockInv => PushedIsThere
  BY DEF LockInv, PublishesOne, PushedIsThere, At
<1> QED BY <1>1, LockInvariance, PTL

(* What a stamp says of the registry and of the local image is of one image:
   whoever repushes the one restores the other. *)
THEOREM StampsOneImageHolds == Spec => []StampsOneImage
<1>1. LockInv => StampsOneImage
  BY DEF LockInv, PublishesOne, StampsOneImage
<1> QED BY <1>1, LockInvariance, PTL

(* Whichever way a build went, if it succeeds there is something to deploy. *)
THEOREM DoneIsServedHolds == Spec => []DoneIsServed
<1>1. LockInv => DoneIsServed
  BY DEF LockInv, PublishesOne, DoneIsServed, At
<1> QED BY <1>1, LockInvariance, PTL

(* The runs of a clone take turns at make and the build cache: nothing of either
   is touched without the lock, which a run has had since before it looked. *)
THEOREM OnlyTheHolderBuildsHolds == Spec => OnlyTheHolderBuilds
<1>1. LockInv /\ [Next]_vars =>
        [UNCHANGED <<out, cache>> \/ Untag
           \/ \E c \in Cluster : lock = c /\ (Lookup(c) \/ Make(c))]_vars
  <2> SUFFICES ASSUME LockInv, Next
               PROVE  UNCHANGED <<out, cache>> \/ Untag
                        \/ \E c \in Cluster : lock = c /\ (Lookup(c) \/ Make(c))
    OBVIOUS
  <2>1. LockIsHeld
    BY DEF LockInv
  <2>2. ASSUME NEW c \in Cluster, Lookup(c) \/ Make(c)
        PROVE  lock = c
    <3>1. pc[c] \in {"lookup", "make", "pin"}
      BY <2>2 DEF Lookup, Make, MakeEnds, MakeFails, Pin, PushUnpinned, PinFails, At
    <3> QED BY <2>1, <3>1, InsideHoldsTheLock
  <2>3. ASSUME NEW c \in Cluster, StepOf(c), ~Lookup(c), ~Make(c)
        PROVE  UNCHANGED <<out, cache>>
    BY <2>3
    DEF StepOf, Gate, Publish, Start, Fingerprint, Check, LockCache, LockTimesOut, Repush,
        Push, PushFails, WriteStamp, Finish, BuildPush, Down, Crash
  <2>4. ASSUME NEW t \in Tree, Edit(t)
        PROVE  UNCHANGED <<out, cache>>
    BY <2>4 DEF Edit
  <2> QED BY <2>2, <2>3, <2>4 DEF Next, StepOf
<1> QED BY <1>1, LockInvariance, PTL DEF Spec, OnlyTheHolderBuilds
=============================================================================
