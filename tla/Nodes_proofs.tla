---------------------------- MODULE Nodes_proofs ----------------------------
(***************************************************************************)
(* Proofs about Nodes, for any clusters, sizes, names and flags, and any   *)
(* number of faults.  IInv is inductive; that running nodes are on their   *)
(* own disks, and that what is ready is whole, follow from it.             *)
(***************************************************************************)
EXTENDS Nodes, TLAPS

(* The initial state satisfies the inductive invariant. *)
LEMMA InitIInv == Init => IInv
<1> SUFFICES ASSUME Init PROVE IInv OBVIOUS
<1> USE NodesAssumption DEF Init
<1>1. TypeOK  BY DEF TypeOK, PC, NoDisks, Shape, Worker, Node
<1>2. OneNameEach /\ RunningOnItsOwn /\ MadeAlike /\ SeesItsOwn
  BY DEF OneNameEach, RunningOnItsOwn, MadeAlike, SeesItsOwn, Node, Worker
<1>3. DevicesAreLocated /\ KeptFits /\ StartsBare /\ AfterWait /\ Masked /\ LogsOutLast
  BY DEF DevicesAreLocated, KeptFits, StartsBare, AfterWait, Masked,
         LogsOutLast, Equipped, Kept
<1> QED BY <1>1, <1>2, <1>3 DEF IInv

(* The disks of a log-in get names that were free, one each. *)
LEMMA LogInAddsNames ==
  ASSUME TypeOK, OneNameEach, NEW ds \in SUBSET Disk,
         \A d \in ds : \A n \in Name : at[n] # d, LogIn(ds)
  PROVE  /\ at' \in [Name -> Disk \cup {None}]
         /\ OneNameEach'
         /\ \A n \in Name : at[n] # None => at'[n] = at[n]
<1> DEFINE free == {n \in Name : at[n] = None}
<1>1. PICK name \in [ds -> free] :
        /\ \A d, e \in ds : name[d] = name[e] => d = e
        /\ at' = [n \in Name |-> IF \E d \in ds : name[d] = n
                                 THEN CHOOSE d \in ds : name[d] = n ELSE at[n]]
  BY DEF LogIn
<1>2. \A n \in Name :
        \/ at'[n] = at[n] /\ \A d \in ds : name[d] # n
        \/ at'[n] \in ds /\ name[at'[n]] = n /\ at[n] = None
  BY <1>1
<1>3. at' \in [Name -> Disk \cup {None}]
  BY <1>1, <1>2 DEF TypeOK
<1>4. OneNameEach'
  BY <1>2 DEF OneNameEach
<1>5. \A n \in Name : at[n] # None => at'[n] = at[n]
  BY <1>2
<1> QED BY <1>3, <1>4, <1>5

(* A run that ends, in itself, disturbs nothing: what is said of a run's disks
   and steps is said of the runs that have not ended. *)
LEMMA EndKeepsIInv ==
  ASSUME IInv, NEW c \in Cluster, End(c), faults' \in 0..MaxFaults,
         UNCHANGED <<at, nodeVars, record>>
  PROVE  IInv'
<1> USE NodesAssumption DEF IInv, End, Goto, nodeVars
<1>1. TypeOK'  BY DEF TypeOK, PC, NoDisks, Node
<1>2. /\ OneNameEach' /\ RunningOnItsOwn' /\ MadeAlike' /\ SeesItsOwn'
  BY DEF OneNameEach, RunningOnItsOwn, MadeAlike, SeesItsOwn
<1>3. \A x \in Cluster : pc'[x] # "idle" =>
        pc'[x] = pc[x] /\ want'[x] = want[x] /\ dev'[x] = dev[x]
  BY DEF TypeOK
<1>4. pc' \in [Cluster -> PC]  BY <1>1 DEF TypeOK
<1>5. DevicesAreLocated' /\ KeptFits'
  <2>1. DevicesAreLocated'
    BY <1>3, <1>4 DEF DevicesAreLocated, Equipped, Kept
  <2>2. KeptFits'
    BY <1>3, <1>4 DEF KeptFits, Kept
  <2> QED BY <2>1, <2>2
<1>6. StartsBare' /\ AfterWait' /\ Masked' /\ LogsOutLast'
  BY <1>3, <1>4 DEF StartsBare, AfterWait, Masked, LogsOutLast
<1> QED BY <1>1, <1>2, <1>5, <1>6

(* The types of what the end of a run changes. *)
LEMMA EndTypes ==
  ASSUME TypeOK, NEW c \in Cluster, End(c)
  PROVE  /\ pc' \in [Cluster -> PC]
         /\ want' \in [Cluster -> Shape]
         /\ dev' \in [Cluster -> [Node -> Name \cup {None}]]
         /\ \A x \in Cluster : pc'[x] = "idle" => want'[x] = Default /\ dev'[x] = NoDisks
<1>1. NoDisks \in [Node -> Name \cup {None}]
  BY DEF NoDisks
<1> QED BY <1>1, NodesAssumption DEF TypeOK, PC, End, Goto

(* What a fault does to the count of faults. *)
LEMMA FaultsCounted ==
  ASSUME TypeOK, NEW kind, Fault(kind)
  PROVE  faults' \in 0..MaxFaults
BY NodesAssumption DEF TypeOK, Fault

(* The actions that only end the run. *)
LEMMA OnlyEnds ==
  ASSUME IInv, NEW c \in Cluster,
         \/ NotFound(c) \/ RefuseUnfit(c) \/ RefuseBlind(c) \/ WaitFails(c)
         \/ MakeFails(c) \/ Finish(c) \/ Crash(c)
  PROVE  IInv'
<1>1. faults \in 0..MaxFaults /\ TypeOK  BY DEF IInv, TypeOK
<1>2. CASE NotFound(c) \/ Finish(c)
  BY <1>1, <1>2, EndKeepsIInv DEF NotFound, Finish
<1>3. CASE RefuseUnfit(c) \/ RefuseBlind(c)
  <2>1. Decide(c, "refuse")  BY <1>3 DEF RefuseUnfit, RefuseBlind
  <2> QED BY <1>1, <2>1, EndKeepsIInv DEF Decide
<1>4. CASE WaitFails(c) \/ MakeFails(c) \/ Crash(c)
  <2>1. faults' \in 0..MaxFaults
    BY <1>1, <1>4, FaultsCounted DEF WaitFails, MakeFails, Crash
  <2> QED BY <1>4, <2>1, EndKeepsIInv DEF WaitFails, MakeFails, Crash
<1> QED BY <1>2, <1>3, <1>4

(* A run that goes on to make the cluster, or to discard it first, still has
   the disks it located. *)
LEMMA DecideKeepsIInv ==
  ASSUME IInv, NEW c \in Cluster, New(c) \/ Rebuild(c)
  PROVE  IInv'
<1>1. PICK s \in {"make", "discard"} : Decide(c, s)  BY DEF New, Rebuild
<1>2. /\ pc[c] = "inspect" /\ pc' = [pc EXCEPT ![c] = s]
      /\ UNCHANGED <<at, nodeVars, record, run, faults>>
  BY <1>1 DEF Decide, At, Goto
<1> USE <1>2 DEF IInv, nodeVars, run
<1>3. TypeOK'  BY DEF TypeOK, PC
<1>4. /\ OneNameEach' /\ RunningOnItsOwn' /\ MadeAlike' /\ SeesItsOwn'
  BY DEF OneNameEach, RunningOnItsOwn, MadeAlike, SeesItsOwn
<1>5. DevicesAreLocated' /\ KeptFits'
  BY DEF TypeOK, DevicesAreLocated, KeptFits, Equipped, Kept
<1>6. StartsBare' /\ AfterWait' /\ Masked' /\ LogsOutLast'
  BY DEF TypeOK, StartsBare, AfterWait, Masked, LogsOutLast
<1> QED BY <1>3, <1>4, <1>5, <1>6

(* The beginning of a run, which has no disks yet. *)
LEMMA BeginKeepsIInv ==
  ASSUME IInv, NEW c \in Cluster, NEW f \in Flag, Begin(c, f)
  PROVE  IInv'
<1> USE NodesAssumption DEF IInv, nodeVars
<1>1. /\ pc[c] = "idle"
      /\ \E s \in {"down", "purge", "setup", "locate"} : pc' = [pc EXCEPT ![c] = s]
      /\ UNCHANGED <<at, nodeVars, record, dev, faults>>
      /\ \E shape \in Shape : want' = [want EXCEPT ![c] = shape]
  <2>1. record[c] \in Shape \cup {None}
    BY DEF TypeOK
  <2>2. Settled(f, record[c]) \in Shape
    BY <2>1 DEF Settled, Shape, Flag
  <2>3. f.cmd \in {"up", "create", "down", "purge"}
    BY DEF Flag
  <2>4. /\ want' = [want EXCEPT ![c] = Settled(f, record[c])]
        /\ pc' = [pc EXCEPT ![c] = IF f.cmd \in {"down", "purge"} THEN f.cmd
             ELSE IF f.cmd = "up" /\ Settled(f, record[c]).disks = 1
                  THEN "setup" ELSE "locate"]
    BY DEF Begin, Goto
  <2> HIDE DEF IInv
  <2>5. \E s \in {"down", "purge", "setup", "locate"} : pc' = [pc EXCEPT ![c] = s]
    BY <2>3, <2>4
  <2> QED BY <2>2, <2>4, <2>5 DEF Begin, At
<1>2. TypeOK'  BY <1>1 DEF TypeOK, PC, NoDisks
<1>3. /\ OneNameEach' /\ RunningOnItsOwn' /\ MadeAlike' /\ SeesItsOwn'
  BY <1>1 DEF OneNameEach, RunningOnItsOwn, MadeAlike, SeesItsOwn
<1>4. \A x \in Cluster :
        \/ pc'[x] \in {"down", "purge", "setup", "locate"}
        \/ pc'[x] = pc[x] /\ want'[x] = want[x]
  BY <1>1 DEF TypeOK
<1>5. DevicesAreLocated' /\ KeptFits'
  BY <1>1, <1>4 DEF DevicesAreLocated, KeptFits, Equipped, Kept
<1>6. StartsBare' /\ AfterWait' /\ Masked' /\ LogsOutLast'
  BY <1>1, <1>4 DEF StartsBare, AfterWait, Masked, LogsOutLast
<1> QED BY <1>2, <1>3, <1>5, <1>6

(* Block setup gives names only to disks that had none: what other runs have
   located, and what is bound into running nodes, stays where it is. *)
LEMMA SetUpKeepsIInv ==
  ASSUME IInv, NEW c \in Cluster, SetUp(c) \/ SetUpFails(c)
  PROVE  IInv'
<1> USE NodesAssumption DEF IInv, nodeVars, run
<1>1. PICK ds \in SUBSET (Wanted(c) \ Attached) : LogIn(ds)
  BY DEF SetUp, SetUpFails
<1>2. ds \in SUBSET Disk /\ \A d \in ds : \A n \in Name : at[n] # d
  <2>1. Wanted(c) \subseteq Disk
    BY DEF Wanted, TypeOK, Shape, Disk, Worker
  <2>2. \A d \in Disk : d # None
    BY DEF Disk, Worker, Node
  <2> QED BY <2>1, <2>2 DEF Attached
<1>3. /\ at' \in [Name -> Disk \cup {None}]
      /\ OneNameEach'
      /\ \A n \in Name : at[n] # None => at'[n] = at[n]
  BY <1>1, <1>2, LogInAddsNames
<1>4. /\ UNCHANGED <<nodeVars, record>>
      /\ faults' \in 0..MaxFaults
      /\ \/ pc' = [pc EXCEPT ![c] = "locate"] /\ UNCHANGED run
         \/ End(c)
  BY FaultsCounted DEF SetUp, SetUpFails, Goto, TypeOK
<1>5. TypeOK'
  <2>1. CASE End(c)
    BY <1>3, <1>4, <2>1 DEF TypeOK, PC, NoDisks, End, Goto, Node
  <2>2. CASE pc' = [pc EXCEPT ![c] = "locate"] /\ UNCHANGED run
    BY <1>3, <1>4, <2>2 DEF TypeOK, PC
  <2> QED BY <1>4, <2>1, <2>2
<1>6. RunningOnItsOwn' /\ MadeAlike' /\ SeesItsOwn'
  <2>1. \A x \in Cluster, i \in Node : <<x, i>> # None
    OBVIOUS
  <2>2. \A x \in Cluster, i \in Node : bound[x][i] \in Name \cup {None}
    BY DEF TypeOK
  <2>3. RunningOnItsOwn'
    <3> SUFFICES ASSUME NEW x \in Cluster, NEW i \in Node,
                        state[x][i] = "running", bound[x][i] # None
                 PROVE  at'[bound[x][i]] = <<x, i>>
      BY <1>4 DEF RunningOnItsOwn
    <3>1. bound[x][i] \in Name /\ at[bound[x][i]] = <<x, i>>
      BY <2>2 DEF RunningOnItsOwn
    <3> QED BY <1>3, <2>1, <3>1
  <2> QED BY <1>4, <2>3 DEF MadeAlike, SeesItsOwn
<1>7. \A x \in Cluster :
        \/ pc'[x] \in {"idle", "locate"}
        \/ pc'[x] = pc[x] /\ want'[x] = want[x] /\ dev'[x] = dev[x]
  BY <1>4 DEF TypeOK, End, Goto
<1>8. DevicesAreLocated' /\ KeptFits'
  <2>1. \A x \in Cluster, i \in Node : <<x, i>> # None
    OBVIOUS
  <2>2. DevicesAreLocated'
    <3> SUFFICES ASSUME NEW x \in Cluster, pc'[x] \in Equipped \cup Kept,
                        NEW i \in Node
                 PROVE  IF want'[x].disks = 1 /\ i \in 1..want'[x].workers
                        THEN dev'[x][i] \in Name /\ at'[dev'[x][i]] = <<x, i>>
                        ELSE dev'[x][i] = None
      BY DEF DevicesAreLocated
    <3>1. pc'[x] = pc[x] /\ want'[x] = want[x] /\ dev'[x] = dev[x]
      BY <1>7 DEF Equipped, Kept
    <3>2. IF want[x].disks = 1 /\ i \in 1..want[x].workers
          THEN dev[x][i] \in Name /\ at[dev[x][i]] = <<x, i>>
          ELSE dev[x][i] = None
      BY <3>1 DEF DevicesAreLocated
    <3> QED BY <1>3, <2>1, <3>1, <3>2
  <2>3. KeptFits'
    BY <1>4, <1>7 DEF KeptFits, Kept
  <2> QED BY <2>2, <2>3
<1>9. StartsBare' /\ AfterWait' /\ Masked' /\ LogsOutLast'
  BY <1>4, <1>7 DEF StartsBare, AfterWait, Masked, LogsOutLast
<1> QED BY <1>3, <1>5, <1>6, <1>8, <1>9

(* A run that locates its disks has, for each, the one name it has. *)
LEMMA LocateKeepsIInv ==
  ASSUME IInv, NEW c \in Cluster, Locate(c)
  PROVE  IInv'
<1> USE NodesAssumption DEF IInv, nodeVars, Locate, At, Goto
<1>1. \A d \in Wanted(c) : NameOf(d) \in Name /\ at[NameOf(d)] = d
  BY DEF Attached, NameOf
<1>2. \A i \in Node : <<c, i>> \in Wanted(c) <=>
        want[c].disks = 1 /\ i \in 1..want[c].workers
  <2>1. want[c] \in Shape
    BY DEF TypeOK
  <2>2. CASE want[c].disks = 0
    BY <2>2 DEF Wanted
  <2>3. CASE want[c].disks = 1
    BY <2>3 DEF Wanted
  <2> QED BY <2>1, <2>2, <2>3 DEF Shape
<1>3. TypeOK'  BY <1>1 DEF TypeOK, PC, Node
<1>4. /\ OneNameEach' /\ RunningOnItsOwn' /\ MadeAlike' /\ SeesItsOwn'
  BY DEF OneNameEach, RunningOnItsOwn, MadeAlike, SeesItsOwn
<1>5. DevicesAreLocated'
  <2>1. \A x \in Cluster \ {c} : pc'[x] = pc[x] /\ dev'[x] = dev[x]
    BY DEF TypeOK
  <2>2. \A i \in Node : dev'[c][i] =
          IF <<c, i>> \in Wanted(c) THEN NameOf(<<c, i>>) ELSE None
    BY DEF TypeOK
  <2>3. \A i \in Node : IF want'[c].disks = 1 /\ i \in 1..want'[c].workers
          THEN dev'[c][i] \in Name /\ at'[dev'[c][i]] = <<c, i>>
          ELSE dev'[c][i] = None
    BY <1>1, <1>2, <2>2
  <2> QED BY <2>1, <2>3 DEF DevicesAreLocated, Equipped, Kept
<1>6. KeptFits'
  BY DEF TypeOK, KeptFits, Kept
<1>7. StartsBare' /\ AfterWait' /\ Masked' /\ LogsOutLast'
  BY DEF TypeOK, StartsBare, AfterWait, Masked, LogsOutLast
<1> QED BY <1>3, <1>4, <1>5, <1>6, <1>7

(* A run keeps a cluster only when every node it finds, and every worker of its
   shape, has the disk the run has located for it. *)
LEMMA KeepKeepsIInv ==
  ASSUME IInv, NEW c \in Cluster, Keep(c)
  PROVE  IInv'
<1> USE NodesAssumption DEF IInv, nodeVars, run
<1>1. PICK s \in {"wait", "start"} :
        /\ pc[c] = "inspect" /\ pc' = [pc EXCEPT ![c] = s]
        /\ s = "start" => ~AllRunning(c)
        /\ UNCHANGED <<at, nodeVars, record, run, faults>>
  BY DEF Keep, Decide, At, Goto
<1>2. TypeOK'  BY <1>1 DEF TypeOK, PC
<1>3. /\ OneNameEach' /\ RunningOnItsOwn' /\ MadeAlike' /\ SeesItsOwn'
  BY <1>1 DEF OneNameEach, RunningOnItsOwn, MadeAlike, SeesItsOwn
<1>4. \A x \in Cluster \ {c} : pc'[x] = pc[x]
  BY <1>1 DEF TypeOK
<1>5. pc'[c] = s
  BY <1>1 DEF TypeOK
<1>6. DevicesAreLocated'
  BY <1>1, <1>4, <1>5 DEF DevicesAreLocated, Equipped, Kept
<1>7. want[c].disks = 1 =>
        /\ bound[c] = dev[c]
        /\ \A i \in Worker : state[c][i] # "none" <=> i <= want[c].workers
  <2> SUFFICES ASSUME want[c].disks = 1
               PROVE  /\ bound[c] = dev[c]
                      /\ \A i \in Worker :
                           state[c][i] # "none" <=> i <= want[c].workers
    OBVIOUS
  <2>1. \A i \in Node : bound[c][i] = dev[c][i]
    BY DEF Keep, Unfit, Drifted
  <2>2. bound[c] = dev[c]
    BY <2>1 DEF TypeOK
  <2>3. want[c].workers \in Worker
    BY DEF TypeOK, Shape
  <2>4. \A i \in Worker : bound[c][i] # None <=> i <= want[c].workers
    BY <1>1, <2>1, <2>3 DEF DevicesAreLocated, Equipped, Worker, Node
  <2>5. bound[c][1] # None /\ state[c][1] # "none"
    <3>1. 1 \in Worker /\ 1 \in Node /\ 1 <= want[c].workers
      BY <2>3 DEF Worker, Node
    <3>2. bound[c][1] # None
      BY <2>4, <3>1
    <3>3. state[c][1] = "none" => bound[c][1] = None
      BY <3>1 DEF TypeOK
    <3> QED BY <3>2, <3>3
  <2>6. \A i \in Worker : state[c][i] # "none" <=> bound[c][i] # None
    BY <2>5 DEF MadeAlike, TypeOK, Worker, Node
  <2> QED BY <2>2, <2>4, <2>6
<1>8. KeptFits'
  BY <1>1, <1>4, <1>5, <1>7 DEF KeptFits, Kept
<1>9. StartsBare'
  <2>1. s = "start" /\ want[c].disks = 0 => \A i \in Node : bound[c][i] = None
    BY <1>1 DEF Keep, Blind, BoundDevices, Nodes, TypeOK
  <2> QED BY <1>1, <1>4, <1>5, <2>1 DEF StartsBare
<1>10. AfterWait' /\ Masked' /\ LogsOutLast'
  BY <1>1, <1>4, <1>5 DEF AfterWait, Masked, LogsOutLast
<1> QED BY <1>2, <1>3, <1>6, <1>8, <1>9, <1>10

(* A run that starts nodes has found their names unchanged, or finds no names
   in them. *)
LEMMA StartKeepsIInv ==
  ASSUME IInv, NEW c \in Cluster, Start(c) \/ StartFails(c)
  PROVE  IInv'
<1> USE NodesAssumption DEF IInv, nodeVars, run
<1>1. PICK ns \in SUBSET Nodes(c) : StartNodes(c, ns)
  BY DEF Start, StartFails
<1>2. /\ pc[c] = "start"
      /\ UNCHANGED <<at, record>>
      /\ faults' \in 0..MaxFaults
      /\ \/ pc' = [pc EXCEPT ![c] = "wait"] /\ UNCHANGED run
         \/ End(c)
  BY FaultsCounted DEF Start, StartFails, At, Goto, TypeOK
<1>3. /\ UNCHANGED <<bound, serves>>
      /\ \A x \in Cluster \ {c} : state'[x] = state[x] /\ sees'[x] = sees[x]
      /\ \A i \in Node :
           \/ state'[c][i] = state[c][i] /\ sees'[c][i] = sees[c][i]
           \/ /\ state[c][i] # "none"
              /\ state'[c][i] = "running" /\ sees'[c][i] \in {Name, sees[c][i]}
              /\ state[c][i] = "running" \/ sees'[c][i] = Name
  BY <1>1 DEF StartNodes, Nodes, TypeOK
<1>4. TypeOK'
  <2>1. /\ state' \in [Cluster -> [Node -> {"none", "created", "running", "exited"}]]
        /\ sees' \in [Cluster -> [Node -> SUBSET Name]]
    BY <1>1 DEF StartNodes, TypeOK
  <2>2. CASE End(c)
    BY <1>2, <1>3, <2>1, <2>2 DEF TypeOK, PC, NoDisks, End, Goto, Node
  <2>3. CASE pc' = [pc EXCEPT ![c] = "wait"] /\ UNCHANGED run
    BY <1>2, <1>3, <2>1, <2>3 DEF TypeOK, PC
  <2> QED BY <1>2, <2>2, <2>3
<1>5. \A i \in Node : bound[c][i] # None => at[bound[c][i]] = <<c, i>>
  <2>1. CASE want[c].disks = 0
    BY <1>2, <2>1 DEF StartsBare
  <2>2. CASE want[c].disks = 1
    <3>1. bound[c] = dev[c]
      BY <1>2, <2>2 DEF KeptFits, Kept
    <3> QED BY <1>2, <3>1 DEF DevicesAreLocated, Kept
  <2> QED BY <2>1, <2>2 DEF TypeOK, Shape
<1>6. RunningOnItsOwn'
  <2>1. \A x \in Cluster \ {c}, i \in Node :
          state'[x][i] = "running" /\ bound[x][i] # None
            => at[bound[x][i]] = <<x, i>>
    <3>1. \A x \in Cluster \ {c} : state'[x] = state[x]
      BY <1>3
    <3> QED BY <3>1, Zenon DEF RunningOnItsOwn
  <2> QED BY <1>2, <1>3, <1>5, <2>1 DEF RunningOnItsOwn
<1>7. SeesItsOwn'
  <2>1. \A x \in Cluster \ {c}, i \in Node :
          state'[x][i] = "running" /\ bound[x][i] # None
            => bound[x][i] \in sees'[x][i]
    BY <1>3 DEF SeesItsOwn
  <2>2. \A i \in Node : bound[c][i] \in Name \cup {None}
    BY DEF TypeOK
  <2>3. \A i \in Node :
          state'[c][i] = "running" /\ bound[c][i] # None
            => bound[c][i] \in sees'[c][i]
    BY <1>3, <2>2 DEF SeesItsOwn
  <2> QED BY <1>3, <2>1, <2>3 DEF SeesItsOwn
<1>8. OneNameEach' /\ MadeAlike'
  BY <1>2, <1>3 DEF OneNameEach, MadeAlike, Worker, Node
<1>9. \A x \in Cluster :
        \/ pc'[x] = "idle"
        \/ x = c /\ pc'[x] = "wait" /\ want'[x] = want[x] /\ dev'[x] = dev[x]
        \/ x # c /\ pc'[x] = pc[x] /\ want'[x] = want[x] /\ dev'[x] = dev[x]
  BY <1>2 DEF TypeOK, End, Goto
<1>10. DevicesAreLocated'
  BY <1>2, <1>9 DEF DevicesAreLocated, Equipped, Kept
<1>11. KeptFits'
  BY <1>2, <1>3, <1>9 DEF KeptFits, Kept, Worker, Node
<1>12. StartsBare' /\ AfterWait' /\ Masked' /\ LogsOutLast'
  BY <1>2, <1>3, <1>9 DEF StartsBare, AfterWait, Masked, LogsOutLast
<1> QED BY <1>4, <1>6, <1>7, <1>8, <1>10, <1>11, <1>12

(* A run that has waited has a control plane that runs. *)
LEMMA WaitKeepsIInv ==
  ASSUME IInv, NEW c \in Cluster, Wait(c)
  PROVE  IInv'
<1> USE NodesAssumption DEF IInv, nodeVars, run, Wait, At, Goto
<1>1. TypeOK'  BY DEF TypeOK, PC
<1>2. /\ OneNameEach' /\ RunningOnItsOwn' /\ MadeAlike' /\ SeesItsOwn'
  BY DEF OneNameEach, RunningOnItsOwn, MadeAlike, SeesItsOwn
<1>3. DevicesAreLocated' /\ KeptFits'
  BY DEF TypeOK, DevicesAreLocated, KeptFits, Equipped, Kept
<1>4. StartsBare' /\ AfterWait' /\ Masked' /\ LogsOutLast'
  BY DEF TypeOK, StartsBare, AfterWait, Masked, LogsOutLast, Answers
<1> QED BY <1>1, <1>2, <1>3, <1>4

(* The record is written before the nodes are prepared. *)
LEMMA RecordKeepsIInv ==
  ASSUME IInv, NEW c \in Cluster, Record(c)
  PROVE  IInv'
<1> USE NodesAssumption DEF IInv, nodeVars, run, Record, At, Goto
<1>1. TypeOK'  BY DEF TypeOK, PC
<1>2. /\ OneNameEach' /\ RunningOnItsOwn' /\ MadeAlike' /\ SeesItsOwn'
  BY DEF OneNameEach, RunningOnItsOwn, MadeAlike, SeesItsOwn
<1>3. DevicesAreLocated' /\ KeptFits'
  BY DEF TypeOK, DevicesAreLocated, KeptFits, Equipped, Kept
<1>4. StartsBare' /\ AfterWait' /\ Masked' /\ LogsOutLast'
  BY DEF TypeOK, StartsBare, AfterWait, Masked, LogsOutLast
<1> QED BY <1>1, <1>2, <1>3, <1>4

(* Deleting a cluster leaves no node a disk could be bound into. *)
LEMMA DeleteKeepsIInv ==
  ASSUME IInv, NEW c \in Cluster, Delete(c) \/ DeleteFails(c)
  PROVE  IInv'
<1> USE NodesAssumption DEF IInv, nodeVars, run
<1>1. /\ pc[c] \in {"discard", "purge", "down"}
      /\ UNCHANGED <<at, record>>
      /\ faults' \in 0..MaxFaults
      /\ NoNodes(c) \/ (UNCHANGED nodeVars /\ End(c))
      /\ \/ pc[c] = "discard" /\ pc' = [pc EXCEPT ![c] = "make"] /\ UNCHANGED run
         \/ /\ NoNodes(c) /\ UNCHANGED run
            /\ pc[c] = "purge" /\ pc' = [pc EXCEPT ![c] = "logout"]
         \/ End(c)
  BY FaultsCounted DEF Delete, DeleteFails, At, Goto, TypeOK
<1>2. CASE UNCHANGED nodeVars /\ End(c)
  BY <1>1, <1>2, EndKeepsIInv
<1>3. CASE NoNodes(c)
  <2>1. /\ \A x \in Cluster \ {c} :
             state'[x] = state[x] /\ bound'[x] = bound[x] /\ sees'[x] = sees[x]
        /\ \A i \in Node : state'[c][i] = "none" /\ bound'[c][i] = None
    BY <1>3 DEF NoNodes, TypeOK
  <2>2. \A x \in Cluster :
          \/ pc'[x] = "idle"
          \/ /\ x = c /\ pc'[c] \in {"make", "logout"}
             /\ pc[c] = "discard" \/ pc'[c] = "logout"
             /\ want'[c] = want[c] /\ dev'[c] = dev[c]
          \/ x # c /\ pc'[x] = pc[x] /\ want'[x] = want[x] /\ dev'[x] = dev[x]
    BY <1>1 DEF TypeOK, End, Goto
  <2>3. TypeOK'
    <3>1. /\ state' \in [Cluster -> [Node -> {"none", "created", "running", "exited"}]]
          /\ bound' \in [Cluster -> [Node -> Name \cup {None}]]
          /\ sees' \in [Cluster -> [Node -> SUBSET Name]]
          /\ serves' \subseteq Cluster
      BY <1>3 DEF NoNodes, TypeOK
    <3>2. /\ pc' \in [Cluster -> PC]
          /\ want' \in [Cluster -> Shape]
          /\ dev' \in [Cluster -> [Node -> Name \cup {None}]]
          /\ \A x \in Cluster :
               pc'[x] = "idle" => want'[x] = Default /\ dev'[x] = NoDisks
      <4>1. CASE End(c)
        BY <4>1, EndTypes
      <4>2. CASE ~End(c)
        BY <1>1, <4>2 DEF TypeOK, PC
      <4> QED BY <4>1, <4>2
    <3>3. \A x \in Cluster, i \in Node : state'[x][i] = "none" => bound'[x][i] = None
      <4> SUFFICES ASSUME NEW x \in Cluster, NEW i \in Node, state'[x][i] = "none"
                   PROVE  bound'[x][i] = None
        OBVIOUS
      <4>1. CASE x = c
        BY <2>1, <4>1
      <4>2. CASE x # c
        <5>1. state'[x] = state[x] /\ bound'[x] = bound[x]
          BY <2>1, <4>2
        <5> QED BY <5>1 DEF TypeOK
      <4> QED BY <4>1, <4>2
    <3> QED BY <1>1, <3>1, <3>2, <3>3 DEF TypeOK
  <2>4. OneNameEach' /\ RunningOnItsOwn' /\ MadeAlike' /\ SeesItsOwn'
    <3>1. RunningOnItsOwn' /\ SeesItsOwn'
      <4> SUFFICES ASSUME NEW x \in Cluster, NEW i \in Node,
                          state'[x][i] = "running", bound'[x][i] # None
                   PROVE  /\ at[bound'[x][i]] = <<x, i>>
                          /\ bound'[x][i] \in sees'[x][i]
        BY <1>1 DEF RunningOnItsOwn, SeesItsOwn
      <4>1. x # c
        BY <2>1
      <4>2. state'[x] = state[x] /\ bound'[x] = bound[x] /\ sees'[x] = sees[x]
        BY <2>1, <4>1
      <4> QED BY <4>2 DEF RunningOnItsOwn, SeesItsOwn
    <3>2. OneNameEach' /\ MadeAlike'
      BY <1>1, <2>1 DEF OneNameEach, MadeAlike, Worker, Node
    <3> QED BY <3>1, <3>2
  <2>5. DevicesAreLocated'
    <3>1. \A x \in Cluster : pc'[x] \in Equipped \cup Kept =>
            /\ pc[x] \in Equipped \cup Kept
            /\ want'[x] = want[x] /\ dev'[x] = dev[x]
      BY <2>2 DEF Equipped, Kept
    <3> QED BY <1>1, <3>1 DEF DevicesAreLocated
  <2>6. KeptFits'
    BY <2>1, <2>2 DEF KeptFits, Kept
  <2>7. StartsBare' /\ AfterWait' /\ Masked' /\ LogsOutLast'
    BY <1>1, <2>1, <2>2 DEF StartsBare, AfterWait, Masked, LogsOutLast
  <2> QED BY <2>3, <2>4, <2>5, <2>6, <2>7
<1> QED BY <1>1, <1>2, <1>3

(* A cluster's targets go only after its nodes. *)
LEMMA LogOutKeepsIInv ==
  ASSUME IInv, NEW c \in Cluster, LogOut(c)
  PROVE  IInv'
<1> USE NodesAssumption DEF IInv, nodeVars, LogOut, At, End, Goto
<1>1. TypeOK'  BY DEF TypeOK, PC, NoDisks, Node
<1>2. \A n \in Name : at'[n] # at[n] => at'[n] = None /\ at[n] \in {c} \X Worker
  OBVIOUS
<1>3. OneNameEach'
  BY <1>2 DEF OneNameEach
<1>4. \A i \in Node : state[c][i] = "none"
  BY DEF LogsOutLast
<1>5. RunningOnItsOwn'
  BY <1>2, <1>4 DEF RunningOnItsOwn, TypeOK
<1>6. MadeAlike' /\ SeesItsOwn'
  BY DEF MadeAlike, SeesItsOwn
<1>7. \A x \in Cluster :
        \/ pc'[x] = "idle"
        \/ x # c /\ pc'[x] = pc[x] /\ want'[x] = want[x] /\ dev'[x] = dev[x]
             /\ record'[x] = record[x]
  BY DEF TypeOK
<1>8. DevicesAreLocated'
  BY <1>2, <1>7 DEF DevicesAreLocated, Equipped, Kept
<1>9. KeptFits'
  BY <1>7 DEF KeptFits, Kept
<1>10. StartsBare' /\ AfterWait' /\ Masked' /\ LogsOutLast'
  BY <1>7 DEF StartsBare, AfterWait, Masked, LogsOutLast
<1> QED BY <1>1, <1>3, <1>5, <1>6, <1>8, <1>9, <1>10

(* kind binds the run's disks, and those are where the run has located them. *)
LEMMA MakeKeepsIInv ==
  ASSUME IInv, NEW c \in Cluster, Make(c) \/ HalfMade(c)
  PROVE  IInv'
<1> USE NodesAssumption DEF IInv, nodeVars, run
<1>1. PICK ns \in SUBSET (0..want[c].workers), s \in {"created", "running"} :
        /\ MakeNodes(c, ns, s)
        /\ \/ /\ s = "running" /\ ns = 0..want[c].workers
              /\ pc' = [pc EXCEPT ![c] = "record"] /\ UNCHANGED run
           \/ s = "created" /\ End(c)
  BY DEF Make, HalfMade, Goto
<1>2. /\ pc[c] = "make"
      /\ UNCHANGED <<at, record>>
      /\ faults' \in 0..MaxFaults
      /\ serves' \subseteq Cluster
  BY FaultsCounted DEF Make, HalfMade, At, TypeOK
<1>3. want[c].workers \in Worker /\ want[c].disks \in 0..1
  BY DEF TypeOK, Shape
<1>4. \A i \in Node :
        IF want[c].disks = 1 /\ i \in 1..want[c].workers
        THEN dev[c][i] \in Name /\ at[dev[c][i]] = <<c, i>>
        ELSE dev[c][i] = None
  BY <1>2 DEF DevicesAreLocated, Equipped
<1>5. /\ \A x \in Cluster \ {c} :
           state'[x] = state[x] /\ bound'[x] = bound[x] /\ sees'[x] = sees[x]
      /\ \A i \in Node :
           /\ state'[c][i] = IF i \in ns THEN s ELSE "none"
           /\ bound'[c][i] = IF i \in ns THEN dev[c][i] ELSE None
           /\ sees'[c][i] = IF i \in ns THEN Name ELSE {}
  BY <1>1 DEF MakeNodes, TypeOK
<1>6. TypeOK'
  <2>1. /\ state' \in [Cluster -> [Node -> {"none", "created", "running", "exited"}]]
        /\ bound' \in [Cluster -> [Node -> Name \cup {None}]]
        /\ sees' \in [Cluster -> [Node -> SUBSET Name]]
    BY <1>1 DEF MakeNodes, TypeOK
  <2>2. /\ pc' \in [Cluster -> PC]
        /\ want' \in [Cluster -> Shape]
        /\ dev' \in [Cluster -> [Node -> Name \cup {None}]]
        /\ \A x \in Cluster :
             pc'[x] = "idle" => want'[x] = Default /\ dev'[x] = NoDisks
    <3>1. CASE End(c)
      BY <3>1, EndTypes
    <3>2. CASE ~End(c)
      BY <1>1, <3>2 DEF TypeOK, PC
    <3> QED BY <3>1, <3>2
  <2>3. \A x \in Cluster, i \in Node : state'[x][i] = "none" => bound'[x][i] = None
    <3> SUFFICES ASSUME NEW x \in Cluster, NEW i \in Node, state'[x][i] = "none"
                 PROVE  bound'[x][i] = None
      OBVIOUS
    <3>1. CASE x = c
      BY <1>1, <1>5, <3>1
    <3>2. CASE x # c
      <4>1. state'[x] = state[x] /\ bound'[x] = bound[x]
        BY <1>5, <3>2
      <4> QED BY <4>1 DEF TypeOK
    <3> QED BY <3>1, <3>2
  <2> QED BY <1>2, <2>1, <2>2, <2>3 DEF TypeOK
<1>7. OneNameEach' /\ RunningOnItsOwn' /\ MadeAlike' /\ SeesItsOwn'
  <2>1. RunningOnItsOwn'
    <3> SUFFICES ASSUME NEW x \in Cluster, NEW i \in Node,
                        state'[x][i] = "running", bound'[x][i] # None
                 PROVE  at[bound'[x][i]] = <<x, i>>
      BY <1>2 DEF RunningOnItsOwn
    <3>1. CASE x = c
      BY <1>4, <1>5, <3>1
    <3>2. CASE x # c
      <4>1. state'[x] = state[x] /\ bound'[x] = bound[x]
        BY <1>5, <3>2
      <4> QED BY <4>1 DEF RunningOnItsOwn
    <3> QED BY <3>1, <3>2
  <2>2. MadeAlike'
    BY <1>1, <1>3, <1>4, <1>5 DEF MadeAlike, Worker, Node
  <2>3. SeesItsOwn'
    BY <1>4, <1>5 DEF SeesItsOwn
  <2> QED BY <1>2, <2>1, <2>2, <2>3 DEF OneNameEach
<1>8. \A x \in Cluster :
        \/ pc'[x] = "idle"
        \/ /\ x = c /\ pc'[c] = "record" /\ want'[c] = want[c] /\ dev'[c] = dev[c]
           /\ ns = 0..want[c].workers /\ s = "running"
        \/ x # c /\ pc'[x] = pc[x] /\ want'[x] = want[x] /\ dev'[x] = dev[x]
  BY <1>1 DEF TypeOK, End, Goto
<1>9. DevicesAreLocated'
  BY <1>2, <1>8 DEF DevicesAreLocated, Equipped, Kept
<1>10. KeptFits'
  <2>1. ns = 0..want[c].workers /\ s = "running" /\ want[c].disks = 1 =>
          /\ bound'[c] = dev[c]
          /\ \A i \in Worker : state'[c][i] # "none" <=> i <= want[c].workers
    <3> SUFFICES ASSUME ns = 0..want[c].workers, s = "running", want[c].disks = 1
                 PROVE  /\ bound'[c] = dev[c]
                        /\ \A i \in Worker :
                             state'[c][i] # "none" <=> i <= want[c].workers
      OBVIOUS
    <3>1. \A i \in Node : bound'[c][i] = dev[c][i]
      BY <1>3, <1>4, <1>5 DEF Node, Worker
    <3>2. bound'[c] = dev[c]
      BY <1>6, <3>1 DEF TypeOK
    <3> QED BY <1>3, <1>5, <3>2 DEF Node, Worker
  <2> QED BY <1>5, <1>8, <2>1 DEF KeptFits, Kept
<1>11. AfterWait'
  BY <1>2, <1>3, <1>5, <1>8 DEF AfterWait, Node, Worker
<1>12. StartsBare' /\ Masked' /\ LogsOutLast'
  BY <1>5, <1>8 DEF StartsBare, Masked, LogsOutLast
<1> QED BY <1>6, <1>7, <1>9, <1>10, <1>11, <1>12

(* Preparing a node takes no disk from its /dev but those that are not its own. *)
LEMMA PrepKeepsIInv ==
  ASSUME IInv, NEW c \in Cluster, Prep(c) \/ PrepFails(c)
  PROVE  IInv'
<1> USE NodesAssumption DEF IInv, nodeVars, run
<1>1. PICK ns \in SUBSET Preparable(c) :
        /\ Mask(c, ns)
        /\ \/ /\ ns = Nodes(c)
              /\ pc' = [pc EXCEPT ![c] = "ready"] /\ UNCHANGED run
           \/ End(c)
  BY DEF Prep, PrepFails, Goto
<1>2. /\ pc[c] = "prep"
      /\ UNCHANGED <<at, record, state, bound, serves>>
      /\ faults' \in 0..MaxFaults
  BY FaultsCounted DEF Prep, PrepFails, At, Mask, TypeOK
<1>3. /\ \A x \in Cluster \ {c} : sees'[x] = sees[x]
      /\ \A i \in Node :
           sees'[c][i] = IF i \in ns THEN sees[c][i] \cap {dev[c][i]} ELSE sees[c][i]
  BY <1>1 DEF Mask, TypeOK
<1>4. \A i \in ns : state[c][i] = "running" /\ bound[c][i] \in {None, dev[c][i]}
  BY <1>1 DEF Preparable
<1>5. TypeOK'
  <2>1. sees' \in [Cluster -> [Node -> SUBSET Name]]
    BY <1>1 DEF Mask, TypeOK
  <2>2. CASE End(c)
    BY <1>2, <2>1, <2>2, EndTypes DEF TypeOK
  <2>3. CASE pc' = [pc EXCEPT ![c] = "ready"] /\ UNCHANGED run
    BY <1>2, <2>1, <2>3 DEF TypeOK, PC
  <2> QED BY <1>1, <2>2, <2>3
<1>6. OneNameEach' /\ RunningOnItsOwn' /\ MadeAlike'
  BY <1>2 DEF OneNameEach, RunningOnItsOwn, MadeAlike
<1>7. SeesItsOwn'
  <2> SUFFICES ASSUME NEW x \in Cluster, NEW i \in Node,
                      state[x][i] = "running", bound[x][i] # None
               PROVE  bound[x][i] \in sees'[x][i]
    BY <1>2 DEF SeesItsOwn
  <2>1. bound[x][i] \in sees[x][i]
    BY DEF SeesItsOwn
  <2> QED BY <1>3, <1>4, <2>1
<1>8. \A x \in Cluster :
        \/ pc'[x] = "idle"
        \/ /\ x = c /\ pc'[c] = "ready" /\ want'[c] = want[c] /\ dev'[c] = dev[c]
           /\ ns = Nodes(c)
        \/ x # c /\ pc'[x] = pc[x] /\ want'[x] = want[x] /\ dev'[x] = dev[x]
  BY <1>1 DEF TypeOK, End, Goto
<1>9. DevicesAreLocated'
  BY <1>2, <1>8 DEF DevicesAreLocated, Equipped, Kept
<1>10. KeptFits'
  BY <1>2, <1>8 DEF KeptFits, Kept
<1>11. StartsBare' /\ AfterWait' /\ LogsOutLast'
  BY <1>2, <1>8 DEF StartsBare, AfterWait, LogsOutLast
<1>12. Masked'
  <2>1. ns = Nodes(c) /\ want[c].disks = 1 =>
          \A i \in 0..want[c].workers : sees'[c][i] = {dev[c][i]} \ {None}
    <3> SUFFICES ASSUME ns = Nodes(c), want[c].disks = 1, NEW i \in 0..want[c].workers
                 PROVE  sees'[c][i] = {dev[c][i]} \ {None}
      OBVIOUS
    <3>1. i \in Node /\ (i # 0 => i \in Worker) /\ i <= want[c].workers
      BY DEF TypeOK, Shape, Node, Worker
    <3>2. i \in ns
      BY <1>2, <3>1 DEF AfterWait, KeptFits, Kept, Nodes
    <3>3. state[c][i] = "running" /\ bound[c][i] = dev[c][i]
      BY <1>2, <1>4, <3>2 DEF KeptFits, Kept
    <3>4. sees'[c][i] = sees[c][i] \cap {dev[c][i]}
      BY <1>3, <3>1, <3>2
    <3>5. dev[c][i] # None => dev[c][i] \in sees[c][i]
      BY <3>1, <3>3 DEF SeesItsOwn
    <3>6. None \notin sees[c][i]
      BY <3>1 DEF TypeOK
    <3> QED BY <3>4, <3>5, <3>6
  <2> QED BY <1>3, <1>8, <2>1 DEF Masked
<1> QED BY <1>5, <1>6, <1>7, <1>9, <1>10, <1>11, <1>12

(* A node that dies runs no more, and is still there. *)
LEMMA DiesKeepsIInv ==
  ASSUME IInv, NEW c \in Cluster, NEW k \in Node, NodeDies(c, k)
  PROVE  IInv'
<1> USE NodesAssumption DEF IInv, run
<1>1. /\ UNCHANGED <<at, bound, sees, serves, record, pc, want, dev>>
      /\ faults' \in 0..MaxFaults
  BY FaultsCounted DEF NodeDies, TypeOK
<1>2. \A x \in Cluster, i \in Node :
        \/ state'[x][i] = state[x][i]
        \/ state[x][i] = "running" /\ state'[x][i] = "exited"
  BY DEF NodeDies, TypeOK
<1>3. TypeOK'
  <2>1. state' \in [Cluster -> [Node -> {"none", "created", "running", "exited"}]]
    BY DEF NodeDies, TypeOK
  <2>2. \A x \in Cluster, i \in Node : state'[x][i] = "none" => bound[x][i] = None
    <3>1. \A x \in Cluster, i \in Node : state'[x][i] = "none" => state[x][i] = "none"
      BY <1>2
    <3> QED BY <3>1 DEF TypeOK
  <2> QED BY <1>1, <2>1, <2>2 DEF TypeOK
<1>4. OneNameEach' /\ RunningOnItsOwn' /\ SeesItsOwn'
  <2>1. \A x \in Cluster, i \in Node : state'[x][i] = "running" => state[x][i] = "running"
    BY <1>2
  <2>2. RunningOnItsOwn'
    BY <1>1, <2>1 DEF RunningOnItsOwn
  <2>3. SeesItsOwn'
    BY <1>1, <2>1 DEF SeesItsOwn
  <2> QED BY <1>1, <2>2, <2>3 DEF OneNameEach
<1>5. MadeAlike'
  BY <1>1, <1>2 DEF MadeAlike, Worker, Node
<1>6. DevicesAreLocated' /\ StartsBare' /\ Masked'
  BY <1>1 DEF DevicesAreLocated, StartsBare, Masked
<1>7. KeptFits'
  BY <1>1, <1>2 DEF KeptFits, Worker, Node
<1>8. AfterWait' /\ LogsOutLast'
  BY <1>1, <1>2 DEF AfterWait, LogsOutLast, Node
<1> QED BY <1>3, <1>4, <1>5, <1>6, <1>7, <1>8

(* After a reboot no node runs, and no run is in progress. *)
LEMMA RebootKeepsIInv ==
  ASSUME IInv, Reboot
  PROVE  IInv'
<1> USE NodesAssumption DEF IInv
<1>1. /\ \A x \in Cluster : pc'[x] = "idle" /\ want'[x] = Default /\ dev'[x] = NoDisks
      /\ UNCHANGED <<bound, sees, serves, record>>
      /\ faults' \in 0..MaxFaults
  BY FaultsCounted DEF Reboot, TypeOK
<1>2. \A x \in Cluster, i \in Node :
        /\ state'[x][i] # "running"
        /\ state'[x][i] = "none" <=> state[x][i] = "none"
  BY DEF Reboot, TypeOK
<1>3. TypeOK'
  <2>1. at' \in [Name -> Disk \cup {None}]
    BY DEF Reboot, Attached, TypeOK
  <2>2. state' \in [Cluster -> [Node -> {"none", "created", "running", "exited"}]]
    BY DEF Reboot, TypeOK
  <2>3. NoDisks \in [Node -> Name \cup {None}]
    BY DEF NoDisks
  <2>4. /\ pc' \in [Cluster -> PC]
        /\ want' \in [Cluster -> Shape]
        /\ dev' \in [Cluster -> [Node -> Name \cup {None}]]
    BY <2>3 DEF Reboot, PC
  <2> QED BY <1>1, <1>2, <2>1, <2>2, <2>4 DEF TypeOK
<1>4. OneNameEach' /\ RunningOnItsOwn' /\ SeesItsOwn'
  BY <1>1, <1>2 DEF Reboot, OneNameEach, RunningOnItsOwn, SeesItsOwn
<1>5. MadeAlike'
  BY <1>1, <1>2 DEF MadeAlike, Worker, Node
<1>6. DevicesAreLocated' /\ KeptFits' /\ StartsBare' /\ AfterWait' /\ Masked' /\ LogsOutLast'
  BY <1>1 DEF DevicesAreLocated, KeptFits, StartsBare, AfterWait, Masked,
              LogsOutLast, Equipped, Kept
<1> QED BY <1>3, <1>4, <1>5, <1>6

(* A step that changes nothing. *)
LEMMA StutterKeepsIInv ==
  ASSUME IInv, UNCHANGED vars
  PROVE  IInv'
<1> USE DEF IInv, vars, nodeVars, run
<1>1. TypeOK'  BY DEF TypeOK
<1>2. OneNameEach' /\ RunningOnItsOwn' /\ MadeAlike' /\ SeesItsOwn'
  BY DEF OneNameEach, RunningOnItsOwn, MadeAlike, SeesItsOwn
<1>3. DevicesAreLocated' /\ KeptFits' /\ StartsBare' /\ AfterWait' /\ Masked' /\ LogsOutLast'
  BY DEF DevicesAreLocated, KeptFits, StartsBare, AfterWait, Masked, LogsOutLast
<1> QED BY <1>1, <1>2, <1>3

(* The invariant is inductive. *)
LEMMA NextIInv == IInv /\ [Next]_vars => IInv'
<1> SUFFICES ASSUME IInv, [Next]_vars PROVE IInv' OBVIOUS
<1>1. CASE UNCHANGED vars
  BY <1>1, StutterKeepsIInv
<1>2. ASSUME NEW c \in Cluster, Step(c) PROVE IInv'
  BY <1>2, OnlyEnds, DecideKeepsIInv, SetUpKeepsIInv, LocateKeepsIInv,
     KeepKeepsIInv, StartKeepsIInv, WaitKeepsIInv, RecordKeepsIInv,
     DeleteKeepsIInv, LogOutKeepsIInv, MakeKeepsIInv, PrepKeepsIInv DEF Step
<1>3. ASSUME NEW c \in Cluster, NEW f \in Flags[c], Begin(c, f) PROVE IInv'
  <2>1. f \in Flag
    BY NodesAssumption
  <2> QED BY <1>3, <2>1, BeginKeepsIInv
<1>4. CASE Disturbance
  BY <1>4, OnlyEnds, SetUpKeepsIInv, StartKeepsIInv, DeleteKeepsIInv,
     MakeKeepsIInv, DiesKeepsIInv, RebootKeepsIInv DEF Disturbance
<1> QED BY <1>1, <1>2, <1>3, <1>4 DEF Next

(* The whole of the inductive invariant, of every run. *)
THEOREM Invariance == Spec => []IInv
<1> QED BY InitIInv, NextIInv, PTL DEF Spec

(* CheckDevices does its office: whatever reboots and other clusters do to the
   disk names, a running node has its own worker's disk behind its own. *)
THEOREM RunningOnItsOwnHolds == Spec => []RunningOnItsOwn
<1>1. IInv => RunningOnItsOwn  BY DEF IInv
<1> QED BY <1>1, Invariance, PTL

(* A cluster with disks that up calls ready has the nodes of its record, each
   with its own disk and no other. *)
THEOREM ReadyIsWholeHolds == Spec => []ReadyIsWhole
<1>1. IInv => ReadyIsWhole
  <2> SUFFICES ASSUME IInv, NEW c \in Cluster, pc[c] = "ready", want[c].disks = 1
               PROVE  /\ Nodes(c) = 0..want[c].workers
                      /\ record[c] = want[c]
                      /\ sees[c][0] = {}
                      /\ \A i \in 1..want[c].workers :
                           sees[c][i] = {bound[c][i]} /\ at[bound[c][i]] = <<c, i>>
    BY DEF ReadyIsWhole, At
  <2> USE NodesAssumption DEF IInv
  <2>1. want[c].workers \in Worker
    BY DEF TypeOK, Shape
  <2>2. /\ bound[c] = dev[c]
        /\ \A i \in Worker : state[c][i] # "none" <=> i <= want[c].workers
    BY DEF KeptFits, Kept
  <2>3. state[c][0] # "none" /\ record[c] = want[c]
    BY DEF AfterWait
  <2>4. Nodes(c) = 0..want[c].workers
    BY <2>1, <2>2, <2>3 DEF Nodes, Node, Worker
  <2>5. \A i \in Node :
          IF want[c].disks = 1 /\ i \in 1..want[c].workers
          THEN dev[c][i] \in Name /\ at[dev[c][i]] = <<c, i>>
          ELSE dev[c][i] = None
    BY DEF DevicesAreLocated, Kept
  <2>6. \A i \in 0..want[c].workers : sees[c][i] = {dev[c][i]} \ {None}
    BY DEF Masked
  <2>7. sees[c][0] = {}
    BY <2>1, <2>5, <2>6 DEF Node, Worker
  <2>8. \A i \in 1..want[c].workers :
          sees[c][i] = {bound[c][i]} /\ at[bound[c][i]] = <<c, i>>
    BY <2>1, <2>2, <2>5, <2>6 DEF Node, Worker
  <2> QED BY <2>3, <2>4, <2>7, <2>8
<1> QED BY <1>1, Invariance, PTL
=============================================================================
