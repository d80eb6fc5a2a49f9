--------------------------- MODULE Devices_proofs ---------------------------
(***************************************************************************)
(* Theorems about Devices, for any number of clusters and of disks, places  *)
(* of their images and faults however often they come.  IInv is inductive;  *)
(* that the healthy are spared, that a setup has its devices and that a     *)
(* teardown is whole follow from it.                                        *)
(***************************************************************************)
EXTENDS Devices, FiniteSetTheorems, TLAPS

(* What a script is made of. *)

(* Of one list of blocks after another. *)
LEMMA WithinConcat ==
  ASSUME NEW X, NEW s \in Seq(X), NEW t \in Seq(X)
  PROVE  s \o t \in Seq(X) /\ Within(s \o t) = Within(s) \cup Within(t)
<1>1. /\ s \o t \in Seq(X) /\ Len(s \o t) = Len(s) + Len(t)
      /\ \A i \in 1 .. Len(s) : (s \o t)[i] = s[i]
      /\ \A i \in 1 .. Len(t) : (s \o t)[Len(s) + i] = t[i]
  OBVIOUS
<1>2. DOMAIN s = 1 .. Len(s) /\ DOMAIN t = 1 .. Len(t)
      /\ DOMAIN (s \o t) = 1 .. (Len(s) + Len(t)) /\ Len(s) \in Nat /\ Len(t) \in Nat
  OBVIOUS
<1>3. ASSUME NEW i \in DOMAIN (s \o t)
      PROVE  \/ \E j \in DOMAIN s : (s \o t)[i] = s[j]
             \/ \E j \in DOMAIN t : (s \o t)[i] = t[j]
  <2>1. CASE i <= Len(s)
    BY <1>1, <1>2, <2>1
  <2>2. CASE ~(i <= Len(s))
    <3>1. i - Len(s) \in 1 .. Len(t) /\ i = Len(s) + (i - Len(s))
      BY <1>2, <2>2
    <3> QED BY <1>1, <1>2, <3>1
  <2> QED BY <2>1, <2>2
<1>4. ASSUME NEW j \in DOMAIN s PROVE \E i \in DOMAIN (s \o t) : (s \o t)[i] = s[j]
  BY <1>1, <1>2
<1>5. ASSUME NEW j \in DOMAIN t PROVE \E i \in DOMAIN (s \o t) : (s \o t)[i] = t[j]
  <2>1. Len(s) + j \in DOMAIN (s \o t) /\ (s \o t)[Len(s) + j] = t[j]
    BY <1>1, <1>2
  <2> QED BY <2>1
<1>6. Within(s \o t) \subseteq Within(s) \cup Within(t)
  BY <1>3 DEF Within
<1>7. Within(s) \cup Within(t) \subseteq Within(s \o t)
  BY <1>4, <1>5 DEF Within
<1> QED BY <1>1, <1>6, <1>7

(* A script of one block. *)
LEMMA WithinOne ==
  ASSUME NEW b
  PROVE  Within(<<b>>) = Range(b)
<1>1. DOMAIN <<b>> = {1} /\ <<b>>[1] = b
  OBVIOUS
<1> HIDE DEF Within
<1>2. {Range(<<b>>[i]) : i \in {1}} = {Range(b)}
  BY <1>1
<1> QED BY <1>1, <1>2 DEF Within

(* The steps of a block that is written out. *)
LEMMA RangeOfFew ==
  /\ \A x : Range(<<x>>) = {x}
  /\ \A x, y : Range(<<x, y>>) = {x, y}
  /\ \A x, y, z : Range(<<x, y, z>>) = {x, y, z}
<1>1. ASSUME NEW x PROVE Range(<<x>>) = {x}
  BY DEF Range
<1>2. ASSUME NEW x, NEW y PROVE Range(<<x, y>>) = {x, y}
  <2>1. DOMAIN <<x, y>> = {1, 2}
    OBVIOUS
  <2> QED BY <2>1 DEF Range
<1>3. ASSUME NEW x, NEW y, NEW z PROVE Range(<<x, y, z>>) = {x, y, z}
  <2>1. DOMAIN <<x, y, z>> = {1, 2, 3}
    OBVIOUS
  <2> QED BY <2>1 DEF Range
<1> QED BY <1>1, <1>2, <1>3

(* A finite set in turn is all of it. *)
LEMMA WithinInTurn ==
  ASSUME NEW steps, IsFiniteSet(DOMAIN steps), NEW X, \A o \in DOMAIN steps : steps[o] \in X
  PROVE  /\ InTurn(steps) \in Seq(X)
         /\ Within(InTurn(steps)) = UNION {Range(steps[o]) : o \in DOMAIN steps}
<1> DEFINE S == DOMAIN steps
           n == Cardinality(S)
           seq == SetToSeq(S)
<1>1. n \in Nat /\ ExistsBijection(1 .. n, S)
  BY FS_CardinalityType
<1>2. \E f \in [1 .. n -> S] : IsInjective(f)
  BY <1>1 DEF ExistsBijection, Bijection, Injection
<1>3. seq \in [1 .. n -> S] /\ IsInjective(seq)
  BY <1>2 DEF SetToSeq
<1>4. IsFiniteSet(1 .. n) /\ Cardinality(1 .. n) = n
  BY <1>1, FS_Interval
<1>5. seq \in Surjection(1 .. n, S)
  BY <1>3, <1>4, FS_Injection DEF Injection
<1>6. InTurn(steps) = [i \in 1 .. n |-> steps[seq[i]]]
  BY DEF InTurn
<1> HIDE DEF seq, n
<1>7. InTurn(steps) \in [1 .. n -> X]
  BY <1>3, <1>6
<1>8. \A o \in S : \E i \in 1 .. n : seq[i] = o
  BY <1>5 DEF Surjection
<1>9. DOMAIN InTurn(steps) = 1 .. n /\ \A i \in 1 .. n : InTurn(steps)[i] = steps[seq[i]]
  BY <1>6
<1>10. \A i \in 1 .. n : seq[i] \in S
  BY <1>3
<1> HIDE DEF S
<1>11. Within(InTurn(steps)) \subseteq UNION {Range(steps[o]) : o \in S}
  BY <1>9, <1>10 DEF Within
<1>12. UNION {Range(steps[o]) : o \in S} \subseteq Within(InTurn(steps))
  BY <1>8, <1>9 DEF Within
<1>13. InTurn(steps) \in Seq(X)
  BY <1>1, <1>7
<1> QED BY <1>11, <1>12, <1>13 DEF S

(* The first step and the rest are the script. *)
LEMMA WithinRest ==
  ASSUME NEW script \in Script, script # <<>>
  PROVE  /\ Head(Head(script)) \in PrivStep /\ Rest(script) \in Script
         /\ Within(script) = {Head(Head(script))} \cup Within(Rest(script))
<1> DEFINE b == Head(script)
           B == Seq(PrivStep) \ {<<>>}
           t == Tail(script)
<1>1. b \in B /\ t \in Seq(B) /\ script = <<b>> \o t
  BY DEF Script
<1>2. Within(script) = Range(b) \cup Within(t)
  <2> HIDE DEF b, t, B
  <2>1. <<b>> \in Seq(B)
    BY <1>1
  <2>2. Within(<<b>> \o t) = Within(<<b>>) \cup Within(t)
    BY <1>1, <2>1, WithinConcat
  <2> QED BY <1>1, <2>2, WithinOne
<1>3. b \in Seq(PrivStep) /\ b # <<>> /\ Head(b) \in PrivStep /\ Tail(b) \in Seq(PrivStep)
      /\ Len(b) \in Nat /\ Len(Tail(b)) = Len(b) - 1
  BY <1>1
<1>4. Range(b) = {Head(b)} \cup Range(Tail(b))
  <2> HIDE DEF b
  <2>1. /\ DOMAIN b = 1 .. Len(b) /\ DOMAIN Tail(b) = 1 .. (Len(b) - 1)
        /\ Head(b) = b[1] /\ \A i \in 1 .. (Len(b) - 1) : Tail(b)[i] = b[i + 1]
    BY <1>3
  <2>2. Len(b) >= 1
    BY <1>3
  <2>3. ASSUME NEW i \in DOMAIN b PROVE b[i] \in {Head(b)} \cup Range(Tail(b))
    <3>1. CASE i = 1
      BY <2>1, <3>1
    <3>2. CASE i # 1
      <4>1. i - 1 \in 1 .. (Len(b) - 1) /\ i = (i - 1) + 1
        BY <1>3, <2>1, <3>2
      <4>2. Tail(b)[i - 1] = b[i]
        BY <2>1, <4>1
      <4> QED BY <2>1, <4>1, <4>2 DEF Range
    <3> QED BY <3>1, <3>2
  <2>4. ASSUME NEW i \in DOMAIN Tail(b) PROVE Tail(b)[i] \in Range(b)
    <3>1. i + 1 \in DOMAIN b /\ Tail(b)[i] = b[i + 1]
      BY <1>3, <2>1
    <3> QED BY <3>1 DEF Range
  <2>5. Head(b) \in Range(b)
    BY <1>3, <2>1, <2>2 DEF Range
  <2> QED BY <2>3, <2>4, <2>5 DEF Range
<1>5. CASE Len(b) = 1
  <2>1. Rest(script) = t
    BY <1>5 DEF Rest
  <2> HIDE DEF b, t
  <2>2. Range(Tail(b)) = {}
    <3>1. Len(Tail(b)) = 0 /\ DOMAIN Tail(b) = 1 .. Len(Tail(b))
      BY <1>3, <1>5
    <3> QED BY <3>1 DEF Range
  <2>3. Rest(script) \in Script
    BY <1>1, <2>1 DEF Script
  <2> QED BY <1>2, <1>3, <1>4, <2>1, <2>2, <2>3 DEF b
<1>6. CASE Len(b) # 1
  <2>1. Rest(script) = <<Tail(b)>> \o t
    BY <1>6 DEF Rest
  <2> HIDE DEF b, t
  <2>2. Len(Tail(b)) # 0
    BY <1>3, <1>6
  <2>3. Tail(b) \in B
    BY <1>3, <2>2
  <2> HIDE DEF B
  <2>4. <<Tail(b)>> \in Seq(B)
    BY <2>3
  <2>5. Rest(script) \in Seq(B) /\ Within(Rest(script)) = Within(<<Tail(b)>>) \cup Within(t)
    <3>1. /\ <<Tail(b)>> \o t \in Seq(B)
          /\ Within(<<Tail(b)>> \o t) = Within(<<Tail(b)>>) \cup Within(t)
      BY <1>1, <2>4, WithinConcat
    <3> QED BY <2>1, <3>1
  <2>6. Rest(script) \in Script
    BY <2>5 DEF Script, B
  <2> QED BY <1>2, <1>3, <1>4, <2>5, <2>6, WithinOne DEF b
<1> QED BY <1>5, <1>6

-----------------------------------------------------------------------------
(* The scripts of the code. *)

(* The steps the code builds. *)
LEMMA StepsAreSteps ==
  ASSUME NEW op \in Ops, NEW o \in Object
  PROVE  /\ Try(op, o) \in PrivStep /\ Try(op, o).op = op /\ Try(op, o).of = o
         /\ Must(op, o) \in PrivStep /\ Must(op, o).op = op /\ Must(op, o).of = o
BY DEF Try, Must, PrivStep

(* Lists of steps with one, two or three of them. *)
LEMMA Blocks ==
  /\ \A x \in PrivStep : <<x>> \in Seq(PrivStep) \ {<<>>}
  /\ \A x, y \in PrivStep : <<x, y>> \in Seq(PrivStep) \ {<<>>}
  /\ \A x, y, z \in PrivStep : <<x, y, z>> \in Seq(PrivStep) \ {<<>>}
<1>1. ASSUME NEW x \in PrivStep PROVE <<x>> \in Seq(PrivStep) /\ <<x>> # <<>>
  OBVIOUS
<1>2. ASSUME NEW x \in PrivStep, NEW y \in PrivStep
      PROVE <<x, y>> \in Seq(PrivStep) /\ <<x, y>> # <<>>
  OBVIOUS
<1>3. ASSUME NEW x \in PrivStep, NEW y \in PrivStep, NEW z \in PrivStep
      PROVE <<x, y, z>> \in Seq(PrivStep) /\ <<x, y, z>> # <<>>
  OBVIOUS
<1> QED BY <1>1, <1>2, <1>3

(* A script of one step. *)
LEMMA OneStepScript ==
  ASSUME NEW x \in PrivStep
  PROVE  <<<<x>>>> \in Script /\ Within(<<<<x>>>>) = {x}
<1> DEFINE b == <<x>>
<1>1. b \in Seq(PrivStep) \ {<<>>} /\ Range(b) = {x}
  BY Blocks, RangeOfFew
<1> HIDE DEF b
<1>2. <<b>> \in Script
  BY <1>1 DEF Script
<1>3. Within(<<b>>) = {x}
  BY <1>1, WithinOne
<1> QED BY <1>2, <1>3 DEF b

(* One script after another. *)
LEMMA ScriptsAdd ==
  ASSUME NEW s \in Script, NEW t \in Script
  PROVE  s \o t \in Script /\ Within(s \o t) = Within(s) \cup Within(t)
<1> DEFINE B == Seq(PrivStep) \ {<<>>}
<1>1. s \in Seq(B) /\ t \in Seq(B)
  BY DEF Script
<1> HIDE DEF B
<1>2. s \o t \in Seq(B) /\ Within(s \o t) = Within(s) \cup Within(t)
  BY <1>1, WithinConcat
<1> QED BY <1>2 DEF Script, B

(* A script that goes through disks. *)
LEMMA DisksInTurn ==
  ASSUME NEW ds \in SUBSET Disk, NEW steps, DOMAIN steps = ds,
         \A d \in ds : steps[d] \in Seq(PrivStep) \ {<<>>}
  PROVE  /\ InTurn(steps) \in Script
         /\ Within(InTurn(steps)) = UNION {Range(steps[d]) : d \in ds}
<1> DEFINE B == Seq(PrivStep) \ {<<>>}
<1>1. IsFiniteSet(DOMAIN steps)
  BY DiskAssumption, FS_Subset
<1>2. \A d \in DOMAIN steps : steps[d] \in B
  OBVIOUS
<1> HIDE DEF B
<1>3. InTurn(steps) \in Seq(B) /\ Within(InTurn(steps)) = UNION {Range(steps[d]) : d \in ds}
  BY <1>1, <1>2, WithinInTurn
<1> QED BY <1>3 DEF Script, B

(* A repair only deletes, and only what it was asked to. *)
LEMMA RepairWithin ==
  ASSUME NEW os \in SUBSET Disk
  PROVE  /\ RepairSteps(os) \in Script
         /\ \A s \in Within(RepairSteps(os)) :
              \/ s.of = Foreign /\ s.op = "start"
              \/ s.of \in os /\ s.op \in {"logout", "untarget", "unback"}
<1>1. CASE os = {}
  <2>1. RepairSteps(os) = <<>>
    BY <1>1 DEF RepairSteps
  <2>2. <<>> \in Script /\ Within(<<>>) = {}
    BY DEF Script, Within
  <2> QED BY <2>1, <2>2
<1>2. CASE os # {}
  <2> DEFINE block(o) == IF tgt[o] = "lun"
                         THEN <<Try("logout", o), Try("untarget", o), Must("unback", o)>>
                         ELSE <<Must("unback", o)>>
             steps == [o \in os |-> block(o)]
             first == <<<<Must("start", Foreign)>>>>
  <2>1. RepairSteps(os) = first \o InTurn(steps)
    BY <1>2 DEF RepairSteps
  <2>2. ASSUME NEW o \in os
        PROVE  /\ block(o) \in Seq(PrivStep) \ {<<>>}
               /\ \A s \in Range(block(o)) :
                    s.of = o /\ s.op \in {"logout", "untarget", "unback"}
    <3>1. /\ Try("logout", o) \in PrivStep /\ Try("untarget", o) \in PrivStep
          /\ Must("unback", o) \in PrivStep
          /\ \A s \in {Try("logout", o), Try("untarget", o), Must("unback", o)} :
               s.of = o /\ s.op \in {"logout", "untarget", "unback"}
      BY StepsAreSteps DEF Ops, Object
    <3>2. CASE tgt[o] = "lun"
      <4>1. block(o) = <<Try("logout", o), Try("untarget", o), Must("unback", o)>>
        BY <3>2
      <4> QED BY <3>1, <4>1, Blocks, RangeOfFew
    <3>3. CASE tgt[o] # "lun"
      <4>1. block(o) = <<Must("unback", o)>>
        BY <3>3
      <4> QED BY <3>1, <4>1, Blocks, RangeOfFew
    <3> QED BY <3>2, <3>3
  <2> HIDE DEF block
  <2>3. DOMAIN steps = os /\ \A o \in os : steps[o] = block(o)
    OBVIOUS
  <2> HIDE DEF steps
  <2>4. /\ InTurn(steps) \in Script
        /\ Within(InTurn(steps)) = UNION {Range(steps[o]) : o \in os}
    BY <2>2, <2>3, DisksInTurn
  <2>5. Must("start", Foreign) \in PrivStep /\ Must("start", Foreign).op = "start"
        /\ Must("start", Foreign).of = Foreign
    BY StepsAreSteps DEF Ops, Object
  <2>6. first \in Script /\ Within(first) = {Must("start", Foreign)}
    BY <2>5, OneStepScript
  <2> HIDE DEF first
  <2>7. /\ first \o InTurn(steps) \in Script
        /\ Within(first \o InTurn(steps)) = Within(first) \cup Within(InTurn(steps))
    BY <2>4, <2>6, ScriptsAdd
  <2>8. \A s \in Within(InTurn(steps)) : \E o \in os : s \in Range(block(o))
    BY <2>3, <2>4
  <2> QED BY <2>1, <2>2, <2>5, <2>6, <2>7, <2>8
<1> QED BY <1>1, <1>2

(* A setup only makes disks it was asked for, and logs in. *)
LEMMA SetupWithin ==
  ASSUME NEW ds \in SUBSET Disk
  PROVE  /\ SetupSteps(ds) \in Script
         /\ \A s \in Within(SetupSteps(ds)) :
              \/ s.of = Foreign /\ s.op \in {"start", "login"}
              \/ s.of \in ds /\ s.op \in {"back", "target", "lun", "rescan"}
<1> DEFINE creates(d) == <<Try("back", d), Try("target", d), Try("lun", d)>>
           rescan(d) == <<Try("rescan", d)>>
           first == <<<<Must("start", Foreign)>>>>
           then == InTurn([d \in ds |-> creates(d)])
           login == <<<<Must("login", Foreign)>>>>
           last == InTurn([d \in ds |-> rescan(d)])
<1>1. SetupSteps(ds) = ((first \o then) \o login) \o last
  BY DEF SetupSteps
<1>2. ASSUME NEW d \in ds
      PROVE  /\ creates(d) \in Seq(PrivStep) \ {<<>>} /\ rescan(d) \in Seq(PrivStep) \ {<<>>}
             /\ \A s \in Range(creates(d)) \cup Range(rescan(d)) :
                  s.of = d /\ s.op \in {"back", "target", "lun", "rescan"}
  <2>1. /\ Try("back", d) \in PrivStep /\ Try("target", d) \in PrivStep
        /\ Try("lun", d) \in PrivStep /\ Try("rescan", d) \in PrivStep
        /\ \A s \in {Try("back", d), Try("target", d), Try("lun", d), Try("rescan", d)} :
             s.of = d /\ s.op \in {"back", "target", "lun", "rescan"}
    BY StepsAreSteps DEF Ops, Object
  <2> QED BY <2>1, Blocks, RangeOfFew
<1> HIDE DEF creates, rescan
<1>3. then \in Script /\ \A s \in Within(then) : \E d \in ds : s \in Range(creates(d))
  <2> DEFINE steps == [d \in ds |-> creates(d)]
  <2>1. DOMAIN steps = ds /\ \A d \in ds : steps[d] = creates(d)
    OBVIOUS
  <2> HIDE DEF steps
  <2>2. /\ InTurn(steps) \in Script
        /\ Within(InTurn(steps)) = UNION {Range(steps[o]) : o \in ds}
    <3>1. \A o \in ds : steps[o] \in Seq(PrivStep) \ {<<>>}
      BY <1>2, <2>1
    <3> QED BY <2>1, <3>1, DisksInTurn
  <2>3. \A s \in Within(InTurn(steps)) : \E d \in ds : s \in Range(creates(d))
    BY <2>1, <2>2
  <2> QED BY <2>2, <2>3 DEF steps
<1>4. last \in Script /\ \A s \in Within(last) : \E d \in ds : s \in Range(rescan(d))
  <2> DEFINE steps == [d \in ds |-> rescan(d)]
  <2>1. DOMAIN steps = ds /\ \A d \in ds : steps[d] = rescan(d)
    OBVIOUS
  <2> HIDE DEF steps
  <2>2. /\ InTurn(steps) \in Script
        /\ Within(InTurn(steps)) = UNION {Range(steps[o]) : o \in ds}
    <3>1. \A o \in ds : steps[o] \in Seq(PrivStep) \ {<<>>}
      BY <1>2, <2>1
    <3> QED BY <2>1, <3>1, DisksInTurn
  <2>3. \A s \in Within(InTurn(steps)) : \E d \in ds : s \in Range(rescan(d))
    BY <2>1, <2>2
  <2> QED BY <2>2, <2>3 DEF steps
<1>5. /\ Must("start", Foreign) \in PrivStep /\ Must("login", Foreign) \in PrivStep
      /\ \A s \in {Must("start", Foreign), Must("login", Foreign)} :
           s.of = Foreign /\ s.op \in {"start", "login"}
  BY StepsAreSteps DEF Ops, Object
<1>6. /\ first \in Script /\ Within(first) = {Must("start", Foreign)}
      /\ login \in Script /\ Within(login) = {Must("login", Foreign)}
  BY <1>5, OneStepScript
<1> HIDE DEF first, then, login, last
<1>7. first \o then \in Script /\ Within(first \o then) = Within(first) \cup Within(then)
  BY <1>3, <1>6, ScriptsAdd
<1>8. /\ (first \o then) \o login \in Script
      /\ Within((first \o then) \o login) = Within(first \o then) \cup Within(login)
  BY <1>6, <1>7, ScriptsAdd
<1>9. /\ ((first \o then) \o login) \o last \in Script
      /\ Within(((first \o then) \o login) \o last)
           = Within((first \o then) \o login) \cup Within(last)
  BY <1>4, <1>8, ScriptsAdd
<1>10. Within(SetupSteps(ds)) = Within(first) \cup Within(then) \cup Within(login) \cup Within(last)
  BY <1>1, <1>7, <1>8, <1>9
<1>11. SetupSteps(ds) \in Script
  BY <1>1, <1>9
<1>12. ASSUME NEW s \in Within(SetupSteps(ds))
       PROVE  \/ s.of = Foreign /\ s.op \in {"start", "login"}
              \/ s.of \in ds /\ s.op \in {"back", "target", "lun", "rescan"}
  <2>1. CASE s \in Within(then) \cup Within(last)
    BY <1>2, <1>3, <1>4, <2>1
  <2>2. CASE s \in Within(first) \cup Within(login)
    BY <1>5, <1>6, <2>2
  <2> QED BY <1>10, <2>1, <2>2
<1> QED BY <1>11, <1>12

(* A teardown only deletes, and deletes all it was asked to. *)
LEMMA TeardownWithin ==
  ASSUME NEW ds \in SUBSET Disk
  PROVE  /\ TeardownSteps(ds) \in Script
         /\ \A s \in Within(TeardownSteps(ds)) :
              \/ s.of = Foreign /\ s.op = "save"
              \/ s.of \in ds /\ s.op \in {"logout", "untarget", "unback"}
         /\ \A d \in ds : /\ Due(TeardownSteps(ds), "untarget", d)
                          /\ Due(TeardownSteps(ds), "unback", d)
<1> DEFINE logout(d) == <<Try("logout", d)>>
           deletes(d) == <<Try("untarget", d), Try("unback", d)>>
           first == InTurn([d \in ds |-> logout(d)])
           then == InTurn([d \in ds |-> deletes(d)])
           save == <<<<Must("save", Foreign)>>>>
<1>1. TeardownSteps(ds) = (first \o then) \o save
  BY DEF TeardownSteps
<1>2. ASSUME NEW d \in ds
      PROVE  /\ logout(d) \in Seq(PrivStep) \ {<<>>} /\ deletes(d) \in Seq(PrivStep) \ {<<>>}
             /\ \A s \in Range(logout(d)) \cup Range(deletes(d)) :
                  s.of = d /\ s.op \in {"logout", "untarget", "unback"}
             /\ \E s \in Range(deletes(d)) : s.op = "untarget" /\ s.of = d
             /\ \E s \in Range(deletes(d)) : s.op = "unback" /\ s.of = d
  <2>1. /\ Try("logout", d) \in PrivStep
        /\ Try("untarget", d) \in PrivStep /\ Try("unback", d) \in PrivStep
        /\ Try("logout", d).of = d /\ Try("untarget", d).of = d /\ Try("unback", d).of = d
        /\ Try("logout", d).op = "logout" /\ Try("untarget", d).op = "untarget"
        /\ Try("unback", d).op = "unback"
    BY StepsAreSteps DEF Ops, Object
  <2>2. /\ Range(logout(d)) = {Try("logout", d)}
        /\ Range(deletes(d)) = {Try("untarget", d), Try("unback", d)}
    BY RangeOfFew
  <2> QED BY <2>1, <2>2, Blocks
<1> HIDE DEF logout, deletes
<1>3. first \in Script /\ \A s \in Within(first) : \E d \in ds : s \in Range(logout(d))
  <2> DEFINE steps == [d \in ds |-> logout(d)]
  <2>1. DOMAIN steps = ds /\ \A d \in ds : steps[d] = logout(d)
    OBVIOUS
  <2> HIDE DEF steps
  <2>2. /\ InTurn(steps) \in Script
        /\ Within(InTurn(steps)) = UNION {Range(steps[o]) : o \in ds}
    <3>1. \A o \in ds : steps[o] \in Seq(PrivStep) \ {<<>>}
      BY <1>2, <2>1
    <3> QED BY <2>1, <3>1, DisksInTurn
  <2>3. \A s \in Within(InTurn(steps)) : \E d \in ds : s \in Range(logout(d))
    BY <2>1, <2>2
  <2> QED BY <2>2, <2>3 DEF steps
<1>4. /\ then \in Script /\ \A s \in Within(then) : \E d \in ds : s \in Range(deletes(d))
      /\ \A d \in ds : Range(deletes(d)) \subseteq Within(then)
  <2> DEFINE steps == [d \in ds |-> deletes(d)]
  <2>1. DOMAIN steps = ds /\ \A d \in ds : steps[d] = deletes(d)
    OBVIOUS
  <2> HIDE DEF steps
  <2>2. /\ InTurn(steps) \in Script
        /\ Within(InTurn(steps)) = UNION {Range(steps[o]) : o \in ds}
    <3>1. \A o \in ds : steps[o] \in Seq(PrivStep) \ {<<>>}
      BY <1>2, <2>1
    <3> QED BY <2>1, <3>1, DisksInTurn
  <2>3. /\ \A s \in Within(InTurn(steps)) : \E d \in ds : s \in Range(deletes(d))
        /\ \A d \in ds : Range(deletes(d)) \subseteq Within(InTurn(steps))
    BY <2>1, <2>2
  <2> QED BY <2>2, <2>3 DEF steps
<1>5. /\ Must("save", Foreign) \in PrivStep /\ Must("save", Foreign).of = Foreign
      /\ Must("save", Foreign).op = "save"
  BY StepsAreSteps DEF Ops, Object
<1>6. save \in Script /\ Within(save) = {Must("save", Foreign)}
  BY <1>5, OneStepScript
<1> HIDE DEF first, then, save
<1>7. first \o then \in Script /\ Within(first \o then) = Within(first) \cup Within(then)
  BY <1>3, <1>4, ScriptsAdd
<1>8. /\ (first \o then) \o save \in Script
      /\ Within((first \o then) \o save) = Within(first \o then) \cup Within(save)
  BY <1>6, <1>7, ScriptsAdd
<1>9. Within(TeardownSteps(ds)) = Within(first) \cup Within(then) \cup Within(save)
  BY <1>1, <1>7, <1>8
<1>10. \A d \in ds : /\ Due(TeardownSteps(ds), "untarget", d)
                     /\ Due(TeardownSteps(ds), "unback", d)
  BY <1>2, <1>4, <1>9 DEF Due
<1>11. TeardownSteps(ds) \in Script
  BY <1>1, <1>8
<1>12. ASSUME NEW s \in Within(TeardownSteps(ds))
       PROVE  \/ s.of = Foreign /\ s.op = "save"
              \/ s.of \in ds /\ s.op \in {"logout", "untarget", "unback"}
  <2>1. CASE s \in Within(first) \cup Within(then)
    BY <1>2, <1>3, <1>4, <2>1
  <2>2. CASE s \in Within(save)
    BY <1>5, <1>6, <2>2
  <2> QED BY <1>9, <2>1, <2>2
<1> QED BY <1>10, <1>11, <1>12

-----------------------------------------------------------------------------
(* What the steps do. *)

(* Whose a disk is. *)
LEMMA DiskFacts ==
  /\ \A c \in Cluster : DisksOf(c) \subseteq Disk
  /\ \A c \in Cluster : \A d \in DisksOf(c) : d[1] = c
  /\ \A d \in Disk : d[1] \in Cluster /\ d \in DisksOf(d[1])
  /\ \A c \in Cluster : \A n \in 0 .. Most[c] : Grid(c, n) \subseteq DisksOf(c)
  /\ Disk \subseteq Object /\ Foreign \in Object
<1>1. \A c \in Cluster : Most[c] \in Nat
  BY ClusterAssumption
<1> QED BY <1>1 DEF DisksOf, Disk, Grid, Object

(* What a teardown does not name is not there, as far as it could see. *)
LEMMA NamedFacts ==
  ASSUME NEW c \in Cluster, NEW n \in 0 .. Most[c], NEW b \in BOOLEAN
  PROVE  /\ Named(c, n, b) \subseteq DisksOf(c)
         /\ \A d \in DisksOf(c) \ Named(c, n, b) :
              d \notin img /\ (~b => obj[d] = "none" /\ tgt[d] = "none")
BY DiskFacts DEF Named

(* The record of no run, and its empty script. *)
LEMMA NoRunFacts ==
  /\ NoRun \in Run /\ NoRun.cmd = "setup" /\ NoRun.disks = {} /\ NoRun.todo = <<>>
  /\ NoRun.again = <<>> /\ <<>> \in Script /\ Within(<<>>) = {}
<1>1. <<>> \in Script /\ Within(<<>>) = {}
  BY DEF Script, Within
<1> QED BY <1>1 DEF NoRun, Run

(* The record of a run, and no other, is what it is set to. *)
LEMMA Settles ==
  ASSUME TypeOK, NEW c \in Cluster, NEW r \in Run, Settle(c, r)
  PROVE  run' \in [Cluster -> Run] /\ run'[c] = r /\ \A e \in Cluster \ {c} : run'[e] = run[e]
BY DEF TypeOK, Settle

(* So is where a run is. *)
LEMMA Goes ==
  ASSUME TypeOK, NEW c \in Cluster, NEW s \in PC, Goto(c, s)
  PROVE  pc' \in [Cluster -> PC] /\ pc'[c] = s /\ \A e \in Cluster \ {c} : pc'[e] = pc[e]
BY DEF TypeOK, Goto

(* The record r with the script of its run. *)
LEMMA Begins ==
  ASSUME TypeOK, NEW c \in Cluster, NEW r \in Run, NEW script \in Script, Begin(c, r, script)
  PROVE  /\ run' \in [Cluster -> Run] /\ \A e \in Cluster \ {c} : run'[e] = run[e]
         /\ pc' \in [Cluster -> PC] /\ pc'[c] = "script"
         /\ \A e \in Cluster \ {c} : pc'[e] = pc[e]
         /\ run'[c].cmd = r.cmd /\ run'[c].disks = r.disks /\ run'[c].blind = r.blind
         /\ run'[c].delete = r.delete /\ run'[c].warned = r.warned
         /\ run'[c].todo = script /\ run'[c].again \in {script, <<>>}
<1>1. PICK again \in {script, <<>>} :
        Settle(c, [r EXCEPT !.todo = script, !.again = again])
  BY DEF Begin
<1> DEFINE new == [r EXCEPT !.todo = script, !.again = again]
<1>2. /\ new \in Run /\ new.cmd = r.cmd /\ new.disks = r.disks /\ new.blind = r.blind
      /\ new.delete = r.delete /\ new.warned = r.warned /\ new.todo = script
      /\ new.again = again
  BY NoRunFacts DEF Run
<1> HIDE DEF new
<1>3. run' \in [Cluster -> Run] /\ run'[c] = new /\ \A e \in Cluster \ {c} : run'[e] = run[e]
  BY <1>1, <1>2, Settles DEF new
<1>4. pc' \in [Cluster -> PC] /\ pc'[c] = "script" /\ \A e \in Cluster \ {c} : pc'[e] = pc[e]
  BY Goes DEF Begin, PC
<1> QED BY <1>2, <1>3, <1>4

(* The record of a run. *)
LEMMA RunOf ==
  ASSUME TypeOK, NEW c \in Cluster
  PROVE  /\ run[c] \in Run /\ run[c].todo \in Script /\ run[c].again \in Script
         /\ run[c].warned \in SUBSET Object /\ run[c].disks \in SUBSET Disk
         /\ run[c].blind \in BOOLEAN /\ run[c].delete \in BOOLEAN
         /\ run[c].cmd \in {"setup", "teardown"}
BY DEF TypeOK, Run

(* What a run that goes on in its script does to its record: the first step is
   done with; or the script is begun again, or the run has failed. *)
LEMMA Advances ==
  ASSUME TypeOK, NEW c \in Cluster, InScript(c), NEW ws \in SUBSET Object, Advance(c, ws)
  PROVE  /\ Current(c) \in PrivStep
         /\ run' \in [Cluster -> Run] /\ \A e \in Cluster \ {c} : run'[e] = run[e]
         /\ run'[c].cmd = run[c].cmd /\ run'[c].disks = run[c].disks
         /\ run'[c].blind = run[c].blind /\ run'[c].delete = run[c].delete
         /\ run'[c].again = run[c].again /\ run'[c].warned = run[c].warned \cup ws
         /\ Within(run[c].todo) = {Current(c)} \cup Within(run'[c].todo)
<1> DEFINE new == [run[c] EXCEPT !.todo = Rest(@), !.warned = @ \cup ws]
<1>1. /\ Current(c) \in PrivStep /\ Rest(run[c].todo) \in Script
      /\ Within(run[c].todo) = {Current(c)} \cup Within(Rest(run[c].todo))
  BY RunOf, WithinRest DEF InScript, Current
<1>2. /\ new \in Run /\ new.todo = Rest(run[c].todo) /\ new.warned = run[c].warned \cup ws
      /\ new.cmd = run[c].cmd /\ new.disks = run[c].disks /\ new.blind = run[c].blind
      /\ new.delete = run[c].delete /\ new.again = run[c].again
  BY <1>1, RunOf DEF Run
<1> HIDE DEF new
<1>3. run' \in [Cluster -> Run] /\ run'[c] = new /\ \A e \in Cluster \ {c} : run'[e] = run[e]
  BY <1>2, Settles DEF Advance, new
<1> QED BY <1>1, <1>2, <1>3

(* The same of a step that does not work. *)
LEMMA Falters ==
  ASSUME TypeOK, NEW c \in Cluster, InScript(c), Falter(c)
  PROVE  /\ Current(c) \in PrivStep
         /\ run' \in [Cluster -> Run] /\ \A e \in Cluster \ {c} : run'[e] = run[e]
         /\ pc' \in [Cluster -> PC] /\ \A e \in Cluster \ {c} : pc'[e] = pc[e]
         /\ run'[c].cmd = run[c].cmd /\ run'[c].disks = run[c].disks
         /\ run'[c].blind = run[c].blind /\ run'[c].delete = run[c].delete
         /\ \/ /\ pc'[c] = pc[c] /\ run'[c].again = run[c].again
               /\ Within(run[c].todo) = {Current(c)} \cup Within(run'[c].todo)
               /\ run'[c].warned = run[c].warned \cup
                    (IF Current(c).op \in {"untarget", "unback"} THEN {Current(c).of} ELSE {})
            \/ /\ pc'[c] = pc[c] /\ run[c].again # <<>>
               /\ run'[c].todo = run[c].again /\ run'[c].again = <<>>
            \/ pc'[c] = "failed" /\ run'[c] = run[c]
<1> DEFINE ws == IF Current(c).op \in {"untarget", "unback"} THEN {Current(c).of} ELSE {}
           new == [run[c] EXCEPT !.todo = run[c].again, !.again = <<>>, !.warned = {}]
<1>1. Current(c) \in PrivStep
  BY RunOf, WithinRest DEF InScript, Current
<1>2. ws \in SUBSET Object
  BY <1>1 DEF PrivStep
<1>3. pc \in [Cluster -> PC] /\ run \in [Cluster -> Run]
  BY DEF TypeOK
<1>4. CASE ~Current(c).fatal
  <2>1. Advance(c, ws) /\ pc' = pc
    BY <1>4 DEF Falter
  <2> HIDE DEF ws
  <2>2. /\ run' \in [Cluster -> Run] /\ \A e \in Cluster \ {c} : run'[e] = run[e]
        /\ run'[c].cmd = run[c].cmd /\ run'[c].disks = run[c].disks
        /\ run'[c].blind = run[c].blind /\ run'[c].delete = run[c].delete
        /\ run'[c].again = run[c].again /\ run'[c].warned = run[c].warned \cup ws
        /\ Within(run[c].todo) = {Current(c)} \cup Within(run'[c].todo)
    BY <1>2, <2>1, Advances
  <2> QED BY <1>1, <1>3, <2>1, <2>2 DEF ws
<1>5. CASE Current(c).fatal /\ run[c].again # <<>>
  <2>1. Settle(c, new) /\ pc' = pc
    BY <1>5 DEF Falter
  <2>2. /\ new \in Run /\ new.todo = run[c].again /\ new.again = <<>>
        /\ new.cmd = run[c].cmd /\ new.disks = run[c].disks /\ new.blind = run[c].blind
        /\ new.delete = run[c].delete
    BY RunOf, NoRunFacts DEF Run
  <2> HIDE DEF new
  <2>3. run' \in [Cluster -> Run] /\ run'[c] = new /\ \A e \in Cluster \ {c} : run'[e] = run[e]
    BY <2>1, <2>2, Settles
  <2> QED BY <1>1, <1>3, <1>5, <2>1, <2>2, <2>3
<1>6. CASE Current(c).fatal /\ run[c].again = <<>>
  <2>1. Goto(c, "failed") /\ run' = run
    BY <1>6 DEF Falter
  <2>2. pc' \in [Cluster -> PC] /\ pc'[c] = "failed" /\ \A e \in Cluster \ {c} : pc'[e] = pc[e]
    BY <2>1, Goes DEF PC
  <2> QED BY <1>1, <1>3, <2>1, <2>2
<1> QED BY <1>4, <1>5, <1>6

(* A setup makes its images, and of its disks those nothing is left of are new. *)
LEMMA StartSetupMoves ==
  ASSUME TypeOK, NEW c \in Cluster, StartSetup(c)
  PROVE  /\ run' \in [Cluster -> Run] /\ \A e \in Cluster \ {c} : run'[e] = run[e]
         /\ pc' \in [Cluster -> PC] /\ \A e \in Cluster \ {c} : pc'[e] = pc[e]
         /\ pc'[c] = "look" /\ run'[c].cmd = "setup" /\ run'[c].disks \subseteq DisksOf(c)
         /\ run'[c].todo = <<>> /\ run'[c].again = <<>>
         /\ \E ds \in SUBSET DisksOf(c) : img' = img \cup ds
         /\ spoiled' = {d \in spoiled : ~Fresh(c, d)}
         /\ UNCHANGED <<place, obj, tgt, ses, iscsid, faults>>
<1>1. PICK n \in 1 .. Most[c] :
        /\ Settle(c, [NoRun EXCEPT !.disks = Grid(c, n)])
        /\ img' = img \cup Grid(c, n)
  BY DEF StartSetup
<1> DEFINE new == [NoRun EXCEPT !.disks = Grid(c, n)]
<1>2. Most[c] \in Nat /\ Grid(c, n) \subseteq DisksOf(c) /\ DisksOf(c) \subseteq Disk
  BY ClusterAssumption, DiskFacts
<1>3. /\ new \in Run /\ new.cmd = "setup" /\ new.disks = Grid(c, n) /\ new.todo = <<>>
      /\ new.again = <<>>
  BY <1>2, NoRunFacts DEF Run
<1> HIDE DEF new
<1>4. run' \in [Cluster -> Run] /\ run'[c] = new /\ \A e \in Cluster \ {c} : run'[e] = run[e]
  BY <1>1, <1>3, Settles DEF new
<1>5. pc' \in [Cluster -> PC] /\ pc'[c] = "look" /\ \A e \in Cluster \ {c} : pc'[e] = pc[e]
  BY Goes DEF StartSetup, PC
<1>6. \E ds \in SUBSET DisksOf(c) : img' = img \cup ds
  BY <1>1, <1>2
<1>7. /\ spoiled' = {d \in spoiled : ~Fresh(c, d)}
      /\ UNCHANGED <<place, obj, tgt, ses, iscsid, faults>>
  BY DEF StartSetup
<1> QED BY <1>2, <1>3, <1>4, <1>5, <1>6, <1>7

(* A setup that has looked at the kernel has a script that spares the others. *)
LEMMA PlanMoves ==
  ASSUME TypeOK, DisksAreKnown, NamesItsOwn, NEW c \in Cluster, Plan(c)
  PROVE  /\ run' \in [Cluster -> Run] /\ \A e \in Cluster \ {c} : run'[e] = run[e]
         /\ pc' \in [Cluster -> PC] /\ \A e \in Cluster \ {c} : pc'[e] = pc[e]
         /\ pc[c] = "look" /\ pc'[c] = "script"
         /\ run'[c].cmd = run[c].cmd /\ run'[c].disks = run[c].disks
         /\ \A s \in Within(run'[c].todo) \cup Within(run'[c].again) : Spares(c, s)
         /\ UNCHANGED <<place, kernel, iscsid, spoiled>>
<1> DEFINE r == run[c]
           os == {o \in Orphans(c) : Owned(o)}
           Fine(script) == /\ script \in Script
                           /\ \A s \in Within(script) : Spares(c, s)
<1>1. r \in Run /\ r.disks \in SUBSET Disk /\ r.disks \subseteq DisksOf(c)
  BY RunOf DEF NamesItsOwn
<1>2. os \in SUBSET Disk /\ \A o \in os : o \in spoiled
  <2>1. ASSUME NEW o \in os PROVE o \in Disk /\ obj[o] # "none" /\ o \notin img
    BY DEF Orphans, Owned, MissingTo
  <2>2. ASSUME NEW o \in os PROVE obj[o] = "stale"
    BY <2>1, DiskFacts DEF TypeOK
  <2> QED BY <2>1, <2>2 DEF DisksAreKnown
<1>3. Fine(SetupSteps(r.disks))
  <2>1. \A s \in Within(SetupSteps(r.disks)) :
          \/ s.of = Foreign /\ s.op \in {"start", "login"}
          \/ s.of \in DisksOf(c)
    BY <1>1, SetupWithin
  <2>2. \A s \in Within(SetupSteps(r.disks)) : Spares(c, s)
    BY <2>1, DiskFacts, ForeignAssumption DEF Spares
  <2> QED BY <1>1, <2>2, SetupWithin
<1>4. Fine(RepairSteps(os))
  <2>1. \A s \in Within(RepairSteps(os)) :
          \/ s.of = Foreign /\ s.op = "start"
          \/ s.of \in os /\ s.op \in {"logout", "untarget", "unback"}
    BY <1>2, RepairWithin
  <2>2. \A s \in Within(RepairSteps(os)) : Spares(c, s)
    BY <1>2, <2>1, ForeignAssumption DEF Spares
  <2> QED BY <1>2, <2>2, RepairWithin
<1> HIDE DEF os
<1>5. Fine(RepairSteps(os) \o SetupSteps(r.disks))
  BY <1>3, <1>4, ScriptsAdd
<1>6. \E script : Fine(script) /\ Begin(c, r, script)
  BY <1>3, <1>5 DEF Plan, os
<1>7. PICK script : Fine(script) /\ Begin(c, r, script)
  BY <1>6
<1>8. pc[c] = "look" /\ UNCHANGED <<place, kernel, iscsid, spoiled>>
  BY DEF Plan, At
<1>9. Within(<<>>) = {}
  BY NoRunFacts
<1> HIDE DEF r
<1>10. /\ run' \in [Cluster -> Run] /\ \A e \in Cluster \ {c} : run'[e] = run[e]
       /\ pc' \in [Cluster -> PC] /\ pc'[c] = "script"
       /\ \A e \in Cluster \ {c} : pc'[e] = pc[e]
       /\ run'[c].cmd = r.cmd /\ run'[c].disks = r.disks
       /\ run'[c].todo = script /\ run'[c].again \in {script, <<>>}
  BY <1>1, <1>7, Begins
<1> QED BY <1>7, <1>8, <1>9, <1>10 DEF r

(* A teardown names what is there, and its script deletes it. *)
LEMMA StartTeardownMoves ==
  ASSUME TypeOK, NEW c \in Cluster, StartTeardown(c)
  PROVE  /\ run' \in [Cluster -> Run] /\ \A e \in Cluster \ {c} : run'[e] = run[e]
         /\ pc' \in [Cluster -> PC] /\ \A e \in Cluster \ {c} : pc'[e] = pc[e]
         /\ UNCHANGED <<place, kernel, iscsid, spoiled>>
         /\ run'[c].cmd = "teardown" /\ run'[c].disks \subseteq DisksOf(c)
         /\ \A s \in Within(run'[c].todo) \cup Within(run'[c].again) :
              \/ s.of = Foreign /\ s.op = "save"
              \/ s.of \in DisksOf(c) /\ s.op \in {"logout", "untarget", "unback"}
         /\ \A d \in DisksOf(c) \ run'[c].disks :
              d \notin img /\ (~run'[c].blind => obj[d] = "none" /\ tgt[d] = "none")
         /\ \A d \in run'[c].disks :
              /\ Due(run'[c].todo, "untarget", d) /\ Due(run'[c].todo, "unback", d)
              /\ run'[c].again # <<>> =>
                   Due(run'[c].again, "untarget", d) /\ Due(run'[c].again, "unback", d)
         /\ \/ pc'[c] = "script"
            \/ pc'[c] = "done" /\ run'[c].todo = <<>> /\ run'[c].disks = {}
<1>1. PICK n \in 0 .. Most[c], b \in BOOLEAN, del \in BOOLEAN :
        LET ds == Named(c, n, b)
            r == [NoRun EXCEPT !.cmd = "teardown", !.disks = ds, !.delete = del, !.blind = b]
        IN  IF ds = {} THEN Settle(c, r) /\ Goto(c, "done")
                       ELSE Begin(c, r, TeardownSteps(ds))
  BY DEF StartTeardown
<1> DEFINE ds == Named(c, n, b)
           r == [NoRun EXCEPT !.cmd = "teardown", !.disks = ds, !.delete = del, !.blind = b]
<1>2. /\ ds \subseteq DisksOf(c) /\ ds \in SUBSET Disk
      /\ \A d \in DisksOf(c) \ ds : d \notin img /\ (~b => obj[d] = "none" /\ tgt[d] = "none")
  BY NamedFacts, DiskFacts
<1>3. IF ds = {} THEN Settle(c, r) /\ Goto(c, "done") ELSE Begin(c, r, TeardownSteps(ds))
  BY <1>1
<1> HIDE DEF ds
<1>4. /\ r \in Run /\ r.cmd = "teardown" /\ r.disks = ds /\ r.delete = del /\ r.blind = b
      /\ r.todo = <<>> /\ r.again = <<>>
  BY <1>2, NoRunFacts DEF Run
<1> HIDE DEF r
<1>5. UNCHANGED <<place, kernel, iscsid, spoiled>> /\ Within(<<>>) = {}
  BY NoRunFacts DEF StartTeardown
<1>6. CASE ds = {}
  <2>1. run' \in [Cluster -> Run] /\ run'[c] = r /\ \A e \in Cluster \ {c} : run'[e] = run[e]
    BY <1>3, <1>4, <1>6, Settles
  <2>2. pc' \in [Cluster -> PC] /\ pc'[c] = "done" /\ \A e \in Cluster \ {c} : pc'[e] = pc[e]
    BY <1>3, <1>6, Goes DEF PC
  <2> QED BY <1>2, <1>4, <1>5, <1>6, <2>1, <2>2
<1>7. CASE ds # {}
  <2> DEFINE script == TeardownSteps(ds)
  <2>1. /\ script \in Script
        /\ \A s \in Within(script) :
             \/ s.of = Foreign /\ s.op = "save"
             \/ s.of \in ds /\ s.op \in {"logout", "untarget", "unback"}
        /\ \A d \in ds : Due(script, "untarget", d) /\ Due(script, "unback", d)
    BY <1>2, TeardownWithin
  <2>2. Begin(c, r, script)
    BY <1>3, <1>7
  <2> HIDE DEF script
  <2>3. /\ run' \in [Cluster -> Run] /\ \A e \in Cluster \ {c} : run'[e] = run[e]
        /\ pc' \in [Cluster -> PC] /\ pc'[c] = "script"
        /\ \A e \in Cluster \ {c} : pc'[e] = pc[e]
        /\ run'[c].cmd = r.cmd /\ run'[c].disks = r.disks /\ run'[c].blind = r.blind
        /\ run'[c].todo = script /\ run'[c].again \in {script, <<>>}
    BY <1>4, <2>1, <2>2, Begins
  <2>4. \A s \in Within(run'[c].todo) \cup Within(run'[c].again) :
          \/ s.of = Foreign /\ s.op = "save"
          \/ s.of \in DisksOf(c) /\ s.op \in {"logout", "untarget", "unback"}
    BY <1>2, <1>5, <2>1, <2>3
  <2>5. \A d \in ds :
          /\ Due(run'[c].todo, "untarget", d) /\ Due(run'[c].todo, "unback", d)
          /\ run'[c].again # <<>> =>
               Due(run'[c].again, "untarget", d) /\ Due(run'[c].again, "unback", d)
    BY <2>1, <2>3
  <2> QED BY <1>2, <1>4, <1>5, <2>3, <2>4, <2>5
<1> QED BY <1>6, <1>7

(* A run that only moves on, or ends. *)
LEMMA MovesOnly ==
  ASSUME TypeOK, NEW c \in Cluster,
         Skip(c) \/ Refuse(c) \/ Wait(c) \/ Finish(c) \/ Crash(c) \/ EndTeardown(c)
  PROVE  /\ run' \in [Cluster -> Run] /\ \A e \in Cluster \ {c} : run'[e] = run[e]
         /\ pc' \in [Cluster -> PC] /\ \A e \in Cluster \ {c} : pc'[e] = pc[e]
         /\ \/ run' = run
            \/ run'[c] = NoRun /\ pc'[c] = "idle"
         /\ pc'[c] # "look"
         /\ pc'[c] = "done" => (Wait(c) /\ Present(run[c].disks)) \/ EndTeardown(c)
         /\ UNCHANGED <<kernel, spoiled>> \/ EndTeardown(c)
<1>1. run \in [Cluster -> Run]
  BY DEF TypeOK
<1>2. CASE Skip(c)
  <2>1. pc' \in [Cluster -> PC] /\ pc'[c] = "script" /\ \A e \in Cluster \ {c} : pc'[e] = pc[e]
    BY <1>2, Goes DEF Skip, PC
  <2>2. run' = run /\ UNCHANGED <<kernel, spoiled>>
    BY <1>2 DEF Skip
  <2> QED BY <1>1, <2>1, <2>2
<1>3. CASE Refuse(c)
  <2>1. pc' \in [Cluster -> PC] /\ pc'[c] = "failed" /\ \A e \in Cluster \ {c} : pc'[e] = pc[e]
    BY <1>3, Goes DEF Refuse, PC
  <2>2. run' = run /\ UNCHANGED <<kernel, spoiled>>
    BY <1>3 DEF Refuse
  <2> QED BY <1>1, <2>1, <2>2
<1>4. CASE Wait(c)
  <2> DEFINE s == IF Present(run[c].disks) THEN "done" ELSE "failed"
  <2>1. Goto(c, s) /\ s \in PC
    BY <1>4 DEF Wait, PC
  <2> HIDE DEF s
  <2>2. pc' \in [Cluster -> PC] /\ pc'[c] = s /\ \A e \in Cluster \ {c} : pc'[e] = pc[e]
    BY <2>1, Goes
  <2>3. run' = run /\ UNCHANGED <<kernel, spoiled>>
    BY <1>4 DEF Wait
  <2> QED BY <1>1, <1>4, <2>2, <2>3 DEF s
<1>5. CASE Finish(c) \/ Crash(c)
  <2>1. Goto(c, "idle") /\ Settle(c, NoRun) /\ UNCHANGED <<kernel, spoiled>>
    BY <1>5 DEF Finish, Crash, End
  <2>2. pc' \in [Cluster -> PC] /\ pc'[c] = "idle" /\ \A e \in Cluster \ {c} : pc'[e] = pc[e]
    BY <2>1, Goes DEF PC
  <2>3. run' \in [Cluster -> Run] /\ run'[c] = NoRun /\ \A e \in Cluster \ {c} : run'[e] = run[e]
    BY <2>1, Settles, NoRunFacts
  <2> QED BY <2>1, <2>2, <2>3
<1>6. CASE EndTeardown(c)
  <2>1. pc' \in [Cluster -> PC] /\ pc'[c] = "done" /\ \A e \in Cluster \ {c} : pc'[e] = pc[e]
    BY <1>6, Goes DEF EndTeardown, PC
  <2>2. run' = run
    BY <1>6 DEF EndTeardown
  <2> QED BY <1>1, <1>6, <2>1, <2>2
<1> QED BY <1>2, <1>3, <1>4, <1>5, <1>6

(* What a command changes. *)
LEMMA SessionFacts ==
  ASSUME NEW s \in PrivStep, NEW d \in Disk, ses \in [Disk -> {"none", "empty", "live", "dead"}]
  PROVE  /\ SessionAfter(s, d) \in {"none", "empty", "live", "dead"}
         /\ d # s.of /\ ses[d] = "live" => SessionAfter(s, d) = "live"
         /\ s.op \in {"start", "save", "login"} /\ ses[d] = "live" => SessionAfter(s, d) = "live"
         /\ SessionAfter(s, d) = "live" =>
              \/ ses[d] = "live" /\ ~(d = s.of /\ s.op \in {"logout", "untarget"})
              \/ d = s.of /\ s.op = "lun"
              \/ s.op \in {"login", "rescan"} /\ tgt[d] = "lun"
BY DEF SessionAfter, PrivStep, Ops

(* The host after a command. *)
LEMMA ApplyMoves ==
  ASSUME TypeOK, NEW s \in PrivStep, Works(s), Apply(s)
  PROVE  /\ img' = (IF s.op = "back" THEN img \cup {s.of} ELSE img)
         /\ obj' \in [Object -> {"none", "image", "stale"}]
         /\ tgt' \in [Object -> {"none", "bare", "lun"}]
         /\ ses' \in [Disk -> {"none", "empty", "live", "dead"}]
         /\ iscsid' \in BOOLEAN /\ spoiled' \in SUBSET Disk
         /\ \A o \in Object \ {s.of} : obj'[o] = obj[o] /\ tgt'[o] = tgt[o]
         /\ obj'[s.of] = (IF s.op = "back" THEN "image"
                          ELSE IF s.op = "unback" THEN "none" ELSE obj[s.of])
         /\ tgt'[s.of] = (IF s.op = "target" THEN "bare" ELSE IF s.op = "lun" THEN "lun"
                          ELSE IF s.op = "untarget" THEN "none" ELSE tgt[s.of])
         /\ \A d \in Disk : ses'[d] = SessionAfter(s, d)
         /\ spoiled' = spoiled \cup {d \in Disk : ses'[d] = "dead"}
<1>1. /\ s.of \in Object /\ s.op \in Ops
      /\ obj \in [Object -> {"none", "image", "stale"}]
      /\ tgt \in [Object -> {"none", "bare", "lun"}]
      /\ ses \in [Disk -> {"none", "empty", "live", "dead"}]
      /\ iscsid \in BOOLEAN /\ spoiled \in SUBSET Disk
  BY DEF TypeOK, PrivStep
<1>2. /\ img' = (IF s.op = "back" THEN img \cup {s.of} ELSE img)
      /\ iscsid' = (iscsid \/ s.op = "start")
      /\ spoiled' = spoiled \cup {d \in Disk : ses'[d] = "dead"}
      /\ ses' = [d \in Disk |-> SessionAfter(s, d)]
  BY DEF Apply
<1>3. /\ s.op = "back" => obj' = [obj EXCEPT ![s.of] = "image"]
      /\ s.op = "unback" => obj' = [obj EXCEPT ![s.of] = "none"]
      /\ s.op \notin {"back", "unback"} => obj' = obj
  BY DEF Apply
<1>4. /\ s.op = "target" => tgt' = [tgt EXCEPT ![s.of] = "bare"]
      /\ s.op = "lun" => tgt' = [tgt EXCEPT ![s.of] = "lun"]
      /\ s.op = "untarget" => tgt' = [tgt EXCEPT ![s.of] = "none"]
      /\ s.op \notin {"target", "lun", "untarget"} => tgt' = tgt
  BY DEF Apply
<1>5. /\ obj' \in [Object -> {"none", "image", "stale"}]
      /\ \A o \in Object \ {s.of} : obj'[o] = obj[o]
      /\ obj'[s.of] = (IF s.op = "back" THEN "image"
                       ELSE IF s.op = "unback" THEN "none" ELSE obj[s.of])
  <2>1. CASE s.op = "back"
    BY <1>1, <1>3, <2>1
  <2>2. CASE s.op = "unback"
    BY <1>1, <1>3, <2>2
  <2> QED BY <1>1, <1>3, <2>1, <2>2
<1>6. /\ tgt' \in [Object -> {"none", "bare", "lun"}]
      /\ \A o \in Object \ {s.of} : tgt'[o] = tgt[o]
      /\ tgt'[s.of] = (IF s.op = "target" THEN "bare" ELSE IF s.op = "lun" THEN "lun"
                       ELSE IF s.op = "untarget" THEN "none" ELSE tgt[s.of])
  <2>1. CASE s.op = "target"
    BY <1>1, <1>4, <2>1
  <2>2. CASE s.op = "lun"
    BY <1>1, <1>4, <2>2
  <2>3. CASE s.op = "untarget"
    BY <1>1, <1>4, <2>3
  <2> QED BY <1>1, <1>4, <2>1, <2>2, <2>3
<1>7. ses' \in [Disk -> {"none", "empty", "live", "dead"}]
      /\ \A d \in Disk : ses'[d] = SessionAfter(s, d)
  BY <1>1, <1>2, SessionFacts
<1>8. iscsid' \in BOOLEAN
  BY <1>1, <1>2
<1>9. spoiled' \in SUBSET Disk
  BY <1>1, <1>2
<1> QED BY <1>2, <1>5, <1>6, <1>7, <1>8, <1>9

(* The host after images were deleted. *)
LEMMA UnlinkMoves ==
  ASSUME TypeOK, NEW os \in SUBSET Object, Unlink(os)
  PROVE  /\ img' = img \ os /\ UNCHANGED <<tgt, ses>>
         /\ obj' \in [Object -> {"none", "image", "stale"}] /\ spoiled' \in SUBSET Disk
         /\ \A o \in Object : obj'[o] = IF o \in os /\ obj[o] = "image" THEN "stale" ELSE obj[o]
         /\ spoiled' = spoiled \cup {d \in Disk \cap os : obj[d] # "none"}
BY DEF TypeOK, Unlink

(* Every step is one of these: nothing on the host changes, a setup makes images,
   a command is run, a teardown ends, images are deleted, or the foreign one is
   back. *)
LEMMA HostMoves ==
  ASSUME TypeOK, NEW c \in Cluster, RunStep(c)
  PROVE  \/ UNCHANGED <<kernel, spoiled>>
         \/ StartSetup(c)
         \/ /\ InScript(c) /\ Works(Current(c)) /\ Apply(Current(c)) /\ Advance(c, {})
            /\ pc' = pc /\ Current(c) \in PrivStep
         \/ EndTeardown(c) /\ Unlink(run[c].disks) /\ run[c].delete
<1>1. CASE Step(c)
  <2>1. Current(c) \in PrivStep
    BY <1>1, RunOf, WithinRest DEF Step, InScript, Current
  <2> QED BY <1>1, <2>1 DEF Step
<1>2. CASE Skip(c) \/ Refuse(c) \/ Wait(c) \/ Finish(c) \/ Crash(c)
  BY <1>2 DEF Skip, Refuse, Wait, Finish, Crash
<1>3. CASE Plan(c) \/ StartTeardown(c) \/ StepFails(c)
  BY <1>3 DEF Plan, StartTeardown, StepFails
<1>4. CASE EndTeardown(c)
  BY <1>4 DEF EndTeardown
<1> QED BY <1>1, <1>2, <1>3, <1>4 DEF RunStep, SettingUp

(* The run of another cluster is where it was. *)
LEMMA OthersStay ==
  ASSUME TypeOK, DisksAreKnown, NamesItsOwn, NEW c \in Cluster, RunStep(c)
  PROVE  /\ run' \in [Cluster -> Run] /\ \A e \in Cluster \ {c} : run'[e] = run[e]
         /\ pc' \in [Cluster -> PC] /\ \A e \in Cluster \ {c} : pc'[e] = pc[e]
<1>1. run \in [Cluster -> Run] /\ pc \in [Cluster -> PC]
  BY DEF TypeOK
<1>2. CASE Step(c) /\ Works(Current(c))
  <2>1. InScript(c) /\ Advance(c, {}) /\ pc' = pc
    BY <1>2 DEF Step
  <2> QED BY <1>1, <2>1, Advances
<1>3. CASE (Step(c) /\ ~Works(Current(c))) \/ StepFails(c)
  <2>1. InScript(c) /\ Falter(c)
    BY <1>3 DEF Step, StepFails
  <2> QED BY <2>1, Falters
<1> QED
  BY <1>2, <1>3, StartSetupMoves, PlanMoves, StartTeardownMoves, MovesOnly
     DEF RunStep, SettingUp

(* What goes on around the runs. *)
LEMMA AroundMoves ==
  ASSUME TypeOK, RemoveFiles \/ StopIscsid \/ Restore
  PROVE  /\ UNCHANGED <<pc, run, tgt, ses>>
         /\ \/ UNCHANGED <<img, obj, spoiled>>
            \/ \E os \in SUBSET Object : Unlink(os)
            \/ img' = img \cup {Foreign} /\ UNCHANGED <<obj, spoiled>>
<1>1. ASSUME RemoveFiles
      PROVE  UNCHANGED <<pc, run, tgt, ses>> /\ \E os \in SUBSET Object : Unlink(os)
  <2>1. PICK os \in {DisksOf(c) : c \in Cluster} \cup {{Foreign}} : Unlink(os)
    BY <1>1 DEF RemoveFiles
  <2>2. os \in SUBSET Object
    BY DiskFacts
  <2> QED BY <1>1, <2>1, <2>2 DEF RemoveFiles, Unlink
<1>2. CASE StopIscsid \/ Restore
  BY <1>2 DEF StopIscsid, Restore, kernel
<1> QED BY <1>1, <1>2

-----------------------------------------------------------------------------
(* The host. *)

(* The part of TypeOK that is about the host. *)
HostOK ==
  /\ img \in SUBSET Object
  /\ obj \in [Object -> {"none", "image", "stale"}]
  /\ tgt \in [Object -> {"none", "bare", "lun"}]
  /\ ses \in [Disk -> {"none", "empty", "live", "dead"}]
  /\ spoiled \in SUBSET Disk
  /\ \A o \in Object : tgt[o] = "lun" => obj[o] # "none"
  /\ \A o \in Object : obj[o] = "image" => o \in img

(* A command keeps what is known of the host: only the backstore's own deletion
   takes an object away, and that is refused under a LUN. *)
LEMMA ApplyKeeps ==
  ASSUME TypeOK, DisksAreKnown, NEW s \in PrivStep, Works(s), Apply(s)
  PROVE  HostOK' /\ DisksAreKnown' /\ spoiled \subseteq spoiled'
<1>1. /\ s.of \in Object /\ s.op \in Ops /\ img \in SUBSET Object
      /\ obj \in [Object -> {"none", "image", "stale"}]
      /\ tgt \in [Object -> {"none", "bare", "lun"}]
      /\ ses \in [Disk -> {"none", "empty", "live", "dead"}]
      /\ \A o \in Object : tgt[o] = "lun" => obj[o] # "none"
      /\ \A o \in Object : obj[o] = "image" => o \in img
  BY DEF TypeOK, PrivStep
<1>2. /\ s.op = "unback" => tgt[s.of] # "lun"
      /\ s.op = "lun" => obj[s.of] # "none"
      /\ s.op = "target" => tgt[s.of] = "none"
  BY DEF Works
<1>3. img' \in SUBSET Object /\ img \subseteq img'
  BY <1>1, ApplyMoves
<1>4. ASSUME NEW o \in Object, tgt'[o] = "lun" PROVE obj'[o] # "none"
  <2>1. CASE o = s.of
    <3>1. s.op # "unback"
      BY <1>1, <1>2, <1>4, <2>1, ApplyMoves
    <3> QED BY <1>1, <1>2, <1>4, <2>1, <3>1, ApplyMoves
  <2>2. CASE o # s.of
    BY <1>1, <1>4, <2>2, ApplyMoves
  <2> QED BY <2>1, <2>2
<1>5. ASSUME NEW o \in Object, obj'[o] = "image" PROVE o \in img'
  <2>1. CASE o = s.of
    BY <1>1, <1>3, <1>5, <2>1, ApplyMoves
  <2>2. CASE o # s.of
    BY <1>1, <1>3, <1>5, <2>2, ApplyMoves
  <2> QED BY <2>1, <2>2
<1>6. HostOK'
  BY <1>3, <1>4, <1>5, ApplyMoves DEF HostOK
<1>7. ASSUME NEW d \in Disk
      PROVE  /\ ses'[d] = "live" => tgt'[d] = "lun"
             /\ ses'[d] = "dead" \/ obj'[d] = "stale" => d \in spoiled'
  <2>1. d \in Object
    BY DiskFacts
  <2>2. ASSUME ses'[d] = "live" PROVE tgt'[d] = "lun"
    <3>1. SessionAfter(s, d) = "live"
      BY <2>2, ApplyMoves
    <3>2. CASE ses[d] = "live" /\ ~(d = s.of /\ s.op \in {"logout", "untarget"})
      <4>1. tgt[d] = "lun"
        BY <3>2 DEF DisksAreKnown
      <4> QED BY <1>2, <2>1, <3>2, <4>1, ApplyMoves
    <3>3. CASE d = s.of /\ s.op = "lun"
      BY <3>3, ApplyMoves
    <3>4. CASE s.op \in {"login", "rescan"} /\ tgt[d] = "lun"
      BY <2>1, <3>4, ApplyMoves
    <3> QED BY <1>1, <3>1, <3>2, <3>3, <3>4, SessionFacts
  <2>3. ses'[d] = "dead" => d \in spoiled'
    BY ApplyMoves
  <2>4. ASSUME obj'[d] = "stale" PROVE d \in spoiled'
    <3>1. obj[d] = "stale"
      <4>1. CASE d = s.of
        BY <2>4, <4>1, ApplyMoves
      <4>2. CASE d # s.of
        BY <2>1, <2>4, <4>2, ApplyMoves
      <4> QED BY <4>1, <4>2
    <3> QED BY <3>1, ApplyMoves DEF DisksAreKnown
  <2> QED BY <2>2, <2>3, <2>4
<1>8. spoiled \subseteq spoiled'
  BY ApplyMoves
<1> QED BY <1>6, <1>7, <1>8 DEF DisksAreKnown

(* So does the deletion of images: who had one is stale, and known to be. *)
LEMMA UnlinkKeeps ==
  ASSUME TypeOK, DisksAreKnown, NEW os \in SUBSET Object, Unlink(os)
  PROVE  HostOK' /\ DisksAreKnown' /\ spoiled \subseteq spoiled'
<1>1. /\ img \in SUBSET Object /\ Disk \subseteq Object
      /\ obj \in [Object -> {"none", "image", "stale"}]
      /\ tgt \in [Object -> {"none", "bare", "lun"}]
      /\ ses \in [Disk -> {"none", "empty", "live", "dead"}]
      /\ \A o \in Object : tgt[o] = "lun" => obj[o] # "none"
      /\ \A o \in Object : obj[o] = "image" => o \in img
  BY DiskFacts DEF TypeOK
<1>2. /\ img' = img \ os /\ tgt' = tgt /\ ses' = ses
      /\ obj' \in [Object -> {"none", "image", "stale"}] /\ spoiled' \in SUBSET Disk
      /\ \A o \in Object : obj'[o] = IF o \in os /\ obj[o] = "image" THEN "stale" ELSE obj[o]
      /\ spoiled' = spoiled \cup {d \in Disk \cap os : obj[d] # "none"}
  BY UnlinkMoves
<1>3. HostOK'
  BY <1>1, <1>2 DEF HostOK
<1>4. DisksAreKnown'
  BY <1>1, <1>2 DEF DisksAreKnown
<1> QED BY <1>2, <1>3, <1>4

(* So does a setup that begins: of what it takes for new there is nothing. *)
LEMMA StartSetupKeeps ==
  ASSUME TypeOK, DisksAreKnown, NEW c \in Cluster, StartSetup(c)
  PROVE  HostOK' /\ DisksAreKnown'
<1>1. PICK ds \in SUBSET DisksOf(c) : img' = img \cup ds
  BY StartSetupMoves
<1>2. /\ spoiled' = {d \in spoiled : ~Fresh(c, d)} /\ UNCHANGED <<obj, tgt, ses>>
  BY StartSetupMoves
<1>3. HostOK'
  BY <1>1, <1>2, DiskFacts DEF TypeOK, HostOK
<1>4. DisksAreKnown'
  BY <1>2 DEF DisksAreKnown, Fresh
<1> QED BY <1>3, <1>4

(* So does every step. *)
LEMMA HostStays ==
  ASSUME TypeOK, DisksAreKnown, NamesItsOwn, Next
  PROVE  HostOK' /\ DisksAreKnown'
<1>1. HostOK
  BY DEF TypeOK, HostOK
<1>2. ASSUME UNCHANGED <<img, obj, tgt, ses, spoiled>> PROVE HostOK' /\ DisksAreKnown'
  BY <1>1, <1>2 DEF HostOK, DisksAreKnown
<1>3. ASSUME NEW c \in Cluster, RunStep(c) PROVE HostOK' /\ DisksAreKnown'
  <2>1. CASE UNCHANGED <<kernel, spoiled>>
    BY <1>2, <2>1 DEF kernel
  <2>2. CASE StartSetup(c)
    BY <2>2, StartSetupKeeps
  <2>3. CASE Works(Current(c)) /\ Apply(Current(c)) /\ Current(c) \in PrivStep
    BY <2>3, ApplyKeeps
  <2>4. CASE Unlink(run[c].disks)
    <3>1. run[c].disks \in SUBSET Object
      BY RunOf, DiskFacts
    <3> QED BY <2>4, <3>1, UnlinkKeeps
  <2> QED BY <1>3, <2>1, <2>2, <2>3, <2>4, HostMoves
<1>4. ASSUME RemoveFiles \/ StopIscsid \/ Restore PROVE HostOK' /\ DisksAreKnown'
  <2>1. UNCHANGED <<tgt, ses>>
    BY <1>4, AroundMoves
  <2>2. CASE UNCHANGED <<img, obj, spoiled>>
    BY <1>2, <2>1, <2>2
  <2>3. CASE \E os \in SUBSET Object : Unlink(os)
    BY <2>3, UnlinkKeeps
  <2>4. CASE img' = img \cup {Foreign} /\ UNCHANGED <<obj, spoiled>>
    <3>1. HostOK'
      BY <1>1, <2>1, <2>4, DiskFacts DEF HostOK
    <3> QED BY <2>1, <2>4, <3>1 DEF DisksAreKnown
  <2> QED BY <1>4, <2>2, <2>3, <2>4, AroundMoves
<1> QED BY <1>3, <1>4 DEF Next

(* Places never change, and faults are counted. *)
LEMMA TheRest ==
  ASSUME TypeOK, Next
  PROVE  place' = place /\ faults' \in 0 .. MaxFaults /\ iscsid' \in BOOLEAN
<1>1. faults \in 0 .. MaxFaults /\ MaxFaults \in Nat /\ iscsid \in BOOLEAN
  BY FaultsAssumption DEF TypeOK
<1>2. ASSUME NEW f, Fault(f) PROVE faults' \in 0 .. MaxFaults
  BY <1>1, <1>2 DEF Fault
<1>3. ASSUME NEW c \in Cluster, Step(c)
      PROVE  place' = place /\ faults' = faults /\ iscsid' \in BOOLEAN
  <2>1. CASE Works(Current(c))
    <3>1. iscsid' = (iscsid \/ Current(c).op = "start")
      BY <1>3, <2>1 DEF Step, Apply
    <3> QED BY <1>3, <3>1 DEF Step
  <2>2. CASE ~Works(Current(c))
    BY <1>1, <1>3, <2>2 DEF Step
  <2> QED BY <2>1, <2>2
<1>4. ASSUME NEW c \in Cluster, RunStep(c), ~Step(c)
      PROVE  place' = place /\ iscsid' = iscsid /\ (faults' = faults \/ \E f : Fault(f))
  <2>1. CASE StartSetup(c) \/ Skip(c) \/ Refuse(c) \/ Wait(c) \/ Finish(c) \/ EndTeardown(c)
    BY <2>1 DEF StartSetup, Skip, Refuse, Wait, Finish, EndTeardown
  <2>2. CASE Plan(c) \/ StepFails(c) \/ Crash(c)
    BY <2>2 DEF Plan, StepFails, Crash
  <2>3. CASE StartTeardown(c)
    BY <2>3 DEF StartTeardown
  <2> QED BY <1>4, <2>1, <2>2, <2>3 DEF RunStep, SettingUp
<1>5. CASE RemoveFiles \/ StopIscsid \/ Restore
  <2>1. place' = place /\ iscsid' \in BOOLEAN /\ (faults' = faults \/ \E f : Fault(f))
    BY <1>1, <1>5 DEF RemoveFiles, StopIscsid, Restore
  <2> QED BY <1>1, <1>2, <2>1
<1> QED BY <1>1, <1>2, <1>3, <1>4, <1>5 DEF Next

(* Every step keeps the types. *)
LEMMA TypeStep ==
  ASSUME TypeOK, DisksAreKnown, NamesItsOwn, Next
  PROVE  TypeOK'
<1>1. place \in [Cluster -> Place] /\ run \in [Cluster -> Run] /\ pc \in [Cluster -> PC]
  BY DEF TypeOK
<1>2. run' \in [Cluster -> Run] /\ pc' \in [Cluster -> PC]
  <2>1. CASE \E c \in Cluster : RunStep(c)
    BY <2>1, OthersStay
  <2>2. CASE RemoveFiles \/ StopIscsid \/ Restore
    BY <1>1, <2>2, AroundMoves
  <2> QED BY <2>1, <2>2 DEF Next
<1>3. HostOK' /\ place' = place /\ faults' \in 0 .. MaxFaults /\ iscsid' \in BOOLEAN
  BY HostStays, TheRest
<1> QED BY <1>1, <1>2, <1>3 DEF TypeOK, HostOK

-----------------------------------------------------------------------------
(* The clusters leave each other alone. *)

(* What was once without its image is so until its own setup finds nothing of it. *)
LEMMA SpoiledGrows ==
  ASSUME TypeOK, DisksAreKnown, NEW c \in Cluster, RunStep(c)
  PROVE  \A d \in spoiled \ spoiled' : StartSetup(c) /\ Fresh(c, d)
<1>1. CASE UNCHANGED <<kernel, spoiled>>
  BY <1>1
<1>2. CASE StartSetup(c)
  <2>1. spoiled' = {d \in spoiled : ~Fresh(c, d)}
    BY <1>2, StartSetupMoves
  <2> QED BY <1>2, <2>1
<1>3. CASE Works(Current(c)) /\ Apply(Current(c)) /\ Current(c) \in PrivStep
  BY <1>3, ApplyKeeps
<1>4. CASE Unlink(run[c].disks)
  <2>1. run[c].disks \in SUBSET Object
    BY RunOf, DiskFacts
  <2> QED BY <1>4, <2>1, UnlinkKeeps
<1> QED BY <1>1, <1>2, <1>3, <1>4, HostMoves

(* Of an object that is not c's and has not lost its image, a run of c leaves
   everything in the kernel as it is. *)
LEMMA HealthyStay ==
  ASSUME TypeOK, DisksAreKnown, ScriptsSpare, NamesItsOwn, NEW c \in Cluster, RunStep(c),
         NEW o \in Object, o \in Disk => o[1] # c /\ o \notin spoiled'
  PROVE  /\ obj'[o] = obj[o] /\ tgt'[o] = tgt[o]
         /\ o \in Disk /\ ses[o] = "live" => ses'[o] = "live"
<1>1. o \in Disk => o \notin spoiled
  BY SpoiledGrows DEF Fresh
<1>2. CASE UNCHANGED <<kernel, spoiled>>
  BY <1>2 DEF kernel
<1>3. CASE StartSetup(c)
  BY <1>3, StartSetupMoves
<1>4. CASE InScript(c) /\ Works(Current(c)) /\ Apply(Current(c)) /\ Advance(c, {})
  <2> DEFINE s == Current(c)
  <2>1. s \in PrivStep /\ s \in Within(run[c].todo)
    BY <1>4, Advances
  <2>2. Spares(c, s)
    BY <2>1 DEF ScriptsSpare
  <2>3. s.of = o => o = Foreign /\ s.op \in {"start", "save", "login"}
    BY <1>1, <2>2 DEF Spares, Object
  <2>4. ses \in [Disk -> {"none", "empty", "live", "dead"}]
    BY DEF TypeOK
  <2>5. Works(s) /\ Apply(s)
    BY <1>4
  <2> HIDE DEF s
  <2>6. obj'[o] = obj[o] /\ tgt'[o] = tgt[o]
    <3>1. CASE s.of = o
      BY <2>1, <2>3, <2>5, <3>1, ApplyMoves
    <3>2. CASE s.of # o
      BY <2>1, <2>5, <3>2, ApplyMoves
    <3> QED BY <3>1, <3>2
  <2>7. ASSUME o \in Disk, ses[o] = "live" PROVE ses'[o] = "live"
    <3>1. o # s.of
      BY <2>3, <2>7, ForeignAssumption
    <3> QED BY <2>1, <2>4, <2>5, <2>7, <3>1, ApplyMoves, SessionFacts
  <2> QED BY <2>6, <2>7
<1>5. CASE Unlink(run[c].disks)
  <2>1. run[c].disks \in SUBSET Object /\ o \notin run[c].disks
    BY RunOf, DiskFacts DEF NamesItsOwn
  <2> QED BY <1>5, <2>1, UnlinkMoves
<1> QED BY <1>2, <1>3, <1>4, <1>5, HostMoves

(* Nothing of the disk d is made. *)
NotMade(d) ==
  /\ d \notin img => d \notin img'
  /\ obj[d] = "none" => obj'[d] = "none"
  /\ tgt[d] = "none" => tgt'[d] = "none"

(* A command makes nothing but what it is for. *)
LEMMA CommandMakesNot ==
  ASSUME TypeOK, NEW s \in PrivStep, Works(s), Apply(s), NEW d \in Disk,
         d = s.of => s.op \notin {"back", "target", "lun"}
  PROVE  NotMade(d)
<1>1. d \in Object
  BY DiskFacts
<1>2. CASE d = s.of
  BY <1>1, <1>2, ApplyMoves DEF NotMade
<1>3. CASE d # s.of
  BY <1>1, <1>3, ApplyMoves DEF NotMade
<1> QED BY <1>2, <1>3

(* Deleting images makes nothing. *)
LEMMA UnlinkMakesNot ==
  ASSUME TypeOK, NEW os \in SUBSET Object, Unlink(os), NEW d \in Disk
  PROVE  NotMade(d)
<1>1. d \in Object
  BY DiskFacts
<1> QED BY <1>1, UnlinkMoves DEF NotMade

(* Of another cluster's disks a run of c makes nothing. *)
LEMMA OthersNotMade ==
  ASSUME TypeOK, DisksAreKnown, ScriptsSpare, NamesItsOwn, NEW c \in Cluster, RunStep(c),
         NEW d \in Disk, d[1] # c
  PROVE  NotMade(d)
<1>1. CASE UNCHANGED <<kernel, spoiled>>
  BY <1>1 DEF kernel, NotMade
<1>2. CASE StartSetup(c)
  <2>1. PICK ds \in SUBSET DisksOf(c) : img' = img \cup ds
    BY <1>2, StartSetupMoves
  <2>2. d \notin ds
    BY DiskFacts
  <2> QED BY <1>2, <2>1, <2>2, StartSetupMoves DEF NotMade
<1>3. CASE InScript(c) /\ Works(Current(c)) /\ Apply(Current(c)) /\ Advance(c, {})
  <2>1. Current(c) \in PrivStep /\ Spares(c, Current(c))
    BY <1>3, Advances DEF ScriptsSpare
  <2>2. d = Current(c).of => Current(c).op \notin {"back", "target", "lun"}
    BY <2>1 DEF Spares
  <2> QED BY <1>3, <2>1, <2>2, CommandMakesNot
<1>4. CASE Unlink(run[c].disks)
  <2>1. run[c].disks \in SUBSET Object
    BY RunOf, DiskFacts
  <2> QED BY <1>4, <2>1, UnlinkMakesNot
<1> QED BY <1>1, <1>2, <1>3, <1>4, HostMoves

(* Nor does what goes on around the runs. *)
LEMMA AroundMakesNot ==
  ASSUME TypeOK, RemoveFiles \/ StopIscsid \/ Restore, NEW d \in Disk
  PROVE  NotMade(d)
<1>1. UNCHANGED tgt
  BY AroundMoves
<1>2. CASE UNCHANGED <<img, obj, spoiled>>
  BY <1>1, <1>2 DEF NotMade
<1>3. CASE \E os \in SUBSET Object : Unlink(os)
  BY <1>3, UnlinkMakesNot
<1>4. CASE img' = img \cup {Foreign} /\ UNCHANGED <<obj, spoiled>>
  BY <1>1, <1>4, ForeignAssumption DEF NotMade
<1> QED BY <1>2, <1>3, <1>4, AroundMoves

(* And it mends nothing. *)
LEMMA AroundSpoils ==
  ASSUME TypeOK, DisksAreKnown, RemoveFiles \/ StopIscsid \/ Restore
  PROVE  spoiled \subseteq spoiled'
BY AroundMoves, UnlinkKeeps

-----------------------------------------------------------------------------
(* The run that acts. *)

(* A run goes on in its script, successfully or not, or begins one, or only moves
   on. *)
Continues(c) ==
  /\ InScript(c)
  /\ \/ Advance(c, {}) /\ pc' = pc
     \/ Falter(c)

(* The steps of a run, by what they do to its script. *)
LEMMA RunSteps ==
  ASSUME NEW c \in Cluster, RunStep(c)
  PROVE  \/ StartSetup(c) \/ Plan(c) \/ StartTeardown(c)
         \/ Continues(c)
         \/ Skip(c) \/ Refuse(c) \/ Wait(c) \/ Finish(c) \/ Crash(c) \/ EndTeardown(c)
<1>1. Step(c) \/ StepFails(c) => Continues(c)
  BY DEF Step, StepFails, Continues
<1> QED BY <1>1 DEF RunStep, SettingUp

(* A run that goes on has no steps it did not have. *)
LEMMA GoesOn ==
  ASSUME TypeOK, NEW c \in Cluster, Continues(c)
  PROVE  /\ Within(run'[c].todo) \cup Within(run'[c].again)
              \subseteq Within(run[c].todo) \cup Within(run[c].again)
         /\ run'[c].cmd = run[c].cmd /\ run'[c].disks = run[c].disks
         /\ pc'[c] \in {"script", "failed"}
<1>1. pc[c] = "script" /\ Within(<<>>) = {}
  BY NoRunFacts DEF Continues, InScript, At
<1>2. CASE InScript(c) /\ Advance(c, {}) /\ pc' = pc
  <2>1. /\ run'[c].cmd = run[c].cmd /\ run'[c].disks = run[c].disks
        /\ run'[c].again = run[c].again
        /\ Within(run[c].todo) = {Current(c)} \cup Within(run'[c].todo)
    BY <1>2, Advances
  <2> QED BY <1>1, <1>2, <2>1
<1>3. CASE InScript(c) /\ Falter(c)
  <2>1. run'[c].cmd = run[c].cmd /\ run'[c].disks = run[c].disks
    BY <1>3, Falters
  <2>2. \/ /\ pc'[c] = pc[c] /\ run'[c].again = run[c].again
           /\ Within(run[c].todo) = {Current(c)} \cup Within(run'[c].todo)
        \/ pc'[c] = pc[c] /\ run'[c].todo = run[c].again /\ run'[c].again = <<>>
        \/ pc'[c] = "failed" /\ run'[c] = run[c]
    BY <1>3, Falters
  <2> QED BY <1>1, <2>1, <2>2
<1> QED BY <1>2, <1>3 DEF Continues

(* Every step keeps the scripts from what is not theirs. *)
LEMMA ScriptsStep ==
  ASSUME TypeOK, DisksAreKnown, ScriptsSpare, NamesItsOwn, Next
  PROVE  ScriptsSpare'
<1> DEFINE Steps(e) == Within(run[e].todo) \cup Within(run[e].again)
<1>1. ASSUME NEW c \in Cluster, RunStep(c), NEW e \in Cluster \ {c}, NEW s \in Steps(e)'
      PROVE  Spares(e, s)'
  <2>1. s \in Steps(e) /\ Spares(e, s)
    <3>1. run'[e] = run[e]
      BY <1>1, OthersStay
    <3> QED BY <1>1, <3>1 DEF ScriptsSpare
  <2>2. ASSUME s.of \in spoiled PROVE s.of \in spoiled'
    <3>1. ~Fresh(c, s.of)
      BY <2>1 DEF Fresh
    <3> QED BY <1>1, <2>2, <3>1, SpoiledGrows
  <2> QED BY <2>1, <2>2 DEF Spares
<1>2. ASSUME NEW c \in Cluster, RunStep(c), NEW s \in Steps(c)'
      PROVE  Spares(c, s)'
  <2>1. CASE StartSetup(c)
    <3>1. Steps(c)' = {}
      BY <2>1, StartSetupMoves, NoRunFacts
    <3> QED BY <1>2, <3>1
  <2>2. CASE Plan(c)
    <3>1. Spares(c, s) /\ spoiled' = spoiled
      BY <1>2, <2>2, PlanMoves
    <3> QED BY <3>1 DEF Spares
  <2>3. CASE StartTeardown(c)
    <3>1. \/ s.of = Foreign /\ s.op = "save"
          \/ s.of \in DisksOf(c) /\ s.op \in {"logout", "untarget", "unback"}
      BY <1>2, <2>3, StartTeardownMoves
    <3> QED BY <3>1, DiskFacts, ForeignAssumption DEF Spares
  <2>4. ASSUME Steps(c)' \subseteq Steps(c), ~StartSetup(c) PROVE Spares(c, s)'
    <3>1. Spares(c, s)
      BY <1>2, <2>4 DEF ScriptsSpare
    <3>2. spoiled \subseteq spoiled'
      BY <1>2, <2>4, SpoiledGrows
    <3> QED BY <3>1, <3>2 DEF Spares
  <2>5. CASE Continues(c)
    <3>1. Steps(c)' \subseteq Steps(c)
      BY <2>5, GoesOn
    <3> QED BY <2>1, <2>4, <3>1
  <2>6. CASE Skip(c) \/ Refuse(c) \/ Wait(c) \/ Finish(c) \/ Crash(c) \/ EndTeardown(c)
    <3>1. run' = run \/ run'[c] = NoRun
      BY <2>6, MovesOnly
    <3>2. Steps(c)' \subseteq Steps(c)
      BY <3>1, NoRunFacts
    <3> QED BY <2>1, <2>4, <3>2
  <2> QED BY <1>2, <2>1, <2>2, <2>3, <2>5, <2>6, RunSteps
<1>3. ASSUME RemoveFiles \/ StopIscsid \/ Restore, NEW e \in Cluster, NEW s \in Steps(e)'
      PROVE  Spares(e, s)'
  <2>1. run' = run /\ spoiled \subseteq spoiled'
    BY <1>3, AroundMoves, AroundSpoils
  <2>2. Spares(e, s)
    BY <1>3, <2>1 DEF ScriptsSpare
  <2> QED BY <2>1, <2>2 DEF Spares
<1>4. \A e \in Cluster : \A s \in Steps(e)' : Spares(e, s)'
  BY <1>1, <1>2, <1>3 DEF Next
<1> QED BY <1>4 DEF ScriptsSpare

(* Every step keeps the runs to their own disks. *)
LEMMA NamesStep ==
  ASSUME TypeOK, DisksAreKnown, NamesItsOwn, Next
  PROVE  NamesItsOwn'
<1>1. ASSUME NEW c \in Cluster, RunStep(c) PROVE run'[c].disks \subseteq DisksOf(c)
  <2>1. run[c].disks \subseteq DisksOf(c)
    BY DEF NamesItsOwn
  <2>2. CASE StartSetup(c)
    BY <2>2, StartSetupMoves
  <2>3. CASE Plan(c)
    BY <2>1, <2>3, PlanMoves
  <2>4. CASE StartTeardown(c)
    BY <2>4, StartTeardownMoves
  <2>5. CASE Continues(c)
    BY <2>1, <2>5, GoesOn
  <2>6. CASE Skip(c) \/ Refuse(c) \/ Wait(c) \/ Finish(c) \/ Crash(c) \/ EndTeardown(c)
    <3>1. run' = run \/ run'[c] = NoRun
      BY <2>6, MovesOnly
    <3> QED BY <2>1, <3>1, NoRunFacts
  <2> QED BY <1>1, <2>2, <2>3, <2>4, <2>5, <2>6, RunSteps
<1>2. ASSUME NEW c \in Cluster, RunStep(c), NEW e \in Cluster \ {c}
      PROVE  run'[e].disks \subseteq DisksOf(e)
  BY <1>2, OthersStay DEF NamesItsOwn
<1>3. ASSUME RemoveFiles \/ StopIscsid \/ Restore PROVE run' = run
  BY <1>3, AroundMoves
<1>4. \A e \in Cluster : run'[e].disks \subseteq DisksOf(e)
  BY <1>1, <1>2, <1>3 DEF Next, NamesItsOwn
<1> QED BY <1>4 DEF NamesItsOwn, DisksOf

(* Every step leaves a setup that is done its devices. *)
LEMMA PresentStep ==
  ASSUME TypeOK, DisksAreKnown, ScriptsSpare, NamesItsOwn, DevicesArePresent, Next
  PROVE  DevicesArePresent'
<1> DEFINE P(e) == At(e, "done") /\ run[e].cmd = "setup" => Present(run[e].disks \ spoiled)
<1>1. \A e \in Cluster : run[e].disks \subseteq DisksOf(e) /\ run[e].disks \subseteq Disk
  BY DiskFacts DEF NamesItsOwn
<1>2. ASSUME NEW c \in Cluster, RunStep(c), NEW e \in Cluster \ {c} PROVE P(e)'
  <2> SUFFICES ASSUME At(e, "done")', run'[e].cmd = "setup",
                      NEW d \in run'[e].disks \ spoiled'
               PROVE  ses'[d] \in {"live", "dead"}
    BY DEF Present
  <2>1. run'[e] = run[e] /\ pc'[e] = pc[e]
    BY <1>2, OthersStay
  <2>2. d \in Disk /\ d[1] = e /\ d \in Object
    BY <1>1, <2>1, DiskFacts
  <2>3. d \notin spoiled
    BY <1>2, <2>2, SpoiledGrows DEF Fresh
  <2>4. ses[d] \in {"live", "dead"}
    BY <2>1, <2>3 DEF DevicesArePresent, Present, At
  <2>5. ses[d] = "live"
    BY <2>2, <2>3, <2>4 DEF DisksAreKnown
  <2> QED BY <1>2, <2>2, <2>5, HealthyStay
<1>3. ASSUME NEW c \in Cluster, RunStep(c) PROVE P(c)'
  <2> SUFFICES ASSUME pc'[c] = "done", run'[c].cmd = "setup"
               PROVE  Present(run[c].disks \ spoiled)'
    BY DEF At
  <2>1. ~StartSetup(c) /\ ~Plan(c) /\ ~StartTeardown(c) /\ ~Continues(c)
    BY StartSetupMoves, PlanMoves, StartTeardownMoves, GoesOn
  <2>2. Skip(c) \/ Refuse(c) \/ Wait(c) \/ Finish(c) \/ Crash(c) \/ EndTeardown(c)
    BY <1>3, <2>1, RunSteps
  <2>3. run' = run
    BY <2>2, MovesOnly
  <2>4. ~EndTeardown(c)
    BY <2>3 DEF EndTeardown, Through
  <2>5. Present(run[c].disks) /\ ses' = ses
    BY <2>2, <2>4, MovesOnly DEF kernel
  <2> QED BY <2>3, <2>5 DEF Present
<1>4. ASSUME RemoveFiles \/ StopIscsid \/ Restore, NEW e \in Cluster PROVE P(e)'
  <2>1. run' = run /\ pc' = pc /\ ses' = ses /\ spoiled \subseteq spoiled'
    BY <1>4, AroundMoves, AroundSpoils
  <2>2. P(e)
    BY DEF DevicesArePresent
  <2> QED BY <2>1, <2>2 DEF At, Present
<1>5. \A e \in Cluster : P(e)'
  BY <1>2, <1>3, <1>4 DEF Next
<1> QED BY <1>5 DEF DevicesArePresent

-----------------------------------------------------------------------------
(* Teardowns. *)

(* While a teardown's run does nothing and nothing of its disks is made, it stays
   whole. *)
LEMMA TearsDownStays ==
  ASSUME NEW e \in Cluster, TearsDown(e), run'[e] = run[e], run[e].disks \subseteq DisksOf(e),
         pc'[e] = pc[e] \/ pc'[e] \in {"script", "failed"},
         \A d \in DisksOf(e) : NotMade(d)
  PROVE  TearsDown(e)'
<1>1. pc'[e] # "look" /\ (pc'[e] = "done" => pc[e] = "done")
  BY DEF TearsDown, At
<1>2. \A d \in run[e].disks : IsDeleted(e, d) => IsDeleted(e, d)'
  BY DEF IsDeleted, NotMade, Due
<1>3. \A s \in Within(run[e].todo)' \cup Within(run[e].again)' :
        s.op \notin {"back", "target", "lun"}
  BY DEF TearsDown
<1>4. run'[e].again # <<>> => \A d \in run'[e].disks : Due(run[e].again, "untarget", d)'
                                                      /\ Due(run[e].again, "unback", d)'
  BY DEF TearsDown, Due
<1>5. \A d \in DisksOf(e)' \ run'[e].disks :
        d \notin img' /\ (~run'[e].blind => obj'[d] = "none" /\ tgt'[d] = "none")
  BY DEF TearsDown, NotMade, DisksOf
<1>6. ~run'[e].blind => \A d \in run'[e].disks : IsDeleted(e, d)'
  BY <1>2 DEF TearsDown
<1>7. pc'[e] = "done" =>
        run'[e].todo = <<>> /\ (run'[e].delete => run'[e].disks \cap img' = {})
  BY <1>1 DEF TearsDown, NotMade, At
<1> QED BY <1>1, <1>3, <1>4, <1>5, <1>6, <1>7 DEF TearsDown, At

(* A teardown begins whole. *)
LEMMA StartTeardownIsWhole ==
  ASSUME TypeOK, NEW c \in Cluster, StartTeardown(c)
  PROVE  TearsDown(c)'
<1>1. /\ UNCHANGED <<img, obj, tgt>> /\ run'[c].disks \subseteq DisksOf(c)
      /\ \A s \in Within(run'[c].todo) \cup Within(run'[c].again) :
              \/ s.of = Foreign /\ s.op = "save"
              \/ s.of \in DisksOf(c) /\ s.op \in {"logout", "untarget", "unback"}
      /\ \A d \in DisksOf(c) \ run'[c].disks :
              d \notin img /\ (~run'[c].blind => obj[d] = "none" /\ tgt[d] = "none")
      /\ \A d \in run'[c].disks :
              /\ Due(run'[c].todo, "untarget", d) /\ Due(run'[c].todo, "unback", d)
              /\ run'[c].again # <<>> =>
                   Due(run'[c].again, "untarget", d) /\ Due(run'[c].again, "unback", d)
      /\ \/ pc'[c] = "script"
         \/ pc'[c] = "done" /\ run'[c].todo = <<>> /\ run'[c].disks = {}
  BY StartTeardownMoves DEF kernel
<1>2. \A s \in Within(run'[c].todo) \cup Within(run'[c].again) :
        s.op \notin {"back", "target", "lun"}
  BY <1>1
<1>3. \A d \in run'[c].disks : IsDeleted(c, d)'
  BY <1>1 DEF IsDeleted, Due
<1>4. run'[c].again # <<>> => \A d \in run'[c].disks : Due(run[c].again, "untarget", d)'
                                                      /\ Due(run[c].again, "unback", d)'
  BY <1>1 DEF Due
<1>5. \A d \in DisksOf(c)' \ run'[c].disks :
        d \notin img' /\ (~run'[c].blind => obj'[d] = "none" /\ tgt'[d] = "none")
  BY <1>1 DEF DisksOf
<1>6. pc'[c] # "look" /\ (pc'[c] = "done" => run'[c].todo = <<>> /\ run'[c].disks = {})
  BY <1>1
<1> QED BY <1>2, <1>3, <1>4, <1>5, <1>6 DEF TearsDown, At, Within

(* The command that was next: if it was a deletion, it is done. *)
LEMMA CommandIsWhole ==
  ASSUME TypeOK, NamesItsOwn, NEW c \in Cluster, TearsDown(c), pc' = pc,
         InScript(c), Works(Current(c)), Apply(Current(c)), Advance(c, {})
  PROVE  TearsDown(c)'
<1> DEFINE s == Current(c)
<1>1. s \in PrivStep /\ Works(s) /\ Apply(s) /\ pc[c] = "script"
  BY Advances DEF InScript, At
<1>2. /\ run'[c].disks = run[c].disks /\ run'[c].blind = run[c].blind
      /\ run'[c].delete = run[c].delete /\ run'[c].again = run[c].again
      /\ run'[c].warned = run[c].warned \cup {}
      /\ Within(run[c].todo) = {s} \cup Within(run'[c].todo)
  BY Advances
<1>3. s.op \notin {"back", "target", "lun"}
  BY <1>2 DEF TearsDown
<1> HIDE DEF s
<1>4. \A d \in DisksOf(c) : d \in Disk /\ d \in Object
  BY DiskFacts
<1>5. \A d \in DisksOf(c) : NotMade(d)
  BY <1>1, <1>3, <1>4, CommandMakesNot
<1>6. ASSUME NEW d \in run[c].disks, IsDeleted(c, d) PROVE IsDeleted(c, d)'
  <2>1. d \in DisksOf(c) /\ d \in Object
    BY <1>4 DEF NamesItsOwn
  <2>2. tgt'[d] = "none" \/ d \in run'[c].warned \/ Due(run[c].todo, "untarget", d)'
    <3>1. CASE tgt[d] = "none" \/ d \in run[c].warned
      BY <1>2, <1>5, <2>1, <3>1 DEF NotMade
    <3>2. CASE s.op = "untarget" /\ s.of = d
      BY <1>1, <2>1, <3>2, ApplyMoves
    <3>3. CASE \E t \in Within(run'[c].todo) : t.op = "untarget" /\ t.of = d
      BY <3>3 DEF Due
    <3> QED BY <1>2, <1>6, <3>1, <3>2, <3>3 DEF IsDeleted, Due
  <2>3. obj'[d] = "none" \/ d \in run'[c].warned \/ Due(run[c].todo, "unback", d)'
    <3>1. CASE obj[d] = "none" \/ d \in run[c].warned
      BY <1>2, <1>5, <2>1, <3>1 DEF NotMade
    <3>2. CASE s.op = "unback" /\ s.of = d
      BY <1>1, <2>1, <3>2, ApplyMoves
    <3>3. CASE \E t \in Within(run'[c].todo) : t.op = "unback" /\ t.of = d
      BY <3>3 DEF Due
    <3> QED BY <1>2, <1>6, <3>1, <3>2, <3>3 DEF IsDeleted, Due
  <2> QED BY <2>2, <2>3 DEF IsDeleted
<1>7. \A t \in Within(run'[c].todo) \cup Within(run'[c].again) :
        t.op \notin {"back", "target", "lun"}
  BY <1>2 DEF TearsDown
<1>8. run'[c].again # <<>> => \A d \in run'[c].disks : Due(run[c].again, "untarget", d)'
                                                      /\ Due(run[c].again, "unback", d)'
  BY <1>2 DEF TearsDown, Due
<1>9. \A d \in DisksOf(c)' \ run'[c].disks :
        d \notin img' /\ (~run'[c].blind => obj'[d] = "none" /\ tgt'[d] = "none")
  BY <1>2, <1>5 DEF TearsDown, NotMade, DisksOf
<1>10. ~run'[c].blind => \A d \in run'[c].disks : IsDeleted(c, d)'
  BY <1>2, <1>6 DEF TearsDown
<1>11. pc'[c] = "script"
  BY <1>1
<1> QED BY <1>7, <1>8, <1>9, <1>10, <1>11 DEF TearsDown, At, Within

(* The command that did not work: it is warned of, or all of it begins again. *)
LEMMA FalterIsWhole ==
  ASSUME TypeOK, NamesItsOwn, NEW c \in Cluster, TearsDown(c), InScript(c), Falter(c),
         UNCHANGED <<img, obj, tgt>>
  PROVE  TearsDown(c)'
<1>1. /\ Current(c) \in PrivStep /\ pc[c] = "script" /\ Within(<<>>) = {}
      /\ run'[c].disks = run[c].disks /\ run'[c].blind = run[c].blind
      /\ run'[c].delete = run[c].delete
  BY Falters, NoRunFacts DEF InScript, At
<1> DEFINE Goal == /\ pc'[c] = "script"
                   /\ Within(run'[c].todo) \cup Within(run'[c].again)
                        \subseteq Within(run[c].todo) \cup Within(run[c].again)
                   /\ run'[c].again = run[c].again \/ run'[c].again = <<>>
                   /\ \A d \in run[c].disks : ~run[c].blind => IsDeleted(c, d)'
<1>2. ASSUME Goal PROVE TearsDown(c)'
  <2>1. \A t \in Within(run'[c].todo) \cup Within(run'[c].again) :
          t.op \notin {"back", "target", "lun"}
    BY <1>2 DEF TearsDown
  <2>2. run'[c].again # <<>> => \A d \in run'[c].disks : Due(run[c].again, "untarget", d)'
                                                        /\ Due(run[c].again, "unback", d)'
    BY <1>1, <1>2 DEF TearsDown, Due
  <2>3. \A d \in DisksOf(c)' \ run'[c].disks :
          d \notin img' /\ (~run'[c].blind => obj'[d] = "none" /\ tgt'[d] = "none")
    BY <1>1 DEF TearsDown, DisksOf
  <2>4. ~run'[c].blind => \A d \in run'[c].disks : IsDeleted(c, d)'
    BY <1>1, <1>2
  <2>5. pc'[c] = "script"
    BY <1>2
  <2> QED BY <2>1, <2>2, <2>3, <2>4, <2>5 DEF TearsDown, At, Within
<1>3. CASE pc'[c] = "failed" /\ run'[c] = run[c]
  <2>1. run[c].disks \subseteq DisksOf(c)
    BY DEF NamesItsOwn
  <2>2. \A d \in DisksOf(c) : NotMade(d)
    BY DEF NotMade
  <2> QED BY <1>3, <2>1, <2>2, TearsDownStays
<1>4. CASE /\ pc'[c] = pc[c] /\ run'[c].again = run[c].again
           /\ Within(run[c].todo) = {Current(c)} \cup Within(run'[c].todo)
           /\ run'[c].warned = run[c].warned \cup
                (IF Current(c).op \in {"untarget", "unback"} THEN {Current(c).of} ELSE {})
  <2>1. ASSUME NEW d \in run[c].disks, IsDeleted(c, d) PROVE IsDeleted(c, d)'
    <3>1. ASSUME NEW op \in {"untarget", "unback"}, Due(run[c].todo, op, d)
          PROVE  d \in run'[c].warned \/ \E t \in Within(run'[c].todo) : t.op = op /\ t.of = d
      BY <1>4, <3>1 DEF Due
    <3>2. run[c].warned \subseteq run'[c].warned
      BY <1>4
    <3> QED BY <2>1, <3>1, <3>2 DEF IsDeleted, Due
  <2> QED BY <1>1, <1>2, <1>4, <2>1 DEF TearsDown
<1>5. CASE /\ pc'[c] = pc[c] /\ run[c].again # <<>>
           /\ run'[c].todo = run[c].again /\ run'[c].again = <<>>
  <2>1. \A d \in run[c].disks : IsDeleted(c, d)'
    BY <1>5 DEF TearsDown, IsDeleted, Due
  <2> QED BY <1>1, <1>2, <1>5, <2>1
<1> QED BY <1>3, <1>4, <1>5, Falters

(* The images go last. *)
LEMMA EndTeardownIsWhole ==
  ASSUME TypeOK, NamesItsOwn, NEW c \in Cluster, TearsDown(c), EndTeardown(c)
  PROVE  TearsDown(c)'
<1>1. /\ run' = run /\ pc'[c] = "done" /\ run[c].todo = <<>>
      /\ run[c].disks \subseteq DisksOf(c) /\ run[c].disks \in SUBSET Object
      /\ \A d \in DisksOf(c) : d \in Disk
  BY MovesOnly, RunOf, DiskFacts DEF EndTeardown, Through, InScript, NamesItsOwn, Goto, TypeOK
<1>2. /\ \A d \in DisksOf(c) : NotMade(d)
      /\ run[c].delete => run[c].disks \cap img' = {}
  <2>1. CASE run[c].delete
    <3>1. Unlink(run[c].disks)
      BY <2>1 DEF EndTeardown
    <3> QED BY <1>1, <3>1, UnlinkMakesNot, UnlinkMoves
  <2>2. CASE ~run[c].delete
    BY <2>2 DEF EndTeardown, kernel, NotMade
  <2> QED BY <2>1, <2>2
<1>3. \A d \in run[c].disks : IsDeleted(c, d) => IsDeleted(c, d)'
  BY <1>1, <1>2 DEF IsDeleted, NotMade, Due
<1>4. \A d \in DisksOf(c)' \ run'[c].disks :
        d \notin img' /\ (~run'[c].blind => obj'[d] = "none" /\ tgt'[d] = "none")
  BY <1>1, <1>2 DEF TearsDown, NotMade, DisksOf
<1>5. ~run'[c].blind => \A d \in run'[c].disks : IsDeleted(c, d)'
  BY <1>1, <1>3 DEF TearsDown
<1> QED BY <1>1, <1>2, <1>4, <1>5 DEF TearsDown, At, Within, Due

(* Every step keeps the teardowns whole. *)
LEMMA TeardownsStep ==
  ASSUME IInv, Next
  PROVE  TeardownsAreWhole'
<1>1. TypeOK /\ DisksAreKnown /\ ScriptsSpare /\ NamesItsOwn /\ TeardownsAreWhole
  BY DEF IInv
<1>2. \A e \in Cluster : \A d \in DisksOf(e) : d \in Disk /\ d[1] = e
  BY DiskFacts
<1>3. ASSUME NEW c \in Cluster, RunStep(c), NEW e \in Cluster \ {c},
             run'[e].cmd = "teardown"
      PROVE  TearsDown(e)'
  <2>1. run'[e] = run[e] /\ pc'[e] = pc[e]
    BY <1>1, <1>3, OthersStay
  <2>2. TearsDown(e) /\ run[e].disks \subseteq DisksOf(e)
    BY <1>1, <1>3, <2>1 DEF TeardownsAreWhole, NamesItsOwn
  <2>3. \A d \in DisksOf(e) : NotMade(d)
    BY <1>1, <1>2, <1>3, OthersNotMade
  <2> QED BY <2>1, <2>2, <2>3, TearsDownStays
<1>4. ASSUME NEW c \in Cluster, RunStep(c), run'[c].cmd = "teardown"
      PROVE  TearsDown(c)'
  <2>1. CASE StartTeardown(c)
    BY <1>1, <2>1, StartTeardownIsWhole
  <2>2. ~StartSetup(c)
    BY <1>1, <1>4, StartSetupMoves
  <2>3. ASSUME run[c].cmd = "teardown" PROVE TearsDown(c) /\ pc[c] # "look"
    BY <1>1, <2>3 DEF TeardownsAreWhole, TearsDown, At
  <2>4. ~Plan(c)
    BY <1>1, <1>4, <2>3, PlanMoves
  <2>5. CASE Step(c) \/ StepFails(c)
    <3>1. run[c].cmd = "teardown"
      <4>1. Continues(c)
        BY <2>5 DEF Step, StepFails, Continues
      <4> QED BY <1>1, <1>4, <4>1, GoesOn
    <3>2. CASE Step(c) /\ Works(Current(c))
      <4>1. InScript(c) /\ Apply(Current(c)) /\ Advance(c, {}) /\ pc' = pc
        BY <3>2 DEF Step
      <4> QED BY <1>1, <2>3, <3>1, <3>2, <4>1, CommandIsWhole
    <3>3. CASE (Step(c) /\ ~Works(Current(c))) \/ StepFails(c)
      <4>1. InScript(c) /\ Falter(c) /\ UNCHANGED <<img, obj, tgt>>
        BY <3>3 DEF Step, StepFails, kernel
      <4> QED BY <1>1, <2>3, <3>1, <4>1, FalterIsWhole
    <3> QED BY <2>5, <3>2, <3>3
  <2>6. CASE Skip(c) \/ Refuse(c) \/ Wait(c) \/ Finish(c) \/ Crash(c) \/ EndTeardown(c)
    <3>1. run' = run /\ run[c].cmd = "teardown"
      <4>1. run' = run \/ run'[c] = NoRun
        BY <1>1, <2>6, MovesOnly
      <4> QED BY <1>4, <4>1, NoRunFacts
    <3>2. TearsDown(c) /\ pc[c] # "look"
      BY <2>3, <3>1
    <3>3. CASE EndTeardown(c)
      BY <1>1, <3>2, <3>3, EndTeardownIsWhole
    <3>4. CASE ~EndTeardown(c)
      <4>1. FALSE
        <5>1. ~Skip(c) /\ ~Refuse(c) /\ ~Wait(c)
          BY <3>1, <3>2 DEF Skip, Refuse, Wait, Through, At
        <5>2. run'[c] = NoRun
          <6>1. Settle(c, NoRun)
            BY <2>6, <3>4, <5>1 DEF Finish, Crash, End
          <6> QED BY <1>1, <6>1, Settles, NoRunFacts
        <5> QED BY <1>4, <5>2, NoRunFacts
      <4> QED BY <4>1
    <3> QED BY <3>3, <3>4
  <2> QED BY <1>4, <2>1, <2>2, <2>4, <2>5, <2>6 DEF RunStep, SettingUp
<1>5. ASSUME RemoveFiles \/ StopIscsid \/ Restore, NEW e \in Cluster, run'[e].cmd = "teardown"
      PROVE  TearsDown(e)'
  <2>1. run' = run /\ pc' = pc
    BY <1>1, <1>5, AroundMoves
  <2>2. TearsDown(e) /\ run[e].disks \subseteq DisksOf(e)
    BY <1>1, <1>5, <2>1 DEF TeardownsAreWhole, NamesItsOwn
  <2>3. \A d \in DisksOf(e) : NotMade(d)
    BY <1>1, <1>2, <1>5, AroundMakesNot
  <2> QED BY <2>1, <2>2, <2>3, TearsDownStays
<1>6. \A e \in Cluster : run'[e].cmd = "teardown" => TearsDown(e)'
  BY <1>3, <1>4, <1>5 DEF Next
<1> QED BY <1>6 DEF TeardownsAreWhole

-----------------------------------------------------------------------------
(* The initial state satisfies the inductive invariant. *)
LEMMA InitIInv ==
  ASSUME Init
  PROVE  IInv
<1>1. /\ \A c \in Cluster : run[c] = NoRun /\ pc[c] = "idle"
      /\ \A d \in Disk : obj[d] = "none" /\ tgt[d] = "none" /\ ses[d] = "none"
      /\ spoiled = {} /\ \A o \in Object : obj[o] = "image" => o = Foreign
      /\ \A o \in Object : tgt[o] = "lun" => o = Foreign
      /\ obj[Foreign] = "image" /\ img = {Foreign}
  BY ForeignAssumption, DiskFacts DEF Init
<1>2. TypeOK
  <2>1. run \in [Cluster -> Run] /\ pc \in [Cluster -> PC]
    BY NoRunFacts DEF Init, PC
  <2>2. HostOK
    BY <1>1, DiskFacts DEF Init, HostOK
  <2>3. faults \in 0 .. MaxFaults
    BY FaultsAssumption DEF Init
  <2> QED BY <2>1, <2>2, <2>3 DEF Init, TypeOK, HostOK
<1>3. DisksAreKnown
  BY <1>1 DEF DisksAreKnown
<1>4. ScriptsSpare
  BY <1>1, NoRunFacts DEF ScriptsSpare
<1>5. NamesItsOwn /\ DevicesArePresent /\ TeardownsAreWhole
  BY <1>1, NoRunFacts DEF NamesItsOwn, DevicesArePresent, TeardownsAreWhole, At
<1> QED BY <1>2, <1>3, <1>4, <1>5 DEF IInv

(* Every step keeps it. *)
LEMMA StepIInv ==
  ASSUME IInv, [Next]_vars
  PROVE  IInv'
<1>1. CASE Next
  <2>1. TypeOK /\ DisksAreKnown /\ ScriptsSpare /\ NamesItsOwn /\ DevicesArePresent
    BY DEF IInv
  <2>2. TypeOK'
    BY <1>1, <2>1, TypeStep
  <2>3. DisksAreKnown'
    BY <1>1, <2>1, HostStays
  <2>4. ScriptsSpare' /\ NamesItsOwn' /\ DevicesArePresent'
    BY <1>1, <2>1, ScriptsStep, NamesStep, PresentStep
  <2>5. TeardownsAreWhole'
    BY <1>1, TeardownsStep
  <2> QED BY <2>2, <2>3, <2>4, <2>5 DEF IInv
<1>2. CASE UNCHANGED vars
  <2>1. /\ place' = place /\ img' = img /\ obj' = obj /\ tgt' = tgt /\ ses' = ses
        /\ iscsid' = iscsid /\ pc' = pc /\ run' = run /\ faults' = faults
        /\ spoiled' = spoiled
    BY <1>2 DEF vars, kernel
  <2>2. TypeOK'
    BY <2>1 DEF IInv, TypeOK
  <2>3. DisksAreKnown' /\ NamesItsOwn' /\ DevicesArePresent'
    BY <2>1 DEF IInv, DisksAreKnown, NamesItsOwn, DevicesArePresent, Present, At, DisksOf
  <2>4. ScriptsSpare'
    BY <2>1 DEF IInv, ScriptsSpare, Spares
  <2>5. TeardownsAreWhole'
    <3>1. ASSUME NEW c \in Cluster, run'[c].cmd = "teardown" PROVE TearsDown(c)'
      <4>1. TearsDown(c) /\ run[c].disks \subseteq DisksOf(c)
        BY <2>1, <3>1 DEF IInv, TeardownsAreWhole, NamesItsOwn
      <4>2. \A d \in DisksOf(c) : NotMade(d)
        BY <2>1 DEF NotMade
      <4> QED BY <2>1, <4>1, <4>2, TearsDownStays
    <3> QED BY <3>1 DEF TeardownsAreWhole
  <2> QED BY <2>2, <2>3, <2>4, <2>5 DEF IInv
<1> QED BY <1>1, <1>2

(* What a run knows of its disks, and what its script may still do to those of
   others, is true of every reachable state. *)
THEOREM Invariance == Spec => []IInv
BY InitIInv, StepIInv, PTL DEF Spec

(* "Removing it would destroy a stranger's storage": no run of block setup, with
   its repair, and no block teardown does anything in the kernel to a foreign
   object, nor to the disks of another cluster that have always had their images. *)
THEOREM SparesTheHealthyHolds == Spec => SparesTheHealthy
<1> DEFINE Spared == \A c \in Cluster, o \in Object :
                       Acts(c) /\ (o \in Disk => o[1] # c /\ o \notin spoiled') =>
                         /\ obj'[o] = obj[o] /\ tgt'[o] = tgt[o]
                         /\ o \in Disk /\ ses[o] = "live" => ses'[o] = "live"
<1>1. IInv /\ [Next]_vars => [Spared]_vars
  <2> SUFFICES ASSUME IInv, Next, NEW c \in Cluster, NEW o \in Object, Acts(c),
                      o \in Disk => o[1] # c /\ o \notin spoiled'
               PROVE  /\ obj'[o] = obj[o] /\ tgt'[o] = tgt[o]
                      /\ o \in Disk /\ ses[o] = "live" => ses'[o] = "live"
    OBVIOUS
  <2>1. TypeOK /\ DisksAreKnown /\ ScriptsSpare /\ NamesItsOwn
    BY DEF IInv
  <2>2. RunStep(c)
    <3>1. ASSUME NEW e \in Cluster \ {c}, RunStep(e) PROVE FALSE
      BY <2>1, <3>1, OthersStay DEF Acts
    <3>2. ~(RemoveFiles \/ StopIscsid \/ Restore)
      BY <2>1, AroundMoves DEF Acts
    <3> QED BY <3>1, <3>2 DEF Next
  <2> QED BY <2>1, <2>2, HealthyStay
<1> QED BY <1>1, Invariance, PTL DEF Spec, SparesTheHealthy

(* waitForISCSIDevice sees no more than links: that a setup which finds them all
   has every disk attached to that disk's own image, whatever the runs of other
   clusters did meanwhile, is for the scripts to ensure. *)
THEOREM AttachedToItsImageHolds == Spec => []AttachedToItsImage
<1>1. IInv => AttachedToItsImage
  <2> SUFFICES ASSUME IInv, NEW c \in Cluster, At(c, "done"), run[c].cmd = "setup",
                      NEW d \in run[c].disks \ spoiled
               PROVE  d \in img /\ obj[d] = "image" /\ tgt[d] = "lun" /\ ses[d] = "live"
    BY DEF AttachedToItsImage
  <2>1. d \in Disk /\ d \in Object /\ TypeOK
    BY RunOf, DiskFacts DEF IInv
  <2>2. ses[d] \in {"live", "dead"}
    BY DEF IInv, DevicesArePresent, Present
  <2>3. ses[d] = "live" /\ tgt[d] = "lun" /\ obj[d] # "stale"
    BY <2>1, <2>2 DEF IInv, DisksAreKnown
  <2>4. obj[d] \in {"none", "image", "stale"} /\ obj[d] # "none"
        /\ (obj[d] = "image" => d \in img)
    BY <2>1, <2>3 DEF TypeOK
  <2> QED BY <2>3, <2>4
<1> QED BY <1>1, Invariance, PTL

(* teardownDisks over-collects, a step that fails is warned of, and a script cut
   short is begun again whole: a teardown that could read the kernel leaves no
   object and no target of its cluster but those it warned of, and no image it was
   to delete. *)
THEOREM TornDownWholeHolds == Spec => []TornDownWhole
<1>1. IInv => TornDownWhole
  <2> SUFFICES ASSUME IInv, NEW c \in Cluster, At(c, "done"), run[c].cmd = "teardown",
                      ~run[c].blind, NEW d \in DisksOf(c) \ run[c].warned
               PROVE  obj[d] = "none" /\ tgt[d] = "none" /\ (run[c].delete => d \notin img)
    BY DEF TornDownWhole
  <2>1. TearsDown(c)
    BY DEF IInv, TeardownsAreWhole
  <2>2. CASE d \in run[c].disks
    <3>1. IsDeleted(c, d) /\ run[c].todo = <<>> /\ (run[c].delete => d \notin img)
      BY <2>1, <2>2 DEF TearsDown
    <3>2. Within(run[c].todo) = {}
      BY <3>1, NoRunFacts
    <3> QED BY <3>1, <3>2 DEF IsDeleted, Due
  <2>3. CASE d \notin run[c].disks
    BY <2>1, <2>3 DEF TearsDown
  <2> QED BY <2>2, <2>3
<1> QED BY <1>1, Invariance, PTL
=============================================================================
