------------------------------ MODULE MCRollout ------------------------------
(***************************************************************************)
(* deploy and wait for TLC.  They share no state: a behaviour is one or the *)
(* other, and the states of the two add up.                                 *)
(***************************************************************************)
EXTENDS Deploy, Wait

VARIABLE doing

RolloutInit ==
  /\ Init /\ WaitInit
  /\ \/ doing = "deploy" /\ holds = {}
     \/ /\ doing = "wait"
        /\ branch = CHOOSE t \in Tag : TRUE
        /\ wanted = {} /\ ~local

RolloutNext ==
  /\ \/ doing = "deploy" /\ Next /\ UNCHANGED waitVars
     \/ doing = "wait" /\ WaitNext /\ UNCHANGED vars
  /\ UNCHANGED doing

(* Fairness of Deploy and WaitFairness of Wait, for the one that is run. *)
RolloutSpec ==
  /\ RolloutInit /\ [][RolloutNext]_<<vars, waitVars, doing>>
  /\ WF_vars(doing = "deploy" /\ Step)
  /\ WF_vars(doing = "deploy" /\ Establish)
  /\ SF_vars(doing = "deploy" /\ Deploys("all"))
  /\ WF_waitVars(doing = "wait" /\ Command)
  /\ WF_waitVars(doing = "wait" /\ Tick)

OnlyTheClone == {Clone}

(* DeployIsReached and EndsInTime, of the behaviours that are theirs. *)
DeployReached == []<>(doing = "deploy" => Through)
WaitInTime == <>(doing = "wait" => Over /\ InTime)
=============================================================================
