------------------------------ MODULE MCCharts ------------------------------
(***************************************************************************)
(* What a deploy is given, for TLC: the charts of a released Rook, pulled   *)
(* into their cache, and the values of a chart, merged of layers.  The two  *)
(* share no state: a behaviour is one or the other.                         *)
(***************************************************************************)
EXTENDS ChartCache, Values

VARIABLE doing

ChartsInit == Init /\ ValuesInit /\ doing \in {"pull", "compose"}

ChartsNext ==
  /\ \/ doing = "pull" /\ Next /\ UNCHANGED valuesVars
     \/ doing = "compose" /\ ValuesNext /\ UNCHANGED vars
  /\ UNCHANGED doing

(* Fairness of ChartCache; where values are composed, no run ever pulls. *)
ChartsSpec ==
  /\ ChartsInit /\ [][ChartsNext]_<<vars, valuesVars, doing>>
  /\ \A p \in Proc : WF_vars(Working(p)) /\ SF_vars(LockPulls(p))

-----------------------------------------------------------------------------
(* Every layer has one key, whose value is of any kind. *)

Own(l) == {Scalar(l), Null}

Element(n, l) ==
  {Map("name" :> Scalar(n))}
  \cup {Map("name" :> Scalar(n) @@ "v" :> v) : v \in Own(l)}

Lists(l) ==
  {<<>>, <<Scalar(l)>>}
  \cup {<<e>> : e \in Element("m", l)}
  \cup {<<Map("name" :> Scalar("n") @@ "v" :> Scalar(l))>>}
  \cup {<<Map("name" :> Scalar(x)), Map("name" :> Scalar(y) @@ "v" :> Scalar(l))>> :
          x, y \in {"m", "n"}}

Nested(l) ==
  {<<>>, "v" :> Null, "v" :> Scalar(l), "w" :> Scalar(l), "v" :> Map("w" :> Scalar(l)),
   "v" :> Scalar(l) @@ "w" :> Null}

(* The base has a value of each kind, the others every one. *)
OneKey(l) ==
  IF l = "base"
  THEN {<<>>} \cup {"x" :> v : v \in {Scalar(l), Map("v" :> Scalar(l)), List(<<>>)}}
         \cup {"x" :> List(<<e>>) : e \in Element("m", l)}
  ELSE {"x" :> v : v \in Own(l) \cup {Map(f) : f \in Nested(l)}
                                  \cup {List(s) : s \in Lists(l)}}
=============================================================================
