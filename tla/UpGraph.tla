------------------------------ MODULE UpGraph ------------------------------
(***************************************************************************)
(* The dependency graph of rooket up, and what up owes to it: a task is    *)
(* begun once the tasks it needs are done, each is run once, none is cut   *)
(* off because another failed, and up says it is complete when every task  *)
(* is done.  How the lanes, joins and locks of the command see to that is  *)
(* module BringUp.                                                         *)
(***************************************************************************)
CONSTANTS
  Cluster,   \* clusters that are brought up
  Branch     \* the steps of cluster create that run side by side

VARIABLES
  status,    \* status[c][t]: how far the up of c is with task t
  complete,  \* the clusters whose up has said that it is complete
  killed     \* the clusters whose last up was killed

vars == <<status, complete, killed>>

(* kind, the branches and wire make up cluster create. *)
Task == {"block", "pull", "kind", "wire", "make", "push", "deploy"} \cup Branch

Status == {"todo", "running", "done", "failed"}

Needs(t) ==
  CASE t \in {"block", "pull", "make"} -> {}
    [] t = "kind" -> {"block", "pull"}
    [] t \in Branch -> {"kind"}
    [] t = "wire" -> Branch
    [] t = "push" -> {"wire", "make"}
    [] t = "deploy" -> {"block", "wire", "push"}

Unbegun == [t \in Task |-> "todo"]

Init ==
  /\ status = [c \in Cluster |-> Unbegun]
  /\ complete = {}
  /\ killed = {}

(* From was to is: a task that is skipped is done at once. *)
Moves(was, is) ==
  \/ was = is
  \/ was = "todo" /\ is \in {"running", "done"}
  \/ was = "running" /\ is \in {"done", "failed"}

(* Tasks begin and end, several at a time. *)
Advance(c) ==
  /\ status' \in [Cluster -> [Task -> Status]]
  /\ \A d \in Cluster \ {c} : status'[d] = status[d]
  /\ \A t \in Task :
       /\ Moves(status[c][t], status'[c][t])
       /\ status[c][t] = "todo" /\ status'[c][t] # "todo" =>
            \A n \in Needs(t) : status'[c][n] = "done"
  /\ complete' \in {complete,
                    complete \cup {d \in {c} : \A t \in Task : status'[c][t] = "done"}}
  /\ killed' = killed \ {c}

(* The run is over: nothing is under way any more. *)
Leave(c) ==
  /\ \A t \in Task : status[c][t] # "running"
  /\ status' = [status EXCEPT ![c] = Unbegun]
  /\ complete' = complete \ {c}
  /\ UNCHANGED killed

(* The run is killed. *)
Kill(c) ==
  /\ status' = [status EXCEPT ![c] = Unbegun]
  /\ complete' = complete \ {c}
  /\ killed' = killed \cup {c}

Next == \E c \in Cluster : Advance(c) \/ Leave(c) \/ Kill(c)

Spec == Init /\ [][Next]_vars

-----------------------------------------------------------------------------
(* What the graph is for, of whichever order the tasks end in. *)

(* deploy is begun on everything: an up none of whose other tasks may still be
   running, be failed or have been left out puts Rook on the cluster. *)
DeploysLast ==
  \A c \in Cluster : status[c]["deploy"] # "todo" =>
    \A t \in Task \ {"deploy"} : status[c][t] = "done"

(* up says it is complete of nothing less than all of its tasks. *)
CompleteIsOfAll == \A c \in complete : \A t \in Task : status[c][t] = "done"

(* What makes these inductive. *)
TypeOK ==
  /\ status \in [Cluster -> [Task -> Status]]
  /\ complete \subseteq Cluster

NeedsAreDone ==
  \A c \in Cluster : \A t \in Task :
    status[c][t] # "todo" => \A n \in Needs(t) : status[c][n] = "done"

IInv == TypeOK /\ NeedsAreDone /\ CompleteIsOfAll
=============================================================================
