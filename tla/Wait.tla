-------------------------------- MODULE Wait --------------------------------
(***************************************************************************)
(* rooket wait: polls of the cluster with a budget each, a deadline that is *)
(* looked at between polls only, sleeps cut short by it, and diagnostics    *)
(* at the end.  The clock and the cluster go on by themselves.              *)
(***************************************************************************)
EXTENDS Naturals

CONSTANTS
  Interval,    \* between polls
  Timeout,
  PollBudget,  \* of one poll's queries together
  DiagBudget,  \* of each diagnostic
  Diags,       \* number of diagnostics
  MaxSlips     \* bound on the conditions that are lost again

ASSUME TimeAssumption ==
  /\ {Interval, Timeout, PollBudget, DiagBudget, Diags} \subseteq Nat \ {0}
  /\ MaxSlips \in Nat

VARIABLES
  now,    \* the clock, in units of the constants
  holds,  \* the conditions that the cluster meets
  at,     \* where the wait is
  step,   \* the number of the query or diagnostic under way
  unmet,  \* what this poll has found unmet
  end,    \* when the sleep is over, or the budget of what is under way
  slips,  \* how often a condition was lost again
  since,  \* history: since when the cluster is ready, or Never
  begun,  \* history: when the poll began
  mute,   \* history: a query of this poll found no answer in its time
  lost    \* history: the conditions lost since the poll began

cluster == <<holds, slips, since, lost>>
poll == <<begun, mute>>
waitVars == <<now, cluster, at, step, unmet, end, poll>>

(* The conditions in the order observe asks for them.  The RGWs are asked only
   where the stores are ready with an endpoint; else the stores are unmet. *)
Condition == 1 .. 4
Phase == 1
Status == 2
Stores == 3
RGW == 4

Never == Timeout + PollBudget + DiagBudget * Diags + 1

Place == {"start", "poll", "sleep", "diagnose", "ready", "failed"}

WaitTypeOK ==
  /\ now \in 0 .. Never
  /\ holds \in SUBSET Condition
  /\ at \in Place
  /\ step \in Condition \cup {0, RGW + 1} \cup 1 .. Diags
  /\ unmet \in SUBSET Condition
  /\ end \in 0 .. Never
  /\ slips \in 0 .. MaxSlips
  /\ since \in 0 .. Never
  /\ begun \in 0 .. Never
  /\ mute \in BOOLEAN
  /\ lost \in SUBSET Condition

WaitInit ==
  /\ now = 0
  /\ holds \in SUBSET Condition
  /\ at = "start"
  /\ step = 0
  /\ unmet = {}
  /\ end = 0
  /\ slips = 0
  /\ since = IF holds = Condition THEN 0 ELSE Never
  /\ begun = 0
  /\ mute = FALSE
  /\ lost = {}

Min2(a, b) == IF a < b THEN a ELSE b

(* The wait began at 0. *)
Deadline == Timeout

-----------------------------------------------------------------------------
(* The wait. *)

BeginPoll ==
  /\ at' = "poll"
  /\ step' = Phase
  /\ unmet' = {}
  /\ end' = now + PollBudget
  /\ begun' = now
  /\ mute' = FALSE
  /\ lost' = {}
  /\ UNCHANGED <<now, holds, slips, since>>

Start == at = "start" /\ BeginPoll

Wake == at = "sleep" /\ now >= end /\ BeginPoll

(* A query that answers says what holds, one that does not is one more
   condition that is not met. *)
Answers ==
  /\ now < end
  /\ unmet' = unmet \cup ({step} \ holds)
  /\ UNCHANGED mute

(* Mutant of NoAnswer: a query that fails counts for nothing. *)
MutNoAnswer ==
  /\ mute' = TRUE
  /\ UNCHANGED unmet

(* It fails, or the budget of the poll cuts it off. *)
NoAnswer ==
  /\ unmet' = unmet \cup {step}
  /\ mute' = TRUE

Query ==
  /\ at = "poll" /\ step \in Condition
  /\ IF step = RGW /\ Stores \in unmet
     THEN UNCHANGED <<unmet, mute>> ELSE Answers \/ NoAnswer
  /\ step' = step + 1
  /\ UNCHANGED <<now, cluster, at, end, begun>>

(* Mutant of Sleep: the last sleep is not cut short. *)
MutSleep == Interval

Sleep == Min2(Interval, Deadline - now)

(* The deadline is looked at once the poll is through. *)
EndPoll ==
  /\ at = "poll" /\ step \notin Condition
  /\ IF unmet = {} THEN at' = "ready" /\ UNCHANGED <<step, end>>
     ELSE IF now >= Deadline
     THEN at' = "diagnose" /\ step' = 1 /\ end' = now + DiagBudget
     ELSE at' = "sleep" /\ step' = 0 /\ end' = now + Sleep
  /\ UNCHANGED <<now, cluster, unmet, poll>>

(* Each diagnostic has its own budget, and the wait fails after the last. *)
Diagnose ==
  /\ at = "diagnose"
  /\ IF step = Diags THEN at' = "failed" /\ UNCHANGED <<step, end>>
     ELSE step' = step + 1 /\ end' = now + DiagBudget /\ UNCHANGED at
  /\ UNCHANGED <<now, cluster, unmet, poll>>

-----------------------------------------------------------------------------
(* Around it. *)

(* Time passes, but not past a budget or a sleep. *)
Tick ==
  /\ at \in {"poll", "sleep", "diagnose"} /\ now < end
  /\ now' = now + 1
  /\ UNCHANGED <<cluster, at, step, unmet, end, poll>>

Settle(c) ==
  /\ at \notin {"ready", "failed"} /\ c \notin holds
  /\ holds' = holds \cup {c}
  /\ since' = IF holds' = Condition THEN now ELSE Never
  /\ UNCHANGED <<now, slips, lost, at, step, unmet, end, poll>>

Slip(c) ==
  /\ at \notin {"ready", "failed"} /\ c \in holds /\ slips < MaxSlips
  /\ holds' = holds \ {c}
  /\ slips' = slips + 1
  /\ lost' = lost \cup {c}
  /\ since' = Never
  /\ UNCHANGED <<now, at, step, unmet, end, poll>>

Command == Start \/ Wake \/ Query \/ EndPoll \/ Diagnose

WaitNext == Command \/ Tick \/ \E c \in Condition : Settle(c) \/ Slip(c)

WaitSpec == WaitInit /\ [][WaitNext]_waitVars

(* The wait goes on, and so does the clock. *)
WaitFairness == WF_waitVars(Command) /\ WF_waitVars(Tick)

-----------------------------------------------------------------------------
(* Properties. *)

Over == at \in {"ready", "failed"}

InTime ==
  /\ now <= Deadline + PollBudget + DiagBudget * Diags
  /\ at = "ready" => now <= Deadline + PollBudget

(* wait is over at some time, and the clock is then no more than a poll past its
   timeout, plus the diagnostics, however the cluster hangs: the help text of
   wait. *)
EndsInTime == <>(Over /\ InTime)

(* What wait says is so.  What it calls ready meets every condition, but for
   those lost while it was polling; and where its last queries all had an
   answer, what it calls not ready was not ready, or has just become so, as late
   as a poll before the deadline: a poll may span the deadline. *)
SaysWhatIsSo ==
  /\ at = "ready" => holds \cup lost = Condition
  /\ at \in {"diagnose", "failed"} /\ ~mute => since + PollBudget >= Deadline

-----------------------------------------------------------------------------
(* What makes the safety properties inductive. *)

(* A poll begins before the deadline and has its own budget; a sleep does not go
   past the deadline, and each diagnostic adds its budget. *)
TimeIsBounded ==
  /\ at = "start" => now = 0
  /\ at \in {"poll", "sleep", "diagnose"} => now <= end
  /\ at = "poll" => step # 0 /\ begun <= Deadline /\ begun <= now /\ end = begun + PollBudget
  /\ at = "sleep" => end <= Deadline
  /\ at = "diagnose" =>
       /\ step \in 1 .. Diags
       /\ Deadline <= now /\ end <= Deadline + PollBudget + DiagBudget * step
  /\ at = "ready" => now <= Deadline + PollBudget
  /\ at = "failed" => now <= Deadline + PollBudget + DiagBudget * Diags

(* What a poll has asked and not found unmet holds, or was lost since. *)
PollIsRight ==
  /\ at = "poll" /\ unmet = {} => \A c \in Condition : c < step => c \in holds \cup lost
  /\ at = "ready" => holds \cup lost = Condition

(* Where an answer of the poll was no, the cluster was not ready until then. *)
NotReadySince ==
  /\ holds # Condition => since = Never
  /\ at = "poll" /\ unmet # {} /\ ~mute => begun <= since
  /\ at \in {"diagnose", "failed"} /\ ~mute => Deadline <= since + PollBudget

WaitInv == WaitTypeOK /\ TimeIsBounded /\ PollIsRight /\ NotReadySince
=============================================================================
