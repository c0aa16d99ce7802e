------------------------------- MODULE Events -------------------------------
(***************************************************************************)
(* The event catalog of the task lifecycle and the log a Kafka topic       *)
(* keeps of it (internal/contracts/events, internal/platform/kafka).       *)
(*                                                                         *)
(* Every row, topic partition and registry entry of the lifecycle is keyed *)
(* by the task id and no statement reads two tasks, so the modules follow  *)
(* ONE task: a topic is the one partition that task's events land on.      *)
(*                                                                         *)
(* The variable "log" of the modules that extend this one maps each topic  *)
(* to the sequence of messages published to it.  A consumer group keeps an *)
(* offset per topic: "next" is the message delivered next, "committed" the *)
(* offset a group that restarts resumes from.                              *)
(***************************************************************************)
EXTENDS Integers, Sequences

CONSTANTS Agents,   \* agents a task can be assigned to
          NoAgent   \* the NULL agent_id of an unassigned task

ASSUME AgentAssumption == NoAgent \notin Agents

AgentRef == Agents \cup {NoAgent}

Commands == {"run-requested", "review-requested", "stop-requested"}
Facts    == {"run.completed", "verdict"}
Topics   == Commands \cup Facts

Roles     == {"implementer", "reviewer"}
Outcomes  == {"done", "aborted", "stopped"}
Decisions == {"APPROVE", "REQUEST_CHANGES"}

(* A run id is the position of the run in the executor's runs table. *)
RunId == Nat \ {0}

(* The payloads, without the fields no decision of the lifecycle reads. *)
RunRequested(round, agent) ==
  [topic |-> "run-requested", round |-> round, agent |-> agent]

ReviewRequested(run, round, agent) ==
  [topic |-> "review-requested", run |-> run, round |-> round, agent |-> agent]

StopRequested == [topic |-> "stop-requested"]

RunCompleted(run, role, status, round) ==
  [topic |-> "run.completed", run |-> run, role |-> role,
   status |-> status, round |-> round]

Verdict(run, round, decision) ==
  [topic |-> "verdict", run |-> run, round |-> round, decision |-> decision]

RunRequestedMsg == [topic: {"run-requested"}, round: Nat, agent: AgentRef]
ReviewRequestedMsg ==
  [topic: {"review-requested"}, run: RunId, round: Nat, agent: AgentRef]
StopRequestedMsg == [topic: {"stop-requested"}]
RunCompletedMsg ==
  [topic: {"run.completed"}, run: RunId, role: Roles, status: Outcomes, round: Nat]
VerdictMsg == [topic: {"verdict"}, run: RunId, round: Nat, decision: Decisions]

CommandMsg == RunRequestedMsg \cup ReviewRequestedMsg \cup StopRequestedMsg

-----------------------------------------------------------------------------
(* Logs.  The producer is idempotent and waits for every replica           *)
(* (NewConfig): a publish that succeeds appends the message exactly once.  *)

EmptyLog == [t \in Topics |-> << >>]

Published(lg, msg) == [lg EXCEPT ![msg.topic] = Append(@, msg)]

MessagesIn(lg, t) == {lg[t][i] : i \in DOMAIN lg[t]}

Message == CommandMsg \cup RunCompletedMsg \cup VerdictMsg

LogType(lg) ==
  /\ lg \in [Topics -> Seq(Message)]
  /\ \A t \in Topics : \A i \in DOMAIN lg[t] : lg[t][i].topic = t

-----------------------------------------------------------------------------
(* Consumer offsets (ConsumeClaim).                                        *)

Offset == [next: Nat \ {0}, committed: Nat \ {0}]

FirstOffset == [next |-> 1, committed |-> 1]

HasNext(lg, off, t) == off[t].next <= Len(lg[t])

Delivered(lg, off, t) == lg[t][off[t].next]

(* MarkMessage: the claim moves on to the next message. *)
Marked(off, t) == [off EXCEPT ![t].next = @ + 1]

(* Marked offsets are committed in the background.  Which of them had been *)
(* committed matters only when the group loses its members, so the choice  *)
(* is made then: it resumes from any offset between the last one known to  *)
(* be committed and the one marked.                                        *)
ResumeAt(o) == {[next |-> k, committed |-> k] : k \in o.committed .. o.next}

ResumePoints(off) ==
  {new \in [DOMAIN off -> UNION {ResumeAt(off[t]) : t \in DOMAIN off}] :
     \A t \in DOMAIN off : new[t] \in ResumeAt(off[t])}

=============================================================================
