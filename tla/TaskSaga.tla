------------------------------ MODULE TaskSaga ------------------------------
(***************************************************************************)
(* The Workspace service's side of the task lifecycle: the tasks row, the  *)
(* saga_runs dedup marks, the HTTP operations on a task and the consumer   *)
(* of the Executor's facts (services/workspace/.../application/task).      *)
(*                                                                         *)
(* HTTP handlers and the two fact claims are goroutines: between two of    *)
(* their statements any other may run.  One SQL statement is one step, and *)
(* so is one publish, which happens after the statement it reports.        *)
(***************************************************************************)
EXTENDS Events

CONSTANTS Callers,         \* HTTP requests that can be in progress at once
          PatchTargets,    \* the statuses a caller may PATCH a task to
          MaxReviewRounds, \* maxReviewRounds of saga.go
          MaxRedeliveries, \* maxRedeliveries of kafka.go
          MaxRequests,     \* bound: mutating requests issued in a behaviour
          MaxFaults,       \* bound: faults (see Fault) in a behaviour
          MayLosePublish   \* whether a publish may fail and be dropped

Statuses == {"backlog", "doing", "review", "done", "blocked", "cancelled", "stopped"}

ASSUME SagaAssumption ==
  /\ PatchTargets \subseteq Statuses
  /\ MaxReviewRounds \in Nat
  /\ MaxRedeliveries \in Nat \ {0}
  /\ MaxRequests \in Nat
  /\ MaxFaults \in Nat
  /\ MayLosePublish \in BOOLEAN

VARIABLES
  log,       \* messages published to each topic
  offset,    \* offsets of the group "workspace-saga", per fact topic
  task,      \* the tasks row: status, round_no, agent_id
  marks,     \* the run ids in saga_runs
  requests,  \* what is left to do of the request each caller issued
  claims,    \* what is left to do of the fact each claim is handling
  failures,  \* how often the handling of the next fact has failed, per topic
  parked,    \* the facts given up after MaxRedeliveries failures
  issued,    \* number of requests issued so far
  faults     \* number of faults so far

sagaVars == <<offset, task, marks, requests, claims, failures, parked, issued, faults>>
retries == <<failures, parked>>

TaskRow == [status: Statuses, round: Nat, agent: AgentRef]

Idle == [pc |-> "idle"]
Emitting(cmd) == [pc |-> "emit", cmd |-> cmd]

SagaInit ==
  /\ offset = [t \in Facts |-> FirstOffset]
  /\ task \in [status: {"backlog"}, round: {0}, agent: AgentRef]
  /\ marks = {}
  /\ requests = [c \in Callers |-> Idle]
  /\ claims = [t \in Facts |-> Idle]
  /\ failures = [t \in Facts |-> 0]
  /\ parked = {}
  /\ issued = 0
  /\ faults = 0

(* A step that goes wrong, as often as MaxFaults allows. *)
Fault == faults < MaxFaults /\ faults' = faults + 1

(* Publish, or log the error and go on: the caller is not told (bus.go). *)
Publish(cmd) ==
  \/ log' = Published(log, cmd) /\ UNCHANGED faults
  \/ MayLosePublish /\ Fault /\ UNCHANGED log

-----------------------------------------------------------------------------
(* HTTP operations.                                                        *)

Issue(c, state) ==
  /\ requests[c] = Idle
  /\ issued < MaxRequests
  /\ issued' = issued + 1
  /\ requests' = [requests EXCEPT ![c] = state]

Proceed(c, state) == requests' = [requests EXCEPT ![c] = state]

(* PatchStatus reads the row it later compares with. *)
PatchRead(c, to) ==
  /\ Issue(c, [pc |-> "patch", to |-> to, prev |-> task.status])
  /\ UNCHANGED <<log, offset, task, marks, claims, retries, faults>>

(* SetStatus leaves a row that already has the status alone and returns it; *)
(* what happens next depends on the status read before the update.         *)
PatchSet(c) ==
  LET to == requests[c].to
      after ==
        CASE requests[c].prev = to -> Idle
          [] requests[c].prev # to /\ to = "doing" ->
               IF task.agent = NoAgent
               THEN [pc |-> "block"]
               ELSE Emitting(RunRequested(task.round, task.agent))
          [] requests[c].prev # to /\ to \in {"stopped", "cancelled"} ->
               Emitting(StopRequested)
          [] OTHER -> Idle
  IN /\ requests[c].pc = "patch"
     /\ task' = [task EXCEPT !.status = to]
     /\ Proceed(c, after)
     /\ UNCHANGED <<log, offset, marks, claims, retries, issued, faults>>

(* A task without an agent cannot run: doing becomes blocked, in a second  *)
(* statement.                                                              *)
PatchBlock(c) ==
  /\ requests[c].pc = "block"
  /\ task' = [task EXCEPT !.status = "blocked"]
  /\ Proceed(c, Idle)
  /\ UNCHANGED <<log, offset, marks, claims, retries, issued, faults>>

(* Mutant: ReRun does not look at the agent. *)
ReRunReadUnchecked(c) ==
  /\ Issue(c, [pc |-> "rerun", round |-> task.round + 1, agent |-> task.agent])
  /\ UNCHANGED <<log, offset, task, marks, claims, retries, faults>>

(* ReRun refuses a task without an agent and computes the next round from  *)
(* the row it read.                                                        *)
ReRunRead(c) ==
  /\ task.agent # NoAgent
  /\ Issue(c, [pc |-> "rerun", round |-> task.round + 1, agent |-> task.agent])
  /\ UNCHANGED <<log, offset, task, marks, claims, retries, faults>>

ReRunSet(c) ==
  /\ requests[c].pc = "rerun"
  /\ task' = [task EXCEPT !.status = "doing", !.round = requests[c].round]
  /\ Proceed(c, Emitting(RunRequested(requests[c].round, requests[c].agent)))
  /\ UNCHANGED <<log, offset, marks, claims, retries, issued, faults>>

(* Stop sets the status and asks for an abort even when nothing changed. *)
StopSet(c) ==
  /\ Issue(c, Emitting(StopRequested))
  /\ task' = [task EXCEPT !.status = "stopped"]
  /\ UNCHANGED <<log, offset, marks, claims, retries, faults>>

RequestEmit(c) ==
  /\ requests[c].pc = "emit"
  /\ Publish(requests[c].cmd)
  /\ Proceed(c, Idle)
  /\ UNCHANGED <<offset, task, marks, claims, retries, issued>>

(* Update may reassign the task or leave it without an agent; it cannot    *)
(* touch the status or the round.                                          *)
Update(a) ==
  /\ issued < MaxRequests
  /\ issued' = issued + 1
  /\ a # task.agent
  /\ task' = [task EXCEPT !.agent = a]
  /\ UNCHANGED <<log, offset, marks, requests, claims, retries, faults>>

(* A statement fails, or the client goes away and its context cancels it:  *)
(* the request ends there with what it has already written.                *)
RequestFails(c) ==
  /\ Fault
  /\ requests[c].pc \in {"patch", "block", "rerun"}
  /\ Proceed(c, Idle)
  /\ UNCHANGED <<log, offset, task, marks, claims, retries, issued>>

RequestStep(c) ==
  \/ PatchSet(c) \/ PatchBlock(c) \/ ReRunSet(c) \/ RequestEmit(c)

-----------------------------------------------------------------------------
(* The saga coordinator.  A claim handles one message at a time, to the    *)
(* end, and marks it when its handler returns without an error.            *)

Fact(t) == Delivered(log, offset, t)

Receiving(t) == HasNext(log, offset, t) /\ claims[t] = Idle

Continue(t, state) ==
  /\ claims' = [claims EXCEPT ![t] = state]
  /\ UNCHANGED <<offset, failures>>

Return(t) ==
  /\ claims' = [claims EXCEPT ![t] = Idle]
  /\ offset' = Marked(offset, t)
  /\ failures' = [failures EXCEPT ![t] = 0]

(* Mutant: the transition does not depend on the insert of the mark. *)
AdvancesUnmarked(run, from) == task.status = from

(* SagaAdvance: the mark and the transition in one statement.  The mark is *)
(* made even when the task is not in "from".                               *)
Advances(run, from) == run \notin marks /\ task.status = from

(* Mutant: the mark is made only together with the transition. *)
SagaAdvanceMarkIfMoved(run, from, row) ==
  /\ marks' = IF Advances(run, from) THEN marks \cup {run} ELSE marks
  /\ task' = IF Advances(run, from) THEN row ELSE task

SagaAdvance(run, from, row) ==
  /\ marks' = marks \cup {run}
  /\ task' = IF Advances(run, from) THEN row ELSE task

(* Dispatch ignores a reviewer's run.completed. *)
IgnoreReviewerRun ==
  /\ Receiving("run.completed")
  /\ Fact("run.completed").role = "reviewer"
  /\ Return("run.completed")
  /\ UNCHANGED <<log, task, marks, requests, parked, issued, faults>>

(* Mutant: a run that did not end "done" is ignored. *)
ImplementerFailedIgnored ==
  /\ Receiving("run.completed")
  /\ Fact("run.completed").role = "implementer"
  /\ Fact("run.completed").status # "done"
  /\ Return("run.completed")
  /\ UNCHANGED <<log, task, marks, requests, parked, issued, faults>>

(* onImplementerFailed *)
ImplementerFailed ==
  LET d == Fact("run.completed")
  IN /\ Receiving("run.completed")
     /\ d.role = "implementer"
     /\ d.status # "done"
     /\ SagaAdvance(d.run, "doing", [task EXCEPT !.status = "blocked"])
     /\ Return("run.completed")
     /\ UNCHANGED <<log, requests, parked, issued, faults>>

(* onImplementerDone and onVerdict read the task before they advance it. *)
ReadTask(t) ==
  /\ Receiving(t)
  /\ t = "run.completed" => /\ Fact(t).role = "implementer"
                            /\ Fact(t).status = "done"
  /\ Continue(t, [pc |-> "advance", agent |-> task.agent])
  /\ UNCHANGED <<log, task, marks, requests, parked, issued, faults>>

(* onImplementerDone: to review, then ask for a reviewer run. *)
ImplementerDone ==
  LET d     == Fact("run.completed")
      agent == claims["run.completed"].agent
  IN /\ claims["run.completed"].pc = "advance"
     /\ SagaAdvance(d.run, "doing", [task EXCEPT !.status = "review"])
     /\ \/ /\ ~Advances(d.run, "doing")
           /\ Continue("run.completed", [pc |-> "republish"])
        \/ /\ Advances(d.run, "doing")
           /\ agent # NoAgent
           /\ Continue("run.completed", Emitting(ReviewRequested(d.run, d.round, agent)))
        \/ /\ Advances(d.run, "doing")
           /\ agent = NoAgent
           /\ Return("run.completed")
     /\ UNCHANGED <<log, requests, parked, issued, faults>>

(* Mutant: the transition leaves round_no alone (no setRound). *)
AfterVerdictSameRound(d) ==
  IF d.decision = "APPROVE" THEN [task EXCEPT !.status = "done"]
  ELSE IF d.round + 1 > MaxReviewRounds THEN [task EXCEPT !.status = "blocked"]
  ELSE [task EXCEPT !.status = "doing"]

(* onVerdict: APPROVE closes the task; REQUEST_CHANGES starts the next     *)
(* round, up to MaxReviewRounds, then blocks the task.                     *)
AfterVerdict(d) ==
  IF d.decision = "APPROVE" THEN [task EXCEPT !.status = "done"]
  ELSE IF d.round + 1 > MaxReviewRounds THEN [task EXCEPT !.status = "blocked"]
  ELSE [task EXCEPT !.status = "doing", !.round = d.round + 1]

ApplyVerdict ==
  LET d == Fact("verdict")
      changes == d.decision = "REQUEST_CHANGES"
      nextRound == changes /\ d.round + 1 <= MaxReviewRounds
  IN /\ claims["verdict"].pc = "advance"
     /\ SagaAdvance(d.run, "review", AfterVerdict(d))
     /\ \/ /\ ~Advances(d.run, "review") /\ changes
           /\ Continue("verdict", [pc |-> "republish"])
        \/ /\ Advances(d.run, "review") /\ nextRound
           /\ Continue("verdict",
                       Emitting(RunRequested(d.round + 1, claims["verdict"].agent)))
        \/ /\ IF Advances(d.run, "review") THEN ~nextRound ELSE ~changes
           /\ Return("verdict")
     /\ UNCHANGED <<log, requests, parked, issued, faults>>

(* republishIfAt: a fact that did not advance the task may have done so in *)
(* an earlier delivery that ended before its publish.  When the task is    *)
(* where that delivery would have left it, the command is published again. *)

(* Mutant: a fact that did not advance the task is dropped. *)
AlwaysOvertaken(t) == TRUE

Overtaken(t) ==
  \/ t = "verdict" /\ task.status # "doing"
  \/ t = "run.completed" /\ (task.status # "review" \/ task.agent = NoAgent)

(* Mutant: the review request carries the task's round, not the run's. *)
CommandAgainTaskRound(t) ==
  IF t = "verdict" THEN RunRequested(task.round, task.agent)
  ELSE ReviewRequested(Fact(t).run, task.round, task.agent)

(* Mutant: the run request bumps the round a second time. *)
CommandAgainBumped(t) ==
  IF t = "verdict" THEN RunRequested(task.round + 1, task.agent)
  ELSE ReviewRequested(Fact(t).run, Fact(t).round, task.agent)

CommandAgain(t) ==
  IF t = "verdict" THEN RunRequested(task.round, task.agent)
  ELSE ReviewRequested(Fact(t).run, Fact(t).round, task.agent)

Republish(t) ==
  /\ claims[t].pc = "republish"
  /\ IF Overtaken(t) THEN Return(t) ELSE Continue(t, Emitting(CommandAgain(t)))
  /\ UNCHANGED <<log, task, marks, requests, parked, issued, faults>>

ClaimEmit(t) ==
  /\ claims[t].pc = "emit"
  /\ Publish(claims[t].cmd)
  /\ Return(t)
  /\ UNCHANGED <<task, marks, requests, parked, issued>>

(* Every handler but that of a reviewer's run.completed runs statements,   *)
(* the last of them before it publishes.                                   *)
MayFail(t) ==
  \/ claims[t].pc \in {"advance", "republish"}
  \/ Receiving(t) /\ (t = "run.completed" => Fact(t).role = "implementer")

(* Mutant: a message is marked even though its handler failed. *)
ClaimFailsMarked(t) ==
  /\ MayFail(t)
  /\ Fault
  /\ Return(t)
  /\ UNCHANGED <<log, task, marks, requests, parked, issued>>

(* A statement of the handler fails.  The message stays unmarked and is    *)
(* delivered again, until it has failed MaxRedeliveries times: then it is  *)
(* parked in a dead-letter topic, if that can be done, and marked.         *)
ClaimFails(t) ==
  /\ MayFail(t)
  /\ Fault
  /\ \/ /\ failures[t] + 1 < MaxRedeliveries
        /\ failures' = [failures EXCEPT ![t] = @ + 1]
        /\ claims' = [claims EXCEPT ![t] = Idle]
        /\ UNCHANGED <<offset, parked>>
     \/ /\ failures[t] + 1 >= MaxRedeliveries
        /\ parked' = parked \cup {Fact(t)}
        /\ Return(t)
  /\ UNCHANGED <<log, task, marks, requests, issued>>

ClaimStep(t) == ReadTask(t) \/ Republish(t) \/ ClaimEmit(t)

CompletedStep ==
  IgnoreReviewerRun \/ ImplementerFailed \/ ImplementerDone \/ ClaimStep("run.completed")

VerdictStep == ApplyVerdict \/ ClaimStep("verdict")

-----------------------------------------------------------------------------
(* The process stops and starts again: requests and claims in progress are *)
(* gone, and the group resumes from what it had committed.                 *)
Crash ==
  /\ Fault
  /\ requests' = [c \in Callers |-> Idle]
  /\ claims' = [t \in Facts |-> Idle]
  /\ failures' = [t \in Facts |-> 0]
  /\ offset' \in ResumePoints(offset)
  /\ UNCHANGED <<log, task, marks, parked, issued>>

SagaStep ==
  \/ \E c \in Callers : RequestStep(c)
  \/ CompletedStep
  \/ VerdictStep

SagaNext ==
  \/ SagaStep
  \/ \E c \in Callers :
       \/ \E to \in PatchTargets : PatchRead(c, to)
       \/ ReRunRead(c)
       \/ StopSet(c)
       \/ RequestFails(c)
  \/ \E a \in AgentRef : Update(a)
  \/ \E t \in Facts : ClaimFails(t)
  \/ Crash

=============================================================================
