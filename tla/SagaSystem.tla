----------------------------- MODULE SagaSystem -----------------------------
(***************************************************************************)
(* The saga of module TaskSaga driven by any Executor that keeps the       *)
(* promises of module ExecutorContract.  The two share nothing but the     *)
(* topics.                                                                 *)
(***************************************************************************)
EXTENDS TaskSaga

CONSTANTS ImplementerOutcomes, \* how an implementer run may end
          ReviewerOutcomes     \* how a reviewer run may end

ASSUME OutcomeAssumption ==
  /\ ImplementerOutcomes \subseteq Outcomes
  /\ ReviewerOutcomes \subseteq Outcomes

VARIABLE runs  \* the runs of the task (the Executor's database)

vars == <<log, offset, task, marks, requests, claims, failures, parked, issued, faults, runs>>

Executor == INSTANCE ExecutorContract

Init ==
  /\ log = EmptyLog
  /\ SagaInit
  /\ Executor!Init

Next ==
  \/ SagaNext /\ UNCHANGED runs
  \/ Executor!Next /\ UNCHANGED sagaVars

Spec == Init /\ [][Next]_vars

(***************************************************************************)
(* Fairness.  A request in progress and a claim with a message are         *)
(* goroutines nothing blocks for ever; the Executor starts the run of a    *)
(* command and reports what became of it.  Callers need not issue any      *)
(* request, and nothing forces a fault.                                    *)
(***************************************************************************)
SagaFairness ==
  /\ \A c \in Callers : WF_vars(RequestStep(c) /\ UNCHANGED runs)
  /\ WF_vars(CompletedStep /\ UNCHANGED runs)
  /\ WF_vars(VerdictStep /\ UNCHANGED runs)

ExecutorFairness ==
  /\ WF_vars(Executor!StartImplementer /\ UNCHANGED sagaVars)
  /\ WF_vars(Executor!StartReviewer /\ UNCHANGED sagaVars)
  /\ WF_vars(/\ \E r \in DOMAIN runs, o \in Outcomes : Executor!ReportCompleted(r, o)
             /\ UNCHANGED sagaVars)
  /\ WF_vars(/\ \E r \in DOMAIN runs, d \in Decisions : Executor!ReportVerdict(r, d)
             /\ UNCHANGED sagaVars)

FairSpec == Spec /\ SagaFairness /\ ExecutorFairness

-----------------------------------------------------------------------------
RequestState ==
  [pc: {"idle", "block"}]
    \cup [pc: {"patch"}, to: Statuses, prev: Statuses]
    \cup [pc: {"rerun"}, round: Nat, agent: Agents]
    \cup [pc: {"emit"}, cmd: CommandMsg]

ClaimState ==
  [pc: {"idle", "republish"}]
    \cup [pc: {"advance"}, agent: AgentRef]
    \cup [pc: {"emit"}, cmd: CommandMsg]

(* The types of the variables. *)
TypeOK ==
  /\ LogType(log)
  /\ offset \in [Facts -> Offset]
  /\ task \in TaskRow
  /\ marks \in SUBSET RunId
  /\ requests \in [Callers -> RequestState]
  /\ claims \in [Facts -> ClaimState]
  /\ failures \in [Facts -> Nat]
  /\ parked \in SUBSET Message
  /\ issued \in Nat
  /\ faults \in Nat
  /\ runs \in Seq(Executor!Run)

(* A fact moves the task at most once, however often it is delivered, and  *)
(* whatever the callers do meanwhile: a step that is not a caller's moves  *)
(* the row only with a run id that saga_runs did not have.                 *)
AdvanceStep ==
  (task' # task /\ issued' = issued /\ requests' = requests)
    => \E t \in Facts :
         /\ claims'[t] # claims[t] \/ offset'[t] # offset[t]
         /\ Fact(t).run \notin marks
         /\ marks' = marks \cup {Fact(t).run}

AdvanceOncePerRun == [][AdvanceStep]_vars

(* A reviewer run is only ever requested for an implementer run that the   *)
(* saga has recorded and that ended "done" in the round the request names: *)
(* no crash or redelivery makes a command overtake the commit it reports.  *)
ReviewCommandsReportCommits ==
  \A m \in MessagesIn(log, "review-requested") :
    /\ m.run \in marks
    /\ RunCompleted(m.run, "implementer", "done", m.round)
         \in MessagesIn(log, "run.completed")

(* No fact is lost by the group: every message before the delivery offset  *)
(* that must leave a mark has left it, across crashes and failed handlers, *)
(* or has been parked for failing MaxRedeliveries times.                   *)
NoFactSkipped ==
  \A t \in Facts : \A i \in 1 .. offset[t].next - 1 :
    (t = "verdict" \/ log[t][i].role = "implementer")
      => log[t][i].run \in marks \/ log[t][i] \in parked

(* What a claim and a request have in hand.  The strengthening under which *)
(* the invariants above are inductive (SagaProofs): a handler that has not *)
(* returned still holds the fact it was given; past SagaAdvance the fact's *)
(* mark is committed; and only the run.completed handler ever has a review *)
(* request to publish, for the very run of its fact.                       *)
ClaimInHand(t) ==
  claims[t] # Idle =>
    /\ HasNext(log, offset, t)
    /\ t = "run.completed" => Fact(t).role = "implementer" /\ Fact(t).status = "done"
    /\ claims[t].pc # "advance" => Fact(t).run \in marks
    /\ claims[t].pc = "emit" =>
         IF t = "verdict" THEN claims[t].cmd \in RunRequestedMsg
         ELSE /\ claims[t].cmd \in ReviewRequestedMsg
              /\ claims[t].cmd.run = Fact(t).run
              /\ claims[t].cmd.round = Fact(t).round

RequestInHand(c) ==
  requests[c].pc = "emit" => requests[c].cmd \in RunRequestedMsg \cup StopRequestedMsg

InHand ==
  /\ \A t \in Facts : ClaimInHand(t)
  /\ \A c \in Callers : RequestInHand(c)

-----------------------------------------------------------------------------
(* The rest holds of an unattended task: one request starts it, and then   *)
(* only the saga and the Executor act, whatever crashes and is redelivered.*)

FirstRound == log["run-requested"][1].round

RunOf(role, round) == {r \in DOMAIN runs : runs[r] = [role |-> role, round |-> round]}

(* Implementer and reviewer alternate: a round is reviewed only after its  *)
(* implementer run was reported done, and the next round starts only after *)
(* a verdict of this one asked for changes.  No redelivered fact or        *)
(* republished command starts a run out of turn.                           *)
RunsAlternate ==
  \A r \in DOMAIN runs :
    LET k == runs[r].round
    IN IF runs[r].role = "reviewer"
       THEN \E i \in RunOf("implementer", k) :
              i < r /\ RunCompleted(i, "implementer", "done", k) \in MessagesIn(log, "run.completed")
       ELSE k # FirstRound =>
              \E v \in RunOf("reviewer", k - 1) :
                v < r /\ Verdict(v, k - 1, "REQUEST_CHANGES") \in MessagesIn(log, "verdict")

(* A task in doing or review is never waiting for nothing: the command of  *)
(* its round is published, or the handler that must publish it has it in   *)
(* hand, or the fact that makes a handler publish it is still to be        *)
(* delivered (again).  This is what redelivery and republishIfAt are for.  *)
CommandIsBacked ==
  LET command == IF task.status = "doing" THEN "run-requested" ELSE "review-requested"
      fact    == IF task.status = "doing" THEN "verdict" ELSE "run.completed"
  IN (log["run-requested"] # << >> /\ task.status \in {"doing", "review"}) =>
       \/ \E m \in MessagesIn(log, command) : m.round = task.round
       \/ \E i \in offset[fact].next .. Len(log[fact]) :
            log[fact][i].run \in marks

(* A verdict moves the task out of review only if it is a verdict on the   *)
(* round under review: nothing compares the two numbers in the code.       *)
VerdictIsCurrent ==
  [][\A run \in marks' \ marks :
       (claims["verdict"] # Idle /\ Fact("verdict").run = run /\ task' # task)
         => Fact("verdict").round = task.round]_vars

(* A task whose run was requested ends up done or blocked, through any     *)
(* number of review rounds, crashes of the Workspace service and           *)
(* redeliveries: "the saga cannot strand" (onImplementerDone).             *)
TaskSettles == log["run-requested"] # << >> ~> task.status \in {"done", "blocked"}

=============================================================================
