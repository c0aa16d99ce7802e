-------------------------- MODULE ExecutorContract --------------------------
(***************************************************************************)
(* What the Executor promises the saga, whatever happens to its queues,    *)
(* goroutines and processes: it starts a run only for a command that was   *)
(* published, at most one per role and round; and it publishes at most one *)
(* run.completed and, for a reviewer, one verdict for each run, in this    *)
(* order.  It does not promise that a run ever ends, nor that a published  *)
(* command starts one.  Module Runner implements this.                     *)
(***************************************************************************)
EXTENDS Events

CONSTANTS ImplementerOutcomes, \* how an implementer run may end
          ReviewerOutcomes     \* how a reviewer run may end

VARIABLES
  log,   \* messages published to each topic
  runs   \* the runs of the task, in the order they were created

Run == [role: Roles, round: Nat]

HasRun(role, round) == \E r \in DOMAIN runs : runs[r] = [role |-> role, round |-> round]

CreateRun(role, round) ==
  /\ ~HasRun(role, round)
  /\ runs' = Append(runs, [role |-> role, round |-> round])
  /\ UNCHANGED log

Reported(t, r) == \E m \in MessagesIn(log, t) : m.run = r

Init == runs = << >>

StartImplementer ==
  \E m \in MessagesIn(log, "run-requested") :
    /\ m.agent # NoAgent
    /\ CreateRun("implementer", m.round)

StartReviewer ==
  \E m \in MessagesIn(log, "review-requested") :
    /\ m.agent # NoAgent
    /\ m.run \in DOMAIN runs
    /\ CreateRun("reviewer", m.round)

ReportCompleted(r, outcome) ==
  /\ outcome \in IF runs[r].role = "reviewer" THEN ReviewerOutcomes ELSE ImplementerOutcomes
  /\ ~Reported("run.completed", r)
  /\ ~Reported("verdict", r)
  /\ log' = Published(log, RunCompleted(r, runs[r].role, outcome, runs[r].round))
  /\ UNCHANGED runs

ReportVerdict(r, decision) ==
  /\ runs[r].role = "reviewer"
  /\ ~Reported("verdict", r)
  /\ log' = Published(log, Verdict(r, runs[r].round, decision))
  /\ UNCHANGED runs

Next ==
  \/ StartImplementer
  \/ StartReviewer
  \/ \E r \in DOMAIN runs :
       \/ \E outcome \in Outcomes : ReportCompleted(r, outcome)
       \/ \E decision \in Decisions : ReportVerdict(r, decision)

(* Commands come from elsewhere.                                           *)
CommandsPublished ==
  /\ \A t \in Facts : log'[t] = log[t]
  /\ \A t \in Commands : SubSeq(log'[t], 1, Len(log[t])) = log[t]
  /\ UNCHANGED runs

Spec == Init /\ [][Next \/ CommandsPublished]_<<log, runs>>
=============================================================================
