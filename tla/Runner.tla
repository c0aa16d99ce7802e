------------------------------- MODULE Runner -------------------------------
(***************************************************************************)
(* The Executor's run control (services/executor/internal/application):    *)
(* the command claims, the registries of runctl.go and the goroutines that *)
(* execute runs, for one task.                                             *)
(*                                                                         *)
(* Each sync.Map operation, SQL statement and publish is one step.  A      *)
(* claim handles one command at a time and marks it when startRun or       *)
(* CancelTask returns; the run itself goes on in a goroutine.              *)
(***************************************************************************)
EXTENDS Events

CONSTANTS Workers,             \* goroutines startRun has running at once
          NoWorker,            \* no entry in the cancels registry
          Rounds,              \* rounds the saga may request a run for
          MaxCommands,         \* bound: commands published in a behaviour
          FaultKinds,          \* the faults a behaviour may have
          MaxFaults,           \* bound: faults in a behaviour
          ImplementerOutcomes, \* how an implementer run may end
          ReviewerOutcomes     \* how a reviewer run may end

ASSUME RunnerAssumption ==
  /\ NoWorker \notin Workers
  /\ Workers \cap Commands = {}
  /\ Rounds \subseteq Nat
  /\ MaxCommands \in Nat
  /\ FaultKinds \subseteq {"crash", "list", "get", "create", "finish", "publish"}
  /\ MaxFaults \in Nat
  /\ ImplementerOutcomes \subseteq Outcomes
  /\ ReviewerOutcomes \subseteq Outcomes

VARIABLES
  log,      \* messages published to each topic
  offset,   \* offsets of the group "runner-commands", per command topic
  rows,     \* the runs table, in the order of creation
  running,  \* whether the task has an entry in Runner.running
  cancels,  \* the goroutine whose cancel function Runner.cancels holds
  pending,  \* the command Runner.pending holds
  workers,  \* the goroutines
  claims,   \* what is left to do of the command each claim is handling
  faults    \* number of faults so far

vars == <<log, offset, rows, running, cancels, pending, workers, claims, faults>>
registry == <<running, cancels, pending>>

Row == [role: Roles, round: Nat, status: Outcomes \cup {"running"}]

NoCommand  == [topic |-> "none"]
NoDecision == "none"

Idle == [pc |-> "idle"]

(* A goroutine about to run fn(rctx) for a command.                        *)
Started(cmd) ==
  [pc |-> "check", cmd |-> cmd, cancelled |-> FALSE,
   run |-> 0, outcome |-> "running", decision |-> NoDecision]

(* Between LoadOrStore and running.Delete a goroutine owns the task; its   *)
(* cancel function is registered until cancels.Delete.                     *)
Executing == {"check", "create", "finish", "report", "judge", "unregister"}
Owning    == Executing \cup {"release", "register"}

Init ==
  /\ log = EmptyLog
  /\ offset = [t \in Commands |-> FirstOffset]
  /\ rows = << >>
  /\ running = FALSE
  /\ cancels = NoWorker
  /\ pending = NoCommand
  /\ workers = [w \in Workers |-> Idle]
  /\ claims = [t \in Commands |-> Idle]
  /\ faults = 0

Fault(kind) == kind \in FaultKinds /\ faults < MaxFaults /\ faults' = faults + 1

(* Publish, or log the error and go on (bus.go).                           *)
Publish(msg) ==
  \/ log' = Published(log, msg) /\ UNCHANGED faults
  \/ Fault("publish") /\ UNCHANGED log

-----------------------------------------------------------------------------
(* The saga publishes commands: a run for any of the Rounds, a review of   *)
(* an implementer run that was reported done, a stop.                      *)
Asked == Len(log["run-requested"]) + Len(log["review-requested"]) + Len(log["stop-requested"])

Ask(cmd) ==
  /\ Asked < MaxCommands
  /\ log' = Published(log, cmd)
  /\ UNCHANGED <<offset, rows, registry, workers, claims, faults>>

SagaAsks ==
  \/ \E round \in Rounds, agent \in AgentRef : Ask(RunRequested(round, agent))
  \/ \E m \in MessagesIn(log, "run.completed"), agent \in Agents :
       /\ m.role = "implementer"
       /\ m.status = "done"
       /\ Ask(ReviewRequested(m.run, m.round, agent))
  \/ Ask(StopRequested)

-----------------------------------------------------------------------------
(* The command claims.                                                     *)

Command(t) == Delivered(log, offset, t)

Receiving(t) == HasNext(log, offset, t) /\ claims[t] = Idle

Continue(t, pc) == claims' = [claims EXCEPT ![t] = [pc |-> pc]] /\ UNCHANGED offset

Return(t) ==
  /\ claims' = [claims EXCEPT ![t] = Idle]
  /\ offset' = Marked(offset, t)

(* startRun: running.LoadOrStore decides between a goroutine and the queue.*)
TakeTask(t) ==
  /\ t # "stop-requested"
  /\ Receiving(t)
  /\ running' = TRUE
  /\ Continue(t, IF running THEN "defer" ELSE "register")
  /\ UNCHANGED <<log, rows, cancels, pending, workers, faults>>

(* startRun: pending.Store; whatever was queued is replaced.               *)
Queue(t) ==
  /\ claims[t].pc = "defer"
  /\ pending' = Command(t)
  /\ Return(t)
  /\ UNCHANGED <<log, rows, running, cancels, workers, faults>>

(* startRun: cancels.Store and go.                                         *)
Launch(t) ==
  /\ claims[t].pc = "register"
  /\ \E w \in Workers :
       /\ w = CHOOSE free \in Workers : workers[free] = Idle
       /\ workers[w] = Idle
       /\ workers' = [workers EXCEPT ![w] = Started(Command(t))]
       /\ cancels' = w
  /\ Return(t)
  /\ UNCHANGED <<log, rows, running, pending, faults>>

(* CancelTask: first pending.Delete ...                                    *)
DropQueued ==
  /\ Receiving("stop-requested")
  /\ pending' = NoCommand
  /\ Continue("stop-requested", "cancel")
  /\ UNCHANGED <<log, rows, running, cancels, workers, faults>>

(* Mutant: CancelTask takes the entry out of the registry.                 *)
CancelRegisteredOnce ==
  /\ claims["stop-requested"].pc = "cancel"
  /\ workers' = [w \in Workers |->
                   IF w = cancels THEN [workers[w] EXCEPT !.cancelled = TRUE] ELSE workers[w]]
  /\ cancels' = NoWorker
  /\ Return("stop-requested")
  /\ UNCHANGED <<log, rows, running, pending, faults>>

(* ... then cancel whatever the registry holds.                            *)
CancelRegistered ==
  /\ claims["stop-requested"].pc = "cancel"
  /\ workers' = [w \in Workers |->
                   IF w = cancels THEN [workers[w] EXCEPT !.cancelled = TRUE] ELSE workers[w]]
  /\ Return("stop-requested")
  /\ UNCHANGED <<log, rows, registry, faults>>

ClaimStep(t) ==
  \/ TakeTask(t) \/ Queue(t) \/ Launch(t)
  \/ t = "stop-requested" /\ (DropQueued \/ CancelRegistered)

-----------------------------------------------------------------------------
(* A goroutine: StartImplementer or StartReviewer, then startRun's defer.  *)

Goto(w, pc) == workers' = [workers EXCEPT ![w].pc = pc]

RoleOf(cmd) == IF cmd.topic = "review-requested" THEN "reviewer" ELSE "implementer"

(* Mutant: only a run that has ended counts.                               *)
HasEndedRun(cmd) ==
  \E r \in DOMAIN rows :
    rows[r].role = RoleOf(cmd) /\ rows[r].round = cmd.round /\ rows[r].status # "running"

HasRun(cmd) ==
  \E r \in DOMAIN rows : rows[r].role = RoleOf(cmd) /\ rows[r].round = cmd.round

NewRow(cmd) == [role |-> RoleOf(cmd), round |-> cmd.round, status |-> "running"]

(* Nothing to do without an agent, for an unknown implementer run, or when *)
(* the round already has a run of this role.                               *)
NothingToDo(cmd) ==
  \/ cmd.agent = NoAgent
  \/ RoleOf(cmd) = "reviewer" /\ cmd.run \notin DOMAIN rows
  \/ HasRun(cmd)

(* The run is not created either when the context is cancelled before: no  *)
(* statement under it, the INSERT included, is sent any more.              *)
GivesUp(w) == workers[w].cancelled \/ NothingToDo(workers[w].cmd)

(* Mutant: a command with nothing to do returns before the defer is set.   *)
CheckLeaks(w) ==
  /\ workers[w].pc = "check"
  /\ IF GivesUp(w) THEN workers' = [workers EXCEPT ![w] = Idle] ELSE Goto(w, "create")
  /\ UNCHANGED <<log, offset, rows, registry, claims, faults>>

Check(w) ==
  /\ workers[w].pc = "check"
  /\ Goto(w, IF GivesUp(w) THEN "unregister" ELSE "create")
  /\ UNCHANGED <<log, offset, rows, registry, claims, faults>>

(* hasRun answers "no" when the runs cannot be listed ("list");            *)
(* StartReviewer gives up when it cannot read the implementer run ("get"). *)
CheckFails(w) ==
  /\ workers[w].pc = "check"
  /\ workers[w].cmd.agent # NoAgent
  /\ ~workers[w].cancelled
  /\ \/ Fault("list") /\ Goto(w, "create")
     \/ Fault("get") /\ RoleOf(workers[w].cmd) = "reviewer" /\ Goto(w, "unregister")
  /\ UNCHANGED <<log, offset, rows, registry, claims>>

Create(w) ==
  /\ workers[w].pc = "create"
  /\ ~workers[w].cancelled
  /\ rows' = Append(rows, NewRow(workers[w].cmd))
  /\ workers' = [workers EXCEPT ![w].pc = "finish", ![w].run = Len(rows) + 1]
  /\ UNCHANGED <<log, offset, registry, claims, faults>>

(* Mutant: the error of CreateRun is not looked at.                        *)
CreateFailsUnnoticed(w) ==
  /\ workers[w].pc = "create"
  /\ (workers[w].cancelled /\ UNCHANGED faults) \/ Fault("create")
  /\ Goto(w, "finish")
  /\ UNCHANGED <<log, offset, rows, registry, claims>>

(* A stop that comes before the INSERT fails it; one that comes while it   *)
(* is executed, or a lost connection, may also leave the row behind.       *)
(* Either way the command ends here, unreported.                           *)
CreateFails(w) ==
  /\ workers[w].pc = "create"
  /\ (workers[w].cancelled /\ UNCHANGED faults) \/ Fault("create")
  /\ rows' \in {rows, Append(rows, NewRow(workers[w].cmd))}
  /\ Goto(w, "unregister")
  /\ UNCHANGED <<log, offset, registry, claims>>

(* The driver returns and FinishRun records how the run ended.  A reviewer *)
(* that is done has a verdict; the simulated one may also have reached its *)
(* verdict when it is stopped or fails on its last step.                   *)
Endings(role) ==
  IF role = "implementer" THEN ImplementerOutcomes \X {NoDecision}
  ELSE {e \in ReviewerOutcomes \X (Decisions \cup {NoDecision}) :
          e[1] = "done" => e[2] # NoDecision}

Ended(w, ending) ==
  /\ workers' = [workers EXCEPT ![w].pc = "report", ![w].outcome = ending[1],
                                ![w].decision = ending[2]]
  /\ \/ rows' = [rows EXCEPT ![workers[w].run].status = ending[1]] /\ UNCHANGED faults
     \/ Fault("finish") /\ UNCHANGED rows

(* Mutant: FinishRun uses the run's own context, which a stop cancels.     *)
FinishCancellable(w) ==
  /\ workers[w].pc = "finish"
  /\ \E ending \in Endings(RoleOf(workers[w].cmd)) :
       IF workers[w].cancelled THEN Goto(w, "unregister") /\ UNCHANGED <<rows, faults>>
       ELSE Ended(w, ending)
  /\ UNCHANGED <<log, offset, registry, claims>>

Finish(w) ==
  /\ workers[w].pc = "finish"
  /\ \E ending \in Endings(RoleOf(workers[w].cmd)) : Ended(w, ending)
  /\ UNCHANGED <<log, offset, registry, claims>>

(* Mutant: every run is reported done.                                     *)
ReportDone(w) ==
  LET g == workers[w]
  IN /\ g.pc = "report"
     /\ Publish(RunCompleted(g.run, RoleOf(g.cmd), "done", g.cmd.round))
     /\ Goto(w, IF g.decision = NoDecision THEN "unregister" ELSE "judge")
     /\ UNCHANGED <<offset, rows, registry, claims>>

Report(w) ==
  LET g == workers[w]
  IN /\ g.pc = "report"
     /\ Publish(RunCompleted(g.run, RoleOf(g.cmd), g.outcome, g.cmd.round))
     /\ Goto(w, IF g.decision = NoDecision THEN "unregister" ELSE "judge")
     /\ UNCHANGED <<offset, rows, registry, claims>>

Judge(w) ==
  LET g == workers[w]
  IN /\ g.pc = "judge"
     /\ Publish(Verdict(g.run, g.cmd.round, g.decision))
     /\ Goto(w, "unregister")
     /\ UNCHANGED <<offset, rows, registry, claims>>

(* cancels.Delete *)
Unregister(w) ==
  /\ workers[w].pc = "unregister"
  /\ cancels' = NoWorker
  /\ Goto(w, "release")
  /\ UNCHANGED <<log, offset, rows, running, pending, claims, faults>>

(* running.Delete *)
Release(w) ==
  /\ workers[w].pc = "release"
  /\ running' = FALSE
  /\ Goto(w, "redispatch")
  /\ UNCHANGED <<log, offset, rows, cancels, pending, claims, faults>>

(* Mutant: an empty queue is not told from a queued command.               *)
RedispatchAlways(w) ==
  /\ workers[w].pc = "redispatch"
  /\ pending' = NoCommand
  /\ workers' = [workers EXCEPT ![w] = [Started(pending) EXCEPT !.pc = "restart"]]
  /\ UNCHANGED <<log, offset, rows, running, cancels, claims, faults>>

(* pending.LoadAndDelete *)
Redispatch(w) ==
  /\ workers[w].pc = "redispatch"
  /\ pending' = NoCommand
  /\ workers' = [workers EXCEPT ![w] =
                   IF pending = NoCommand THEN Idle
                   ELSE [Started(pending) EXCEPT !.pc = "restart"]]
  /\ UNCHANGED <<log, offset, rows, running, cancels, claims, faults>>

(* Mutant: the ending goroutine relies on the entry it just gave back.     *)
RestartUnclaimed(w) ==
  /\ workers[w].pc = "restart"
  /\ running' = TRUE
  /\ Goto(w, "register")
  /\ UNCHANGED <<log, offset, rows, cancels, pending, claims, faults>>

(* startRun once more, from the goroutine that ends.                       *)
Restart(w) ==
  /\ workers[w].pc = "restart"
  /\ running' = TRUE
  /\ Goto(w, IF running THEN "defer" ELSE "register")
  /\ UNCHANGED <<log, offset, rows, cancels, pending, claims, faults>>

Requeue(w) ==
  /\ workers[w].pc = "defer"
  /\ pending' = workers[w].cmd
  /\ workers' = [workers EXCEPT ![w] = Idle]
  /\ UNCHANGED <<log, offset, rows, running, cancels, claims, faults>>

(* The ending goroutine's place is taken by the one it launches.           *)
Relaunch(w) ==
  /\ workers[w].pc = "register"
  /\ cancels' = w
  /\ Goto(w, "check")
  /\ UNCHANGED <<log, offset, rows, running, pending, claims, faults>>

WorkerStep(w) ==
  \/ Check(w) \/ CheckFails(w) \/ Create(w) \/ CreateFails(w)
  \/ Finish(w) \/ Report(w) \/ Judge(w)
  \/ Unregister(w) \/ Release(w) \/ Redispatch(w)
  \/ Restart(w) \/ Requeue(w) \/ Relaunch(w)

-----------------------------------------------------------------------------
(* The process stops and starts again: only the table, the log and the     *)
(* committed offsets remain.                                               *)
Crash ==
  /\ Fault("crash")
  /\ offset' \in ResumePoints(offset)
  /\ running' = FALSE
  /\ cancels' = NoWorker
  /\ pending' = NoCommand
  /\ workers' = [w \in Workers |-> Idle]
  /\ claims' = [t \in Commands |-> Idle]
  /\ UNCHANGED <<log, rows>>

Next ==
  \/ SagaAsks
  \/ \E t \in Commands : ClaimStep(t)
  \/ \E w \in Workers : WorkerStep(w)
  \/ Crash

Spec == Init /\ [][Next]_vars

(* Claims and goroutines are scheduled, and a run ends: the driver has a   *)
(* step and a wall-clock cap.  Nothing obliges the saga to ask.            *)
RunnerFairness ==
  /\ \A t \in Commands : WF_vars(ClaimStep(t))
  /\ \A w \in Workers : WF_vars(WorkerStep(w))

FairSpec == Spec /\ RunnerFairness

-----------------------------------------------------------------------------
(* The commands startRun is given. *)
RunCommandMsg == RunRequestedMsg \cup ReviewRequestedMsg

Worker ==
  {Idle} \cup
  [pc: Owning \cup {"redispatch", "restart", "defer"}, cmd: RunCommandMsg,
   cancelled: BOOLEAN, run: Nat, outcome: Outcomes \cup {"running"},
   decision: Decisions \cup {NoDecision}]

(* The types of the variables. *)
TypeOK ==
  /\ LogType(log)
  /\ offset \in [Commands -> Offset]
  /\ rows \in Seq(Row)
  /\ running \in BOOLEAN
  /\ cancels \in Workers \cup {NoWorker}
  /\ pending \in RunCommandMsg \cup {NoCommand}
  /\ workers \in [Workers -> Worker]
  /\ claims \in [Commands -> [pc: {"idle", "register", "defer", "cancel"}]]
  /\ faults \in Nat

Owners ==
  {w \in Workers : workers[w].pc \in Owning} \cup {t \in Commands : claims[t].pc = "register"}

(* One owner at a time: a claim or goroutine that won LoadOrStore has the  *)
(* task to itself until running.Delete, across requeued commands, restarts *)
(* from a goroutine's defer, stops and crashes; and the registry has an    *)
(* entry exactly while there is an owner.                                  *)
OneOwner ==
  /\ \A x, y \in Owners : x = y
  /\ running <=> Owners # {}

(* A stop reaches the goroutine that is executing, and only that one: a    *)
(* cancel function is registered exactly while its goroutine may need it.  *)
(* The deferred cancels.Delete removes whatever entry it finds, so it must *)
(* come before running.Delete.                                             *)
CancelsTheRunning ==
  \A w \in Workers : cancels = w <=> workers[w].pc \in Executing

(* What goroutines, claims and the queue have in hand: a command is one    *)
(* that was published; a run being executed is on record for its command   *)
(* and nothing has been reported of it that its goroutine is still to      *)
(* report; and every fact is about a run on record.  A goroutine that      *)
(* reads the queue, the table or its own command after other goroutines    *)
(* have come and gone relies on this.                                      *)
IsRunCommand(cmd) ==
  /\ cmd.topic \in {"run-requested", "review-requested"}
  /\ cmd \in MessagesIn(log, cmd.topic)

Reported(t, r) == \E m \in MessagesIn(log, t) : m.run = r

WorkerInHand(w) ==
  LET g == workers[w]
  IN /\ g # Idle => IsRunCommand(g.cmd)
     /\ g.pc \in {"finish", "report", "judge"} =>
          /\ g.run \in DOMAIN rows
          /\ rows[g.run].role = RoleOf(g.cmd)
          /\ rows[g.run].round = g.cmd.round
          /\ ~Reported("verdict", g.run)
     /\ g.pc \in {"finish", "report"} => ~Reported("run.completed", g.run)
     /\ g.pc = "report" => <<g.outcome, g.decision>> \in Endings(RoleOf(g.cmd))
     /\ g.pc = "judge" => RoleOf(g.cmd) = "reviewer" /\ g.decision \in Decisions

ClaimInHand(t) ==
  claims[t] # Idle =>
    /\ HasNext(log, offset, t)
    /\ claims[t].pc = "cancel" <=> t = "stop-requested"

InHand ==
  /\ \A w \in Workers : WorkerInHand(w)
  /\ \A t \in Commands : ClaimInHand(t)
  /\ pending # NoCommand => IsRunCommand(pending)
  /\ \A t \in Facts : \A m \in MessagesIn(log, t) : m.run \in DOMAIN rows

(* A finished run is on record as it was reported: a row's role, round and *)
(* status agree with its run.completed fact.  Only when a fault may have   *)
(* been FinishRun's, which is logged and not retried, can the row still    *)
(* say "running" (executeAndFinish).                                       *)
UpdateLost == "finish" \in FaultKinds /\ faults > 0

EndRecorded(r, status) ==
  rows[r].status = status \/ (UpdateLost /\ rows[r].status = "running")

ReportsMatchRows ==
  \A m \in MessagesIn(log, "run.completed") :
    /\ m.run \in DOMAIN rows
    /\ rows[m.run].role = m.role
    /\ rows[m.run].round = m.round
    /\ EndRecorded(m.run, m.status)

(* Every run that is executed is reported, even when a stop cancels its    *)
(* context ("the saga would never learn the run ended", executeAndFinish). *)
RunsAreReported ==
  \A r \in 1 .. MaxCommands :
    (\E w \in Workers : workers[w].pc = "finish" /\ workers[w].run = r)
      ~> \E m \in MessagesIn(log, "run.completed") : m.run = r

(* The task's entry is given back: no order of commands, stops and runs    *)
(* that end leaves the task claimed for ever, which would queue every      *)
(* later command behind a run that does not exist.                         *)
TaskIsReleased == running ~> ~running

Contract ==
  INSTANCE ExecutorContract
    WITH runs <- [r \in DOMAIN rows |-> [role |-> rows[r].role, round |-> rows[r].round]]

(* The Executor keeps the promises the saga's model relies on.             *)
KeepsContract == Contract!Spec

=============================================================================
