---------------------------- MODULE RunnerProofs ----------------------------
(***************************************************************************)
(* Proofs about module Runner, for every value of its constants.           *)
(***************************************************************************)
EXTENDS Runner, EventsProofs, SequenceTheorems

-----------------------------------------------------------------------------
(* The inductive invariant.                                                *)

IInv == TypeOK /\ OneOwner /\ CancelsTheRunning /\ InHand

(* The command a claim is about to handle, or is handling, is one startRun *)
(* is given, unless it is a stop.                                          *)
LEMMA ClaimedCommand ==
  ASSUME TypeOK, NEW t \in Commands, t # "stop-requested", HasNext(log, offset, t)
  PROVE  Command(t) \in RunCommandMsg /\ IsRunCommand(Command(t))
<1>1. /\ t \in Topics
      /\ t \in {"run-requested", "review-requested"}
      /\ offset[t].next \in 1 .. Len(log[t])
      /\ LogType(log)
      /\ log[t] \in Seq(Message)
  BY DEF TypeOK, HasNext, Offset, Topics, LogType, Commands
<1>2. Command(t) \in MessagesIn(log, t)
  BY <1>1 DEF Command, Delivered, MessagesIn
<1>3. Command(t) \in Message /\ Command(t).topic = t
  BY <1>1, <1>2, MessagesType
<1> QED BY <1>1, <1>2, <1>3, MessageOfTopic DEF RunCommandMsg, IsRunCommand

(* The fields of a goroutine that has a command in hand.                   *)
LEMMA WorkerFields ==
  ASSUME TypeOK, NEW w \in Workers, workers[w] # Idle
  PROVE  /\ workers[w].pc \in Owning \cup {"redispatch", "restart", "defer"}
         /\ workers[w].cmd \in RunCommandMsg
         /\ workers[w].cancelled \in BOOLEAN
         /\ workers[w].run \in Nat
         /\ workers[w].outcome \in Outcomes \cup {"running"}
         /\ workers[w].decision \in Decisions \cup {NoDecision}
         /\ RoleOf(workers[w].cmd) \in Roles
         /\ workers[w].cmd.round \in Nat
         /\ workers[w].cmd.agent \in AgentRef
<1>1. workers[w] \in [pc: Owning \cup {"redispatch", "restart", "defer"}, cmd: RunCommandMsg,
                      cancelled: BOOLEAN, run: Nat, outcome: Outcomes \cup {"running"},
                      decision: Decisions \cup {NoDecision}]
  BY DEF TypeOK, Worker
<1> QED BY <1>1 DEF RunCommandMsg, RunRequestedMsg, ReviewRequestedMsg, RoleOf, Roles

(* A goroutine at a step is not idle.                                      *)
LEMMA AtAStep ==
  ASSUME NEW w \in Workers, workers[w].pc # "idle"
  PROVE  workers[w] # Idle
BY DEF Idle

(* A goroutine that starts with a command, or goes on, is well formed.     *)
LEMMA WorkerStates ==
  /\ Idle \in Worker
  /\ \A cmd \in RunCommandMsg :
       Started(cmd) \in Worker /\ [Started(cmd) EXCEPT !.pc = "restart"] \in Worker
  /\ \A g \in Worker, pc \in Owning \cup {"redispatch", "restart", "defer"} :
       g # Idle => [g EXCEPT !.pc = pc] \in Worker
BY DEF Worker, Started, Owning, Executing, Outcomes, NoDecision

-----------------------------------------------------------------------------
(* What a step leaves alone.                                               *)

(* A claim that a step leaves alone still has its command.                 *)
LEMMA ClaimKept ==
  ASSUME TypeOK, NEW t \in Commands, ClaimInHand(t),
         claims'[t] = claims[t], offset'[t] = offset[t],
         Len(log'[t]) >= Len(log[t]), Len(log'[t]) \in Nat
  PROVE  ClaimInHand(t)'
<1>1. offset[t].next \in Nat \ {0} /\ Len(log[t]) \in Nat
  BY DEF TypeOK, Offset, LogType, Topics
<1> QED BY <1>1 DEF ClaimInHand, HasNext

(* A command stays published.                                              *)
LEMMA CommandKept ==
  ASSUME NEW cmd, IsRunCommand(cmd),
         \A t \in Commands : MessagesIn(log, t) \subseteq MessagesIn(log', t)
  PROVE  IsRunCommand(cmd)'
BY DEF IsRunCommand, Commands

RowsKept ==
  \A r \in DOMAIN rows :
    /\ r \in DOMAIN rows'
    /\ rows'[r].role = rows[r].role
    /\ rows'[r].round = rows[r].round

(* A goroutine that a step leaves alone, but for its context, still has    *)
(* what it had in hand, unless the step reports its run.                   *)
LEMMA WorkerKept ==
  ASSUME NEW w \in Workers, WorkerInHand(w), RowsKept,
         \A t \in Commands : MessagesIn(log, t) \subseteq MessagesIn(log', t),
         workers'[w] # Idle => workers[w] # Idle,
         workers'[w].pc = workers[w].pc, workers'[w].cmd = workers[w].cmd,
         workers'[w].run = workers[w].run, workers'[w].outcome = workers[w].outcome,
         workers'[w].decision = workers[w].decision,
         workers[w].pc \in {"finish", "report", "judge"} =>
           \A t \in Facts : Reported(t, workers[w].run)' => Reported(t, workers[w].run)
  PROVE  WorkerInHand(w)'
<1>1. (workers[w] # Idle => IsRunCommand(workers[w].cmd))'
  BY DEF WorkerInHand, IsRunCommand, Commands
<1>2. workers[w].pc \in {"finish", "report", "judge"} =>
        /\ workers[w].run \in DOMAIN rows'
        /\ rows'[workers[w].run].role = RoleOf(workers[w].cmd)
        /\ rows'[workers[w].run].round = workers[w].cmd.round
        /\ ~Reported("verdict", workers[w].run)'
  BY DEF WorkerInHand, RowsKept, Facts
<1>3. workers[w].pc \in {"finish", "report"} => ~Reported("run.completed", workers[w].run)'
  BY DEF WorkerInHand, Facts
<1>4. (workers[w].run)' = workers[w].run
  OBVIOUS
<1> QED BY <1>1, <1>2, <1>3, <1>4 DEF WorkerInHand, Reported

(* A step that changes no owner and no registration.                       *)
LEMMA OwnersKept ==
  ASSUME OneOwner, CancelsTheRunning, running' = running, cancels' = cancels,
         \A w \in Workers : /\ workers'[w].pc \in Owning <=> workers[w].pc \in Owning
                            /\ workers'[w].pc \in Executing <=> workers[w].pc \in Executing,
         \A t \in Commands : claims'[t].pc = "register" <=> claims[t].pc = "register"
  PROVE  OneOwner' /\ CancelsTheRunning'
<1>1. Owners' = Owners
  BY DEF Owners
<1> QED BY <1>1 DEF OneOwner, CancelsTheRunning

(* The owner is alone.                                                     *)
LEMMA Alone ==
  ASSUME OneOwner
  PROVE  /\ \A v, w \in Workers :
              workers[v].pc \in Owning /\ workers[w].pc \in Owning => v = w
         /\ \A w \in Workers, t \in Commands :
              ~(workers[w].pc \in Owning /\ claims[t].pc = "register")
         /\ \A s, t \in Commands :
              claims[s].pc = "register" /\ claims[t].pc = "register" => s = t
BY RunnerAssumption DEF OneOwner, Owners

(* Another goroutine's step: only the owner's reports anything.            *)
LEMMA OthersKept ==
  ASSUME IInv, NEW w \in Workers,
         \A u \in Workers \ {w} : workers'[u] = workers[u],
         RowsKept,
         \A t \in Commands : MessagesIn(log, t) \subseteq MessagesIn(log', t),
         (\A t \in Facts : log'[t] = log[t]) \/ workers[w].pc \in Owning
  PROVE  \A u \in Workers \ {w} : WorkerInHand(u)'
<1> SUFFICES ASSUME NEW u \in Workers \ {w} PROVE WorkerInHand(u)'
  OBVIOUS
<1>1. WorkerInHand(u)
  BY DEF IInv, InHand
<1>2. workers[u].pc \in {"finish", "report", "judge"} =>
        \A t \in Facts : Reported(t, workers[u].run)' => Reported(t, workers[u].run)
  <2>1. CASE \A t \in Facts : log'[t] = log[t]
    <3>1. (workers[u].run)' = workers[u].run
      OBVIOUS
    <3> QED BY <2>1, <3>1 DEF Reported, MessagesIn
  <2>2. CASE workers[w].pc \in Owning
    <3>1. workers[u].pc \notin Owning
      BY <2>2, Alone DEF IInv
    <3> QED BY <3>1 DEF Owning, Executing
  <2> QED BY <2>1, <2>2
<1>3. workers'[u] = workers[u]
  OBVIOUS
<1> QED BY <1>1, <1>2, <1>3, WorkerKept

(* A step that leaves the log and the table alone.                         *)
LEMMA TablesUntouched ==
  ASSUME IInv, UNCHANGED <<log, rows>>
  PROVE  /\ RowsKept
         /\ \A t \in Commands : MessagesIn(log, t) \subseteq MessagesIn(log', t)
         /\ \A t \in Facts : \A m \in MessagesIn(log', t) : m.run \in DOMAIN rows'
BY DEF IInv, InHand, RowsKept

(* ... and the claims: they hold what they held.                           *)
LEMMA ClaimsUntouched ==
  ASSUME TypeOK, InHand, UNCHANGED <<log, claims, offset>>
  PROVE  \A t \in Commands : ClaimInHand(t)'
BY DEF InHand, ClaimInHand, HasNext

(* ... and the goroutines.                                                 *)
LEMMA WorkersUntouched ==
  ASSUME IInv, UNCHANGED <<log, rows, workers>>
  PROVE  \A w \in Workers : WorkerInHand(w)'
BY DEF IInv, InHand, WorkerInHand, IsRunCommand, Reported

-----------------------------------------------------------------------------
(* Each action preserves the invariant.                                    *)

(* The saga publishes a command.                                           *)
LEMMA AskPreserves ==
  ASSUME IInv, NEW cmd \in CommandMsg, Ask(cmd)
  PROVE  IInv'
<1>1. /\ cmd \in Message /\ cmd.topic \in Commands
      /\ LogType(log)
      /\ UNCHANGED <<offset, rows, registry, workers, claims, faults>>
  BY DEF Ask, IInv, TypeOK, Message, CommandMsg, RunRequestedMsg, ReviewRequestedMsg,
         StopRequestedMsg, Commands
<1>2. /\ LogType(log')
      /\ \A t \in Topics : /\ MessagesIn(log, t) \subseteq MessagesIn(log', t)
                           /\ Len(log'[t]) >= Len(log[t])
      /\ \A t \in Facts : log'[t] = log[t]
  BY <1>1, PublishedType, PublishedKeeps, PublishedGrows DEF Ask, Facts, Commands, Topics
<1>3. TypeOK'
  BY <1>1, <1>2 DEF IInv, TypeOK, registry
<1>4. OneOwner' /\ CancelsTheRunning'
  BY <1>1, OwnersKept DEF IInv, registry
<1>5. \A w \in Workers : WorkerInHand(w)'
  <2> SUFFICES ASSUME NEW w \in Workers PROVE WorkerInHand(w)'
    OBVIOUS
  <2>1. \A t \in Facts : Reported(t, workers[w].run)' => Reported(t, workers[w].run)
    BY <1>1, <1>2 DEF Reported, MessagesIn
  <2>2. RowsKept /\ WorkerInHand(w) /\ workers' = workers
    BY <1>1 DEF RowsKept, IInv, InHand
  <2>3. \A t \in Commands : MessagesIn(log, t) \subseteq MessagesIn(log', t)
    BY <1>2 DEF Topics
  <2> QED BY <2>1, <2>2, <2>3, WorkerKept
<1>6. \A t \in Commands : ClaimInHand(t)'
  <2>1. \A t \in Commands : Len(log'[t]) \in Nat /\ Len(log'[t]) >= Len(log[t])
    BY <1>2 DEF LogType, Topics
  <2> QED BY <1>1, <2>1, ClaimKept DEF IInv, InHand
<1>7. (pending # NoCommand => IsRunCommand(pending))'
  BY <1>1, <1>2 DEF IInv, InHand, IsRunCommand, registry, Topics, Commands
<1>8. \A t \in Facts : \A m \in MessagesIn(log', t) : m.run \in DOMAIN rows'
  BY <1>1, <1>2 DEF IInv, InHand, MessagesIn
<1> QED BY <1>3, <1>4, <1>5, <1>6, <1>7, <1>8 DEF IInv, InHand

(* The commands the saga publishes are well formed.                        *)
LEMMA SagaAsksCommands ==
  ASSUME TypeOK, SagaAsks
  PROVE  \E cmd \in CommandMsg : Ask(cmd)
<1>1. \A round \in Rounds, agent \in AgentRef : RunRequested(round, agent) \in CommandMsg
  BY RunnerAssumption DEF RunRequested, CommandMsg, RunRequestedMsg
<1>2. ASSUME NEW m \in MessagesIn(log, "run.completed"), NEW agent \in Agents
      PROVE  ReviewRequested(m.run, m.round, agent) \in CommandMsg
  <2>1. m \in RunCompletedMsg
    BY MessagesType, MessageOfTopic DEF TypeOK, Topics, Facts
  <2> QED BY <2>1 DEF ReviewRequested, CommandMsg, ReviewRequestedMsg, RunCompletedMsg, AgentRef
<1>3. StopRequested \in CommandMsg
  BY DEF StopRequested, CommandMsg, StopRequestedMsg
<1> QED BY <1>1, <1>2, <1>3 DEF SagaAsks

(* A claim that returns is done with its command.                          *)
LEMMA Returned ==
  ASSUME TypeOK, InHand, NEW t \in Commands, Return(t), UNCHANGED log
  PROVE  /\ offset' \in [Commands -> Offset]
         /\ claims' \in [Commands -> [pc: {"idle", "register", "defer", "cancel"}]]
         /\ claims'[t].pc = "idle"
         /\ \A u \in Commands \ {t} : claims'[u] = claims[u]
         /\ \A u \in Commands : ClaimInHand(u)'
<1>1. offset' \in [Commands -> Offset] /\ \A u \in Commands \ {t} : offset'[u] = offset[u]
  <2>1. offset \in [Commands -> Offset] /\ offset[t] \in Offset
    BY DEF TypeOK
  <2>2. [offset[t] EXCEPT !.next = offset[t].next + 1] \in Offset
    BY <2>1 DEF Offset
  <2>3. offset' = [offset EXCEPT ![t] = [offset[t] EXCEPT !.next = offset[t].next + 1]]
    BY <2>1 DEF Return, Marked
  <2> QED BY <2>1, <2>2, <2>3
<1>2. /\ claims' \in [Commands -> [pc: {"idle", "register", "defer", "cancel"}]]
      /\ claims'[t] = Idle
      /\ \A u \in Commands \ {t} : claims'[u] = claims[u]
  BY DEF TypeOK, Return, Idle
<1>3. ASSUME NEW u \in Commands PROVE ClaimInHand(u)'
  <2>1. CASE u = t
    BY <1>2, <2>1 DEF ClaimInHand
  <2>2. CASE u # t
    <3>1. claims'[u] = claims[u] /\ offset'[u] = offset[u]
      BY <1>1, <1>2, <2>2
    <3> QED BY <3>1 DEF InHand, ClaimInHand, HasNext
  <2> QED BY <2>1, <2>2
<1> QED BY <1>1, <1>2, <1>3 DEF Idle

(* A claim that goes on still holds its command.                           *)
LEMMA Continued ==
  ASSUME TypeOK, InHand, UNCHANGED log,
         NEW t \in Commands, NEW pc \in {"register", "defer", "cancel"}, Continue(t, pc),
         HasNext(log, offset, t), pc = "cancel" <=> t = "stop-requested"
  PROVE  /\ claims' \in [Commands -> [pc: {"idle", "register", "defer", "cancel"}]]
         /\ claims'[t].pc = pc
         /\ \A u \in Commands \ {t} : claims'[u] = claims[u]
         /\ \A u \in Commands : ClaimInHand(u)'
BY DEF TypeOK, Continue, InHand, ClaimInHand, HasNext

(* The command claims.                                                     *)
LEMMA ClaimsPreserve ==
  ASSUME IInv, NEW t \in Commands, ClaimStep(t)
  PROVE  IInv'
<1>0. TypeOK /\ InHand /\ OneOwner /\ CancelsTheRunning
  BY DEF IInv
<1>1. CASE TakeTask(t)
  <2> DEFINE next == IF running THEN "defer" ELSE "register"
  <2>1. /\ claims' \in [Commands -> [pc: {"idle", "register", "defer", "cancel"}]]
        /\ claims'[t].pc = next
        /\ \A u \in Commands \ {t} : claims'[u] = claims[u]
        /\ \A u \in Commands : ClaimInHand(u)'
    BY <1>0, <1>1, Continued DEF TakeTask, Receiving
  <2>2. TypeOK'
    BY <1>0, <1>1, <2>1 DEF TypeOK, TakeTask, Continue
  <2>3. claims[t].pc = "idle"
    BY <1>1 DEF TakeTask, Receiving, Idle
  <2>4. OneOwner' /\ CancelsTheRunning'
    <3>1. CASE running
      BY <1>0, <1>1, <2>1, <2>3, <3>1, OwnersKept DEF TakeTask
    <3>2. CASE ~running
      <4>1. Owners = {}
        BY <1>0, <3>2 DEF OneOwner
      <4>2. Owners' = {t}
        BY <1>1, <2>1, <3>2, <4>1 DEF Owners, TakeTask
      <4> QED BY <1>0, <1>1, <4>2 DEF OneOwner, CancelsTheRunning, TakeTask
    <3> QED BY <3>1, <3>2
  <2>5. InHand'
    BY <1>1, <2>1, TablesUntouched, WorkersUntouched
    DEF IInv, InHand, TakeTask, IsRunCommand
  <2> QED BY <2>2, <2>4, <2>5 DEF IInv
<1>2. CASE Queue(t)
  <2>1. /\ offset' \in [Commands -> Offset]
        /\ claims' \in [Commands -> [pc: {"idle", "register", "defer", "cancel"}]]
        /\ claims'[t].pc = "idle"
        /\ \A u \in Commands \ {t} : claims'[u] = claims[u]
        /\ \A u \in Commands : ClaimInHand(u)'
    BY <1>0, <1>2, Returned DEF Queue
  <2>2. Command(t) \in RunCommandMsg /\ IsRunCommand(Command(t))
    BY <1>0, <1>2, ClaimedCommand DEF Queue, InHand, ClaimInHand, Idle
  <2>3. TypeOK'
    BY <1>0, <1>2, <2>1, <2>2 DEF TypeOK, Queue
  <2>4. OneOwner' /\ CancelsTheRunning'
    BY <1>0, <1>2, <2>1, OwnersKept DEF Queue
  <2>5. (pending # NoCommand => IsRunCommand(pending))'
    BY <1>2, <2>2 DEF Queue, IsRunCommand
  <2>6. InHand'
    BY <1>2, <2>1, <2>5, TablesUntouched, WorkersUntouched DEF IInv, InHand, Queue
  <2> QED BY <2>3, <2>4, <2>6 DEF IInv
<1>3. CASE Launch(t)
  <2>1. /\ offset' \in [Commands -> Offset]
        /\ claims' \in [Commands -> [pc: {"idle", "register", "defer", "cancel"}]]
        /\ claims'[t].pc = "idle"
        /\ \A u \in Commands \ {t} : claims'[u] = claims[u]
        /\ \A u \in Commands : ClaimInHand(u)'
    BY <1>0, <1>3, Returned DEF Launch
  <2>2. Command(t) \in RunCommandMsg /\ IsRunCommand(Command(t))
    BY <1>0, <1>3, ClaimedCommand DEF Launch, InHand, ClaimInHand, Idle
  <2>3. PICK w \in Workers : /\ workers[w] = Idle
                             /\ workers' = [workers EXCEPT ![w] = Started(Command(t))]
                             /\ cancels' = w
    BY <1>3 DEF Launch
  <2>4. /\ workers' \in [Workers -> Worker]
        /\ workers'[w] = Started(Command(t))
        /\ \A u \in Workers \ {w} : workers'[u] = workers[u]
    BY <1>0, <2>2, <2>3, WorkerStates DEF TypeOK
  <2>5. TypeOK'
    BY <1>0, <1>3, <2>1, <2>3, <2>4 DEF TypeOK, Launch
  <2>6. OneOwner' /\ CancelsTheRunning'
    <3>1. /\ \A u \in Workers : workers[u].pc \notin Owning
          /\ \A u \in Commands \ {t} : claims[u].pc # "register"
          /\ running
      BY <1>0, <1>3, Alone DEF Launch, OneOwner, Owners
    <3>2. Owners' = {w}
      BY <2>1, <2>4, <3>1 DEF Owners, Started, Owning, Executing
    <3>3. \A u \in Workers : cancels' = u <=> workers'[u].pc \in Executing
      BY <2>3, <2>4, <3>1 DEF Started, Owning, Executing
    <3> QED BY <1>3, <3>1, <3>2, <3>3 DEF Launch, OneOwner, CancelsTheRunning
  <2>7. WorkerInHand(w)'
    <3>1. IsRunCommand(workers[w].cmd)'
      BY <1>3, <2>2, <2>4 DEF IsRunCommand, Launch, Started
    <3> QED BY <2>4, <3>1 DEF WorkerInHand, Started
  <2>8. \A u \in Workers \ {w} : WorkerInHand(u)'
    BY <1>3, <2>4, TablesUntouched, OthersKept DEF Launch
  <2>9. InHand'
    BY <1>0, <1>3, <2>1, <2>7, <2>8, TablesUntouched DEF InHand, Launch, IsRunCommand
  <2> QED BY <2>5, <2>6, <2>9 DEF IInv
<1>4. CASE t = "stop-requested" /\ DropQueued
  <2>1. /\ claims' \in [Commands -> [pc: {"idle", "register", "defer", "cancel"}]]
        /\ claims'[t].pc = "cancel"
        /\ \A u \in Commands \ {t} : claims'[u] = claims[u]
        /\ \A u \in Commands : ClaimInHand(u)'
    BY <1>0, <1>4, Continued DEF DropQueued, Receiving
  <2>2. TypeOK'
    BY <1>0, <1>4, <2>1 DEF TypeOK, DropQueued, Continue
  <2>3. OneOwner' /\ CancelsTheRunning'
    BY <1>0, <1>4, <2>1, OwnersKept DEF DropQueued, Receiving, Idle
  <2>4. InHand'
    BY <1>4, <2>1, TablesUntouched, WorkersUntouched DEF IInv, InHand, DropQueued
  <2> QED BY <2>2, <2>3, <2>4 DEF IInv
<1>5. CASE t = "stop-requested" /\ CancelRegistered
  <2>1. /\ offset' \in [Commands -> Offset]
        /\ claims' \in [Commands -> [pc: {"idle", "register", "defer", "cancel"}]]
        /\ claims'[t].pc = "idle"
        /\ \A u \in Commands \ {t} : claims'[u] = claims[u]
        /\ \A u \in Commands : ClaimInHand(u)'
    BY <1>0, <1>5, Returned DEF CancelRegistered
  <2>2. ASSUME NEW w \in Workers
        PROVE  /\ workers'[w] \in Worker
               /\ workers'[w] # Idle => workers[w] # Idle
               /\ workers'[w].pc = workers[w].pc
               /\ workers'[w] # Idle =>
                    /\ workers'[w].cmd = workers[w].cmd
                    /\ workers'[w].run = workers[w].run
                    /\ workers'[w].outcome = workers[w].outcome
                    /\ workers'[w].decision = workers[w].decision
    <3>1. CASE w = cancels
      <4>1. workers[w].pc \in Executing
        BY <1>0, <3>1 DEF CancelsTheRunning
      <4>2. workers[w] # Idle
        BY <4>1 DEF Executing, Idle
      <4>3. workers'[w] = [workers[w] EXCEPT !.cancelled = TRUE]
        BY <1>5, <3>1 DEF CancelRegistered
      <4>4. workers[w] \in Worker \ {Idle}
        BY <1>0, <4>2 DEF TypeOK
      <4>5. /\ workers'[w] \in Worker
            /\ workers'[w].pc = workers[w].pc
            /\ workers'[w].cmd = workers[w].cmd
            /\ workers'[w].run = workers[w].run
            /\ workers'[w].outcome = workers[w].outcome
            /\ workers'[w].decision = workers[w].decision
        BY <4>3, <4>4 DEF Worker
      <4> QED BY <4>2, <4>5
    <3>2. CASE w # cancels
      BY <1>0, <1>5, <3>2 DEF CancelRegistered, TypeOK
    <3> QED BY <3>1, <3>2
  <2>3. workers' \in [Workers -> Worker]
    BY <1>5, <2>2 DEF CancelRegistered
  <2>4. TypeOK'
    BY <1>0, <1>5, <2>1, <2>3 DEF TypeOK, CancelRegistered, registry
  <2>5. OneOwner' /\ CancelsTheRunning'
    <3>1. claims[t].pc = "cancel"
      BY <1>5 DEF CancelRegistered
    <3> QED BY <1>0, <1>5, <2>1, <2>2, <3>1, OwnersKept DEF CancelRegistered, registry
  <2>6. ASSUME NEW w \in Workers PROVE WorkerInHand(w)'
    BY <1>0, <1>5, <2>2 DEF CancelRegistered, InHand, WorkerInHand, IsRunCommand, Reported
  <2>7. InHand'
    BY <1>0, <1>5, <2>1, <2>6, TablesUntouched DEF InHand, CancelRegistered, registry, IsRunCommand
  <2> QED BY <2>4, <2>5, <2>7 DEF IInv
<1> QED BY <1>1, <1>2, <1>3, <1>4, <1>5 DEF ClaimStep

(* A goroutine goes on to its next step.                                   *)
LEMMA WentOn ==
  ASSUME TypeOK, NEW w \in Workers, workers[w].pc # "idle",
         NEW pc \in Owning \cup {"redispatch", "restart", "defer"}, Goto(w, pc)
  PROVE  /\ workers' \in [Workers -> Worker]
         /\ workers[w] # Idle
         /\ workers'[w] # Idle
         /\ workers'[w].pc = pc
         /\ workers'[w].cmd = workers[w].cmd
         /\ workers'[w].run = workers[w].run
         /\ workers'[w].outcome = workers[w].outcome
         /\ workers'[w].decision = workers[w].decision
         /\ \A u \in Workers \ {w} : workers'[u] = workers[u]
<1>1. workers[w] \in Worker /\ workers[w] # Idle
  BY AtAStep DEF TypeOK
<1>2. [workers[w] EXCEPT !.pc = pc] \in Worker
  BY <1>1, WorkerStates
<1>3. /\ workers' = [workers EXCEPT ![w] = [workers[w] EXCEPT !.pc = pc]]
      /\ workers \in [Workers -> Worker]
  BY DEF Goto, TypeOK
<1>4. pc # "idle"
  BY DEF Owning, Executing
<1>5. workers'[w] = [workers[w] EXCEPT !.pc = pc]
  BY <1>3
<1>6. /\ workers'[w].pc = pc
      /\ workers'[w].cmd = workers[w].cmd
      /\ workers'[w].run = workers[w].run
      /\ workers'[w].outcome = workers[w].outcome
      /\ workers'[w].decision = workers[w].decision
  BY <1>1, <1>5 DEF Worker
<1> QED BY <1>1, <1>2, <1>3, <1>4, <1>6 DEF Idle

(* A step of a goroutine that leaves the log, the table, the claims and    *)
(* the queue alone keeps what is in hand, if the goroutine's own does.     *)
LEMMA InHandKept ==
  ASSUME IInv, NEW w \in Workers, WorkerInHand(w)',
         \A u \in Workers \ {w} : workers'[u] = workers[u],
         UNCHANGED <<log, rows, claims, offset>>,
         pending' # NoCommand => IsRunCommand(pending')
  PROVE  InHand'
<1>1. \A u \in Workers \ {w} : WorkerInHand(u)'
  BY TablesUntouched, OthersKept
<1>2. \A t \in Commands : ClaimInHand(t)'
  BY ClaimsUntouched DEF IInv
<1>3. (pending # NoCommand => IsRunCommand(pending))'
  BY DEF IsRunCommand
<1> QED BY <1>1, <1>2, <1>3, TablesUntouched DEF InHand

(* A goroutine that owns the task and neither registers nor gives it up.   *)
LEMMA OwnerKept ==
  ASSUME OneOwner, CancelsTheRunning, NEW w \in Workers,
         UNCHANGED <<running, cancels, claims>>,
         workers[w].pc \in Executing, workers'[w].pc \in Executing,
         \A u \in Workers \ {w} : workers'[u] = workers[u]
  PROVE  OneOwner' /\ CancelsTheRunning'
<1>1. \A u \in Workers : /\ workers'[u].pc \in Owning <=> workers[u].pc \in Owning
                         /\ workers'[u].pc \in Executing <=> workers[u].pc \in Executing
  BY DEF Owning
<1> QED BY <1>1, OwnersKept

(* hasRun.                                                                 *)
LEMMA ChecksPreserve ==
  ASSUME IInv, NEW w \in Workers, Check(w) \/ CheckFails(w)
  PROVE  IInv'
<1>1. TypeOK /\ OneOwner /\ CancelsTheRunning /\ WorkerInHand(w) /\ InHand
  BY DEF IInv, InHand
<1>2. PICK pc \in {"create", "unregister"} : Goto(w, pc)
  BY DEF Check, CheckFails
<1>3. /\ UNCHANGED <<log, offset, rows, registry, claims>>
      /\ faults' \in Nat
      /\ workers[w].pc = "check"
  BY <1>1 DEF Check, CheckFails, Fault, TypeOK
<1>4. /\ workers' \in [Workers -> Worker]
      /\ workers[w] # Idle
      /\ workers'[w].pc = pc
      /\ workers'[w].cmd = workers[w].cmd
      /\ \A u \in Workers \ {w} : workers'[u] = workers[u]
  BY <1>1, <1>2, <1>3, WentOn DEF Owning, Executing
<1>5. TypeOK'
  BY <1>1, <1>3, <1>4 DEF TypeOK, registry
<1>6. OneOwner' /\ CancelsTheRunning'
  BY <1>1, <1>2, <1>3, <1>4, OwnerKept DEF Executing, registry
<1>7. WorkerInHand(w)'
  BY <1>1, <1>3, <1>4 DEF WorkerInHand, IsRunCommand
<1>8. InHand'
  BY <1>1, <1>3, <1>4, <1>7, InHandKept DEF InHand, registry
<1> QED BY <1>5, <1>6, <1>8 DEF IInv

(* A row added to the table leaves the rows of before where they were.     *)
LEMMA RowAppended ==
  ASSUME TypeOK, NEW w \in Workers, workers[w] # Idle, IsRunCommand(workers[w].cmd),
         rows' = Append(rows, NewRow(workers[w].cmd))
  PROVE  /\ rows' \in Seq(Row)
         /\ RowsKept
         /\ Len(rows) + 1 \in DOMAIN rows'
         /\ rows'[Len(rows) + 1] = NewRow(workers[w].cmd)
<1>1. NewRow(workers[w].cmd) \in Row
  BY WorkerFields DEF NewRow, Row
<1>2. rows \in Seq(Row)
  BY DEF TypeOK
<1> QED BY <1>1, <1>2 DEF RowsKept

(* What the goroutine that creates a run goes on with.                     *)
LEMMA WorkerCreates ==
  ASSUME TypeOK, NEW w \in Workers, Create(w)
  PROVE  /\ workers' \in [Workers -> Worker]
         /\ workers'[w].pc = "finish"
         /\ workers'[w].cmd = workers[w].cmd
         /\ workers'[w].run = Len(rows) + 1
         /\ \A u \in Workers \ {w} : workers'[u] = workers[u]
<1> DEFINE g == [workers[w] EXCEPT !.pc = "finish"]
<1>1. workers \in [Workers -> Worker] /\ workers[w] \in Worker \ {Idle} /\ Len(rows) \in Nat
  BY DEF TypeOK, Create, Idle
<1>2. g \in Worker \ {Idle} /\ g.pc = "finish" /\ g.cmd = workers[w].cmd
  BY <1>1 DEF Worker, Owning, Executing, Idle
<1>3. workers' = [workers EXCEPT ![w] = [g EXCEPT !.run = Len(rows) + 1]]
  BY DEF Create
<1> HIDE DEF g
<1>4. /\ [g EXCEPT !.run = Len(rows) + 1] \in Worker
      /\ [g EXCEPT !.run = Len(rows) + 1].pc = g.pc
      /\ [g EXCEPT !.run = Len(rows) + 1].cmd = g.cmd
      /\ [g EXCEPT !.run = Len(rows) + 1].run = Len(rows) + 1
  BY <1>1, <1>2 DEF Worker
<1> QED BY <1>1, <1>2, <1>3, <1>4

(* CreateRun.                                                              *)
LEMMA CreatePreserves ==
  ASSUME IInv, NEW w \in Workers, Create(w) \/ CreateFails(w)
  PROVE  IInv'
<1>1. TypeOK /\ OneOwner /\ CancelsTheRunning /\ WorkerInHand(w) /\ InHand
  BY DEF IInv, InHand
<1>2. /\ UNCHANGED <<log, offset, registry, claims>>
      /\ faults' \in Nat
      /\ workers[w].pc = "create"
      /\ workers[w] # Idle
      /\ rows' \in {rows, Append(rows, NewRow(workers[w].cmd))}
      /\ workers[w] \in Worker
  BY <1>1 DEF Create, CreateFails, Fault, TypeOK, Idle
<1>3. IsRunCommand(workers[w].cmd)
  BY <1>1, <1>2 DEF WorkerInHand
<1>4. rows' \in Seq(Row) /\ RowsKept
  BY <1>1, <1>2, <1>3, RowAppended DEF TypeOK, RowsKept
<1>5. \A u \in Workers \ {w} : WorkerInHand(u)'
  <2>1. \A u \in Workers \ {w} : workers'[u] = workers[u]
    BY <1>1 DEF TypeOK, Create, CreateFails, Goto
  <2>2. \A t \in Commands : MessagesIn(log, t) \subseteq MessagesIn(log', t)
    BY <1>2
  <2> QED BY <1>2, <1>4, <2>1, <2>2, OthersKept
<1>6. \A t \in Commands : ClaimInHand(t)'
  BY <1>1, <1>2, ClaimsUntouched
<1>7. \A t \in Facts : \A m \in MessagesIn(log', t) : m.run \in DOMAIN rows'
  BY <1>1, <1>2, <1>4 DEF InHand, RowsKept
<1>8. /\ workers' \in [Workers -> Worker]
      /\ workers'[w].pc \in Executing
      /\ \A u \in Workers \ {w} : workers'[u] = workers[u]
      /\ WorkerInHand(w)'
  <2>1. CASE Create(w)
    <3>1. /\ workers' \in [Workers -> Worker]
          /\ workers'[w].pc = "finish"
          /\ workers'[w].cmd = workers[w].cmd
          /\ workers'[w].run = Len(rows) + 1
          /\ \A u \in Workers \ {w} : workers'[u] = workers[u]
      BY <1>1, <2>1, WorkerCreates
    <3>2. /\ Len(rows) + 1 \in DOMAIN rows'
          /\ rows'[Len(rows) + 1] = NewRow(workers[w].cmd)
      BY <1>1, <1>2, <1>3, <2>1, RowAppended DEF Create
    <3>3. \A t \in Facts : ~Reported(t, Len(rows) + 1)
      BY <1>1 DEF InHand, Reported, TypeOK
    <3>4. WorkerInHand(w)'
      BY <1>2, <1>3, <3>1, <3>2, <3>3 DEF WorkerInHand, IsRunCommand, Reported, NewRow, RoleOf, Facts
    <3> QED BY <3>1, <3>4 DEF Executing
  <2>2. CASE CreateFails(w)
    <3>1. /\ workers' \in [Workers -> Worker]
          /\ workers'[w].pc = "unregister"
          /\ workers'[w].cmd = workers[w].cmd
          /\ \A u \in Workers \ {w} : workers'[u] = workers[u]
      BY <1>1, <1>2, <2>2, WentOn DEF CreateFails, Owning, Executing
    <3>2. WorkerInHand(w)'
      BY <1>2, <1>3, <3>1 DEF WorkerInHand, IsRunCommand
    <3> QED BY <3>1, <3>2 DEF Executing
  <2> QED BY <2>1, <2>2
<1>9. TypeOK'
  BY <1>1, <1>2, <1>4, <1>8 DEF TypeOK, registry
<1>10. OneOwner' /\ CancelsTheRunning'
  BY <1>1, <1>2, <1>8, OwnerKept DEF Executing, registry
<1>11. InHand'
  BY <1>1, <1>2, <1>5, <1>6, <1>7, <1>8 DEF InHand, IsRunCommand, registry
<1> QED BY <1>9, <1>10, <1>11 DEF IInv

(* How a run may end.                                                      *)
LEMMA EndingsType ==
  ASSUME NEW role \in Roles, NEW e \in Endings(role)
  PROVE  /\ e[1] \in Outcomes
         /\ e[2] \in Decisions \cup {NoDecision}
         /\ e = <<e[1], e[2]>>
         /\ e[2] # NoDecision => role = "reviewer" /\ e[2] \in Decisions
<1>1. CASE role = "implementer"
  BY <1>1, RunnerAssumption DEF Endings
<1>2. CASE role = "reviewer"
  BY <1>2, RunnerAssumption DEF Endings
<1> QED BY <1>1, <1>2 DEF Roles

(* What the goroutine whose run has ended goes on with.                    *)
LEMMA WorkerEnds ==
  ASSUME TypeOK, NEW w \in Workers, workers[w].pc = "finish", NEW e, Ended(w, e),
         e[1] \in Outcomes, e[2] \in Decisions \cup {NoDecision}
  PROVE  /\ workers' \in [Workers -> Worker]
         /\ workers'[w].pc = "report"
         /\ workers'[w].cmd = workers[w].cmd
         /\ workers'[w].run = workers[w].run
         /\ workers'[w].outcome = e[1]
         /\ workers'[w].decision = e[2]
         /\ \A u \in Workers \ {w} : workers'[u] = workers[u]
<1> DEFINE g == [workers[w] EXCEPT !.pc = "report"]
           h == [g EXCEPT !.outcome = e[1]]
<1>1. workers \in [Workers -> Worker] /\ workers[w] \in Worker \ {Idle}
  BY DEF TypeOK, Idle
<1>2. /\ g \in Worker \ {Idle}
      /\ g.pc = "report" /\ g.cmd = workers[w].cmd /\ g.run = workers[w].run
  BY <1>1 DEF Worker, Owning, Executing, Idle
<1>3. workers' = [workers EXCEPT ![w] = [h EXCEPT !.decision = e[2]]]
  BY DEF Ended
<1> HIDE DEF g
<1>4. /\ h \in Worker \ {Idle}
      /\ h.pc = "report" /\ h.cmd = g.cmd /\ h.run = g.run /\ h.outcome = e[1]
  BY <1>2 DEF Worker, Idle
<1> HIDE DEF h
<1>5. /\ [h EXCEPT !.decision = e[2]] \in Worker
      /\ [h EXCEPT !.decision = e[2]].pc = "report"
      /\ [h EXCEPT !.decision = e[2]].cmd = h.cmd
      /\ [h EXCEPT !.decision = e[2]].run = h.run
      /\ [h EXCEPT !.decision = e[2]].outcome = h.outcome
      /\ [h EXCEPT !.decision = e[2]].decision = e[2]
  BY <1>4 DEF Worker, Idle
<1> QED BY <1>1, <1>2, <1>3, <1>4, <1>5

(* FinishRun.                                                              *)
LEMMA FinishPreserves ==
  ASSUME IInv, NEW w \in Workers, Finish(w)
  PROVE  IInv'
<1>1. /\ TypeOK /\ OneOwner /\ CancelsTheRunning /\ WorkerInHand(w) /\ InHand
      /\ workers[w].pc = "finish"
      /\ workers[w] \in Worker \ {Idle}
      /\ workers \in [Workers -> Worker]
      /\ UNCHANGED <<log, offset, registry, claims>>
  BY DEF IInv, InHand, TypeOK, Finish, Idle
<1>2. PICK e \in Endings(RoleOf(workers[w].cmd)) : Ended(w, e)
  BY DEF Finish
<1>3. /\ e[1] \in Outcomes
      /\ e[2] \in Decisions \cup {NoDecision}
      /\ e = <<e[1], e[2]>>
  BY <1>1, WorkerFields, EndingsType
<1>4. rows' \in Seq(Row) /\ RowsKept /\ faults' \in Nat
  <2>1. rows \in Seq(Row) /\ faults \in Nat /\ workers[w].run \in DOMAIN rows
    BY <1>1 DEF TypeOK, WorkerInHand
  <2> DEFINE row == rows[workers[w].run]
  <2>0. row \in Row
    BY <2>1
  <2>2. /\ [row EXCEPT !.status = e[1]] \in Row
        /\ [row EXCEPT !.status = e[1]].role = row.role
        /\ [row EXCEPT !.status = e[1]].round = row.round
    <3> HIDE DEF row
    <3> QED BY <1>3, <2>0 DEF Row
  <2>3. CASE rows' = [rows EXCEPT ![workers[w].run].status = e[1]] /\ UNCHANGED faults
    <3> DEFINE ended == [row EXCEPT !.status = e[1]]
    <3>1. rows' = [rows EXCEPT ![workers[w].run] = ended]
      BY <2>3
    <3>2. ended \in Row /\ ended.role = row.role /\ ended.round = row.round
      BY <2>2
    <3> HIDE DEF ended
    <3> QED BY <2>1, <2>3, <3>1, <3>2 DEF RowsKept
  <2>4. CASE Fault("finish") /\ UNCHANGED rows
    BY <2>1, <2>4 DEF Fault, RowsKept
  <2> QED BY <1>2, <2>3, <2>4 DEF Ended
<1>5. /\ workers' \in [Workers -> Worker]
      /\ workers'[w].pc = "report"
      /\ workers'[w].cmd = workers[w].cmd
      /\ workers'[w].run = workers[w].run
      /\ workers'[w].outcome = e[1]
      /\ workers'[w].decision = e[2]
      /\ \A u \in Workers \ {w} : workers'[u] = workers[u]
  BY <1>1, <1>2, <1>3, WorkerEnds
<1>6. TypeOK'
  BY <1>1, <1>4, <1>5 DEF TypeOK, registry
<1>7. OneOwner' /\ CancelsTheRunning'
  BY <1>1, <1>5, OwnerKept DEF Executing, registry
<1>8. WorkerInHand(w)'
  <2>1. <<e[1], e[2]>> \in Endings(RoleOf(workers[w].cmd))
    BY <1>2, <1>3
  <2> QED BY <1>1, <1>4, <1>5, <2>1
      DEF WorkerInHand, IsRunCommand, Reported, RowsKept
<1>9. \A u \in Workers \ {w} : WorkerInHand(u)'
  <2>1. \A t \in Commands : MessagesIn(log, t) \subseteq MessagesIn(log', t)
    BY <1>1
  <2> QED BY <1>1, <1>4, <1>5, <2>1, OthersKept
<1>10. InHand'
  <2>1. \A t \in Commands : ClaimInHand(t)'
    BY <1>1, ClaimsUntouched
  <2> QED BY <1>1, <1>4, <1>8, <1>9, <2>1 DEF InHand, RowsKept, IsRunCommand, registry
<1> QED BY <1>6, <1>7, <1>10 DEF IInv

(* A goroutine reports the run it has in hand, or fails to.                *)
LEMMA PublishesFact ==
  ASSUME TypeOK, InHand, NEW msg \in RunCompletedMsg \cup VerdictMsg,
         msg.run \in DOMAIN rows, Publish(msg), UNCHANGED rows
  PROVE  /\ LogType(log')
         /\ faults' \in Nat
         /\ \A t \in Commands : log'[t] = log[t]
         /\ \A t \in Facts \ {msg.topic} : log'[t] = log[t]
         /\ \A t \in Facts : \A m \in MessagesIn(log', t) : m.run \in DOMAIN rows'
<1>1. msg \in Message /\ msg.topic \in Facts
  BY DEF Message, RunCompletedMsg, VerdictMsg, Facts
<1>2. LogType(log) /\ faults \in Nat
  BY DEF TypeOK
<1>3. CASE log' = Published(log, msg) /\ UNCHANGED faults
  <2>1. LogType(log') /\ \A t \in Topics : t # msg.topic => log'[t] = log[t]
    BY <1>1, <1>2, <1>3, PublishedType, PublishedAppends
  <2>2. \A t \in Facts : MessagesIn(log', t) \subseteq MessagesIn(log, t) \cup {msg}
    BY <1>1, <1>2, <1>3, PublishedMessages DEF Topics
  <2>3. \A t \in Commands : t # msg.topic
    BY <1>1 DEF Commands, Facts
  <2> QED BY <1>2, <1>3, <2>1, <2>2, <2>3 DEF InHand, Topics
<1>4. CASE Fault("publish") /\ UNCHANGED log
  BY <1>2, <1>4 DEF Fault, InHand
<1> QED BY <1>3, <1>4 DEF Publish

(* The facts of a run.                                                     *)
LEMMA FactsPublished ==
  ASSUME IInv, NEW w \in Workers
  PROVE  /\ workers[w].pc = "report" =>
              /\ RunCompleted(workers[w].run, RoleOf(workers[w].cmd), workers[w].outcome,
                              workers[w].cmd.round) \in RunCompletedMsg
              /\ workers[w].decision # NoDecision =>
                   RoleOf(workers[w].cmd) = "reviewer" /\ workers[w].decision \in Decisions
         /\ workers[w].pc = "judge" =>
              Verdict(workers[w].run, workers[w].cmd.round, workers[w].decision) \in VerdictMsg
         /\ workers[w].pc \in {"report", "judge"} => workers[w].run \in DOMAIN rows
<1>1. TypeOK /\ WorkerInHand(w)
  BY DEF IInv, InHand
<1>2. ASSUME workers[w].pc \in {"report", "judge"}
      PROVE  /\ workers[w].run \in DOMAIN rows
             /\ workers[w].run \in RunId
             /\ RoleOf(workers[w].cmd) \in Roles
             /\ workers[w].cmd.round \in Nat
  <2>1. workers[w] # Idle
    BY <1>2 DEF Idle
  <2>2. workers[w].run \in DOMAIN rows /\ rows \in Seq(Row)
    BY <1>1, <1>2 DEF WorkerInHand, TypeOK
  <2> QED BY <1>1, <2>1, <2>2, WorkerFields DEF RunId
<1>3. ASSUME workers[w].pc = "report"
      PROVE  /\ workers[w].outcome \in Outcomes
             /\ workers[w].decision # NoDecision =>
                  RoleOf(workers[w].cmd) = "reviewer" /\ workers[w].decision \in Decisions
  <2> DEFINE e == <<workers[w].outcome, workers[w].decision>>
  <2>1. e \in Endings(RoleOf(workers[w].cmd))
    BY <1>1, <1>3 DEF WorkerInHand
  <2>2. e[1] = workers[w].outcome /\ e[2] = workers[w].decision
    OBVIOUS
  <2> HIDE DEF e
  <2> QED BY <1>2, <1>3, <2>1, <2>2, EndingsType
<1>4. workers[w].pc = "judge" => workers[w].decision \in Decisions
  BY <1>1 DEF WorkerInHand
<1> QED BY <1>2, <1>3, <1>4 DEF RunCompleted, RunCompletedMsg, Verdict, VerdictMsg

(* run.completed and verdict.                                              *)
LEMMA ReportsPreserve ==
  ASSUME IInv, NEW w \in Workers, Report(w) \/ Judge(w)
  PROVE  IInv'
<1>1. /\ TypeOK /\ OneOwner /\ CancelsTheRunning /\ WorkerInHand(w) /\ InHand
      /\ workers[w].pc \in {"report", "judge"}
      /\ UNCHANGED <<offset, rows, registry, claims>>
  BY DEF IInv, InHand, Report, Judge
<1>2. PICK msg \in RunCompletedMsg \cup VerdictMsg :
        /\ Publish(msg)
        /\ msg.run \in DOMAIN rows
        /\ workers[w].pc = "report" => msg.topic # "verdict"
  <2>1. CASE Report(w)
    <3> DEFINE m == RunCompleted(workers[w].run, RoleOf(workers[w].cmd), workers[w].outcome,
                                 workers[w].cmd.round)
    <3>1. m \in RunCompletedMsg /\ m.run \in DOMAIN rows /\ m.topic = "run.completed"
      BY <1>1, <2>1, FactsPublished DEF Report, RunCompleted
    <3> QED BY <2>1, <3>1 DEF Report
  <2>2. CASE Judge(w)
    <3> DEFINE m == Verdict(workers[w].run, workers[w].cmd.round, workers[w].decision)
    <3>1. m \in VerdictMsg /\ m.run \in DOMAIN rows
      BY <1>1, <2>2, FactsPublished DEF Judge, Verdict
    <3> QED BY <2>2, <3>1 DEF Judge
  <2> QED BY <2>1, <2>2
<1>3. /\ LogType(log') /\ faults' \in Nat
      /\ \A t \in Commands : log'[t] = log[t]
      /\ \A t \in Facts \ {msg.topic} : log'[t] = log[t]
      /\ \A t \in Facts : \A m \in MessagesIn(log', t) : m.run \in DOMAIN rows'
  BY <1>1, <1>2, PublishesFact
<1>4. PICK pc \in {"judge", "unregister"} :
        /\ Goto(w, pc)
        /\ pc = "judge" => workers[w].pc = "report" /\ workers[w].decision # NoDecision
  BY DEF Report, Judge
<1>5. /\ workers' \in [Workers -> Worker]
      /\ workers[w] # Idle
      /\ workers'[w].pc = pc
      /\ workers'[w].cmd = workers[w].cmd
      /\ workers'[w].run = workers[w].run
      /\ workers'[w].decision = workers[w].decision
      /\ \A u \in Workers \ {w} : workers'[u] = workers[u]
  BY <1>1, <1>4, WentOn DEF Owning, Executing
<1>6. TypeOK'
  BY <1>1, <1>3, <1>5 DEF TypeOK, registry
<1>7. OneOwner' /\ CancelsTheRunning'
  BY <1>1, <1>4, <1>5, OwnerKept DEF Executing, registry
<1>8. /\ RowsKept
      /\ \A t \in Commands : MessagesIn(log, t) \subseteq MessagesIn(log', t)
  BY <1>1, <1>3 DEF RowsKept, MessagesIn
<1>9. WorkerInHand(w)'
  <2>1. IsRunCommand(workers[w].cmd)'
    BY <1>1, <1>5, <1>8 DEF WorkerInHand, IsRunCommand, Commands
  <2>2. CASE pc = "judge"
    <3>1. /\ workers[w].pc = "report"
          /\ RoleOf(workers[w].cmd) = "reviewer" /\ workers[w].decision \in Decisions
      BY <1>4, <2>2, FactsPublished
    <3>2. log'["verdict"] = log["verdict"]
      BY <1>2, <1>3, <3>1 DEF Facts
    <3>3. ~Reported("verdict", workers[w].run)'
      BY <1>1, <1>5, <3>1, <3>2 DEF WorkerInHand, Reported, MessagesIn
    <3> QED BY <1>1, <1>5, <2>1, <2>2, <3>1, <3>3 DEF WorkerInHand
  <2>3. CASE pc = "unregister"
    BY <1>5, <2>1, <2>3 DEF WorkerInHand
  <2> QED BY <2>2, <2>3
<1>10. \A u \in Workers \ {w} : WorkerInHand(u)'
  <2>1. workers[w].pc \in Owning
    BY <1>1 DEF Owning, Executing
  <2> QED BY <1>5, <1>8, <2>1, OthersKept
<1>11. \A t \in Commands : ClaimInHand(t)'
  BY <1>1, <1>3 DEF InHand, ClaimInHand, HasNext
<1>12. (pending # NoCommand => IsRunCommand(pending))'
  BY <1>1, <1>8 DEF InHand, IsRunCommand, Commands, registry
<1> QED BY <1>3, <1>6, <1>7, <1>9, <1>10, <1>11, <1>12 DEF IInv, InHand

(* The end of startRun's goroutine: cancels.Delete, running.Delete, and    *)
(* what it does with the queued command.                                   *)
LEMMA EndsPreserve ==
  ASSUME IInv, NEW w \in Workers,
         Unregister(w) \/ Release(w) \/ Restart(w) \/ Relaunch(w)
  PROVE  IInv'
<1>1. /\ TypeOK /\ OneOwner /\ CancelsTheRunning /\ WorkerInHand(w) /\ InHand
      /\ UNCHANGED <<log, offset, rows, pending, claims, faults>>
      /\ workers[w].pc \in {"unregister", "release", "restart", "register"}
      /\ running' \in BOOLEAN
      /\ cancels' \in Workers \cup {NoWorker}
  BY DEF IInv, InHand, TypeOK, Unregister, Release, Restart, Relaunch
<1>2. PICK pc \in {"release", "redispatch", "defer", "register", "check"} :
        /\ Goto(w, pc)
        /\ Unregister(w) => pc = "release"
        /\ Release(w) => pc = "redispatch"
        /\ Restart(w) => pc = IF running THEN "defer" ELSE "register"
        /\ Relaunch(w) => pc = "check"
  BY DEF Unregister, Release, Restart, Relaunch
<1>3. /\ workers' \in [Workers -> Worker]
      /\ workers[w] # Idle
      /\ workers'[w].pc = pc
      /\ workers'[w].cmd = workers[w].cmd
      /\ \A u \in Workers \ {w} : workers'[u] = workers[u]
  BY <1>1, <1>2, WentOn DEF Owning, Executing
<1>4. TypeOK'
  BY <1>1, <1>3 DEF TypeOK
<1>5. WorkerInHand(w)'
  BY <1>1, <1>3 DEF WorkerInHand, IsRunCommand
<1>6. InHand'
  BY <1>1, <1>3, <1>5, InHandKept DEF InHand
<1>7. Executing \subseteq Owning /\ "release" \in Owning \ Executing /\ "register" \in Owning \ Executing
  BY DEF Owning, Executing
<1>8. workers[w].pc \in Owning =>
        /\ \A u \in Workers \ {w} : workers[u].pc \notin Owning
        /\ \A t \in Commands : claims[t].pc # "register"
        /\ running
  BY <1>1, Alone DEF OneOwner, Owners
<1>9. OneOwner' /\ CancelsTheRunning'
  <2>1. CASE Unregister(w)
    <3>1. /\ running' = running /\ cancels' = NoWorker /\ pc = "release"
          /\ workers[w].pc \in Owning
      BY <1>2, <2>1 DEF Unregister, Owning, Executing
    <3>2. Owners' = {w}
      BY <1>1, <1>3, <1>7, <1>8, <3>1 DEF Owners
    <3>3. \A u \in Workers : cancels' = u <=> workers'[u].pc \in Executing
      BY <1>3, <1>7, <1>8, <3>1, RunnerAssumption
    <3> QED BY <1>8, <3>1, <3>2, <3>3 DEF OneOwner, CancelsTheRunning
  <2>2. CASE Release(w)
    <3>1. running' = FALSE /\ cancels' = cancels /\ pc = "redispatch" /\ workers[w].pc = "release"
      BY <1>2, <2>2 DEF Release
    <3>2. "redispatch" \notin Owning
      BY DEF Owning, Executing
    <3>3. Owners' = {}
      BY <1>1, <1>3, <1>7, <1>8, <3>1, <3>2 DEF Owners
    <3>4. \A u \in Workers : cancels' = u <=> workers'[u].pc \in Executing
      BY <1>1, <1>3, <1>7, <3>1, <3>2 DEF CancelsTheRunning
    <3> QED BY <3>1, <3>3, <3>4 DEF OneOwner, CancelsTheRunning
  <2>3. CASE Restart(w)
    <3>1. /\ running' = TRUE /\ cancels' = cancels /\ workers[w].pc = "restart"
          /\ pc = IF running THEN "defer" ELSE "register"
      BY <1>2, <2>3 DEF Restart
    <3>2. {"restart", "defer"} \cap Owning = {}
      BY DEF Owning, Executing
    <3>3. \A u \in Workers : cancels' = u <=> workers'[u].pc \in Executing
      BY <1>1, <1>3, <1>7, <3>1, <3>2 DEF CancelsTheRunning
    <3>4. CASE running
      <4>1. Owners' = Owners
        BY <1>1, <1>3, <3>1, <3>2, <3>4 DEF Owners
      <4> QED BY <1>1, <3>1, <3>3, <3>4, <4>1 DEF OneOwner, CancelsTheRunning
    <3>5. CASE ~running
      <4>1. Owners = {}
        BY <1>1, <3>5 DEF OneOwner
      <4>2. Owners' = {w}
        BY <1>1, <1>3, <1>7, <3>1, <3>5, <4>1 DEF Owners
      <4> QED BY <3>1, <3>3, <4>2 DEF OneOwner, CancelsTheRunning
    <3> QED BY <3>4, <3>5
  <2>4. CASE Relaunch(w)
    <3>1. /\ running' = running /\ cancels' = w /\ pc = "check"
          /\ workers[w].pc \in Owning
      BY <1>2, <2>4 DEF Relaunch, Owning
    <3>2. "check" \in Executing
      BY DEF Executing
    <3>3. Owners' = {w}
      BY <1>1, <1>3, <1>7, <1>8, <3>1, <3>2 DEF Owners
    <3>4. \A u \in Workers : cancels' = u <=> workers'[u].pc \in Executing
      BY <1>3, <1>7, <1>8, <3>1, <3>2
    <3> QED BY <1>8, <3>1, <3>3, <3>4 DEF OneOwner, CancelsTheRunning
  <2> QED BY <2>1, <2>2, <2>3, <2>4
<1> QED BY <1>4, <1>6, <1>9 DEF IInv

(* The queue: a goroutine that ends takes the queued command or leaves, or *)
(* puts its own back.                                                      *)
LEMMA QueuePreserves ==
  ASSUME IInv, NEW w \in Workers, Redispatch(w) \/ Requeue(w)
  PROVE  IInv'
<1>1. /\ TypeOK /\ OneOwner /\ CancelsTheRunning /\ WorkerInHand(w) /\ InHand
      /\ UNCHANGED <<log, offset, rows, running, cancels, claims, faults>>
      /\ workers[w].pc \in {"redispatch", "defer"}
      /\ workers[w] # Idle
  BY DEF IInv, InHand, Redispatch, Requeue, Idle
<1>2. /\ pending' \in RunCommandMsg \cup {NoCommand}
      /\ pending' # NoCommand => IsRunCommand(pending')
  BY <1>1, WorkerFields DEF Redispatch, Requeue, TypeOK, WorkerInHand
<1>3. PICK g \in Worker :
        /\ workers' = [workers EXCEPT ![w] = g]
        /\ g = Idle \/ (g.pc = "restart" /\ IsRunCommand(g.cmd))
  <2>1. CASE Redispatch(w) /\ pending # NoCommand
    <3>1. /\ pending \in RunCommandMsg
          /\ IsRunCommand(pending)
      BY <1>1, <2>1 DEF TypeOK, InHand
    <3>2. /\ [Started(pending) EXCEPT !.pc = "restart"] \in Worker
          /\ [Started(pending) EXCEPT !.pc = "restart"].pc = "restart"
          /\ [Started(pending) EXCEPT !.pc = "restart"].cmd = pending
      BY <3>1, WorkerStates DEF Started
    <3> QED BY <2>1, <3>1, <3>2 DEF Redispatch
  <2>2. CASE Redispatch(w) /\ pending = NoCommand
    BY <2>2, WorkerStates DEF Redispatch
  <2>3. CASE Requeue(w)
    BY <2>3, WorkerStates DEF Requeue
  <2> QED BY <2>1, <2>2, <2>3
<1>4. /\ workers' \in [Workers -> Worker]
      /\ workers'[w] = g
      /\ \A u \in Workers \ {w} : workers'[u] = workers[u]
  BY <1>1, <1>3 DEF TypeOK
<1>5. g.pc \in {"idle", "restart"}
  BY <1>3 DEF Idle
<1>6. TypeOK'
  BY <1>1, <1>2, <1>4 DEF TypeOK
<1>7. OneOwner' /\ CancelsTheRunning'
  <2>1. {"idle", "restart", "redispatch", "defer"} \cap (Owning \cup Executing) = {}
    BY DEF Owning, Executing
  <2> QED BY <1>1, <1>4, <1>5, <2>1, OwnersKept
<1>8. WorkerInHand(w)'
  BY <1>1, <1>3, <1>4, <1>5 DEF WorkerInHand, IsRunCommand, Idle
<1>9. InHand'
  BY <1>1, <1>2, <1>4, <1>8, InHandKept
<1> QED BY <1>6, <1>7, <1>9 DEF IInv

(* A crash leaves nothing in hand.                                         *)
LEMMA CrashPreserves ==
  ASSUME IInv, Crash
  PROVE  IInv'
<1>1. TypeOK /\ InHand
  BY DEF IInv
<1>2. offset' \in [Commands -> Offset]
  <2>1. ASSUME NEW t \in Commands PROVE ResumeAt(offset[t]) \subseteq Offset
    BY <1>1 DEF TypeOK, ResumeAt, Offset
  <2>2. DOMAIN offset = Commands
    BY <1>1 DEF TypeOK
  <2> QED BY <2>1, <2>2 DEF Crash, ResumePoints
<1>3. TypeOK'
  <2>1. /\ workers' \in [Workers -> Worker]
        /\ claims' \in [Commands -> [pc: {"idle", "register", "defer", "cancel"}]]
    BY WorkerStates DEF Crash, Idle
  <2>2. UNCHANGED <<log, rows>> /\ faults' \in Nat
    BY <1>1 DEF Crash, Fault, TypeOK
  <2> QED BY <1>1, <1>2, <2>1, <2>2 DEF TypeOK, Crash
<1>4. Owners' = {}
  BY DEF Crash, Owners, Idle, Owning, Executing
<1>5. OneOwner' /\ CancelsTheRunning'
  BY <1>4, RunnerAssumption DEF OneOwner, CancelsTheRunning, Crash, Idle, Executing
<1>6. InHand'
  BY <1>1 DEF InHand, Crash, WorkerInHand, ClaimInHand, Idle
<1> QED BY <1>3, <1>5, <1>6 DEF IInv

-----------------------------------------------------------------------------
(* Initially the run control is at rest.                                   *)
LEMMA InitIInv == Init => IInv
<1> SUFFICES ASSUME Init PROVE IInv
  OBVIOUS
<1>1. LogType(log)
  <2>1. log \in [Topics -> Seq(Message)] /\ \A t \in Topics : log[t] = << >>
    BY DEF Init, EmptyLog
  <2> QED BY <2>1 DEF LogType
<1>2. offset \in [Commands -> Offset]
  BY DEF Init, FirstOffset, Offset
<1>3. rows \in Seq(Row)
  BY DEF Init
<1>4. TypeOK
  BY <1>1, <1>2, <1>3, WorkerStates DEF Init, TypeOK, Idle
<1>5. Owners = {}
  BY DEF Init, Owners, Idle, Owning, Executing
<1>6. OneOwner /\ CancelsTheRunning
  BY <1>5, RunnerAssumption DEF Init, OneOwner, CancelsTheRunning, Idle, Executing
<1>7. \A t \in Facts : MessagesIn(log, t) = {}
  BY DEF Init, EmptyLog, MessagesIn, Topics
<1>8. InHand
  BY <1>7 DEF Init, InHand, WorkerInHand, ClaimInHand, Idle
<1> QED BY <1>4, <1>6, <1>8 DEF IInv

(* Every step preserves the invariant.                                     *)
LEMMA NextIInv == IInv /\ [Next]_vars => IInv'
<1> SUFFICES ASSUME IInv, [Next]_vars PROVE IInv'
  OBVIOUS
<1>1. CASE SagaAsks
  BY <1>1, SagaAsksCommands, AskPreserves DEF IInv
<1>2. CASE \E t \in Commands : ClaimStep(t)
  BY <1>2, ClaimsPreserve
<1>3. ASSUME NEW w \in Workers, WorkerStep(w) PROVE IInv'
  BY <1>3, ChecksPreserve, CreatePreserves, FinishPreserves, ReportsPreserve, EndsPreserve,
     QueuePreserves DEF WorkerStep
<1>4. CASE Crash
  BY <1>4, CrashPreserves
<1>5. CASE UNCHANGED vars
  <2>1. UNCHANGED <<log, offset, rows, running, cancels, pending, workers, claims, faults>>
    BY <1>5 DEF vars
  <2>2. TypeOK'
    BY <2>1 DEF IInv, TypeOK, LogType
  <2>3. OneOwner' /\ CancelsTheRunning'
    BY <2>1, OwnersKept DEF IInv
  <2>4. InHand'
    <3>1. /\ \A w \in Workers : WorkerInHand(w)'
          /\ \A t \in Commands : ClaimInHand(t)'
          /\ \A t \in Facts : \A m \in MessagesIn(log', t) : m.run \in DOMAIN rows'
      BY <2>1, TablesUntouched, WorkersUntouched, ClaimsUntouched DEF IInv
    <3>2. (pending # NoCommand => IsRunCommand(pending))'
      BY <2>1 DEF IInv, InHand, IsRunCommand
    <3> QED BY <3>1, <3>2 DEF InHand
  <2> QED BY <2>2, <2>3, <2>4 DEF IInv
<1> QED BY <1>1, <1>2, <1>3, <1>4, <1>5 DEF Next

(* The types, and what goroutines, claims and the queue have in hand, for  *)
(* any number of goroutines, commands, rounds and faults.                  *)
THEOREM Invariance == Spec => [](TypeOK /\ InHand)
<1>1. IInv => TypeOK /\ InHand
  BY DEF IInv
<1> QED BY <1>1, InitIInv, NextIInv, PTL DEF Spec

(* Whoever won LoadOrStore in startRun, a claim or a goroutine, has the    *)
(* task to itself until running.Delete, and the task's entry exists        *)
(* exactly while it has an owner.                                          *)
THEOREM SingleOwner == Spec => []OneOwner
<1>1. IInv => OneOwner
  BY DEF IInv
<1> QED BY <1>1, InitIInv, NextIInv, PTL DEF Spec

(* The cancel function CancelTask finds is that of the goroutine that      *)
(* executes, and there is one exactly while one executes.                  *)
THEOREM StopReachesTheRun == Spec => []CancelsTheRunning
<1>1. IInv => CancelsTheRunning
  BY DEF IInv
<1> QED BY <1>1, InitIInv, NextIInv, PTL DEF Spec

-----------------------------------------------------------------------------
(* The Executor's contract.                                                *)

(* What hasRun answered is still true when the run is created: no other    *)
(* goroutine creates a run of the task in between.                         *)
CheckStillHolds ==
  \A w \in Workers : workers[w].pc = "create" => ~NothingToDo(workers[w].cmd)

(* No step makes the answer wrong, if the list itself never is.            *)
LEMMA NextCheckStillHolds ==
  ASSUME "list" \notin FaultKinds
  PROVE  IInv /\ CheckStillHolds /\ [Next]_vars => CheckStillHolds'
<1> SUFFICES ASSUME IInv, CheckStillHolds, [Next]_vars,
                    NEW w \in Workers, workers'[w].pc = "create"
             PROVE  ~NothingToDo(workers[w].cmd)'
  BY DEF CheckStillHolds
<1>1. TypeOK /\ OneOwner /\ CancelsTheRunning
  BY DEF IInv
<1>2. ASSUME workers[w].pc = "create", workers'[w].cmd = workers[w].cmd, UNCHANGED rows
      PROVE  ~NothingToDo(workers[w].cmd)'
  <2>1. ~NothingToDo(workers[w].cmd)
    BY <1>2 DEF CheckStillHolds
  <2> QED BY <1>2, <2>1 DEF NothingToDo, HasRun
<1>3. CASE SagaAsks \/ UNCHANGED vars
  BY <1>2, <1>3 DEF SagaAsks, Ask, vars
<1>4. ASSUME NEW t \in Commands, ClaimStep(t) PROVE ~NothingToDo(workers[w].cmd)'
  <2>1. UNCHANGED rows
    BY <1>4 DEF ClaimStep, TakeTask, Queue, Launch, DropQueued, CancelRegistered
  <2>2. CASE TakeTask(t) \/ Queue(t) \/ DropQueued
    BY <1>2, <2>1, <2>2 DEF TakeTask, Queue, DropQueued
  <2>3. CASE Launch(t)
    <3>1. PICK v \in Workers : workers' = [workers EXCEPT ![v] = Started(Command(t))]
      BY <2>3 DEF Launch
    <3> QED BY <1>1, <1>2, <2>1, <3>1 DEF TypeOK, Started
  <2>4. CASE CancelRegistered
    <3>1. CASE w = cancels
      <4>1. workers[w].pc \in Executing /\ workers[w] \in Worker
        BY <1>1, <3>1 DEF TypeOK, CancelsTheRunning
      <4>2. workers'[w] = [workers[w] EXCEPT !.cancelled = TRUE]
        BY <2>4, <3>1 DEF CancelRegistered
      <4>3. workers'[w].pc = workers[w].pc /\ workers'[w].cmd = workers[w].cmd
        BY <4>1, <4>2 DEF Worker, Executing, Idle
      <4> QED BY <1>2, <2>1, <4>3
    <3>2. CASE w # cancels
      <4>1. workers'[w] = workers[w]
        BY <2>4, <3>2 DEF CancelRegistered
      <4> QED BY <1>2, <2>1, <4>1
    <3> QED BY <3>1, <3>2
  <2> QED BY <1>4, <2>2, <2>3, <2>4 DEF ClaimStep
<1>5. ASSUME NEW v \in Workers, WorkerStep(v), v # w PROVE ~NothingToDo(workers[w].cmd)'
  <2>1. workers'[w] = workers[w]
    BY <1>1, <1>5 DEF TypeOK, WorkerStep, Check, CheckFails, Create, CreateFails, Finish, Ended,
       Report, Judge, Unregister, Release, Redispatch, Restart, Requeue, Relaunch, Goto
  <2>2. workers[v].pc \notin Executing
    BY <1>1, <1>5, <2>1, Alone DEF Owning, Executing
  <2>3. UNCHANGED rows
    BY <1>5, <2>2 DEF Executing, WorkerStep, Check, CheckFails, Create, CreateFails, Finish,
       Report, Judge, Unregister, Release, Redispatch, Restart, Requeue, Relaunch
  <2> QED BY <1>2, <2>1, <2>3
<1>6. CASE WorkerStep(w)
  <2>1. CASE CheckFails(w)
    <3>1. Goto(w, "unregister") /\ workers[w].pc = "check"
      BY <2>1 DEF CheckFails, Fault
    <3>2. workers'[w].pc = "unregister"
      BY <1>1, <3>1, WentOn DEF Owning, Executing
    <3> QED BY <3>2
  <2>2. CASE Check(w)
    <3>1. PICK pc \in {"create", "unregister"} : Goto(w, pc) /\ (pc = "create" => ~GivesUp(w))
      BY <2>2 DEF Check
    <3>2. workers'[w].pc = pc /\ workers'[w].cmd = workers[w].cmd
      BY <1>1, <2>2, <3>1, WentOn DEF Check, Owning, Executing
    <3>3. UNCHANGED rows /\ ~NothingToDo(workers[w].cmd)
      BY <2>2, <3>1, <3>2 DEF Check, GivesUp
    <3> QED BY <3>2, <3>3 DEF NothingToDo, HasRun
  <2>3. CASE Redispatch(w) \/ Requeue(w)
    <3>1. workers'[w] = Idle \/ workers'[w] = [Started(pending) EXCEPT !.pc = "restart"]
      BY <1>1, <2>3 DEF TypeOK, Redispatch, Requeue
    <3> QED BY <3>1 DEF Idle, Started
  <2>4. CASE Create(w) \/ Finish(w)
    <3>1. CASE Create(w)
      BY <1>1, <3>1, WorkerCreates
    <3>2. CASE Finish(w)
      <4>1. /\ workers[w].pc = "finish"
            /\ RoleOf(workers[w].cmd) \in Roles
        BY <1>1, <3>2, WorkerFields DEF Finish, Idle
      <4>2. PICK e \in Endings(RoleOf(workers[w].cmd)) : Ended(w, e)
        BY <3>2 DEF Finish
      <4>3. workers'[w].pc = "report"
        BY <1>1, <4>1, <4>2, EndingsType, WorkerEnds
      <4> QED BY <4>3
    <3> QED BY <2>4, <3>1, <3>2
  <2>5. CASE CreateFails(w) \/ Report(w) \/ Judge(w) \/ Unregister(w) \/ Release(w)
               \/ Restart(w) \/ Relaunch(w)
    <3>1. PICK pc \in {"unregister", "judge", "release", "redispatch", "defer", "register",
                       "check"} : Goto(w, pc)
      BY <2>5 DEF CreateFails, Report, Judge, Unregister, Release, Restart, Relaunch
    <3>2. workers[w].pc # "idle"
      BY <2>5 DEF CreateFails, Report, Judge, Unregister, Release, Restart, Relaunch
    <3>3. workers'[w].pc = pc
      BY <1>1, <3>1, <3>2, WentOn DEF Owning, Executing
    <3> QED BY <3>3
  <2> QED BY <1>6, <2>1, <2>2, <2>3, <2>4, <2>5 DEF WorkerStep
<1>7. CASE Crash
  BY <1>7 DEF Crash, Idle
<1> QED BY <1>3, <1>4, <1>5, <1>6, <1>7 DEF Next

(* The table as the contract sees it. *)
Runs == [r \in DOMAIN rows |-> [role |-> rows[r].role, round |-> rows[r].round]]

(* The contract and the run control speak of the same messages.            *)
LEMMA SameEvents ==
  /\ Contract!Roles = Roles
  /\ Contract!Outcomes = Outcomes
  /\ Contract!Decisions = Decisions
  /\ Contract!Facts = Facts
  /\ Contract!Commands = Commands
  /\ \A lg, t : Contract!MessagesIn(lg, t) = MessagesIn(lg, t)
  /\ \A lg, msg : Contract!Published(lg, msg) = Published(lg, msg)
  /\ \A r, role, o, k : Contract!RunCompleted(r, role, o, k) = RunCompleted(r, role, o, k)
  /\ \A r, k, v : Contract!Verdict(r, k, v) = Verdict(r, k, v)
BY DEF Contract!Roles, Roles, Contract!Outcomes, Outcomes, Contract!Decisions, Decisions,
       Contract!Facts, Facts, Contract!Commands, Commands,
       Contract!MessagesIn, MessagesIn, Contract!Published, Published,
       Contract!RunCompleted, RunCompleted, Contract!Verdict, Verdict

(* A row that is added is a run the contract creates.                      *)
LEMMA RunsAppended ==
  ASSUME rows \in Seq(Row), NEW row \in Row, rows' = Append(rows, row)
  PROVE  Runs' = Append(Runs, [role |-> row.role, round |-> row.round])
<1> DEFINE run == [role |-> row.role, round |-> row.round]
           n == Len(rows)
<1>1. n \in Nat /\ DOMAIN rows = 1 .. n /\ DOMAIN rows' = 1 .. (n + 1)
  OBVIOUS
<1>2. Runs \in Seq([role: Roles, round: Nat]) /\ Len(Runs) = n
  <2> DEFINE S == [role: Roles, round: Nat]
             f == Runs
  <2>1. \A r \in 1 .. n : rows[r] \in Row
    OBVIOUS
  <2>2. f \in [1 .. n -> S]
    BY <1>1, <2>1 DEF Runs, Row
  <2> HIDE DEF S, f, n
  <2>3. f \in UNION {[1 .. m -> S] : m \in Nat}
    BY <1>1, <2>2
  <2>4. f \in Seq(S)
    BY <2>3, SeqDef
  <2>5. Len(f) = n
    BY <1>1, <2>2, <2>4, LenProperties
  <2> QED BY <2>4, <2>5 DEF S, f
<1>3. run \in [role: Roles, round: Nat]
  BY DEF Row
<1>4. \A r \in 1 .. (n + 1) : Runs'[r] = Append(Runs, run)[r]
  BY <1>1, <1>2, <1>3 DEF Runs
<1>5. Runs' = [r \in 1 .. (n + 1) |-> Runs'[r]]
  BY <1>1 DEF Runs
<1>6. Append(Runs, run) = [r \in 1 .. (n + 1) |-> Append(Runs, run)[r]]
  BY <1>2, <1>3
<1> QED BY <1>4, <1>5, <1>6

(* A row that changes only its status is no change for the contract.       *)
LEMMA RunsKept ==
  ASSUME RowsKept, DOMAIN rows' = DOMAIN rows
  PROVE  Runs' = Runs
BY DEF Runs, RowsKept

(* A step of the run control is a step of the contract, a command          *)
(* published, or none of its business.                                     *)
LEMMA StepKeepsContract ==
  ASSUME IInv, CheckStillHolds, [Next]_vars
  PROVE  [Contract!Next \/ Contract!CommandsPublished]_<<log, Runs>>
<1>1. /\ TypeOK /\ InHand /\ LogType(log) /\ rows \in Seq(Row)
      /\ DOMAIN Runs = DOMAIN rows
      /\ \A r \in DOMAIN rows : Runs[r] = [role |-> rows[r].role, round |-> rows[r].round]
  BY DEF IInv, TypeOK, Runs
<1>2. ASSUME UNCHANGED <<log, rows>>
      PROVE  UNCHANGED <<log, Runs>>
  BY <1>2 DEF Runs
<1>3. CASE SagaAsks
  <2>1. PICK cmd \in CommandMsg : Ask(cmd)
    BY <1>1, <1>3, SagaAsksCommands
  <2>2. /\ log' = Published(log, cmd) /\ UNCHANGED rows
        /\ cmd \in Message /\ cmd.topic \in Commands
    BY <2>1 DEF Ask, Message, CommandMsg, RunRequestedMsg, ReviewRequestedMsg, StopRequestedMsg,
                Commands
  <2>3. /\ \A t \in Facts : log'[t] = log[t]
        /\ LogType(log')
    <3>1. \A t \in Topics : t # cmd.topic => log'[t] = log[t]
      BY <1>1, <2>2, PublishedAppends
    <3>2. LogType(Published(log, cmd))
      BY <1>1, <2>2, PublishedType
    <3>3. \A t \in Facts : t \in Topics /\ t # cmd.topic
      BY <2>2 DEF Facts, Commands, Topics
    <3> QED BY <2>2, <3>1, <3>2, <3>3
  <2>4. ASSUME NEW t \in Commands PROVE SubSeq(log'[t], 1, Len(log[t])) = log[t]
    <3>1. log[t] \in Seq(Message) /\ log'[t] \in Seq(Message)
      BY <1>1, <2>3 DEF LogType, Topics
    <3>2. /\ Len(log'[t]) >= Len(log[t])
          /\ \A i \in 1 .. Len(log[t]) : log'[t][i] = log[t][i]
      BY <1>1, <2>2, PublishedKeeps DEF Topics
    <3> DEFINE new == log'[t]
               old == log[t]
    <3>3. new \in Seq(Message) /\ old \in Seq(Message)
          /\ Len(new) >= Len(old) /\ \A i \in 1 .. Len(old) : new[i] = old[i]
      BY <3>1, <3>2
    <3> HIDE DEF new, old
    <3>4. SubSeq(new, 1, Len(old)) = old
      <4>1. /\ SubSeq(new, 1, Len(old)) \in Seq(Message)
            /\ Len(SubSeq(new, 1, Len(old))) = Len(old)
            /\ \A i \in 1 .. Len(old) : SubSeq(new, 1, Len(old))[i] = old[i]
        BY <3>3
      <4> QED BY <3>3, <4>1, SeqEqual
    <3> QED BY <3>4 DEF new, old
  <2>5. Runs' = Runs
    BY <2>2 DEF Runs
  <2> QED BY <2>3, <2>4, <2>5, SameEvents DEF Contract!CommandsPublished, Runs
<1>4. CASE Crash \/ UNCHANGED vars \/ \E t \in Commands : ClaimStep(t)
  BY <1>2, <1>4 DEF Crash, vars, ClaimStep, TakeTask, Queue, Launch, DropQueued, CancelRegistered
<1>5. ASSUME NEW w \in Workers, Create(w) \/ CreateFails(w)
      PROVE  Contract!StartImplementer \/ Contract!StartReviewer \/ UNCHANGED <<log, Runs>>
  <2> DEFINE cmd == workers[w].cmd
  <2>1. /\ workers[w].pc = "create" /\ UNCHANGED log
        /\ rows' = rows \/ rows' = Append(rows, NewRow(cmd))
    BY <1>5 DEF Create, CreateFails
  <2>2. CASE rows' = rows
    BY <1>2, <2>1, <2>2
  <2>3. CASE rows' = Append(rows, NewRow(cmd))
    <3>1. /\ workers[w] # Idle
          /\ IsRunCommand(cmd) /\ ~NothingToDo(cmd)
          /\ RoleOf(cmd) \in Roles /\ cmd.round \in Nat
      <4>1. workers[w] # Idle
        BY <2>1 DEF Idle
      <4>2. IsRunCommand(cmd)
        BY <1>1, <4>1 DEF InHand, WorkerInHand
      <4>3. ~NothingToDo(cmd)
        BY <2>1 DEF CheckStillHolds
      <4> QED BY <1>1, <4>1, <4>2, <4>3, WorkerFields
    <3>2. Runs' = Append(Runs, [role |-> RoleOf(cmd), round |-> cmd.round])
      <4>1. NewRow(cmd) \in Row /\ NewRow(cmd).role = RoleOf(cmd) /\ NewRow(cmd).round = cmd.round
        BY <3>1 DEF NewRow, Row
      <4> QED BY <1>1, <2>3, <4>1, RunsAppended
    <3>3. ASSUME NEW role, role = RoleOf(cmd) PROVE ~Contract!HasRun(role, cmd.round)
      BY <3>1, <3>3 DEF NothingToDo, HasRun, Contract!HasRun
    <3>4. ASSUME NEW role, role = RoleOf(cmd) PROVE Contract!CreateRun(role, cmd.round)
      BY <2>1, <3>2, <3>3, <3>4 DEF Contract!CreateRun, Runs
    <3>5. cmd.agent # NoAgent
      BY <3>1 DEF NothingToDo
    <3> HIDE DEF cmd
    <3>6. CASE cmd.topic = "run-requested"
      <4>1. /\ cmd \in Contract!MessagesIn(log, "run-requested")
            /\ RoleOf(cmd) = "implementer"
        BY <3>1, <3>6, SameEvents DEF IsRunCommand, RoleOf
      <4>2. Contract!CreateRun("implementer", cmd.round)
        BY <3>4, <4>1
      <4> QED BY <3>5, <4>1, <4>2
              DEF Contract!StartImplementer, Contract!CreateRun, Contract!HasRun
    <3>7. CASE cmd.topic = "review-requested"
      <4>1. /\ cmd \in Contract!MessagesIn(log, "review-requested")
            /\ RoleOf(cmd) = "reviewer"
        BY <3>1, <3>7, SameEvents DEF IsRunCommand, RoleOf
      <4>2. cmd.run \in DOMAIN Runs
        BY <1>1, <3>1, <4>1 DEF NothingToDo
      <4>3. Contract!CreateRun("reviewer", cmd.round)
        BY <3>4, <4>1
      <4> QED BY <3>5, <4>1, <4>2, <4>3
              DEF Contract!StartReviewer, Contract!CreateRun, Contract!HasRun, Runs
    <3> QED BY <3>1, <3>6, <3>7 DEF IsRunCommand
  <2> QED BY <2>1, <2>2, <2>3
<1>6. ASSUME NEW w \in Workers, Finish(w)
      PROVE  UNCHANGED <<log, Runs>>
  <2>1. UNCHANGED log
    BY <1>6 DEF Finish
  <2>2. PICK e : Ended(w, e)
    BY <1>6 DEF Finish
  <2>3. CASE UNCHANGED rows
    BY <1>2, <2>1, <2>3
  <2>4. CASE rows' = [rows EXCEPT ![workers[w].run].status = e[1]]
    <3>1. /\ DOMAIN rows' = DOMAIN rows
          /\ \A r \in DOMAIN rows : rows[r] \in Row
          /\ \A r \in DOMAIN rows : rows'[r] = rows[r] \/ rows'[r] = [rows[r] EXCEPT !.status = e[1]]
      BY <1>1, <2>4
    <3>2. \A row \in Row : /\ [row EXCEPT !.status = e[1]].role = row.role
                           /\ [row EXCEPT !.status = e[1]].round = row.round
      BY DEF Row
    <3>3. RowsKept
      BY <3>1, <3>2 DEF RowsKept
    <3> QED BY <2>1, <3>1, <3>3, RunsKept
  <2> QED BY <2>2, <2>3, <2>4 DEF Ended
<1>7. ASSUME NEW w \in Workers, Report(w) \/ Judge(w)
      PROVE  Contract!Next \/ UNCHANGED <<log, Runs>>
  <2> DEFINE g == workers[w]
             run == Runs[g.run]
  <2>1. /\ g.pc \in {"report", "judge"}
        /\ UNCHANGED rows /\ Runs' = Runs
        /\ WorkerInHand(w)
    BY <1>1, <1>7 DEF Report, Judge, InHand, Runs
  <2>2. /\ g.run \in DOMAIN rows
        /\ run.role = RoleOf(g.cmd) /\ run.round = g.cmd.round
        /\ ~Reported("verdict", g.run)
    BY <1>1, <2>1 DEF WorkerInHand
  <2>3. CASE UNCHANGED log
    BY <2>1, <2>3
  <2>4. CASE Report(w) /\ log' = Published(log, RunCompleted(g.run, RoleOf(g.cmd), g.outcome,
                                                             g.cmd.round))
    <3>1. ~Reported("run.completed", g.run)
      BY <2>1, <2>4 DEF Report, WorkerInHand
    <3>2. /\ g.outcome \in Outcomes
          /\ g.outcome \in IF run.role = "reviewer" THEN ReviewerOutcomes ELSE ImplementerOutcomes
      <4> DEFINE e == <<g.outcome, g.decision>>
      <4>1. e \in Endings(RoleOf(g.cmd)) /\ e[1] = g.outcome
        BY <2>1, <2>4 DEF Report, WorkerInHand
      <4>2. RoleOf(g.cmd) \in Roles
        BY DEF RoleOf, Roles
      <4> HIDE DEF e
      <4>3. e[1] \in IF RoleOf(g.cmd) = "implementer" THEN ImplementerOutcomes ELSE ReviewerOutcomes
        BY <4>1, <4>2 DEF Endings
      <4>4. RoleOf(g.cmd) = "reviewer" <=> RoleOf(g.cmd) # "implementer"
        BY <4>2 DEF Roles
      <4> QED BY <2>2, <4>1, <4>3, <4>4, RunnerAssumption
    <3>3. Contract!ReportCompleted(g.run, g.outcome)
      BY <2>1, <2>2, <2>4, <3>1, <3>2, SameEvents
      DEF Contract!ReportCompleted, Contract!Reported, Reported, Runs
    <3> QED BY <1>1, <2>2, <3>2, <3>3, SameEvents DEF Contract!Next, Runs
  <2>5. CASE Judge(w) /\ log' = Published(log, Verdict(g.run, g.cmd.round, g.decision))
    <3>1. RoleOf(g.cmd) = "reviewer" /\ g.decision \in Decisions
      BY <2>1, <2>5 DEF Judge, WorkerInHand
    <3>2. Contract!ReportVerdict(g.run, g.decision)
      BY <2>1, <2>2, <2>5, <3>1, SameEvents
      DEF Contract!ReportVerdict, Contract!Reported, Reported, Runs
    <3> QED BY <1>1, <2>2, <3>1, <3>2, SameEvents DEF Contract!Next, Runs
  <2> QED BY <1>7, <2>3, <2>4, <2>5 DEF Report, Judge, Publish
<1>8. ASSUME NEW w \in Workers,
             \/ Check(w) \/ CheckFails(w) \/ Unregister(w) \/ Release(w) \/ Redispatch(w)
             \/ Restart(w) \/ Requeue(w) \/ Relaunch(w)
      PROVE  UNCHANGED <<log, Runs>>
  BY <1>2, <1>8 DEF Check, CheckFails, Unregister, Release, Redispatch, Restart, Requeue, Relaunch
<1>9. ASSUME NEW w \in Workers, WorkerStep(w)
      PROVE  Contract!Next \/ UNCHANGED <<log, Runs>>
  BY <1>5, <1>6, <1>7, <1>8, <1>9 DEF WorkerStep, Contract!Next
<1> QED BY <1>3, <1>4, <1>9 DEF Next, Runs

(* The run control keeps the contract that the saga's model relies on, for *)
(* any number of goroutines, commands, crashes and lost answers, as long   *)
(* as hasRun can list the runs.                                            *)
THEOREM Refinement ==
  ASSUME "list" \notin FaultKinds
  PROVE  Spec => KeepsContract
<1>1. Init => Contract!Init
  BY DEF Init, Contract!Init
<1>2. Init => IInv /\ CheckStillHolds
  BY InitIInv DEF Init, CheckStillHolds, Idle
<1>3. IInv /\ CheckStillHolds /\ [Next]_vars => (IInv /\ CheckStillHolds)'
  BY NextIInv, NextCheckStillHolds
<1>4. IInv /\ CheckStillHolds /\ [Next]_vars
        => [Contract!Next \/ Contract!CommandsPublished]_<<log, Runs>>
  BY StepKeepsContract
<1> QED BY <1>1, <1>2, <1>3, <1>4, PTL DEF Spec, KeepsContract, Contract!Spec, Runs

-----------------------------------------------------------------------------
(* What the table says of a run that was reported.                         *)

(* What a goroutine that is about to report knows of its row.              *)
RowInHand(w) ==
  /\ workers[w].pc = "finish" => rows[workers[w].run].status = "running"
  /\ workers[w].pc = "report" => EndRecorded(workers[w].run, workers[w].outcome)

FactOnRecord(m) ==
  /\ m.run \in DOMAIN rows
  /\ rows[m.run].role = m.role
  /\ rows[m.run].round = m.round
  /\ EndRecorded(m.run, m.status)

OnRecord ==
  /\ \A w \in Workers : RowInHand(w)
  /\ \A m \in MessagesIn(log, "run.completed") : FactOnRecord(m)

(* A goroutine that has the same row in hand as before, or none.           *)
RowInHandKept(w) ==
  workers'[w].pc \in {"finish", "report"} =>
    /\ workers'[w].pc = workers[w].pc
    /\ workers'[w].run = workers[w].run
    /\ workers'[w].outcome = workers[w].outcome
    /\ rows'[workers[w].run].status = rows[workers[w].run].status

(* A fault is never forgotten.                                             *)
LostStays == UpdateLost => UpdateLost'

LEMMA LossesStay ==
  ASSUME TypeOK, Next
  PROVE  LostStays
<1>1. faults \in Nat
  BY DEF TypeOK
<1>2. faults' = faults \/ faults' = faults + 1
  <2>1. CASE SagaAsks
    BY <2>1 DEF SagaAsks, Ask
  <2>2. ASSUME NEW t \in Commands, ClaimStep(t) PROVE faults' = faults \/ faults' = faults + 1
    BY <2>2 DEF ClaimStep, TakeTask, Queue, Launch, DropQueued, CancelRegistered
  <2>3. ASSUME NEW w \in Workers, WorkerStep(w) PROVE faults' = faults \/ faults' = faults + 1
    <3>1. CASE Check(w) \/ CheckFails(w) \/ Create(w) \/ CreateFails(w)
      BY <3>1 DEF Check, CheckFails, Create, CreateFails, Fault
    <3>2. CASE Finish(w)
      BY <3>2 DEF Finish, Ended, Fault
    <3>3. CASE Report(w) \/ Judge(w)
      BY <3>3 DEF Report, Judge, Publish, Fault
    <3>4. CASE Unregister(w) \/ Release(w) \/ Redispatch(w)
      BY <3>4 DEF Unregister, Release, Redispatch
    <3>5. CASE Restart(w) \/ Requeue(w) \/ Relaunch(w)
      BY <3>5 DEF Restart, Requeue, Relaunch
    <3> QED BY <2>3, <3>1, <3>2, <3>3, <3>4, <3>5 DEF WorkerStep
  <2>4. CASE Crash
    BY <2>4 DEF Crash, Fault
  <2> QED BY <2>1, <2>2, <2>3, <2>4 DEF Next
<1>3. faults > 0 => faults' > 0
  BY <1>1, <1>2
<1> QED BY <1>3 DEF LostStays, UpdateLost

(* A step that leaves the rows in hand and the reported rows alone, and    *)
(* reports nothing, keeps what is on record.                               *)
LEMMA OnRecordKept ==
  ASSUME OnRecord, RowsKept, LostStays, log'["run.completed"] = log["run.completed"],
         \A w \in Workers : RowInHandKept(w) \/ RowInHand(w)',
         \A m \in MessagesIn(log, "run.completed") : rows'[m.run].status = rows[m.run].status
  PROVE  OnRecord'
<1>1. ASSUME NEW w \in Workers PROVE RowInHand(w)'
  <2>1. RowInHand(w) /\ (RowInHandKept(w) \/ RowInHand(w)')
    BY DEF OnRecord
  <2>2. CASE RowInHandKept(w) /\ workers'[w].pc \in {"finish", "report"}
    <3>1. /\ workers'[w].pc = workers[w].pc
          /\ workers'[w].run = workers[w].run
          /\ workers'[w].outcome = workers[w].outcome
          /\ rows'[workers[w].run].status = rows[workers[w].run].status
      BY <2>2 DEF RowInHandKept
    <3> QED BY <2>1, <3>1 DEF RowInHand, EndRecorded, LostStays
  <2>3. CASE workers'[w].pc \notin {"finish", "report"}
    BY <2>3 DEF RowInHand
  <2> QED BY <2>1, <2>2, <2>3
<1>2. ASSUME NEW m \in MessagesIn(log, "run.completed") PROVE FactOnRecord(m)'
  <2>1. FactOnRecord(m) /\ rows'[m.run].status = rows[m.run].status
    BY DEF OnRecord
  <2> QED BY <2>1 DEF FactOnRecord, EndRecorded, RowsKept, LostStays
<1>3. MessagesIn(log, "run.completed")' = MessagesIn(log, "run.completed")
  BY DEF MessagesIn
<1> QED BY <1>1, <1>2, <1>3 DEF OnRecord

(* A row that is added says "running".                                     *)
LEMMA CreateKeepsOnRecord ==
  ASSUME IInv, OnRecord, LostStays, NEW w \in Workers, Create(w) \/ CreateFails(w)
  PROVE  OnRecord'
<1>1. /\ TypeOK /\ InHand /\ WorkerInHand(w) /\ rows \in Seq(Row)
      /\ workers \in [Workers -> Worker]
      /\ workers[w].pc = "create" /\ workers[w] # Idle
      /\ UNCHANGED log
      /\ rows' = rows \/ rows' = Append(rows, NewRow(workers[w].cmd))
  BY DEF IInv, InHand, TypeOK, Create, CreateFails, Idle
<1>2. IsRunCommand(workers[w].cmd)
  BY <1>1 DEF WorkerInHand
<1>3. RowsKept /\ \A r \in DOMAIN rows : rows'[r].status = rows[r].status
  <2>1. CASE rows' = rows
    BY <2>1 DEF RowsKept
  <2>2. CASE rows' = Append(rows, NewRow(workers[w].cmd))
    <3>1. RowsKept
      BY <1>1, <1>2, <2>2, RowAppended
    <3>2. \A r \in DOMAIN rows : rows'[r] = rows[r]
      BY <1>1, <2>2
    <3> QED BY <3>1, <3>2
  <2> QED BY <1>1, <2>1, <2>2
<1>4. \A u \in Workers \ {w} : workers'[u] = workers[u]
  BY <1>1 DEF Create, CreateFails, Goto
<1>5. RowInHand(w)'
  <2>1. CASE Create(w)
    <3>1. workers'[w].pc = "finish" /\ workers'[w].run = Len(rows) + 1
      BY <1>1, <2>1, WorkerCreates
    <3>2. rows'[Len(rows) + 1] = NewRow(workers[w].cmd)
      BY <1>1, <1>2, <2>1, RowAppended DEF Create
    <3> QED BY <3>1, <3>2 DEF RowInHand, NewRow
  <2>2. CASE CreateFails(w)
    <3>1. workers'[w].pc = "unregister"
      BY <1>1, <2>2, WentOn DEF CreateFails, Owning, Executing
    <3> QED BY <3>1 DEF RowInHand
  <2> QED BY <2>1, <2>2
<1>6. \A u \in Workers : workers[u].pc \in {"finish", "report"} => workers[u].run \in DOMAIN rows
  BY <1>1 DEF InHand, WorkerInHand
<1>7. \A m \in MessagesIn(log, "run.completed") : m.run \in DOMAIN rows
  BY DEF OnRecord, FactOnRecord
<1>8. \A u \in Workers \ {w} : RowInHandKept(u)
  BY <1>3, <1>4, <1>6 DEF RowInHandKept
<1>9. /\ log'["run.completed"] = log["run.completed"]
      /\ \A u \in Workers : RowInHandKept(u) \/ RowInHand(u)'
      /\ \A m \in MessagesIn(log, "run.completed") : rows'[m.run].status = rows[m.run].status
  BY <1>1, <1>3, <1>5, <1>7, <1>8
<1> QED BY <1>3, <1>9, OnRecordKept

(* FinishRun writes the status of a run nothing was reported of yet.       *)
LEMMA FinishKeepsOnRecord ==
  ASSUME IInv, OnRecord, LostStays, NEW w \in Workers, Finish(w)
  PROVE  OnRecord'
<1>1. /\ TypeOK /\ OneOwner /\ InHand /\ WorkerInHand(w) /\ RowInHand(w)
      /\ workers[w].pc = "finish" /\ workers[w] # Idle
      /\ rows \in Seq(Row)
      /\ UNCHANGED log
  BY DEF IInv, InHand, TypeOK, Finish, Idle, OnRecord
<1>2. PICK e \in Endings(RoleOf(workers[w].cmd)) : Ended(w, e)
  BY DEF Finish
<1>3. /\ workers'[w].pc = "report"
      /\ workers'[w].run = workers[w].run
      /\ workers'[w].outcome = e[1]
      /\ \A u \in Workers \ {w} : workers'[u] = workers[u]
  BY <1>1, <1>2, WorkerFields, EndingsType, WorkerEnds
<1> DEFINE run == workers[w].run
           row == rows[run]
<1>4. run \in DOMAIN rows /\ row \in Row /\ row.status = "running"
  BY <1>1 DEF WorkerInHand, RowInHand
<1>5. /\ RowsKept
      /\ \A r \in DOMAIN rows \ {run} : rows'[r] = rows[r]
      /\ \/ rows'[run].status = e[1]
         \/ UpdateLost' /\ rows'[run].status = "running"
  <2>1. CASE rows' = [rows EXCEPT ![workers[w].run].status = e[1]]
    <3> DEFINE ended == [row EXCEPT !.status = e[1]]
    <3>1. rows' = [rows EXCEPT ![run] = ended]
      BY <2>1
    <3>2. ended.role = row.role /\ ended.round = row.round /\ ended.status = e[1]
      <4> HIDE DEF row
      <4> QED BY <1>4 DEF Row
    <3>3. run \in DOMAIN rows /\ rows[run] = row
      BY <1>4
    <3> HIDE DEF ended, run, row
    <3>4. rows' = [rows EXCEPT ![run] = ended] /\ rows \in Seq(Row)
      BY <1>1, <3>1
    <3>5. /\ DOMAIN rows' = DOMAIN rows
          /\ \A r \in DOMAIN rows \ {run} : rows'[r] = rows[r]
          /\ rows'[run] = ended
      BY <3>3, <3>4
    <3> QED BY <3>2, <3>3, <3>5 DEF RowsKept
  <2>2. CASE Fault("finish") /\ UNCHANGED rows
    <3>1. UpdateLost'
      BY <2>2 DEF Fault, UpdateLost, IInv, TypeOK
    <3> QED BY <1>4, <2>2, <3>1 DEF RowsKept
  <2> QED BY <1>2, <2>1, <2>2 DEF Ended
<1>6. RowInHand(w)'
  BY <1>3, <1>5 DEF RowInHand, EndRecorded
<1>7. \A u \in Workers \ {w} : workers[u].pc \notin {"finish", "report"}
  BY <1>1, Alone DEF Owning, Executing
<1>8. \A m \in MessagesIn(log, "run.completed") : rows'[m.run].status = rows[m.run].status
  <2> SUFFICES ASSUME NEW m \in MessagesIn(log, "run.completed")
               PROVE  rows'[m.run].status = rows[m.run].status
    OBVIOUS
  <2>1. m.run # run
    BY <1>1 DEF WorkerInHand, Reported
  <2>2. m.run \in DOMAIN rows
    BY DEF OnRecord, FactOnRecord
  <2> QED BY <1>5, <2>1, <2>2
<1>9. \A u \in Workers : RowInHandKept(u) \/ RowInHand(u)'
  BY <1>3, <1>6, <1>7 DEF RowInHandKept
<1>10. log'["run.completed"] = log["run.completed"]
  BY <1>1
<1> QED BY <1>5, <1>8, <1>9, <1>10, OnRecordKept

(* Reports say what the table says.                                        *)
LEMMA ReportKeepsOnRecord ==
  ASSUME IInv, OnRecord, LostStays, NEW w \in Workers, Report(w) \/ Judge(w)
  PROVE  OnRecord'
<1>1. /\ TypeOK /\ InHand /\ LogType(log) /\ WorkerInHand(w) /\ RowInHand(w)
      /\ workers[w].pc \in {"report", "judge"}
      /\ UNCHANGED rows
  BY DEF IInv, InHand, TypeOK, OnRecord, Report, Judge
<1>2. PICK pc \in {"unregister", "judge"} : Goto(w, pc)
  BY DEF Report, Judge
<1>3. workers'[w].pc = pc /\ \A u \in Workers \ {w} : workers'[u] = workers[u]
  BY <1>1, <1>2, WentOn DEF Owning, Executing
<1>4. \A u \in Workers : RowInHand(u)'
  <2>1. \A u \in Workers \ {w} : RowInHand(u)'
    BY <1>1, <1>3 DEF OnRecord, RowInHand, EndRecorded, LostStays
  <2>2. RowInHand(w)'
    BY <1>3 DEF RowInHand
  <2> QED BY <2>1, <2>2
<1> DEFINE done == RunCompleted(workers[w].run, RoleOf(workers[w].cmd), workers[w].outcome,
                                workers[w].cmd.round)
           ruling == Verdict(workers[w].run, workers[w].cmd.round, workers[w].decision)
<1>5. MessagesIn(log', "run.completed") \subseteq
        MessagesIn(log, "run.completed") \cup (IF workers[w].pc = "report" THEN {done} ELSE {})
  <2>1. CASE UNCHANGED log
    BY <2>1
  <2>2. CASE Report(w) /\ log' = Published(log, done)
    <3>1. workers[w].pc = "report" /\ done \in Message /\ done.topic = "run.completed"
      BY <2>2, FactsPublished DEF Report, Message, RunCompleted
    <3> HIDE DEF done
    <3> QED BY <1>1, <2>2, <3>1, PublishedMessages DEF Topics, Facts
  <2>3. CASE Judge(w) /\ log' = Published(log, ruling)
    <3>1. ruling \in Message /\ ruling.topic = "verdict"
      BY <2>3, FactsPublished DEF Judge, Message, Verdict
    <3> HIDE DEF ruling, done
    <3> QED BY <1>1, <2>3, <3>1, PublishedMessages DEF Topics, Facts
  <2> QED BY <2>1, <2>2, <2>3 DEF Report, Judge, Publish
<1>6. workers[w].pc = "report" => FactOnRecord(done)
  BY <1>1 DEF WorkerInHand, RowInHand, FactOnRecord, RunCompleted
<1>7. ASSUME NEW m \in MessagesIn(log', "run.completed") PROVE FactOnRecord(m)'
  <2>1. FactOnRecord(m)
    BY <1>5, <1>6 DEF OnRecord
  <2> QED BY <1>1, <2>1 DEF FactOnRecord, EndRecorded, LostStays
<1> QED BY <1>4, <1>7 DEF OnRecord

(* Every step keeps what is on record.                                     *)
LEMMA NextOnRecord == IInv /\ OnRecord /\ [Next]_vars => OnRecord'
<1> SUFFICES ASSUME IInv, OnRecord, [Next]_vars PROVE OnRecord'
  OBVIOUS
<1>1. /\ TypeOK /\ InHand /\ LogType(log)
      /\ workers \in [Workers -> Worker]
  BY DEF IInv, TypeOK
<1>0. LostStays
  <2>1. CASE Next
    BY <1>1, <2>1, LossesStay
  <2>2. CASE UNCHANGED vars
    BY <2>2 DEF vars, LostStays, UpdateLost
  <2> QED BY <2>1, <2>2
<1>2. ASSUME UNCHANGED rows, log'["run.completed"] = log["run.completed"],
             \A w \in Workers : workers'[w].pc \in {"finish", "report"} =>
                                  /\ workers'[w].pc = workers[w].pc
                                  /\ workers'[w].run = workers[w].run
                                  /\ workers'[w].outcome = workers[w].outcome
      PROVE  OnRecord'
  <2>1. RowsKept
    BY <1>2 DEF RowsKept
  <2>2. \A w \in Workers : RowInHandKept(w) \/ RowInHand(w)'
    BY <1>2 DEF RowInHandKept
  <2> QED BY <1>0, <1>2, <2>1, <2>2, OnRecordKept
<1>3. CASE SagaAsks
  <2>1. PICK cmd \in CommandMsg : Ask(cmd)
    BY <1>1, <1>3, SagaAsksCommands
  <2>2. cmd \in Message /\ cmd.topic \in Commands
    BY DEF Message, CommandMsg, RunRequestedMsg, ReviewRequestedMsg, StopRequestedMsg, Commands
  <2>3. Published(log, cmd)["run.completed"] = log["run.completed"]
    BY <1>1, <2>2, PublishedAppends DEF Topics, Facts, Commands
  <2> QED BY <1>2, <2>1, <2>3 DEF Ask
<1>4. ASSUME NEW t \in Commands, ClaimStep(t) PROVE OnRecord'
  <2>1. UNCHANGED <<log, rows>>
    BY <1>4 DEF ClaimStep, TakeTask, Queue, Launch, DropQueued, CancelRegistered
  <2>2. CASE CancelRegistered
    <3>1. ASSUME NEW w \in Workers
          PROVE  workers'[w].pc \in {"finish", "report"} =>
                   /\ workers'[w].pc = workers[w].pc
                   /\ workers'[w].run = workers[w].run
                   /\ workers'[w].outcome = workers[w].outcome
      <4>1. workers[w] \in Worker
        BY <1>1
      <4>2. workers'[w] = IF w = cancels THEN [workers[w] EXCEPT !.cancelled = TRUE]
                          ELSE workers[w]
        BY <2>2 DEF CancelRegistered
      <4>3. w = cancels => workers[w] # Idle
        BY DEF IInv, CancelsTheRunning, Executing, Idle
      <4> QED BY <4>1, <4>2, <4>3 DEF Worker
    <3> QED BY <1>2, <2>1, <3>1
  <2>3. CASE Launch(t)
    <3>1. PICK v \in Workers : workers' = [workers EXCEPT ![v] = Started(Command(t))]
      BY <2>3 DEF Launch
    <3>2. \A w \in Workers : workers'[w] = workers[w] \/ workers'[w].pc = "check"
      BY <1>1, <3>1 DEF Started
    <3> QED BY <1>2, <2>1, <3>2
  <2>4. CASE UNCHANGED workers
    BY <1>2, <2>1, <2>4
  <2> QED BY <1>4, <2>2, <2>3, <2>4 DEF ClaimStep, TakeTask, Queue, DropQueued
<1>5. ASSUME NEW w \in Workers, WorkerStep(w) PROVE OnRecord'
  <2>1. CASE Create(w) \/ CreateFails(w)
    BY <1>0, <2>1, CreateKeepsOnRecord
  <2>2. CASE Finish(w)
    BY <1>0, <2>2, FinishKeepsOnRecord
  <2>3. CASE Report(w) \/ Judge(w)
    BY <1>0, <2>3, ReportKeepsOnRecord
  <2>4. CASE Redispatch(w) \/ Requeue(w)
    <3>1. workers'[w] = Idle \/ workers'[w] = [Started(pending) EXCEPT !.pc = "restart"]
      BY <1>1, <2>4 DEF Redispatch, Requeue
    <3>2. \A u \in Workers : workers'[u] = workers[u] \/ workers'[u].pc \in {"idle", "restart"}
      BY <1>1, <2>4, <3>1 DEF Redispatch, Requeue, Idle, Started
    <3> QED BY <1>2, <2>4, <3>2 DEF Redispatch, Requeue
  <2>5. CASE Check(w) \/ CheckFails(w) \/ Unregister(w) \/ Release(w) \/ Restart(w) \/ Relaunch(w)
    <3>1. PICK pc \in {"create", "unregister", "release", "redispatch", "defer", "register",
                       "check"} : Goto(w, pc)
      BY <2>5 DEF Check, CheckFails, Unregister, Release, Restart, Relaunch
    <3>2. workers[w].pc # "idle" /\ UNCHANGED <<log, rows>>
      BY <2>5 DEF Check, CheckFails, Unregister, Release, Restart, Relaunch
    <3>3. workers'[w].pc = pc /\ \A u \in Workers \ {w} : workers'[u] = workers[u]
      BY <1>1, <3>1, <3>2, WentOn DEF Owning, Executing
    <3>4. \A u \in Workers : workers'[u] = workers[u] \/ workers'[u].pc \notin {"finish", "report"}
      BY <3>3
    <3> QED BY <1>2, <3>2, <3>4
  <2> QED BY <1>5, <2>1, <2>2, <2>3, <2>4, <2>5 DEF WorkerStep
<1>6. CASE Crash
  BY <1>2, <1>6 DEF Crash, Idle
<1>7. CASE UNCHANGED vars
  BY <1>2, <1>7 DEF vars
<1> QED BY <1>3, <1>4, <1>5, <1>6, <1>7 DEF Next

(* When every UPDATE is written, a reported row has the reported status.   *)
LEMMA SameStatus ==
  ASSUME IInv, OnRecord, "finish" \notin FaultKinds, NEW m \in MessagesIn(log, "run.completed")
  PROVE  rows[m.run] = [role |-> m.role, round |-> m.round, status |-> m.status]
<1>1. FactOnRecord(m) /\ rows \in Seq(Row)
  BY DEF OnRecord, IInv, TypeOK
<1>2. rows[m.run] \in Row
  BY <1>1 DEF FactOnRecord
<1> QED BY <1>1, <1>2 DEF FactOnRecord, EndRecorded, UpdateLost, Row

(* What was reported of a run is on record: its role, its round and, as    *)
(* long as FinishRun's UPDATE is not lost, the status it ended with; the   *)
(* only other status the row can have is the one it was created with.      *)
THEOREM ReportedAsRecorded ==
  Spec => []( /\ ReportsMatchRows
              /\ "finish" \notin FaultKinds =>
                   \A m \in MessagesIn(log, "run.completed") :
                     rows[m.run] = [role |-> m.role, round |-> m.round, status |-> m.status] )
<1> DEFINE Goal == /\ ReportsMatchRows
                   /\ "finish" \notin FaultKinds =>
                        \A m \in MessagesIn(log, "run.completed") :
                          rows[m.run] = [role |-> m.role, round |-> m.round, status |-> m.status]
<1>1. Init => IInv /\ OnRecord
  <2>1. Init => \A m \in MessagesIn(log, "run.completed") : FactOnRecord(m)
    BY DEF Init, MessagesIn, EmptyLog, Topics, Facts
  <2>2. Init => \A w \in Workers : RowInHand(w)
    BY DEF Init, Idle, RowInHand
  <2> QED BY <2>1, <2>2, InitIInv DEF OnRecord
<1>2. IInv /\ OnRecord /\ [Next]_vars => (IInv /\ OnRecord)'
  BY NextIInv, NextOnRecord
<1>3. IInv /\ OnRecord => Goal
  <2>1. OnRecord => ReportsMatchRows
    BY DEF OnRecord, FactOnRecord, ReportsMatchRows
  <2> QED BY <2>1, SameStatus
<1> HIDE DEF Goal
<1>4. Spec => []Goal
  BY <1>1, <1>2, <1>3, PTL DEF Spec
<1> QED BY <1>4 DEF Goal

=============================================================================
