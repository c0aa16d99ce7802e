----------------------------- MODULE SagaProofs -----------------------------
(***************************************************************************)
(* Proofs about module SagaSystem, for every value of its constants.       *)
(***************************************************************************)
EXTENDS SagaSystem, EventsProofs

-----------------------------------------------------------------------------
(* The inductive invariant.                                                *)

IInv == TypeOK /\ InHand

(* The fact a claim holds has the payload of its topic.                    *)
LEMMA FactType ==
  ASSUME TypeOK, NEW t \in Facts, HasNext(log, offset, t)
  PROVE  /\ t = "run.completed" => Fact(t) \in RunCompletedMsg
         /\ t = "verdict" => Fact(t) \in VerdictMsg
         /\ Fact(t).run \in RunId
         /\ Fact(t).round \in Nat
<1>1. t \in Topics /\ offset[t].next \in 1 .. Len(log[t])
  BY DEF TypeOK, HasNext, Offset, Topics, LogType
<1>2. Fact(t) \in Message /\ Fact(t).topic = t
  BY <1>1 DEF TypeOK, LogType, Fact, Delivered
<1>3. /\ t = "run.completed" => Fact(t) \in RunCompletedMsg
      /\ t = "verdict" => Fact(t) \in VerdictMsg
  BY <1>2, MessageOfTopic
<1> QED BY <1>3 DEF Facts, RunCompletedMsg, VerdictMsg

(* A command is published to a command topic, or dropped.                  *)
LEMMA CommandPublished ==
  ASSUME TypeOK, NEW cmd \in CommandMsg, Publish(cmd)
  PROVE  /\ LogType(log')
         /\ faults' \in Nat
         /\ \A t \in Facts : log'[t] = log[t]
<1>1. cmd \in Message /\ cmd.topic \in Commands
  BY DEF Message, CommandMsg, RunRequestedMsg, ReviewRequestedMsg, StopRequestedMsg, Commands
<1>2. CASE log' = Published(log, cmd) /\ UNCHANGED faults
  BY <1>1, <1>2, PublishedType, PublishedAppends DEF TypeOK, Facts, Commands, Topics
<1>3. CASE Fault /\ UNCHANGED log
  BY <1>3 DEF TypeOK, Fault
<1> QED BY <1>2, <1>3 DEF Publish

(* A claim that a step leaves alone still holds its fact.                  *)
LEMMA ClaimKept ==
  ASSUME TypeOK, NEW t \in Facts, ClaimInHand(t),
         claims'[t] = claims[t], offset'[t] = offset[t], marks \subseteq marks',
         Len(log'[t]) >= Len(log[t]), Len(log'[t]) \in Nat,
         \A i \in 1 .. Len(log[t]) : log'[t][i] = log[t][i]
  PROVE  ClaimInHand(t)'
<1>1. offset[t].next \in Nat \ {0} /\ Len(log[t]) \in Nat
  BY DEF TypeOK, Offset, LogType, Topics
<1>2. HasNext(log, offset, t) => /\ HasNext(log, offset, t)'
                                 /\ Fact(t)' = Fact(t)
  BY <1>1 DEF HasNext, Fact, Delivered
<1> QED BY <1>2 DEF ClaimInHand

-----------------------------------------------------------------------------
(* Each action preserves the invariant.                                    *)

(* A step that touches neither claims, offsets nor the facts published.    *)
LEMMA ClaimsUntouched ==
  ASSUME TypeOK, InHand, UNCHANGED <<claims, offset>>, marks \subseteq marks',
         \A t \in Facts : log'[t] = log[t]
  PROVE  \A t \in Facts : ClaimInHand(t)'
<1> SUFFICES ASSUME NEW t \in Facts PROVE ClaimInHand(t)'
  OBVIOUS
<1>1. Len(log[t]) \in Nat
  BY DEF TypeOK, LogType, Topics
<1> QED BY <1>1, ClaimKept DEF InHand

(* What a request may be left with.                                        *)
LEMMA RequestStates ==
  /\ Idle \in RequestState
  /\ [pc |-> "block"] \in RequestState
  /\ \A cmd \in CommandMsg : Emitting(cmd) \in RequestState
BY DEF Idle, Emitting, RequestState

(* A caller that goes on keeps a request that is well formed.              *)
LEMMA Proceeds ==
  ASSUME IInv, NEW c \in Callers, NEW s \in RequestState, Proceed(c, s),
         s.pc = "emit" => s.cmd \in RunRequestedMsg \cup StopRequestedMsg
  PROVE  /\ requests' \in [Callers -> RequestState]
         /\ \A d \in Callers : RequestInHand(d)'
BY DEF IInv, TypeOK, InHand, RequestInHand, Proceed

(* The HTTP operations.                                                    *)
LEMMA RequestsPreserve ==
  ASSUME IInv, NEW c \in Callers, UNCHANGED runs,
         \/ RequestStep(c)
         \/ \E to \in PatchTargets : PatchRead(c, to)
         \/ ReRunRead(c)
         \/ StopSet(c)
         \/ RequestFails(c)
  PROVE  IInv'
<1>0. /\ TypeOK /\ InHand
      /\ requests[c] \in RequestState
      /\ task \in TaskRow
      /\ PatchTargets \subseteq Statuses
  BY SagaAssumption DEF IInv, TypeOK
<1>1. CASE PatchSet(c)
  <2>1. /\ requests[c].to \in Statuses
        /\ RunRequested(task.round, task.agent) \in RunRequestedMsg
        /\ StopRequested \in StopRequestedMsg
    BY <1>0, <1>1 DEF PatchSet, RequestState, TaskRow, RunRequested, RunRequestedMsg,
                      StopRequested, StopRequestedMsg
  <2>2. \E s \in {Idle, [pc |-> "block"], Emitting(StopRequested),
                  Emitting(RunRequested(task.round, task.agent))} : Proceed(c, s)
    BY <1>1 DEF PatchSet
  <2>3. /\ requests' \in [Callers -> RequestState]
        /\ \A d \in Callers : RequestInHand(d)'
    BY <2>1, <2>2, Proceeds, RequestStates DEF CommandMsg, Idle, Emitting
  <2>4. TypeOK'
    BY <1>0, <1>1, <2>1, <2>3 DEF PatchSet, TypeOK, TaskRow, retries
  <2> QED BY <1>0, <1>1, <2>3, <2>4, ClaimsUntouched DEF PatchSet, InHand, IInv
<1>2. CASE PatchBlock(c)
  <2>1. /\ requests' \in [Callers -> RequestState]
        /\ \A d \in Callers : RequestInHand(d)'
    BY <1>2, Proceeds, RequestStates DEF PatchBlock, Idle
  <2>2. TypeOK'
    BY <1>0, <1>2, <2>1 DEF PatchBlock, TypeOK, TaskRow, Statuses, retries
  <2> QED BY <1>0, <1>2, <2>1, <2>2, ClaimsUntouched DEF PatchBlock, InHand, IInv
<1>3. CASE ReRunSet(c)
  <2>1. /\ requests[c].round \in Nat
        /\ RunRequested(requests[c].round, requests[c].agent) \in RunRequestedMsg
    BY <1>0, <1>3 DEF ReRunSet, RequestState, RunRequested, RunRequestedMsg, AgentRef
  <2>2. /\ requests' \in [Callers -> RequestState]
        /\ \A d \in Callers : RequestInHand(d)'
    BY <1>3, <2>1, Proceeds, RequestStates DEF ReRunSet, Emitting, CommandMsg
  <2>3. TypeOK'
    BY <1>0, <1>3, <2>1, <2>2 DEF ReRunSet, TypeOK, TaskRow, Statuses, retries
  <2> QED BY <1>0, <1>3, <2>2, <2>3, ClaimsUntouched DEF ReRunSet, InHand, IInv
<1>4. CASE RequestEmit(c)
  <2>1. requests[c].cmd \in CommandMsg
    BY <1>0, <1>4 DEF RequestEmit, RequestState
  <2>2. LogType(log') /\ faults' \in Nat /\ \A t \in Facts : log'[t] = log[t]
    BY <1>0, <1>4, <2>1, CommandPublished DEF RequestEmit
  <2>3. /\ requests' \in [Callers -> RequestState]
        /\ \A d \in Callers : RequestInHand(d)'
    BY <1>4, Proceeds, RequestStates DEF RequestEmit, Idle
  <2>4. TypeOK'
    BY <1>0, <1>4, <2>2, <2>3 DEF RequestEmit, TypeOK, retries
  <2> QED BY <1>0, <1>4, <2>2, <2>3, <2>4, ClaimsUntouched DEF RequestEmit, InHand, IInv
<1>5. CASE \E to \in PatchTargets : PatchRead(c, to)
  <2>1. PICK to \in PatchTargets : PatchRead(c, to)
    BY <1>5
  <2>2. [pc |-> "patch", to |-> to, prev |-> task.status] \in RequestState
    BY <1>0 DEF RequestState, TaskRow
  <2>3. /\ requests' \in [Callers -> RequestState]
        /\ \A d \in Callers : RequestInHand(d)'
    BY <2>1, <2>2, Proceeds DEF PatchRead, Issue, Proceed
  <2>4. TypeOK'
    BY <1>0, <2>1, <2>3 DEF PatchRead, Issue, TypeOK, retries
  <2> QED BY <1>0, <2>1, <2>3, <2>4, ClaimsUntouched DEF PatchRead, InHand, IInv
<1>6. CASE ReRunRead(c)
  <2>1. [pc |-> "rerun", round |-> task.round + 1, agent |-> task.agent] \in RequestState
    BY <1>0, <1>6 DEF ReRunRead, RequestState, TaskRow, AgentRef
  <2>2. /\ requests' \in [Callers -> RequestState]
        /\ \A d \in Callers : RequestInHand(d)'
    BY <1>6, <2>1, Proceeds DEF ReRunRead, Issue, Proceed
  <2>3. TypeOK'
    BY <1>0, <1>6, <2>2 DEF ReRunRead, Issue, TypeOK, retries
  <2> QED BY <1>0, <1>6, <2>2, <2>3, ClaimsUntouched DEF ReRunRead, InHand, IInv
<1>7. CASE StopSet(c)
  <2>1. StopRequested \in StopRequestedMsg
    BY DEF StopRequested, StopRequestedMsg
  <2>2. /\ requests' \in [Callers -> RequestState]
        /\ \A d \in Callers : RequestInHand(d)'
    BY <1>7, <2>1, Proceeds, RequestStates DEF StopSet, Issue, Proceed, Emitting, CommandMsg
  <2>3. task' \in TaskRow /\ issued' \in Nat
    BY <1>0, <1>7 DEF StopSet, Issue, TypeOK, TaskRow, Statuses
  <2>4. TypeOK'
    BY <1>0, <1>7, <2>2, <2>3 DEF StopSet, TypeOK, retries
  <2> QED BY <1>0, <1>7, <2>2, <2>4, ClaimsUntouched DEF StopSet, InHand, IInv
<1>8. CASE RequestFails(c)
  <2>1. /\ requests' \in [Callers -> RequestState]
        /\ \A d \in Callers : RequestInHand(d)'
    BY <1>8, Proceeds, RequestStates DEF RequestFails, Idle
  <2>2. TypeOK'
    BY <1>0, <1>8, <2>1 DEF RequestFails, Fault, TypeOK, retries
  <2> QED BY <1>0, <1>8, <2>1, <2>2, ClaimsUntouched DEF RequestFails, InHand, IInv
<1> QED BY <1>1, <1>2, <1>3, <1>4, <1>5, <1>6, <1>7, <1>8 DEF RequestStep

(* What a claim may be left with.                                          *)
LEMMA ClaimStates ==
  /\ Idle \in ClaimState
  /\ [pc |-> "republish"] \in ClaimState
  /\ \A a \in AgentRef : [pc |-> "advance", agent |-> a] \in ClaimState
  /\ \A cmd \in CommandMsg : Emitting(cmd) \in ClaimState
BY DEF Idle, Emitting, ClaimState

(* A handler that returns marks its message; the other claim keeps its own.*)
LEMMA Returns ==
  ASSUME IInv, NEW t \in Facts, Return(t), marks \subseteq marks',
         \A u \in Facts : log'[u] = log[u]
  PROVE  /\ claims' \in [Facts -> ClaimState]
         /\ offset' \in [Facts -> Offset]
         /\ failures' \in [Facts -> Nat]
         /\ \A u \in Facts : ClaimInHand(u)'
<1>0. /\ TypeOK /\ InHand
      /\ claims \in [Facts -> ClaimState]
      /\ offset \in [Facts -> Offset]
  BY DEF IInv, TypeOK
<1>1. claims' \in [Facts -> ClaimState] /\ claims'[t] = Idle
  BY <1>0, ClaimStates DEF Return
<1>2. offset' \in [Facts -> Offset] /\ failures' \in [Facts -> Nat]
  <2>1. offset' \in [Facts -> Offset]
    BY <1>0 DEF Return, Marked, Offset
  <2>2. failures' \in [Facts -> Nat]
    BY <1>0 DEF Return, TypeOK
  <2> QED BY <2>1, <2>2
<1>3. ASSUME NEW u \in Facts PROVE ClaimInHand(u)'
  <2>1. CASE u = t
    BY <1>1, <2>1 DEF ClaimInHand
  <2>2. CASE u # t
    <3>1. claims'[u] = claims[u] /\ offset'[u] = offset[u] /\ Len(log[u]) \in Nat
      BY <1>0, <2>2 DEF Return, Marked, TypeOK, LogType, Topics
    <3> QED BY <1>0, <3>1, ClaimKept DEF InHand
  <2> QED BY <2>1, <2>2
<1> QED BY <1>1, <1>2, <1>3

(* A handler that goes on keeps its fact.                                  *)
LEMMA Continues ==
  ASSUME IInv, NEW t \in Facts, NEW s \in ClaimState, Continue(t, s),
         UNCHANGED log, marks \subseteq marks',
         HasNext(log, offset, t),
         t = "run.completed" => Fact(t).role = "implementer" /\ Fact(t).status = "done",
         s.pc # "advance" /\ s # Idle => Fact(t).run \in marks',
         s.pc = "emit" =>
           IF t = "verdict" THEN s.cmd \in RunRequestedMsg
           ELSE /\ s.cmd \in ReviewRequestedMsg
                /\ s.cmd.run = Fact(t).run
                /\ s.cmd.round = Fact(t).round
  PROVE  /\ claims' \in [Facts -> ClaimState]
         /\ offset' = offset
         /\ failures' = failures
         /\ \A u \in Facts : ClaimInHand(u)'
<1>0. /\ TypeOK /\ InHand
      /\ claims \in [Facts -> ClaimState]
  BY DEF IInv, TypeOK
<1>1. /\ claims' \in [Facts -> ClaimState]
      /\ claims'[t] = s
      /\ offset' = offset /\ failures' = failures
  BY <1>0 DEF Continue
<1>2. ASSUME NEW u \in Facts PROVE ClaimInHand(u)'
  <2>1. CASE u = t
    BY <1>1, <2>1 DEF ClaimInHand, Fact, HasNext, Delivered
  <2>2. CASE u # t
    <3>1. claims'[u] = claims[u] /\ Len(log[u]) \in Nat
      BY <1>0, <2>2 DEF Continue, TypeOK, LogType, Topics
    <3> QED BY <1>0, <1>1, <3>1, ClaimKept DEF InHand
  <2> QED BY <2>1, <2>2
<1> QED BY <1>1, <1>2

(* Requests are not the claims' business.                                  *)
LEMMA RequestsUntouched ==
  ASSUME InHand, UNCHANGED requests
  PROVE  \A c \in Callers : RequestInHand(c)'
BY DEF InHand, RequestInHand

(* SagaAdvance leaves a mark and a well formed row.                        *)
LEMMA SagaAdvances ==
  ASSUME TypeOK, NEW run \in RunId, NEW from, NEW row \in TaskRow, SagaAdvance(run, from, row)
  PROVE  /\ task' \in TaskRow
         /\ marks' \in SUBSET RunId
         /\ marks \subseteq marks'
         /\ run \in marks'
BY DEF TypeOK, SagaAdvance

(* The claim on run.completed.                                             *)
LEMMA CompletedPreserves ==
  ASSUME IInv, UNCHANGED runs, IgnoreReviewerRun \/ ImplementerFailed \/ ImplementerDone
  PROVE  IInv'
<1> DEFINE T == "run.completed"
           d == Fact(T)
<1>0. /\ TypeOK /\ InHand
      /\ T \in Facts
      /\ task \in TaskRow
      /\ claims[T] \in ClaimState
      /\ ClaimInHand(T)
  BY DEF IInv, TypeOK, InHand, Facts
<1>1. CASE IgnoreReviewerRun
  <2>1. /\ claims' \in [Facts -> ClaimState]
        /\ offset' \in [Facts -> Offset] /\ failures' \in [Facts -> Nat]
        /\ \A u \in Facts : ClaimInHand(u)'
    BY <1>0, <1>1, Returns DEF IgnoreReviewerRun
  <2>2. TypeOK'
    BY <1>0, <1>1, <2>1 DEF IgnoreReviewerRun, TypeOK
  <2> QED BY <1>0, <1>1, <2>1, <2>2, RequestsUntouched DEF IgnoreReviewerRun, InHand, IInv
<1>2. CASE ImplementerFailed
  <2>1. /\ d.run \in RunId
        /\ [task EXCEPT !.status = "blocked"] \in TaskRow
    BY <1>0, <1>2, FactType DEF ImplementerFailed, Receiving, TaskRow, Statuses
  <2>2. /\ task' \in TaskRow
        /\ marks' \in SUBSET RunId
        /\ marks \subseteq marks'
    BY <1>0, <1>2, <2>1, SagaAdvances DEF ImplementerFailed
  <2>3. /\ claims' \in [Facts -> ClaimState]
        /\ offset' \in [Facts -> Offset] /\ failures' \in [Facts -> Nat]
        /\ \A u \in Facts : ClaimInHand(u)'
    BY <1>0, <1>2, <2>2, Returns DEF ImplementerFailed
  <2>4. TypeOK'
    BY <1>0, <1>2, <2>2, <2>3 DEF ImplementerFailed, TypeOK
  <2> QED BY <1>0, <1>2, <2>3, <2>4, RequestsUntouched DEF ImplementerFailed, InHand, IInv
<1>3. CASE ImplementerDone
  <2>0. /\ claims[T].pc = "advance"
        /\ claims[T] # Idle
        /\ claims[T].agent \in AgentRef
    BY <1>0, <1>3 DEF ImplementerDone, ClaimState, Idle
  <2>1. /\ HasNext(log, offset, T)
        /\ d.role = "implementer" /\ d.status = "done"
        /\ d.run \in RunId /\ d.round \in Nat
        /\ [task EXCEPT !.status = "review"] \in TaskRow
    BY <1>0, <2>0, FactType DEF ClaimInHand, TaskRow, Statuses
  <2>2. /\ task' \in TaskRow
        /\ marks' \in SUBSET RunId
        /\ marks \subseteq marks'
        /\ d.run \in marks'
    BY <1>0, <1>3, <2>1, SagaAdvances DEF ImplementerDone
  <2>3. /\ claims' \in [Facts -> ClaimState]
        /\ offset' \in [Facts -> Offset] /\ failures' \in [Facts -> Nat]
        /\ \A u \in Facts : ClaimInHand(u)'
    <3>1. CASE Continue(T, [pc |-> "republish"])
      BY <1>0, <1>3, <2>1, <2>2, <3>1, Continues, ClaimStates DEF ImplementerDone, TypeOK
    <3>2. CASE Continue(T, Emitting(ReviewRequested(d.run, d.round, claims[T].agent)))
      <4>1. ReviewRequested(d.run, d.round, claims[T].agent) \in ReviewRequestedMsg
        BY <2>0, <2>1 DEF ReviewRequested, ReviewRequestedMsg
      <4>2. Emitting(ReviewRequested(d.run, d.round, claims[T].agent)) \in ClaimState
        BY <4>1, ClaimStates DEF CommandMsg
      <4> QED BY <1>0, <1>3, <2>1, <2>2, <3>2, <4>1, <4>2, Continues
              DEF ImplementerDone, Emitting, ReviewRequested, TypeOK
    <3>3. CASE Return(T)
      BY <1>0, <1>3, <2>2, <3>3, Returns DEF ImplementerDone
    <3> QED BY <1>3, <3>1, <3>2, <3>3 DEF ImplementerDone
  <2>4. TypeOK'
    BY <1>0, <1>3, <2>2, <2>3 DEF ImplementerDone, TypeOK
  <2> QED BY <1>0, <1>3, <2>3, <2>4, RequestsUntouched DEF ImplementerDone, InHand, IInv
<1> QED BY <1>1, <1>2, <1>3

(* The claim on verdict.                                                   *)
LEMMA VerdictPreserves ==
  ASSUME IInv, UNCHANGED runs, ApplyVerdict
  PROVE  IInv'
<1> DEFINE T == "verdict"
           d == Fact(T)
           cmd == RunRequested(d.round + 1, claims[T].agent)
<1>0. /\ TypeOK /\ InHand
      /\ T \in Facts
      /\ task \in TaskRow
      /\ claims[T] \in ClaimState
      /\ ClaimInHand(T)
  BY DEF IInv, TypeOK, InHand, Facts
<1>1. /\ claims[T].pc = "advance"
      /\ claims[T] # Idle
      /\ claims[T].agent \in AgentRef
  BY <1>0 DEF ApplyVerdict, ClaimState, Idle
<1>2. HasNext(log, offset, T) /\ d.run \in RunId /\ d.round \in Nat
  BY <1>0, <1>1, FactType DEF ClaimInHand
<1>3. AfterVerdict(d) \in TaskRow
  <2>1. \A status \in Statuses : [task EXCEPT !.status = status] \in TaskRow
    BY <1>0 DEF TaskRow
  <2>2. ASSUME NEW n \in Nat
        PROVE  [task EXCEPT !.status = "doing", !.round = n] \in TaskRow
    BY <1>0 DEF TaskRow, Statuses
  <2>3. d.round + 1 \in Nat
    BY <1>2
  <2> QED BY <2>1, <2>2, <2>3 DEF AfterVerdict, Statuses
<1>4. /\ task' \in TaskRow
      /\ marks' \in SUBSET RunId
      /\ marks \subseteq marks'
      /\ d.run \in marks'
  BY <1>0, <1>2, <1>3, SagaAdvances DEF ApplyVerdict
<1>5. /\ claims' \in [Facts -> ClaimState]
      /\ offset' \in [Facts -> Offset] /\ failures' \in [Facts -> Nat]
      /\ \A u \in Facts : ClaimInHand(u)'
  <2>1. CASE Continue(T, [pc |-> "republish"])
    BY <1>0, <1>2, <1>4, <2>1, Continues, ClaimStates DEF ApplyVerdict, TypeOK
  <2>2. CASE Continue(T, Emitting(cmd))
    <3>1. cmd \in RunRequestedMsg
      BY <1>1, <1>2 DEF RunRequested, RunRequestedMsg
    <3>2. Emitting(cmd) \in ClaimState
      BY <3>1, ClaimStates DEF CommandMsg
    <3> QED BY <1>0, <1>2, <1>4, <2>2, <3>1, <3>2, Continues
            DEF ApplyVerdict, Emitting, TypeOK
  <2>3. CASE Return(T)
    BY <1>0, <1>4, <2>3, Returns DEF ApplyVerdict
  <2> QED BY <2>1, <2>2, <2>3 DEF ApplyVerdict
<1>6. TypeOK'
  BY <1>0, <1>4, <1>5 DEF ApplyVerdict, TypeOK
<1> QED BY <1>0, <1>5, <1>6, RequestsUntouched DEF ApplyVerdict, InHand, IInv

(* The steps both claims share.                                            *)
LEMMA ClaimsPreserve ==
  ASSUME IInv, NEW t \in Facts, UNCHANGED runs, ClaimStep(t) \/ ClaimFails(t)
  PROVE  IInv'
<1>0. /\ TypeOK /\ InHand
      /\ task \in TaskRow
      /\ claims[t] \in ClaimState
      /\ ClaimInHand(t)
  BY DEF IInv, TypeOK, InHand
<1>1. CASE ReadTask(t)
  <2>1. [pc |-> "advance", agent |-> task.agent] \in ClaimState
    BY <1>0, ClaimStates DEF TaskRow
  <2>2. /\ claims' \in [Facts -> ClaimState]
        /\ offset' = offset /\ failures' = failures
        /\ \A u \in Facts : ClaimInHand(u)'
    BY <1>1, <2>1, Continues DEF ReadTask, Receiving
  <2>3. TypeOK'
    BY <1>0, <1>1, <2>2 DEF ReadTask, TypeOK
  <2> QED BY <1>0, <1>1, <2>2, <2>3, RequestsUntouched DEF ReadTask, InHand, IInv
<1>2. CASE Republish(t)
  <2>1. /\ claims[t] # Idle
        /\ HasNext(log, offset, t)
        /\ t = "run.completed" => Fact(t).role = "implementer" /\ Fact(t).status = "done"
        /\ Fact(t).run \in marks
        /\ Fact(t).run \in RunId /\ Fact(t).round \in Nat
    BY <1>0, <1>2, FactType DEF Republish, ClaimInHand, Idle
  <2>2. /\ claims' \in [Facts -> ClaimState]
        /\ offset' \in [Facts -> Offset] /\ failures' \in [Facts -> Nat]
        /\ \A u \in Facts : ClaimInHand(u)'
    <3>1. CASE Return(t)
      BY <1>2, <3>1, Returns DEF Republish
    <3>2. CASE t = "verdict" /\ Continue(t, Emitting(RunRequested(task.round, task.agent)))
      <4>1. RunRequested(task.round, task.agent) \in RunRequestedMsg
        BY <1>0 DEF RunRequested, RunRequestedMsg, TaskRow
      <4>2. Emitting(RunRequested(task.round, task.agent)) \in ClaimState
        BY <4>1, ClaimStates DEF CommandMsg
      <4> QED BY <1>0, <1>2, <2>1, <3>2, <4>1, <4>2, Continues DEF Republish, CommandAgain, Emitting, TypeOK
    <3>3. CASE /\ t # "verdict"
               /\ Continue(t, Emitting(ReviewRequested(Fact(t).run, Fact(t).round, task.agent)))
      <4>1. ReviewRequested(Fact(t).run, Fact(t).round, task.agent) \in ReviewRequestedMsg
        BY <1>0, <2>1 DEF ReviewRequested, ReviewRequestedMsg, TaskRow
      <4>2. Emitting(ReviewRequested(Fact(t).run, Fact(t).round, task.agent)) \in ClaimState
        BY <4>1, ClaimStates DEF CommandMsg
      <4> QED BY <1>0, <1>2, <2>1, <3>3, <4>1, <4>2, Continues
              DEF Republish, CommandAgain, Emitting, ReviewRequested, TypeOK
    <3> QED BY <1>2, <3>1, <3>2, <3>3 DEF Republish, CommandAgain
  <2>3. TypeOK'
    BY <1>0, <1>2, <2>2 DEF Republish, TypeOK
  <2> QED BY <1>0, <1>2, <2>2, <2>3, RequestsUntouched DEF Republish, InHand, IInv
<1>3. CASE ClaimEmit(t)
  <2>1. claims[t].cmd \in CommandMsg
    BY <1>0, <1>3 DEF ClaimEmit, ClaimState
  <2>2. LogType(log') /\ faults' \in Nat /\ \A u \in Facts : log'[u] = log[u]
    BY <1>0, <1>3, <2>1, CommandPublished DEF ClaimEmit
  <2>3. /\ claims' \in [Facts -> ClaimState]
        /\ offset' \in [Facts -> Offset] /\ failures' \in [Facts -> Nat]
        /\ \A u \in Facts : ClaimInHand(u)'
    BY <1>3, <2>2, Returns DEF ClaimEmit
  <2>4. TypeOK'
    BY <1>0, <1>3, <2>2, <2>3 DEF ClaimEmit, TypeOK
  <2> QED BY <1>0, <1>3, <2>3, <2>4, RequestsUntouched DEF ClaimEmit, InHand, IInv
<1>4. CASE ClaimFails(t)
  <2>1. HasNext(log, offset, t) /\ Len(log[t]) \in Nat
    BY <1>0, <1>4 DEF ClaimFails, MayFail, ClaimInHand, Receiving, Idle, TypeOK, LogType, Topics
  <2>2. /\ claims' \in [Facts -> ClaimState]
        /\ offset' \in [Facts -> Offset] /\ failures' \in [Facts -> Nat]
        /\ \A u \in Facts : ClaimInHand(u)'
    <3>1. CASE Return(t)
      BY <1>4, <3>1, Returns DEF ClaimFails
    <3>2. CASE /\ failures' = [failures EXCEPT ![t] = @ + 1]
               /\ claims' = [claims EXCEPT ![t] = Idle]
               /\ UNCHANGED <<offset, parked>>
      <4>1. claims' \in [Facts -> ClaimState] /\ failures' \in [Facts -> Nat]
        BY <1>0, <3>2, ClaimStates DEF TypeOK
      <4>2. ASSUME NEW u \in Facts PROVE ClaimInHand(u)'
        <5>1. CASE u = t
          BY <1>0, <3>2, <5>1 DEF ClaimInHand, TypeOK
        <5>2. CASE u # t
          <6>1. claims'[u] = claims[u] /\ Len(log[u]) \in Nat
            BY <1>0, <3>2, <5>2 DEF TypeOK, LogType, Topics
          <6> QED BY <1>0, <1>4, <3>2, <6>1, ClaimKept DEF ClaimFails, InHand
        <5> QED BY <5>1, <5>2
      <4> QED BY <1>0, <3>2, <4>1, <4>2 DEF TypeOK
    <3> QED BY <1>4, <3>1, <3>2 DEF ClaimFails
  <2>3. parked' \subseteq Message
    BY <1>0, <1>4, <2>1, FactType DEF ClaimFails, TypeOK, Message, Facts
  <2>4. TypeOK'
    BY <1>0, <1>4, <2>2, <2>3 DEF ClaimFails, Fault, TypeOK
  <2> QED BY <1>0, <1>4, <2>2, <2>4, RequestsUntouched DEF ClaimFails, InHand, IInv
<1> QED BY <1>1, <1>2, <1>3, <1>4 DEF ClaimStep

(* An update of the agent.                                                 *)
LEMMA UpdatePreserves ==
  ASSUME IInv, NEW a \in AgentRef, UNCHANGED runs, Update(a)
  PROVE  IInv'
<1>1. task' \in TaskRow
  BY DEF IInv, TypeOK, Update, TaskRow
<1>2. TypeOK'
  BY <1>1 DEF IInv, Update, TypeOK, retries
<1> QED BY <1>2, ClaimsUntouched, RequestsUntouched DEF Update, InHand, IInv

(* A crash of the service leaves nothing in hand.                          *)
LEMMA CrashPreserves ==
  ASSUME IInv, UNCHANGED runs, Crash
  PROVE  IInv'
<1>1. offset' \in [Facts -> Offset]
  <2>1. ASSUME NEW t \in Facts PROVE ResumeAt(offset[t]) \subseteq Offset
    BY DEF IInv, TypeOK, ResumeAt, Offset
  <2>2. DOMAIN offset = Facts
    BY DEF IInv, TypeOK
  <2> QED BY <2>1, <2>2 DEF Crash, ResumePoints
<1>2. claims' \in [Facts -> ClaimState] /\ requests' \in [Callers -> RequestState]
  BY ClaimStates, RequestStates DEF Crash
<1>3. TypeOK'
  BY <1>1, <1>2 DEF IInv, TypeOK, Crash, Fault
<1>4. InHand'
  BY DEF Crash, InHand, ClaimInHand, RequestInHand, Idle
<1> QED BY <1>3, <1>4 DEF IInv

(* The Executor and the saga speak of the same messages.                   *)
LEMMA SameEvents ==
  /\ Executor!Roles = Roles
  /\ Executor!Outcomes = Outcomes
  /\ Executor!Decisions = Decisions
  /\ \A lg, t : Executor!MessagesIn(lg, t) = MessagesIn(lg, t)
  /\ \A lg, msg : Executor!Published(lg, msg) = Published(lg, msg)
  /\ \A r, role, o, k : Executor!RunCompleted(r, role, o, k) = RunCompleted(r, role, o, k)
  /\ \A r, k, v : Executor!Verdict(r, k, v) = Verdict(r, k, v)
BY DEF Executor!Roles, Roles, Executor!Outcomes, Outcomes, Executor!Decisions, Decisions,
       Executor!MessagesIn, MessagesIn, Executor!Published, Published,
       Executor!RunCompleted, RunCompleted, Executor!Verdict, Verdict

(* The Executor's steps only add to the log and to the runs.               *)
LEMMA ExecutorPreserves ==
  ASSUME IInv, Executor!Next, UNCHANGED sagaVars
  PROVE  IInv'
<1>0. TypeOK /\ InHand /\ runs \in Seq(Executor!Run)
  BY DEF IInv, TypeOK
<1>1. /\ runs' \in Seq(Executor!Run)
      /\ log' = log \/ \E msg \in Message : log' = Published(log, msg)
  <2>1. ASSUME NEW role \in Roles, NEW round \in Nat, Executor!CreateRun(role, round)
        PROVE  runs' \in Seq(Executor!Run) /\ log' = log
    <3>1. [role |-> role, round |-> round] \in Executor!Run
      BY SameEvents DEF Executor!Run
    <3> QED BY <1>0, <2>1, <3>1 DEF Executor!CreateRun
  <2>2. CASE Executor!StartImplementer
    <3>1. PICK m \in MessagesIn(log, "run-requested") : Executor!CreateRun("implementer", m.round)
      BY <2>2, SameEvents DEF Executor!StartImplementer
    <3>2. m \in RunRequestedMsg
      BY <1>0, MessageOfTopic DEF TypeOK, LogType, MessagesIn, Topics, Commands
    <3> QED BY <2>1, <3>1, <3>2 DEF RunRequestedMsg, Roles
  <2>3. CASE Executor!StartReviewer
    <3>1. PICK m \in MessagesIn(log, "review-requested") : Executor!CreateRun("reviewer", m.round)
      BY <2>3, SameEvents DEF Executor!StartReviewer
    <3>2. m \in ReviewRequestedMsg
      BY <1>0, MessageOfTopic DEF TypeOK, LogType, MessagesIn, Topics, Commands
    <3> QED BY <2>1, <3>1, <3>2 DEF ReviewRequestedMsg, Roles
  <2>4. ASSUME NEW r \in DOMAIN runs
        PROVE  r \in RunId /\ runs[r].role \in Roles /\ runs[r].round \in Nat
    <3>1. r \in 1 .. Len(runs) /\ runs[r] \in Executor!Run
      BY <1>0, <2>4
    <3> QED BY <3>1, SameEvents DEF Executor!Run, RunId
  <2>5. CASE \E r \in DOMAIN runs, outcome \in Outcomes : Executor!ReportCompleted(r, outcome)
    <3>1. PICK r \in DOMAIN runs, outcome \in Outcomes : Executor!ReportCompleted(r, outcome)
      BY <2>5
    <3>2. RunCompleted(r, runs[r].role, outcome, runs[r].round) \in Message
      BY <2>4 DEF RunCompleted, RunCompletedMsg, Message
    <3> QED BY <1>0, <3>1, <3>2, SameEvents DEF Executor!ReportCompleted
  <2>6. CASE \E r \in DOMAIN runs, decision \in Decisions : Executor!ReportVerdict(r, decision)
    <3>1. PICK r \in DOMAIN runs, decision \in Decisions : Executor!ReportVerdict(r, decision)
      BY <2>6
    <3>2. Verdict(r, runs[r].round, decision) \in Message
      BY <2>4 DEF Verdict, VerdictMsg, Message
    <3> QED BY <1>0, <3>1, <3>2, SameEvents DEF Executor!ReportVerdict
  <2> QED BY <2>2, <2>3, <2>5, <2>6, SameEvents DEF Executor!Next
<1>2. LogType(log')
  BY <1>0, <1>1, PublishedType DEF TypeOK
<1>3. TypeOK'
  BY <1>0, <1>1, <1>2 DEF TypeOK, sagaVars
<1>4. ASSUME NEW t \in Facts PROVE ClaimInHand(t)'
  <2>1. /\ t \in Topics
        /\ Len(log[t]) \in Nat /\ Len(log'[t]) \in Nat
    BY <1>0, <1>2 DEF TypeOK, LogType, Topics
  <2>2. /\ Len(log'[t]) >= Len(log[t])
        /\ \A i \in 1 .. Len(log[t]) : log'[t][i] = log[t][i]
    BY <1>0, <1>1, <2>1, PublishedKeeps DEF TypeOK
  <2> QED BY <1>0, <2>1, <2>2, ClaimKept DEF InHand, sagaVars
<1> QED BY <1>0, <1>3, <1>4, RequestsUntouched DEF InHand, IInv, sagaVars

-----------------------------------------------------------------------------
(* The theorems.                                                           *)

(* Before any request nothing is published, marked or in hand.             *)
LEMMA Initially == Init => IInv
<1> SUFFICES ASSUME Init PROVE IInv
  OBVIOUS
<1>1. LogType(log)
  BY DEF Init, EmptyLog, LogType
<1>2. TypeOK
  BY <1>1, ClaimStates, RequestStates
     DEF Init, SagaInit, Executor!Init, TypeOK, TaskRow, Statuses, FirstOffset, Offset
<1>3. InHand
  BY DEF Init, SagaInit, InHand, ClaimInHand, RequestInHand, Idle
<1> QED BY <1>2, <1>3 DEF IInv

(* Every step of the saga or of the Executor preserves the invariant.      *)
LEMMA Inductively == IInv /\ [Next]_vars => IInv'
<1> SUFFICES ASSUME IInv, [Next]_vars PROVE IInv'
  OBVIOUS
<1>1. CASE SagaNext /\ UNCHANGED runs
  <2>1. CASE \E c \in Callers :
               \/ RequestStep(c) \/ ReRunRead(c) \/ StopSet(c) \/ RequestFails(c)
               \/ \E to \in PatchTargets : PatchRead(c, to)
    BY <1>1, <2>1, RequestsPreserve
  <2>2. CASE CompletedStep
    BY <1>1, <2>2, CompletedPreserves, ClaimsPreserve DEF CompletedStep, Facts
  <2>3. CASE VerdictStep
    BY <1>1, <2>3, VerdictPreserves, ClaimsPreserve DEF VerdictStep, Facts
  <2>4. CASE \E a \in AgentRef : Update(a)
    BY <1>1, <2>4, UpdatePreserves
  <2>5. CASE \E t \in Facts : ClaimFails(t)
    BY <1>1, <2>5, ClaimsPreserve
  <2>6. CASE Crash
    BY <1>1, <2>6, CrashPreserves
  <2> QED BY <1>1, <2>1, <2>2, <2>3, <2>4, <2>5, <2>6 DEF SagaNext, SagaStep
<1>2. CASE Executor!Next /\ UNCHANGED sagaVars
  BY <1>2, ExecutorPreserves
<1>3. CASE UNCHANGED vars
  BY <1>3 DEF vars, IInv, TypeOK, InHand, ClaimInHand, RequestInHand, Fact, Delivered, HasNext
<1> QED BY <1>1, <1>2, <1>3 DEF Next

(* The variables keep their types, and a handler in progress holds the     *)
(* fact it was given, past its mark once SagaAdvance has committed.        *)
THEOREM Invariance == Spec => [](TypeOK /\ InHand)
<1>1. Init => IInv
  BY Initially
<1>2. IInv /\ [Next]_vars => IInv'
  BY Inductively
<1> QED BY <1>1, <1>2, PTL DEF Spec, IInv

-----------------------------------------------------------------------------
(* AdvanceOncePerRun.                                                      *)

(* A step that moves the row and is no caller's makes a new mark.          *)
LEMMA AdvancesOnce == IInv /\ [Next]_vars => [AdvanceStep]_vars
<1> SUFFICES ASSUME IInv, Next PROVE AdvanceStep
  OBVIOUS
<1>0. /\ requests \in [Callers -> RequestState]
      /\ claims \in [Facts -> ClaimState]
      /\ offset \in [Facts -> Offset]
      /\ issued \in Nat
      /\ "run.completed" \in Facts /\ "verdict" \in Facts
  BY DEF IInv, TypeOK, Facts
<1>1. ASSUME NEW c \in Callers, PatchSet(c) \/ PatchBlock(c) \/ ReRunSet(c)
      PROVE  requests' # requests
  <2>1. requests[c].pc \in {"patch", "block", "rerun"}
    BY <1>1 DEF PatchSet, PatchBlock, ReRunSet
  <2>2. requests'[c].pc \in {"idle", "block", "emit"} /\ requests'[c].pc # requests[c].pc
    BY <1>0, <1>1 DEF PatchSet, PatchBlock, ReRunSet, Proceed, Emitting, Idle
  <2> QED BY <2>2
<1>2. ASSUME NEW c \in Callers,
             StopSet(c) \/ ReRunRead(c) \/ \E to \in PatchTargets : PatchRead(c, to)
      PROVE  issued' # issued
  BY <1>0, <1>2 DEF StopSet, ReRunRead, PatchRead, Issue
<1>3. ASSUME NEW a \in AgentRef, Update(a)
      PROVE  issued' # issued
  BY <1>0, <1>3 DEF Update
<1>4. ASSUME NEW t \in Facts, NEW from, NEW row, SagaAdvance(Fact(t).run, from, row),
             claims'[t] # claims[t] \/ offset'[t] # offset[t]
      PROVE  AdvanceStep
  BY <1>4 DEF SagaAdvance, Advances, AdvanceStep
<1>5. CASE ImplementerFailed
  <2>1. offset'["run.completed"] # offset["run.completed"]
    BY <1>0, <1>5 DEF ImplementerFailed, Return, Marked, Offset
  <2> QED BY <1>0, <1>4, <1>5, <2>1 DEF ImplementerFailed
<1>6. CASE ImplementerDone
  <2>1. claims'["run.completed"].pc # "advance"
    BY <1>0, <1>6 DEF ImplementerDone, Continue, Return, Emitting, Idle
  <2> QED BY <1>0, <1>4, <1>6, <2>1 DEF ImplementerDone
<1>7. CASE ApplyVerdict
  <2>1. claims'["verdict"].pc # "advance"
    BY <1>0, <1>7 DEF ApplyVerdict, Continue, Return, Emitting, Idle
  <2> QED BY <1>0, <1>4, <1>7, <2>1 DEF ApplyVerdict
<1>8. CASE \/ IgnoreReviewerRun \/ Crash
           \/ \E c \in Callers : RequestEmit(c) \/ RequestFails(c)
           \/ \E t \in Facts : ClaimStep(t) \/ ClaimFails(t)
           \/ UNCHANGED sagaVars
  BY <1>8 DEF AdvanceStep, IgnoreReviewerRun, Crash, RequestEmit, RequestFails, ClaimStep,
              ReadTask, Republish, ClaimEmit, ClaimFails, sagaVars
<1> QED BY <1>0, <1>1, <1>2, <1>3, <1>5, <1>6, <1>7, <1>8
        DEF Next, SagaNext, SagaStep, RequestStep, CompletedStep, VerdictStep, AdvanceStep

(* A fact moves the task at most once, however often it is delivered.      *)
THEOREM Idempotence == Spec => AdvanceOncePerRun
<1>1. Init => IInv
  BY Initially
<1>2. IInv /\ [Next]_vars => IInv'
  BY Inductively
<1>3. IInv /\ [Next]_vars => [AdvanceStep]_vars
  BY AdvancesOnce
<1> QED BY <1>1, <1>2, <1>3, PTL DEF Spec, AdvanceOncePerRun

-----------------------------------------------------------------------------
(* What a step publishes, marks and skips.                                 *)

Backed(m) ==
  /\ m.run \in marks
  /\ RunCompleted(m.run, "implementer", "done", m.round) \in MessagesIn(log, "run.completed")

(* A step publishes at most one message, and a review request only for a   *)
(* run that is marked and was reported done.                               *)
LEMMA StepPublishes ==
  ASSUME IInv, Next
  PROVE  \/ log' = log
         \/ \E msg \in Message : /\ log' = Published(log, msg)
                                 /\ msg.topic = "review-requested" => Backed(msg)
<1>0. /\ TypeOK /\ InHand
      /\ requests \in [Callers -> RequestState]
      /\ claims \in [Facts -> ClaimState]
      /\ "run.completed" \in Facts
  BY DEF IInv, TypeOK, Facts
<1>1. ASSUME NEW c \in Callers, RequestEmit(c)
      PROVE  log' = log \/ \E msg \in Message : /\ log' = Published(log, msg)
                                                /\ msg.topic # "review-requested"
  <2>1. requests[c].cmd \in RunRequestedMsg \cup StopRequestedMsg
    BY <1>0, <1>1 DEF RequestEmit, InHand, RequestInHand
  <2>2. requests[c].cmd \in Message /\ requests[c].cmd.topic # "review-requested"
    BY <2>1 DEF Message, CommandMsg, RunRequestedMsg, StopRequestedMsg
  <2> QED BY <1>1, <2>2 DEF RequestEmit, Publish
<1>2. ASSUME NEW t \in Facts, ClaimEmit(t)
      PROVE  log' = log \/ \E msg \in Message : /\ log' = Published(log, msg)
                                                /\ msg.topic = "review-requested" => Backed(msg)
  <2>1. claims[t].pc = "emit" /\ claims[t] # Idle /\ ClaimInHand(t)
    BY <1>0, <1>2 DEF ClaimEmit, Idle, InHand
  <2>2. CASE t = "verdict"
    <3>1. claims[t].cmd \in RunRequestedMsg
      BY <2>1, <2>2 DEF ClaimInHand
    <3>2. claims[t].cmd \in Message /\ claims[t].cmd.topic # "review-requested"
      BY <3>1 DEF Message, CommandMsg, RunRequestedMsg
    <3> QED BY <1>2, <3>2 DEF ClaimEmit, Publish
  <2>3. CASE t = "run.completed"
    <3> DEFINE d   == Fact(t)
               cmd == claims[t].cmd
    <3>1. /\ HasNext(log, offset, t)
          /\ d.role = "implementer" /\ d.status = "done"
          /\ d.run \in marks
          /\ cmd \in ReviewRequestedMsg /\ cmd.run = d.run /\ cmd.round = d.round
      BY <2>1, <2>3 DEF ClaimInHand
    <3>2. d = RunCompleted(d.run, "implementer", "done", d.round)
      <4>1. d \in RunCompletedMsg
        BY <1>0, <2>3, <3>1, FactType
      <4> QED BY <3>1, <4>1 DEF RunCompletedMsg, RunCompleted
    <3>3. d \in MessagesIn(log, "run.completed")
      <4>1. offset[t].next \in DOMAIN log[t]
        BY <1>0, <2>3, <3>1 DEF HasNext, TypeOK, Offset, LogType, Topics
      <4> QED BY <2>3, <4>1 DEF Fact, Delivered, MessagesIn
    <3>4. Backed(cmd)
      BY <3>1, <3>2, <3>3 DEF Backed
    <3>5. cmd \in Message
      BY <3>1 DEF Message, CommandMsg
    <3> QED BY <1>2, <3>4, <3>5 DEF ClaimEmit, Publish
  <2> QED BY <2>2, <2>3 DEF Facts
<1>3. CASE Executor!Next
  <2>1. ASSUME NEW r \in DOMAIN runs, NEW outcome \in Outcomes,
               Executor!ReportCompleted(r, outcome)
        PROVE  \E msg \in Message : log' = Published(log, msg) /\ msg.topic # "review-requested"
    <3> DEFINE msg == RunCompleted(r, runs[r].role, outcome, runs[r].round)
    <3>1. log' = Published(log, msg)
      BY <2>1, SameEvents DEF Executor!ReportCompleted
    <3>2. runs[r] \in [role: Roles, round: Nat] /\ r \in RunId
      <4>1. r \in 1 .. Len(runs) /\ runs[r] \in Executor!Run
        BY <1>0 DEF TypeOK
      <4> QED BY <4>1, SameEvents DEF Executor!Run, RunId
    <3>3. msg \in Message /\ msg.topic # "review-requested"
      BY <3>2 DEF RunCompleted, RunCompletedMsg, Message
    <3> QED BY <3>1, <3>3
  <2>2. ASSUME NEW r \in DOMAIN runs, NEW decision \in Decisions,
               Executor!ReportVerdict(r, decision)
        PROVE  \E msg \in Message : log' = Published(log, msg) /\ msg.topic # "review-requested"
    <3> DEFINE msg == Verdict(r, runs[r].round, decision)
    <3>1. log' = Published(log, msg)
      BY <2>2, SameEvents DEF Executor!ReportVerdict
    <3>2. runs[r] \in [role: Roles, round: Nat] /\ r \in RunId
      <4>1. r \in 1 .. Len(runs) /\ runs[r] \in Executor!Run
        BY <1>0 DEF TypeOK
      <4> QED BY <4>1, SameEvents DEF Executor!Run, RunId
    <3>3. msg \in Message /\ msg.topic # "review-requested"
      BY <3>2 DEF Verdict, VerdictMsg, Message
    <3> QED BY <3>1, <3>3
  <2> QED BY <1>3, <2>1, <2>2, SameEvents
          DEF Executor!Next, Executor!StartImplementer, Executor!StartReviewer, Executor!CreateRun
<1>4. CASE /\ SagaNext
           /\ ~\E c \in Callers : RequestEmit(c)
           /\ ~\E t \in Facts : ClaimEmit(t)
  BY <1>0, <1>4 DEF SagaNext, SagaStep, RequestStep, CompletedStep, VerdictStep, ClaimStep, Facts,
     PatchSet, PatchBlock, ReRunSet, PatchRead, ReRunRead, StopSet, RequestFails, Update,
     IgnoreReviewerRun, ImplementerFailed, ImplementerDone, ApplyVerdict, ReadTask, Republish,
     ClaimFails, Crash
<1> QED BY <1>1, <1>2, <1>3, <1>4 DEF Next

(* Marks are never taken back, nor is a parked fact.                       *)
LEMMA StepMarks ==
  ASSUME Next
  PROVE  marks \subseteq marks' /\ parked \subseteq parked'
BY DEF Next, SagaNext, SagaStep, RequestStep, CompletedStep, VerdictStep, ClaimStep,
   PatchSet, PatchBlock, ReRunSet, RequestEmit, PatchRead, ReRunRead, StopSet, RequestFails,
   Update, IgnoreReviewerRun, ImplementerFailed, ImplementerDone, ApplyVerdict, ReadTask,
   Republish, ClaimEmit, ClaimFails, Crash, SagaAdvance, sagaVars, retries

(* A group's offset only moves past a fact that needs no mark, has it, or  *)
(* was parked.                                                             *)
LEMMA StepSkips ==
  ASSUME IInv, Next, NEW t \in Facts
  PROVE  \/ offset'[t].next \in 1 .. offset[t].next
         \/ /\ HasNext(log, offset, t)
            /\ offset'[t].next = offset[t].next + 1
            /\ (t = "verdict" \/ Fact(t).role = "implementer")
                 => Fact(t).run \in marks' \/ Fact(t) \in parked'
<1>0. /\ TypeOK /\ InHand
      /\ offset \in [Facts -> Offset]
      /\ "run.completed" \in Facts /\ "verdict" \in Facts
      /\ "run.completed" # "verdict"
  BY DEF IInv, TypeOK, Facts
<1>1. CASE offset' = offset
  BY <1>0, <1>1 DEF Offset
<1>2. ASSUME NEW u \in Facts, Return(u), HasNext(log, offset, u),
             (u = "verdict" \/ Fact(u).role = "implementer")
                 => Fact(u).run \in marks' \/ Fact(u) \in parked'
      PROVE  \/ offset'[t].next \in 1 .. offset[t].next
             \/ /\ HasNext(log, offset, t)
                /\ offset'[t].next = offset[t].next + 1
                /\ (t = "verdict" \/ Fact(t).role = "implementer")
                 => Fact(t).run \in marks' \/ Fact(t) \in parked'
  BY <1>0, <1>2 DEF Return, Marked, Offset
<1>3. CASE IgnoreReviewerRun
  BY <1>0, <1>2, <1>3 DEF IgnoreReviewerRun, Receiving
<1>4. CASE ImplementerFailed
  BY <1>0, <1>2, <1>4 DEF ImplementerFailed, Receiving, SagaAdvance
<1>5. ASSUME NEW u \in Facts, claims[u].pc = "advance", marks' = marks \cup {Fact(u).run}, Return(u)
      PROVE  HasNext(log, offset, u) /\ Fact(u).run \in marks'
  BY <1>0, <1>5 DEF InHand, ClaimInHand, Idle
<1>6. ASSUME NEW u \in Facts, claims[u].pc \in {"republish", "emit"}, marks' = marks
      PROVE  HasNext(log, offset, u) /\ Fact(u).run \in marks'
  BY <1>0, <1>6 DEF InHand, ClaimInHand, Idle
<1>7. CASE ImplementerDone
  BY <1>0, <1>1, <1>2, <1>5, <1>7 DEF ImplementerDone, SagaAdvance, Continue
<1>8. CASE ApplyVerdict
  BY <1>0, <1>1, <1>2, <1>5, <1>8 DEF ApplyVerdict, SagaAdvance, Continue
<1>9. CASE \E u \in Facts : ReadTask(u) \/ Republish(u) \/ ClaimEmit(u)
  BY <1>1, <1>2, <1>6, <1>9 DEF ReadTask, Republish, ClaimEmit, Continue
<1>10. CASE \E u \in Facts : ClaimFails(u)
  <2>1. PICK u \in Facts : ClaimFails(u)
    BY <1>10
  <2>2. HasNext(log, offset, u)
    BY <1>0, <2>1 DEF ClaimFails, MayFail, InHand, ClaimInHand, Receiving, Idle
  <2> QED BY <1>1, <1>2, <2>1, <2>2 DEF ClaimFails
<1>11. CASE Crash
  <2>1. offset'[t] \in ResumeAt(offset[t])
    BY <1>0, <1>11 DEF Crash, ResumePoints
  <2> QED BY <1>0, <2>1 DEF ResumeAt, Offset
<1>12. CASE \/ UNCHANGED sagaVars
            \/ \E a \in AgentRef : Update(a)
            \/ \E c \in Callers : \/ RequestStep(c) \/ ReRunRead(c) \/ StopSet(c)
                                  \/ RequestFails(c)
                                  \/ \E to \in PatchTargets : PatchRead(c, to)
  BY <1>1, <1>12 DEF sagaVars, Update, RequestStep, PatchSet, PatchBlock, ReRunSet, RequestEmit,
     ReRunRead, StopSet, RequestFails, PatchRead
<1> QED BY <1>0, <1>3, <1>4, <1>7, <1>8, <1>9, <1>10, <1>11, <1>12
        DEF Next, SagaNext, SagaStep, CompletedStep, VerdictStep, ClaimStep

(* The invariants of the two theorems below.                               *)

(* No step publishes a review request ahead of what it reports.            *)
LEMMA ReviewsPreserve ==
  ASSUME IInv, ReviewCommandsReportCommits, [Next]_vars
  PROVE  ReviewCommandsReportCommits'
<1>0. TypeOK /\ LogType(log)
  BY DEF IInv, TypeOK
<1>1. CASE UNCHANGED vars
  BY <1>1 DEF vars, ReviewCommandsReportCommits, MessagesIn
<1>2. CASE Next
  <2>1. marks \subseteq marks'
    BY <1>2, StepMarks
  <2>2. CASE log' = log
    BY <2>1, <2>2 DEF ReviewCommandsReportCommits, MessagesIn
  <2>3. ASSUME NEW msg \in Message, log' = Published(log, msg),
               msg.topic = "review-requested" => Backed(msg)
        PROVE  ReviewCommandsReportCommits'
    <3>1. \A t \in Topics : MessagesIn(log, t) \subseteq MessagesIn(log', t)
      BY <1>0, <2>3, PublishedMessages
    <3>2. \A m \in MessagesIn(log', "review-requested") :
            m \in MessagesIn(log, "review-requested") \/ (m = msg /\ msg.topic = "review-requested")
      BY <1>0, <2>3, PublishedMessages DEF Topics, Commands
    <3>3. "run.completed" \in Topics
      BY DEF Topics, Facts
    <3> QED BY <2>1, <2>3, <3>1, <3>2, <3>3 DEF ReviewCommandsReportCommits, Backed
  <2> QED BY <1>2, <2>2, <2>3, StepPublishes
<1> QED BY <1>1, <1>2

(* A group never delivers past the end of a log.                           *)
OffsetsInLog == \A t \in Facts : offset[t].next <= Len(log[t]) + 1

(* No step moves a group past a fact that lacks the mark it must have.     *)
LEMMA SkipsPreserve ==
  ASSUME IInv, NoFactSkipped, OffsetsInLog, [Next]_vars
  PROVE  NoFactSkipped' /\ OffsetsInLog'
<1>0. TypeOK /\ LogType(log) /\ offset \in [Facts -> Offset] /\ Facts \subseteq Topics
  BY DEF IInv, TypeOK, Topics
<1>1. CASE UNCHANGED vars
  BY <1>1 DEF vars, NoFactSkipped, OffsetsInLog
<1>2. CASE Next
  <2>1. marks \subseteq marks' /\ parked \subseteq parked'
    BY <1>2, StepMarks
  <2>2. \A t \in Facts : /\ Len(log'[t]) >= Len(log[t])
                         /\ \A i \in 1 .. Len(log[t]) : log'[t][i] = log[t][i]
    <3>1. CASE log' = log
      BY <1>0, <3>1 DEF LogType
    <3>2. ASSUME NEW msg \in Message, log' = Published(log, msg)
          PROVE  \A t \in Facts : /\ Len(log'[t]) >= Len(log[t])
                                  /\ \A i \in 1 .. Len(log[t]) : log'[t][i] = log[t][i]
      BY <1>0, <3>2, PublishedKeeps
    <3> QED BY <1>2, <3>1, <3>2, StepPublishes
  <2>3. ASSUME NEW t \in Facts
        PROVE  /\ offset'[t].next <= Len(log'[t]) + 1
               /\ \A i \in 1 .. offset'[t].next - 1 :
                    (t = "verdict" \/ log'[t][i].role = "implementer")
                      => log'[t][i].run \in marks' \/ log'[t][i] \in parked'
    <3>1. /\ offset[t].next \in Nat \ {0}
          /\ Len(log[t]) \in Nat
          /\ Len(log'[t]) \in Nat
          /\ offset[t].next <= Len(log[t]) + 1
      <4>1. LogType(log')
        BY <1>2, Inductively DEF IInv, TypeOK
      <4> QED BY <1>0, <4>1 DEF OffsetsInLog, Offset, LogType
    <3>2. ASSUME NEW i \in 1 .. offset[t].next - 1
          PROVE  (t = "verdict" \/ log'[t][i].role = "implementer")
                      => log'[t][i].run \in marks' \/ log'[t][i] \in parked'
      BY <2>1, <2>2, <3>1, <3>2 DEF NoFactSkipped
    <3>3. CASE offset'[t].next \in 1 .. offset[t].next
      BY <2>2, <3>1, <3>2, <3>3
    <3>4. CASE /\ HasNext(log, offset, t)
               /\ offset'[t].next = offset[t].next + 1
               /\ (t = "verdict" \/ Fact(t).role = "implementer")
                    => Fact(t).run \in marks' \/ Fact(t) \in parked'
      <4>1. offset[t].next <= Len(log[t])
        BY <3>4 DEF HasNext
      <4>2. log'[t][offset[t].next] = Fact(t)
        BY <2>2, <3>1, <4>1 DEF Fact, Delivered
      <4>3. \A i \in 1 .. offset'[t].next - 1 :
              i \in 1 .. offset[t].next - 1 \/ i = offset[t].next
        BY <3>1, <3>4
      <4>4. offset'[t].next <= Len(log'[t]) + 1
        BY <2>2, <3>1, <3>4, <4>1
      <4> QED BY <3>2, <3>4, <4>2, <4>3, <4>4
    <3> QED BY <1>2, <3>3, <3>4, StepSkips
  <2> QED BY <2>3 DEF NoFactSkipped, OffsetsInLog
<1> QED BY <1>1, <1>2

(* A reviewer run is only requested for an implementer run that saga_runs  *)
(* has and that was reported done in the round of the request: onVerdict   *)
(* and onImplementerDone publish after SagaAdvance has committed.          *)
THEOREM CommandsReportCommits == Spec => []ReviewCommandsReportCommits
<1>1. Init => ReviewCommandsReportCommits
  BY DEF Init, EmptyLog, ReviewCommandsReportCommits, MessagesIn, Topics, Commands
<1>2. IInv /\ ReviewCommandsReportCommits /\ [Next]_vars => ReviewCommandsReportCommits'
  BY ReviewsPreserve
<1> QED BY <1>1, <1>2, Initially, Inductively, PTL DEF Spec

(* No fact is lost by the group: whatever lies before the delivery offset  *)
(* and must have left a mark has left it, across crashes of the service    *)
(* and handlers that fail, or was parked: ConsumeClaim marks a message     *)
(* only after its handler succeeds or has failed MaxRedeliveries times.    *)
THEOREM NothingSkipped == Spec => []NoFactSkipped
<1>1. Init => NoFactSkipped /\ OffsetsInLog
  BY DEF Init, SagaInit, EmptyLog, FirstOffset, NoFactSkipped, OffsetsInLog, Facts, Topics
<1>2. IInv /\ NoFactSkipped /\ OffsetsInLog /\ [Next]_vars => NoFactSkipped' /\ OffsetsInLog'
  BY SkipsPreserve
<1> QED BY <1>1, <1>2, Initially, Inductively, PTL DEF Spec

-----------------------------------------------------------------------------
(* What a step adds, and where it comes from.                              *)

(* The topics whose messages have a round.                                 *)
Numbered == {"run-requested", "review-requested", "run.completed", "verdict"}

(* A message is a command that a request or a claim had in hand, or a fact *)
(* about a run of the table.                                               *)
Origin(t, m) ==
  \/ /\ t = "run-requested"
     /\ \E c \in Callers : requests[c].pc = "emit" /\ requests[c].cmd = m
  \/ t = "run-requested" /\ claims["verdict"].pc = "emit" /\ claims["verdict"].cmd = m
  \/ t = "review-requested" /\ claims["run.completed"].pc = "emit"
                            /\ claims["run.completed"].cmd = m
  \/ t = "run.completed" /\ m.run \in RunOf(m.role, m.round)
  \/ t = "verdict" /\ m.run \in RunOf("reviewer", m.round)

(* The rows of the table.                                                  *)
LEMMA RunFields ==
  ASSUME TypeOK, NEW r \in DOMAIN runs
  PROVE  /\ r \in RunId
         /\ runs[r].role \in Roles
         /\ runs[r].round \in Nat
         /\ r \in RunOf(runs[r].role, runs[r].round)
<1>1. r \in 1 .. Len(runs) /\ runs[r] \in Executor!Run
  BY DEF TypeOK
<1>2. runs[r] \in [role: Roles, round: Nat]
  BY <1>1, SameEvents DEF Executor!Run
<1> QED BY <1>1, <1>2 DEF RunId, RunOf

(* A step that publishes changes neither the row, the marks nor the runs.  *)
LEMMA StepAdds ==
  ASSUME IInv, Next
  PROVE  \/ log' = log
         \/ /\ UNCHANGED <<task, marks, runs>>
            /\ \E msg \in Message :
                 /\ log' = Published(log, msg)
                 /\ msg.topic = "stop-requested" \/ Origin(msg.topic, msg)
<1>0. /\ TypeOK /\ InHand
      /\ "run.completed" \in Facts /\ "verdict" \in Facts
  BY DEF IInv, TypeOK, Facts
<1>1. ASSUME NEW c \in Callers, RequestEmit(c), UNCHANGED runs
      PROVE  \/ log' = log
             \/ /\ UNCHANGED <<task, marks, runs>>
                /\ \E msg \in Message :
                     /\ log' = Published(log, msg)
                     /\ msg.topic = "stop-requested" \/ Origin(msg.topic, msg)
  <2>1. requests[c].cmd \in RunRequestedMsg \cup StopRequestedMsg
    BY <1>0, <1>1 DEF RequestEmit, InHand, RequestInHand
  <2>2. /\ requests[c].cmd \in Message
        /\ requests[c].cmd.topic \in {"run-requested", "stop-requested"}
    BY <2>1 DEF Message, CommandMsg, RunRequestedMsg, StopRequestedMsg
  <2> QED BY <1>1, <2>2 DEF RequestEmit, Publish, Origin
<1>2. ASSUME NEW t \in Facts, ClaimEmit(t), UNCHANGED runs
      PROVE  \/ log' = log
             \/ /\ UNCHANGED <<task, marks, runs>>
                /\ \E msg \in Message :
                     /\ log' = Published(log, msg)
                     /\ msg.topic = "stop-requested" \/ Origin(msg.topic, msg)
  <2>1. claims[t].pc = "emit" /\ claims[t] # Idle /\ ClaimInHand(t)
    BY <1>0, <1>2 DEF ClaimEmit, Idle, InHand
  <2>2. IF t = "verdict" THEN claims[t].cmd \in RunRequestedMsg
        ELSE claims[t].cmd \in ReviewRequestedMsg
    BY <2>1 DEF ClaimInHand
  <2>3. /\ claims[t].cmd \in Message
        /\ claims[t].cmd.topic = IF t = "verdict" THEN "run-requested" ELSE "review-requested"
    BY <2>2 DEF Message, CommandMsg, RunRequestedMsg, ReviewRequestedMsg
  <2>4. Origin(claims[t].cmd.topic, claims[t].cmd)
    BY <2>1, <2>3 DEF Facts, Origin
  <2> QED BY <1>2, <2>3, <2>4 DEF ClaimEmit, Publish
<1>3. CASE Executor!Next /\ UNCHANGED sagaVars
  <2>1. ASSUME NEW r \in DOMAIN runs, NEW outcome \in Outcomes,
               Executor!ReportCompleted(r, outcome)
        PROVE  UNCHANGED runs /\ \E msg \in Message : /\ log' = Published(log, msg)
                                                      /\ Origin(msg.topic, msg)
    <3> DEFINE msg == RunCompleted(r, runs[r].role, outcome, runs[r].round)
    <3>1. log' = Published(log, msg) /\ UNCHANGED runs
      BY <2>1, SameEvents DEF Executor!ReportCompleted
    <3>2. /\ msg \in RunCompletedMsg
          /\ msg.topic = "run.completed"
          /\ msg.run \in RunOf(msg.role, msg.round)
      BY <1>0, RunFields DEF RunCompleted, RunCompletedMsg
    <3> HIDE DEF msg
    <3>3. msg \in Message /\ Origin(msg.topic, msg)
      BY <3>2 DEF Message, Origin
    <3> QED BY <3>1, <3>3
  <2>2. ASSUME NEW r \in DOMAIN runs, NEW decision \in Decisions,
               Executor!ReportVerdict(r, decision)
        PROVE  UNCHANGED runs /\ \E msg \in Message : /\ log' = Published(log, msg)
                                                      /\ Origin(msg.topic, msg)
    <3> DEFINE msg == Verdict(r, runs[r].round, decision)
    <3>1. log' = Published(log, msg) /\ UNCHANGED runs /\ runs[r].role = "reviewer"
      BY <2>2, SameEvents DEF Executor!ReportVerdict
    <3>2. /\ msg \in VerdictMsg
          /\ msg.topic = "verdict"
          /\ msg.run \in RunOf("reviewer", msg.round)
      BY <1>0, <3>1, RunFields DEF Verdict, VerdictMsg
    <3> HIDE DEF msg
    <3>3. msg \in Message /\ Origin(msg.topic, msg)
      BY <3>2 DEF Message, Origin
    <3> QED BY <3>1, <3>3
  <2>3. Executor!StartImplementer \/ Executor!StartReviewer => log' = log
    BY DEF Executor!StartImplementer, Executor!StartReviewer, Executor!CreateRun
  <2>4. UNCHANGED <<task, marks>>
    BY <1>3 DEF sagaVars
  <2> QED BY <1>3, <2>1, <2>2, <2>3, <2>4, SameEvents DEF Executor!Next
<1>4. CASE /\ SagaNext
           /\ ~\E c \in Callers : RequestEmit(c)
           /\ ~\E t \in Facts : ClaimEmit(t)
  BY <1>0, <1>4 DEF SagaNext, SagaStep, RequestStep, CompletedStep, VerdictStep, ClaimStep, Facts,
     PatchSet, PatchBlock, ReRunSet, PatchRead, ReRunRead, StopSet, RequestFails, Update,
     IgnoreReviewerRun, ImplementerFailed, ImplementerDone, ApplyVerdict, ReadTask, Republish,
     ClaimFails, Crash
<1> QED BY <1>1, <1>2, <1>3, <1>4 DEF Next

(* A message a step adds has an origin.                                    *)
LEMMA NewMessages ==
  ASSUME IInv, Next, NEW t \in Numbered, NEW m \in MessagesIn(log', t)
  PROVE  m \in MessagesIn(log, t) \/ Origin(t, m)
<1>1. LogType(log) /\ t \in Topics /\ t # "stop-requested"
  BY DEF IInv, TypeOK, Numbered, Topics, Commands, Facts
<1>2. CASE log' = log
  BY <1>2
<1>3. ASSUME NEW msg \in Message, log' = Published(log, msg),
             msg.topic = "stop-requested" \/ Origin(msg.topic, msg)
      PROVE  m \in MessagesIn(log, t) \/ Origin(t, m)
  <2>1. MessagesIn(log', t) = MessagesIn(log, t) \cup (IF t = msg.topic THEN {msg} ELSE {})
    BY <1>1, <1>3, PublishedMessages
  <2> QED BY <1>1, <1>3, <2>1
<1> QED BY <1>2, <1>3, StepAdds

(* A run is created for a command that was published, and there is no      *)
(* other of its role and round; nothing else changes.                      *)
Creates(role, m) ==
  /\ \/ role = "implementer" /\ m \in MessagesIn(log, "run-requested")
     \/ role = "reviewer" /\ m \in MessagesIn(log, "review-requested")
  /\ RunOf(role, m.round) = {}
  /\ runs' = Append(runs, [role |-> role, round |-> m.round])
  /\ UNCHANGED <<log, sagaVars>>

LEMMA StepCreates ==
  ASSUME IInv, Next
  PROVE  UNCHANGED runs \/ \E role \in Roles, m \in Message : Creates(role, m)
<1>0. TypeOK /\ LogType(log)
  BY DEF IInv, TypeOK
<1>1. ASSUME NEW role \in Roles, NEW m \in Message, UNCHANGED sagaVars,
             Executor!CreateRun(role, m.round),
             \/ role = "implementer" /\ m \in MessagesIn(log, "run-requested")
             \/ role = "reviewer" /\ m \in MessagesIn(log, "review-requested")
      PROVE  Creates(role, m)
  BY <1>1 DEF Creates, Executor!CreateRun, Executor!HasRun, RunOf
<1>2. CASE Executor!StartImplementer /\ UNCHANGED sagaVars
  <2>1. PICK m \in MessagesIn(log, "run-requested") : Executor!CreateRun("implementer", m.round)
    BY <1>2, SameEvents DEF Executor!StartImplementer
  <2>2. m \in Message
    BY <1>0, MessagesType DEF Topics, Commands
  <2> QED BY <1>1, <1>2, <2>1, <2>2 DEF Roles
<1>3. CASE Executor!StartReviewer /\ UNCHANGED sagaVars
  <2>1. PICK m \in MessagesIn(log, "review-requested") : Executor!CreateRun("reviewer", m.round)
    BY <1>3, SameEvents DEF Executor!StartReviewer
  <2>2. m \in Message
    BY <1>0, MessagesType DEF Topics, Commands
  <2> QED BY <1>1, <1>3, <2>1, <2>2 DEF Roles
<1> QED BY <1>2, <1>3 DEF Next, Executor!Next, Executor!ReportCompleted, Executor!ReportVerdict

(* A run that is created joins those of the table.                         *)
LEMMA RunCreated ==
  ASSUME TypeOK, NEW role \in Roles, NEW m \in Message, Creates(role, m)
  PROVE  /\ DOMAIN runs' = DOMAIN runs \cup {Len(runs) + 1}
         /\ \A r \in DOMAIN runs : runs'[r] = runs[r] /\ r < Len(runs) + 1
         /\ Len(runs) + 1 \notin DOMAIN runs
         /\ runs'[Len(runs) + 1] = [role |-> role, round |-> m.round]
<1>1. runs \in Seq(Executor!Run)
  BY DEF TypeOK
<1> QED BY <1>1 DEF Creates

(* Nothing that was published, marked or created is taken back.            *)
Grown ==
  /\ \A t \in Topics : /\ MessagesIn(log, t) \subseteq MessagesIn(log', t)
                       /\ Len(log'[t]) >= Len(log[t])
                       /\ \A i \in 1 .. Len(log[t]) : log'[t][i] = log[t][i]
  /\ marks \subseteq marks'
  /\ \A r \in DOMAIN runs : r \in DOMAIN runs' /\ runs'[r] = runs[r]

LEMMA StepGrows ==
  ASSUME IInv, Next
  PROVE  Grown
<1>0. TypeOK /\ LogType(log)
  BY DEF IInv, TypeOK
<1>1. \A t \in Topics : /\ MessagesIn(log, t) \subseteq MessagesIn(log', t)
                        /\ Len(log'[t]) >= Len(log[t])
                        /\ \A i \in 1 .. Len(log[t]) : log'[t][i] = log[t][i]
  <2>1. CASE log' = log
    BY <1>0, <2>1 DEF LogType
  <2>2. ASSUME NEW msg \in Message, log' = Published(log, msg)
        PROVE  \A t \in Topics : /\ MessagesIn(log, t) \subseteq MessagesIn(log', t)
                                 /\ Len(log'[t]) >= Len(log[t])
                                 /\ \A i \in 1 .. Len(log[t]) : log'[t][i] = log[t][i]
    BY <1>0, <2>2, PublishedKeeps, PublishedGrows
  <2> QED BY <2>1, <2>2, StepAdds
<1>2. \A r \in DOMAIN runs : r \in DOMAIN runs' /\ runs'[r] = runs[r]
  BY <1>0, StepCreates, RunCreated
<1> QED BY <1>1, <1>2, StepMarks DEF Grown

-----------------------------------------------------------------------------
(* The table and the facts, whatever the callers do.                       *)

RunsUnique == \A r, s \in DOMAIN runs : runs[r] = runs[s] => r = s

FactsOnRecord ==
  /\ \A m \in MessagesIn(log, "run.completed") : m.run \in RunOf(m.role, m.round)
  /\ \A m \in MessagesIn(log, "verdict") : m.run \in RunOf("reviewer", m.round)

RecordInv == IInv /\ ReviewCommandsReportCommits /\ RunsUnique /\ FactsOnRecord

(* A run stays what it is.                                                 *)
LEMMA RunStays ==
  ASSUME Grown, NEW role, NEW k, NEW r \in RunOf(role, k)
  PROVE  r \in RunOf(role, k)'
BY DEF Grown, RunOf

(* One run per role and round, and the facts are about the runs they name. *)
LEMMA RecordPreserved == RecordInv /\ [Next]_vars => RecordInv'
<1> SUFFICES ASSUME RecordInv, [Next]_vars PROVE RecordInv'
  OBVIOUS
<1>1. IInv' /\ ReviewCommandsReportCommits'
  BY Inductively, ReviewsPreserve DEF RecordInv
<1>2. CASE UNCHANGED vars
  BY <1>1, <1>2 DEF vars, RecordInv, RunsUnique, FactsOnRecord, RunOf, MessagesIn
<1>3. CASE Next
  <2>0. IInv /\ TypeOK /\ Grown
    BY <1>3, StepGrows DEF RecordInv, IInv
  <2>1. RunsUnique'
    <3>1. CASE UNCHANGED runs
      BY <3>1 DEF RecordInv, RunsUnique
    <3>2. ASSUME NEW role \in Roles, NEW m \in Message, Creates(role, m) PROVE RunsUnique'
      <4>1. \A r \in DOMAIN runs : runs[r] # [role |-> role, round |-> m.round]
        BY <3>2 DEF Creates, RunOf
      <4> DEFINE n   == Len(runs) + 1
                 new == [role |-> role, round |-> m.round]
      <4>2. /\ DOMAIN runs' = DOMAIN runs \cup {n}
            /\ \A r \in DOMAIN runs : runs'[r] = runs[r]
            /\ runs'[n] = new
        BY <2>0, <3>2, RunCreated
      <4>3. \A r, s \in DOMAIN runs : runs[r] = runs[s] => r = s
        BY DEF RecordInv, RunsUnique
      <4> HIDE DEF n, new
      <4>4. \A r, s \in DOMAIN runs' : runs'[r] = runs'[s] => r = s
        BY <4>1, <4>2, <4>3 DEF new
      <4> QED BY <4>4, Zenon DEF RunsUnique
    <3> QED BY <1>3, <2>0, <3>1, <3>2, StepCreates
  <2>2. ASSUME NEW m \in MessagesIn(log', "run.completed")
        PROVE  m.run \in RunOf(m.role, m.round)'
    <3>1. m \in MessagesIn(log, "run.completed") \/ Origin("run.completed", m)
      BY <1>3, <2>0, NewMessages DEF Numbered
    <3>2. m.run \in RunOf(m.role, m.round)
      BY <3>1 DEF Origin, RecordInv, FactsOnRecord
    <3> QED BY <2>0, <3>2, RunStays
  <2>3. ASSUME NEW m \in MessagesIn(log', "verdict")
        PROVE  m.run \in RunOf("reviewer", m.round)'
    <3>1. m \in MessagesIn(log, "verdict") \/ Origin("verdict", m)
      BY <1>3, <2>0, NewMessages DEF Numbered
    <3>2. m.run \in RunOf("reviewer", m.round)
      BY <3>1 DEF Origin, RecordInv, FactsOnRecord
    <3> QED BY <2>0, <3>2, RunStays
  <2> QED BY <1>1, <2>1, <2>2, <2>3 DEF RecordInv, FactsOnRecord
<1> QED BY <1>2, <1>3

(* At first there is neither a run nor a message.                          *)
LEMMA RecordInitially == Init => RecordInv
BY Initially DEF Init, Executor!Init, EmptyLog, RecordInv, RunsUnique, FactsOnRecord,
   ReviewCommandsReportCommits, MessagesIn, Topics, Commands, Facts

-----------------------------------------------------------------------------
(* The rounds, whatever the callers do.                                    *)

(* The fact a group is given is one of its topic.                          *)
LEMMA FactPublished ==
  ASSUME TypeOK, NEW t \in Facts, HasNext(log, offset, t)
  PROVE  /\ Fact(t) \in MessagesIn(log, t)
         /\ Len(log[t]) # 0
<1>1. /\ t \in Topics
      /\ offset[t].next \in Nat \ {0} /\ Len(log[t]) \in Nat
      /\ DOMAIN log[t] = 1 .. Len(log[t])
  BY DEF TypeOK, Offset, LogType, Topics
<1>2. offset[t].next \in DOMAIN log[t] /\ Len(log[t]) # 0
  BY <1>1 DEF HasNext
<1> QED BY <1>2 DEF Fact, Delivered, MessagesIn

(* onVerdict moves the task to its next round.                             *)
NextRound ==
  LET d == Fact("verdict")
  IN /\ HasNext(log, offset, "verdict")
     /\ claims["verdict"].pc = "advance"
     /\ Advances(d.run, "review")
     /\ d.decision = "REQUEST_CHANGES"
     /\ d.round + 1 <= MaxReviewRounds
     /\ task' = [task EXCEPT !.status = "doing", !.round = d.round + 1]
     /\ d.run \in marks'
     /\ claims'["verdict"].pc = "emit"
     /\ claims'["verdict"].cmd.round = d.round + 1
     /\ UNCHANGED <<log, offset, runs, requests, issued>>

(* What a step may do to a request in progress.                            *)
RequestMoves(c) ==
  /\ requests'[c] # Idle => requests[c] # Idle \/ issued' = issued + 1
  /\ requests'[c].pc = "rerun" =>
       \/ requests'[c] = requests[c]
       \/ issued' = issued + 1 /\ requests'[c].round = task.round + 1
  /\ requests'[c].pc = "emit" /\ requests'[c].cmd.topic = "run-requested" =>
       \/ requests'[c] = requests[c]
       \/ requests'[c].cmd.round = task.round
       \/ requests[c].pc = "rerun" /\ requests'[c].cmd.round = requests[c].round

(* Where the round of the row comes from.                                  *)
RowMoves ==
  \/ task'.round = task.round
  \/ \E c \in Callers : requests[c].pc = "rerun" /\ task'.round = requests[c].round
  \/ NextRound

(* What the verdict's claim publishes next.                                *)
VerdictMoves ==
  claims'["verdict"].pc = "emit" =>
    \/ claims'["verdict"] = claims["verdict"]
    \/ claims'["verdict"].cmd.round = task'.round

(* A request starts or goes on.                                            *)
LEMMA CallersMove ==
  ASSUME IInv, NEW c \in Callers,
         \/ RequestStep(c) \/ ReRunRead(c) \/ StopSet(c) \/ RequestFails(c)
         \/ \E to \in PatchTargets : PatchRead(c, to)
  PROVE  /\ issued' \in {issued, issued + 1}
         /\ RowMoves
         /\ \A d \in Callers : RequestMoves(d)
         /\ UNCHANGED claims
<1>0. /\ requests \in [Callers -> RequestState]
      /\ task \in TaskRow
      /\ task.round \in Nat
  BY DEF IInv, TypeOK, TaskRow
<1>1. /\ issued' \in {issued, issued + 1}
      /\ UNCHANGED claims
      /\ \A d \in Callers \ {c} : requests'[d] = requests[d]
  BY <1>0 DEF RequestStep, PatchSet, PatchBlock, ReRunSet, RequestEmit, ReRunRead, StopSet,
     RequestFails, PatchRead, Issue, Proceed
<1>2. \A d \in Callers \ {c} : RequestMoves(d)
  BY <1>1 DEF RequestMoves
<1>3. RowMoves
  BY <1>0 DEF RowMoves, TaskRow, RequestStep, PatchSet, PatchBlock, ReRunSet, RequestEmit,
     ReRunRead, StopSet, RequestFails, PatchRead
<1>4. RequestMoves(c)
  <2>1. CASE PatchSet(c)
    <3>1. requests[c] # Idle
      BY <2>1 DEF PatchSet, Idle
    <3>2. \E s \in {Idle, [pc |-> "block"], Emitting(StopRequested),
                    Emitting(RunRequested(task.round, task.agent))} : requests'[c] = s
      BY <1>0, <2>1 DEF PatchSet, Proceed
    <3> QED BY <3>1, <3>2 DEF RequestMoves, Idle, Emitting, StopRequested, RunRequested
  <2>2. CASE ReRunSet(c)
    <3>1. /\ requests[c].pc = "rerun"
          /\ requests'[c] = Emitting(RunRequested(requests[c].round, requests[c].agent))
      BY <1>0, <2>2 DEF ReRunSet, Proceed
    <3> QED BY <3>1 DEF RequestMoves, Idle, Emitting, RunRequested
  <2>3. CASE PatchBlock(c) \/ RequestEmit(c) \/ RequestFails(c)
    <3>1. requests'[c] = Idle
      BY <1>0, <2>3 DEF PatchBlock, RequestEmit, RequestFails, Proceed
    <3> QED BY <3>1 DEF RequestMoves, Idle
  <2>4. CASE ReRunRead(c)
    <3>1. /\ issued' = issued + 1
          /\ requests'[c] = [pc |-> "rerun", round |-> task.round + 1, agent |-> task.agent]
      BY <1>0, <2>4 DEF ReRunRead, Issue
    <3> QED BY <3>1 DEF RequestMoves
  <2>5. CASE StopSet(c)
    <3>1. /\ issued' = issued + 1
          /\ requests'[c] = Emitting(StopRequested)
      BY <1>0, <2>5 DEF StopSet, Issue
    <3> QED BY <3>1 DEF RequestMoves, Emitting, StopRequested
  <2>6. CASE \E to \in PatchTargets : PatchRead(c, to)
    <3>1. /\ issued' = issued + 1
          /\ requests'[c].pc = "patch"
      BY <1>0, <2>6 DEF PatchRead, Issue
    <3> QED BY <3>1 DEF RequestMoves
  <2> QED BY <2>1, <2>2, <2>3, <2>4, <2>5, <2>6 DEF RequestStep
<1> QED BY <1>1, <1>2, <1>3, <1>4

(* The verdict's claim.                                                    *)
LEMMA VerdictMovesOn ==
  ASSUME IInv, ApplyVerdict, UNCHANGED runs
  PROVE  /\ RowMoves
         /\ VerdictMoves
         /\ UNCHANGED <<log, requests, issued>>
<1> DEFINE d == Fact("verdict")
<1>0. /\ claims \in [Facts -> ClaimState]
      /\ task \in TaskRow
      /\ ClaimInHand("verdict")
      /\ TypeOK
      /\ "verdict" \in Facts
  BY DEF IInv, TypeOK, InHand, Facts
<1>1. /\ HasNext(log, offset, "verdict")
      /\ claims["verdict"].pc = "advance"
      /\ UNCHANGED <<log, requests, issued>>
  BY <1>0 DEF ApplyVerdict, ClaimInHand, Idle
<1>2. d \in VerdictMsg
  BY <1>0, <1>1, FactType
<1>3. CASE /\ Advances(d.run, "review") /\ d.decision = "REQUEST_CHANGES"
           /\ d.round + 1 <= MaxReviewRounds
           /\ Continue("verdict", Emitting(RunRequested(d.round + 1, claims["verdict"].agent)))
  <2>1. d.decision # "APPROVE" /\ ~(d.round + 1 > MaxReviewRounds)
    BY <1>2, <1>3, SagaAssumption DEF VerdictMsg
  <2>2. task' = [task EXCEPT !.status = "doing", !.round = d.round + 1] /\ d.run \in marks'
    BY <1>3, <2>1 DEF ApplyVerdict, SagaAdvance, AfterVerdict
  <2>3. claims'["verdict"] = Emitting(RunRequested(d.round + 1, claims["verdict"].agent))
    BY <1>0, <1>3 DEF Continue
  <2>4. /\ claims'["verdict"].pc = "emit"
        /\ claims'["verdict"].cmd.round = d.round + 1
    BY <2>3 DEF Emitting, RunRequested
  <2>5. UNCHANGED offset
    BY <1>3 DEF Continue
  <2>6. NextRound
    BY <1>1, <1>3, <2>2, <2>4, <2>5 DEF NextRound
  <2>7. task'.round = d.round + 1
    BY <1>0, <2>2 DEF TaskRow
  <2> QED BY <1>1, <2>4, <2>6, <2>7 DEF RowMoves, VerdictMoves
<1>4. CASE Continue("verdict", [pc |-> "republish"]) /\ ~Advances(d.run, "review")
  <2>1. task' = task
    BY <1>4 DEF ApplyVerdict, SagaAdvance
  <2>2. claims'["verdict"].pc = "republish"
    BY <1>0, <1>4 DEF Continue
  <2> QED BY <1>1, <2>1, <2>2 DEF RowMoves, VerdictMoves
<1>5. CASE /\ Return("verdict")
           /\ IF Advances(d.run, "review")
              THEN ~(d.decision = "REQUEST_CHANGES" /\ d.round + 1 <= MaxReviewRounds)
              ELSE d.decision # "REQUEST_CHANGES"
  <2>1. claims'["verdict"].pc = "idle"
    BY <1>0, <1>5 DEF Return, Idle
  <2>2. task'.round = task.round
    <3>1. CASE ~Advances(d.run, "review")
      BY <3>1 DEF ApplyVerdict, SagaAdvance
    <3>2. CASE Advances(d.run, "review")
      <4>1. d.decision = "APPROVE" \/ d.round + 1 > MaxReviewRounds
        BY <1>2, <1>5, <3>2, SagaAssumption DEF VerdictMsg, Decisions
      <4>2. task' = AfterVerdict(d)
        BY <3>2 DEF ApplyVerdict, SagaAdvance
      <4> QED BY <1>0, <4>1, <4>2 DEF AfterVerdict, TaskRow
    <3> QED BY <3>1, <3>2
  <2> QED BY <1>1, <2>1, <2>2 DEF RowMoves, VerdictMoves
<1> QED BY <1>1, <1>3, <1>4, <1>5 DEF ApplyVerdict

(* Every step.                                                             *)
LEMMA StepMoves ==
  ASSUME IInv, Next
  PROVE  /\ issued' \in {issued, issued + 1}
         /\ RowMoves
         /\ VerdictMoves
         /\ \A c \in Callers : RequestMoves(c)
<1>0. /\ claims \in [Facts -> ClaimState]
      /\ task \in TaskRow
      /\ "verdict" \in Facts /\ "run.completed" \in Facts
      /\ "verdict" # "run.completed"
  BY DEF IInv, TypeOK, Facts
<1>1. ASSUME UNCHANGED requests PROVE \A c \in Callers : RequestMoves(c)
  BY <1>1 DEF RequestMoves
<1>2. CASE \E c \in Callers :
             \/ RequestStep(c) \/ ReRunRead(c) \/ StopSet(c) \/ RequestFails(c)
             \/ \E to \in PatchTargets : PatchRead(c, to)
  BY <1>2, CallersMove DEF VerdictMoves
<1>3. CASE ApplyVerdict /\ UNCHANGED runs
  BY <1>1, <1>3, VerdictMovesOn
<1>4. CASE IgnoreReviewerRun \/ ImplementerFailed \/ ImplementerDone
  <2>1. /\ claims'["verdict"] = claims["verdict"]
        /\ UNCHANGED <<requests, issued>>
    BY <1>0, <1>4 DEF IgnoreReviewerRun, ImplementerFailed, ImplementerDone, Continue, Return
  <2>2. task'.round = task.round
    BY <1>0, <1>4 DEF IgnoreReviewerRun, ImplementerFailed, ImplementerDone, SagaAdvance, TaskRow
  <2> QED BY <1>1, <2>1, <2>2 DEF RowMoves, VerdictMoves
<1>5. CASE \E t \in Facts : ClaimStep(t) \/ ClaimFails(t)
  <2>1. PICK t \in Facts : ClaimStep(t) \/ ClaimFails(t)
    BY <1>5
  <2>2. UNCHANGED <<task, requests, issued>>
    BY <2>1 DEF ClaimStep, ReadTask, Republish, ClaimEmit, ClaimFails
  <2>3. \/ claims'["verdict"] = claims["verdict"]
        \/ claims'["verdict"].pc # "emit"
        \/ claims'["verdict"] = Emitting(RunRequested(task.round, task.agent))
    BY <1>0, <2>1 DEF ClaimStep, ReadTask, Republish, ClaimEmit, ClaimFails, Continue, Return,
       CommandAgain, Idle
  <2> QED BY <1>1, <2>2, <2>3 DEF RowMoves, VerdictMoves, Emitting, RunRequested
<1>6. CASE Crash
  BY <1>0, <1>6 DEF Crash, RowMoves, VerdictMoves, RequestMoves, Idle
<1>7. CASE \E a \in AgentRef : Update(a)
  <2>1. /\ issued' = issued + 1 /\ UNCHANGED <<claims, requests>>
        /\ task'.round = task.round
    BY <1>0, <1>7 DEF Update, TaskRow
  <2> QED BY <1>1, <2>1 DEF RowMoves, VerdictMoves
<1>8. CASE UNCHANGED sagaVars
  BY <1>1, <1>8 DEF sagaVars, RowMoves, VerdictMoves
<1> QED BY <1>0, <1>2, <1>3, <1>4, <1>5, <1>6, <1>7, <1>8
        DEF Next, SagaNext, SagaStep, CompletedStep, VerdictStep

(* The rounds there can be after so many requests: MaxReviewRounds, one    *)
(* more for each request that could raise it.  The first request can only  *)
(* raise it to 1.                                                          *)
RoundLimit ==
  IF issued = 0 THEN 0
  ELSE (IF MaxReviewRounds = 0 THEN 1 ELSE MaxReviewRounds) + issued - 1

(* Nothing happens before the first request.                               *)
Quiet ==
  issued = 0 =>
    /\ runs = << >>
    /\ \A t \in Numbered : MessagesIn(log, t) = {}
    /\ \A c \in Callers : requests[c] = Idle

LimitsRows ==
  /\ task.round <= RoundLimit
  /\ \A c \in Callers :
       /\ requests[c].pc = "rerun" => requests[c].round <= RoundLimit
       /\ (requests[c].pc = "emit" /\ requests[c].cmd.topic = "run-requested") =>
            requests[c].cmd.round <= RoundLimit
  /\ claims["verdict"].pc = "emit" => claims["verdict"].cmd.round <= RoundLimit

LimitsRuns ==
  /\ \A t \in Numbered : \A m \in MessagesIn(log, t) : m.round <= RoundLimit
  /\ \A r \in DOMAIN runs : runs[r].round <= RoundLimit

RoundsInv == IInv /\ issued <= MaxRequests /\ Quiet /\ LimitsRows /\ LimitsRuns

(* The limit grows with the requests.                                      *)
LEMMA LimitGrows ==
  ASSUME issued \in Nat, issued' \in {issued, issued + 1}
  PROVE  /\ RoundLimit \in Nat /\ RoundLimit' \in Nat
         /\ RoundLimit <= RoundLimit'
         /\ issued' = issued + 1 => RoundLimit + 1 <= RoundLimit'
         /\ issued # 0 => MaxReviewRounds <= RoundLimit'
<1>0. MaxReviewRounds \in Nat
  BY SagaAssumption
<1> DEFINE most == IF MaxReviewRounds = 0 THEN 1 ELSE MaxReviewRounds
<1>1. most \in Nat /\ most >= 1 /\ most >= MaxReviewRounds
  BY <1>0
<1>2. /\ RoundLimit = IF issued = 0 THEN 0 ELSE most + issued - 1
      /\ RoundLimit' = IF issued' = 0 THEN 0 ELSE most + issued' - 1
  BY DEF RoundLimit
<1> HIDE DEF most
<1>3. \/ issued = 0 /\ issued' = 0 /\ RoundLimit = 0 /\ RoundLimit' = 0
      \/ issued = 0 /\ issued' = 1 /\ RoundLimit = 0 /\ RoundLimit' = most
      \/ /\ issued # 0 /\ issued' \in {issued, issued + 1}
         /\ RoundLimit = most + issued - 1 /\ RoundLimit' = most + issued' - 1
  <2>1. issued = 0 => issued' = 0 \/ issued' = 1
    OBVIOUS
  <2>2. issued # 0 => issued' # 0
    OBVIOUS
  <2>3. issued' = 1 => most + issued' - 1 = most
    BY <1>1
  <2> QED BY <1>2, <2>1, <2>2, <2>3, Zenon
<1> DEFINE old == RoundLimit
           new == RoundLimit'
<1> HIDE DEF old, new
<1>4. CASE issued = 0 /\ issued' = 0 /\ old = 0 /\ new = 0
  BY <1>4 DEF old, new
<1>5. CASE issued = 0 /\ issued' = 1 /\ old = 0 /\ new = most
  BY <1>1, <1>5 DEF old, new
<1>6. CASE /\ issued # 0 /\ issued' \in {issued, issued + 1}
           /\ old = most + issued - 1 /\ new = most + issued' - 1
  <2>1. /\ old \in Nat /\ new \in Nat /\ old <= new
        /\ issued' = issued + 1 => old + 1 <= new
        /\ MaxReviewRounds <= new
    <3>1. \A m, n, k \in Nat :
            m >= 1 /\ n # 0 /\ (k = n \/ k = n + 1) =>
              /\ m + n - 1 \in Nat /\ m + k - 1 \in Nat /\ m + n - 1 <= m + k - 1
              /\ k = n + 1 => (m + n - 1) + 1 <= m + k - 1
              /\ m <= m + k - 1
      OBVIOUS
    <3>2. issued' \in Nat /\ (issued' = issued \/ issued' = issued + 1) /\ issued # 0
      BY <1>6
    <3>3. /\ old \in Nat /\ new \in Nat /\ old <= new
          /\ issued' = issued + 1 => old + 1 <= new
          /\ most <= new
      BY <1>1, <1>6, <3>1, <3>2
    <3> QED BY <1>0, <1>1, <3>3
  <2> QED BY <2>1 DEF old, new
<1> QED BY <1>3, <1>4, <1>5, <1>6 DEF old, new

(* A message with a round.                                                 *)
LEMMA RoundOfMessage ==
  ASSUME NEW lg, LogType(lg), NEW t \in Numbered, NEW m \in MessagesIn(lg, t)
  PROVE  m.round \in Nat /\ m.topic = t /\ m \in Message
<1>1. t \in Topics
  BY DEF Numbered, Topics, Commands, Facts
<1>2. m \in Message /\ m.topic = t
  BY <1>1, MessagesType
<1> QED BY <1>2, MessageOfTopic DEF Numbered, RunRequestedMsg, ReviewRequestedMsg,
           RunCompletedMsg, VerdictMsg

(* The rounds of what is published, in hand and in the table are numbers.  *)
LEMMA RoundTypes ==
  ASSUME TypeOK
  PROVE  /\ issued \in Nat /\ task.round \in Nat
         /\ \A t \in Numbered : \A m \in MessagesIn(log, t) :
              m.round \in Nat /\ m.topic = t /\ m \in Message
         /\ \A c \in Callers : requests[c].pc = "rerun" => requests[c].round \in Nat
<1>1. ASSUME NEW t \in Numbered, NEW m \in MessagesIn(log, t)
      PROVE  m.round \in Nat /\ m.topic = t /\ m \in Message
  BY RoundOfMessage DEF TypeOK
<1>2. ASSUME NEW c \in Callers, requests[c].pc = "rerun"
      PROVE  requests[c].round \in Nat
  <2>1. requests[c] \in RequestState
    BY DEF TypeOK
  <2> QED BY <1>2, <2>1 DEF RequestState
<1> QED BY <1>1, <1>2 DEF TypeOK, TaskRow

(* Before the first request there is nothing to do for anyone.             *)
LEMMA QuietKept ==
  ASSUME RoundsInv, Next
  PROVE  Quiet'
<1> SUFFICES ASSUME issued' = 0
             PROVE  /\ runs' = << >>
                    /\ \A t \in Numbered : MessagesIn(log', t) = {}
                    /\ \A c \in Callers : requests'[c] = Idle
  BY DEF Quiet
<1>1. IInv /\ TypeOK /\ InHand
  BY DEF RoundsInv, IInv
<1>2. /\ issued \in Nat /\ issued' \in {issued, issued + 1}
      /\ \A c \in Callers : RequestMoves(c)
  BY <1>1, StepMoves, RoundTypes
<1>3. /\ issued = 0
      /\ runs = << >> /\ DOMAIN runs = {}
      /\ \A t \in Numbered : MessagesIn(log, t) = {}
      /\ \A c \in Callers : requests[c] = Idle
  BY <1>2 DEF RoundsInv, Quiet
<1>4. \A t \in Facts : claims[t] = Idle
  <2> SUFFICES ASSUME NEW t \in Facts, claims[t] # Idle PROVE FALSE
    OBVIOUS
  <2>1. HasNext(log, offset, t)
    BY <1>1 DEF InHand, ClaimInHand
  <2>2. t \in Numbered
    BY DEF Numbered, Facts
  <2> QED BY <1>1, <1>3, <2>1, <2>2, FactPublished
<1>5. ASSUME NEW t \in Numbered, NEW m, Origin(t, m) PROVE FALSE
  BY <1>3, <1>4, <1>5 DEF Origin, RunOf, Facts, Idle
<1>6. \A t \in Numbered : MessagesIn(log', t) = {}
  BY <1>1, <1>3, <1>5, NewMessages
<1>7. runs' = << >>
  <2>1. ASSUME NEW role \in Roles, NEW m \in Message, Creates(role, m) PROVE FALSE
    BY <1>3, <2>1 DEF Creates, Numbered
  <2> QED BY <1>1, <1>3, <2>1, StepCreates
<1>8. \A c \in Callers : requests'[c] = Idle
  BY <1>2, <1>3 DEF RequestMoves
<1> QED BY <1>6, <1>7, <1>8

(* A step issues at most what MaxRequests allows.                          *)
LEMMA IssuedBounded ==
  ASSUME IInv, Next, issued <= MaxRequests
  PROVE  issued' <= MaxRequests
<1>1. issued \in Nat /\ MaxRequests \in Nat
  BY SagaAssumption DEF IInv, TypeOK
<1>2. issued' = issued \/ (issued < MaxRequests /\ issued' = issued + 1)
  BY DEF Next, SagaNext, SagaStep, RequestStep, CompletedStep, VerdictStep, ClaimStep,
   PatchSet, PatchBlock, ReRunSet, RequestEmit, PatchRead, ReRunRead, StopSet, RequestFails,
   Update, IgnoreReviewerRun, ImplementerFailed, ImplementerDone, ApplyVerdict, ReadTask,
   Republish, ClaimEmit, ClaimFails, Crash, sagaVars, Issue
<1> QED BY <1>1, <1>2

(* The row and what is in hand.                                            *)
LEMMA RowsLimited ==
  ASSUME RoundsInv, Next
  PROVE  LimitsRows'
<1>1. IInv /\ TypeOK /\ InHand
  BY DEF RoundsInv, IInv
<1>2. /\ issued \in Nat /\ issued' \in {issued, issued + 1}
      /\ RowMoves /\ VerdictMoves
      /\ \A c \in Callers : RequestMoves(c)
      /\ task.round \in Nat
  BY <1>1, StepMoves, RoundTypes
<1>3. /\ RoundLimit \in Nat /\ RoundLimit' \in Nat
      /\ RoundLimit <= RoundLimit'
      /\ issued' = issued + 1 => RoundLimit + 1 <= RoundLimit'
      /\ issued # 0 => MaxReviewRounds <= RoundLimit'
  BY <1>2, LimitGrows
<1>4. TypeOK' /\ InHand'
  BY <1>1, Inductively DEF IInv
<1>5. task'.round \in Nat /\ task'.round <= RoundLimit'
  <2>0. task'.round \in Nat
    BY <1>4 DEF TypeOK, TaskRow
  <2>1. CASE task'.round = task.round
    BY <1>2, <1>3, <2>1 DEF RoundsInv, LimitsRows
  <2>2. ASSUME NEW c \in Callers, requests[c].pc = "rerun", task'.round = requests[c].round
        PROVE  task'.round <= RoundLimit'
    BY <1>3, <2>0, <2>2 DEF RoundsInv, LimitsRows
  <2>3. CASE NextRound
    <3>1. HasNext(log, offset, "verdict") /\ "verdict" \in Facts /\ "verdict" \in Numbered
      BY <2>3 DEF NextRound, Facts, Numbered
    <3>2. issued # 0
      BY <1>1, <3>1, FactPublished DEF RoundsInv, Quiet
    <3>3. task'.round = Fact("verdict").round + 1 /\ Fact("verdict").round + 1 <= MaxReviewRounds
      BY <1>1, <2>3 DEF NextRound, TypeOK, TaskRow
    <3>4. MaxReviewRounds <= RoundLimit' /\ MaxReviewRounds \in Nat
      BY <1>3, <3>2, SagaAssumption
    <3> QED BY <1>3, <2>0, <3>3, <3>4
  <2> QED BY <1>2, <2>0, <2>1, <2>2, <2>3 DEF RowMoves
<1>6. ASSUME NEW c \in Callers, requests'[c].pc = "rerun"
      PROVE  requests'[c].round <= RoundLimit'
  <2>0. requests'[c].round \in Nat
    <3>1. requests'[c] \in RequestState
      BY <1>4 DEF TypeOK
    <3> QED BY <1>6, <3>1 DEF RequestState
  <2>1. CASE requests'[c] = requests[c]
    BY <1>3, <1>6, <2>0, <2>1 DEF RoundsInv, LimitsRows
  <2>2. CASE issued' = issued + 1 /\ requests'[c].round = task.round + 1
    BY <1>2, <1>3, <2>2 DEF RoundsInv, LimitsRows
  <2> QED BY <1>2, <1>6, <2>1, <2>2 DEF RequestMoves
<1>7. ASSUME NEW c \in Callers, requests'[c].pc = "emit",
             requests'[c].cmd.topic = "run-requested"
      PROVE  requests'[c].cmd.round <= RoundLimit'
  <2>0. requests'[c].cmd.round \in Nat
    <3>1. requests'[c].cmd \in RunRequestedMsg \cup StopRequestedMsg
      BY <1>4, <1>7 DEF InHand, RequestInHand
    <3> QED BY <1>7, <3>1 DEF RunRequestedMsg, StopRequestedMsg
  <2>1. CASE requests'[c] = requests[c]
    BY <1>3, <1>7, <2>0, <2>1 DEF RoundsInv, LimitsRows
  <2>2. CASE requests'[c].cmd.round = task.round
    BY <1>2, <1>3, <2>2 DEF RoundsInv, LimitsRows
  <2>3. CASE requests[c].pc = "rerun" /\ requests'[c].cmd.round = requests[c].round
    BY <1>3, <2>0, <2>3 DEF RoundsInv, LimitsRows
  <2> QED BY <1>2, <1>7, <2>1, <2>2, <2>3 DEF RequestMoves
<1>8. ASSUME claims'["verdict"].pc = "emit"
      PROVE  claims'["verdict"].cmd.round <= RoundLimit'
  <2>0. claims'["verdict"].cmd.round \in Nat
    <3>1. claims'["verdict"].cmd \in RunRequestedMsg
      BY <1>4, <1>8 DEF InHand, ClaimInHand, Facts, Idle
    <3> QED BY <3>1 DEF RunRequestedMsg
  <2>1. CASE claims'["verdict"] = claims["verdict"]
    BY <1>3, <1>8, <2>0, <2>1 DEF RoundsInv, LimitsRows
  <2>2. CASE claims'["verdict"].cmd.round = task'.round
    BY <1>5, <2>2
  <2> QED BY <1>2, <1>8, <2>1, <2>2 DEF VerdictMoves
<1> QED BY <1>5, <1>6, <1>7, <1>8 DEF LimitsRows

(* What is published and in the table.                                     *)
LEMMA RunsLimited ==
  ASSUME RoundsInv, Next
  PROVE  LimitsRuns'
<1>1. IInv /\ TypeOK /\ InHand
  BY DEF RoundsInv, IInv
<1>2. /\ RoundLimit \in Nat /\ RoundLimit' \in Nat
      /\ RoundLimit <= RoundLimit'
  BY <1>1, StepMoves, RoundTypes, LimitGrows
<1>3. TypeOK'
  BY <1>1, Inductively DEF IInv
<1>4. ASSUME NEW t \in Numbered, NEW m, Origin(t, m), m.topic = t
      PROVE  m.round <= RoundLimit
  <2>1. CASE t = "run-requested"
    BY <1>4, <2>1 DEF Origin, RoundsInv, LimitsRows
  <2>2. CASE t = "review-requested"
    <3>1. claims["run.completed"].pc = "emit" /\ claims["run.completed"].cmd = m
      BY <1>4, <2>2 DEF Origin
    <3>2. /\ m.round = Fact("run.completed").round
          /\ HasNext(log, offset, "run.completed")
      BY <1>1, <3>1 DEF InHand, ClaimInHand, Facts, Idle
    <3>3. Fact("run.completed") \in MessagesIn(log, "run.completed")
      BY <1>1, <3>2, FactPublished DEF Facts
    <3> QED BY <3>2, <3>3 DEF RoundsInv, LimitsRuns, Numbered
  <2>3. CASE t \in Facts
    <3>1. PICK role : m.run \in RunOf(role, m.round)
      BY <1>4, <2>3 DEF Origin, Facts
    <3>2. m.run \in DOMAIN runs /\ runs[m.run].round = m.round
      BY <3>1 DEF RunOf
    <3> QED BY <3>2 DEF RoundsInv, LimitsRuns
  <2> QED BY <2>1, <2>2, <2>3 DEF Numbered, Facts
<1>5. ASSUME NEW t \in Numbered, NEW m \in MessagesIn(log', t)
      PROVE  m.round <= RoundLimit'
  <2>1. m.round \in Nat /\ m.topic = t
    BY <1>3, RoundOfMessage DEF TypeOK
  <2>2. m \in MessagesIn(log, t) \/ Origin(t, m)
    BY <1>1, NewMessages
  <2>3. m.round <= RoundLimit
    BY <1>4, <2>1, <2>2 DEF RoundsInv, LimitsRuns
  <2> QED BY <1>2, <2>1, <2>3
<1>6. ASSUME NEW r \in DOMAIN runs' PROVE runs'[r].round <= RoundLimit'
  <2>1. ASSUME NEW s \in DOMAIN runs PROVE runs[s].round <= RoundLimit'
    BY <1>1, <1>2, RunFields DEF RoundsInv, LimitsRuns
  <2>2. ASSUME NEW role \in Roles, NEW m \in Message, Creates(role, m)
        PROVE  runs'[r].round <= RoundLimit'
    <3>1. m.round <= RoundLimit /\ m.round \in Nat
      BY <1>1, <2>2, RoundTypes DEF Creates, RoundsInv, LimitsRuns, Numbered
    <3>2. r \in DOMAIN runs \/ r = Len(runs) + 1
      BY <1>1, <2>2, RunCreated
    <3>3. CASE r \in DOMAIN runs
      BY <1>1, <2>1, <2>2, <3>3, RunCreated
    <3>4. CASE r = Len(runs) + 1
      <4>1. runs'[r] = [role |-> role, round |-> m.round]
        BY <1>1, <2>2, <3>4, RunCreated
      <4> QED BY <1>2, <3>1, <4>1
    <3> QED BY <3>2, <3>3, <3>4
  <2> QED BY <1>1, <2>1, <2>2, StepCreates
<1> QED BY <1>5, <1>6 DEF LimitsRuns

(* Every step keeps the rounds within the limit.                           *)
LEMMA RoundsPreserved == RoundsInv /\ [Next]_vars => RoundsInv'
<1> SUFFICES ASSUME RoundsInv, [Next]_vars PROVE RoundsInv'
  OBVIOUS
<1>1. IInv'
  BY Inductively DEF RoundsInv
<1>2. CASE UNCHANGED vars
  BY <1>1, <1>2 DEF vars, RoundsInv, Quiet, LimitsRows, LimitsRuns, RoundLimit, MessagesIn
<1>3. CASE Next
  BY <1>1, <1>3, QuietKept, RowsLimited, RunsLimited, IssuedBounded DEF RoundsInv
<1> QED BY <1>2, <1>3

(* A task starts in round 0, with nothing published.                       *)
LEMMA RoundsInitially == Init => RoundsInv
<1> SUFFICES ASSUME Init PROVE RoundsInv
  OBVIOUS
<1>1. /\ issued = 0 /\ issued <= MaxRequests
      /\ runs = << >>
      /\ \A t \in Numbered : MessagesIn(log, t) = {}
      /\ \A c \in Callers : requests[c] = Idle
      /\ claims["verdict"] = Idle
      /\ task.round = 0
  BY SagaAssumption DEF Init, SagaInit, Executor!Init, EmptyLog, MessagesIn, Numbered, Topics,
     Commands, Facts
<1> QED BY <1>1, Initially DEF RoundsInv, Quiet, LimitsRows, LimitsRuns, RoundLimit, Idle

(* However a task is re-run, the rounds of its runs stay within            *)
(* MaxReviewRounds plus the requests past the first.  A task that nobody   *)
(* re-runs has the rounds 0 to MaxReviewRounds, as onVerdict counts: one   *)
(* more than the documents say (ReviewRoundsAreCapped in SagaClaims).      *)
THEOREM RoundsAreBounded ==
  Spec => []( /\ \A r \in DOMAIN runs : runs[r].round <= RoundLimit
              /\ (MaxRequests = 1 /\ MaxReviewRounds >= 1) =>
                   \A r \in DOMAIN runs : runs[r].round \in 0 .. MaxReviewRounds )
<1> DEFINE Goal == /\ \A r \in DOMAIN runs : runs[r].round <= RoundLimit
                   /\ (MaxRequests = 1 /\ MaxReviewRounds >= 1) =>
                        \A r \in DOMAIN runs : runs[r].round \in 0 .. MaxReviewRounds
<1>1. RoundsInv => Goal
  <2> SUFFICES ASSUME RoundsInv, MaxRequests = 1, MaxReviewRounds >= 1
               PROVE  \A r \in DOMAIN runs : runs[r].round \in 0 .. MaxReviewRounds
    BY DEF RoundsInv, LimitsRuns
  <2>1. issued \in Nat /\ issued <= 1
    BY DEF RoundsInv, IInv, TypeOK
  <2>2. RoundLimit \in Nat /\ RoundLimit <= MaxReviewRounds
    <3>1. issued = 0 \/ issued = 1
      BY <2>1
    <3> QED BY <3>1, SagaAssumption DEF RoundLimit
  <2>3. \A r \in DOMAIN runs : runs[r].round \in Nat /\ runs[r].round <= RoundLimit
    BY RunFields DEF RoundsInv, LimitsRuns, IInv
  <2> QED BY <2>2, <2>3, SagaAssumption
<1> HIDE DEF Goal
<1>2. Spec => []Goal
  BY <1>1, RoundsInitially, RoundsPreserved, PTL DEF Spec
<1> QED BY <1>2 DEF Goal

-----------------------------------------------------------------------------
(* An unattended task: one request, then only the saga and the Executor.   *)

Requested == MessagesIn(log, "run-requested") # {}

(* The request is the only one; when it asks for a run, it is for the task *)
(* as it is, and once it has asked nobody has anything left to do.         *)
OneRequest ==
  /\ issued <= 1
  /\ \A c, d \in Callers : requests[c] # Idle /\ requests[d] # Idle => c = d
  /\ \A c \in Callers : requests[c] # Idle => issued = 1
  /\ \A c \in Callers :
       requests[c].pc = "emit" /\ requests[c].cmd.topic = "run-requested" =>
         /\ task.agent # NoAgent
         /\ task.status = "doing"
         /\ task.round = requests[c].cmd.round
  /\ \A c \in Callers :
       requests[c].pc = "rerun" => task.agent # NoAgent /\ requests[c].agent # NoAgent
  /\ Requested => issued = 1 /\ \A c \in Callers : requests[c] = Idle
  /\ ~Requested => runs = << >> /\ \A t \in Numbered : MessagesIn(log, t) = {}

RequestInv == RecordInv /\ OneRequest

(* As long as no run was requested there is nothing for the saga to do.    *)
LEMMA NothingRequested ==
  ASSUME RequestInv, ~Requested
  PROVE  /\ DOMAIN runs = {}
         /\ \A t \in Facts : ~HasNext(log, offset, t) /\ claims[t] = Idle
<1>1. /\ TypeOK /\ InHand
      /\ runs = << >> /\ \A t \in Numbered : MessagesIn(log, t) = {}
  BY DEF RequestInv, RecordInv, IInv, OneRequest
<1>2. \A t \in Facts : t \in Numbered
  BY DEF Numbered, Facts
<1>3. \A t \in Facts : ~HasNext(log, offset, t)
  BY <1>1, <1>2, FactPublished
<1> QED BY <1>1, <1>3 DEF InHand, ClaimInHand

(* The steps of callers.                                                   *)
CallerStep ==
  \/ \E c \in Callers :
       \/ RequestStep(c) \/ ReRunRead(c) \/ StopSet(c) \/ RequestFails(c)
       \/ \E to \in PatchTargets : PatchRead(c, to)
  \/ \E a \in AgentRef : Update(a)

(* ... are over once a run was requested.                                  *)
LEMMA CallersDone ==
  ASSUME MaxRequests = 1, RequestInv, Requested
  PROVE  ~CallerStep
<1>1. /\ issued = 1 /\ ~(issued < MaxRequests)
      /\ \A c \in Callers : requests[c] = Idle
  BY DEF RequestInv, OneRequest
<1>2. \A c \in Callers : requests[c].pc = "idle"
  BY <1>1 DEF Idle
<1>3. \A c \in Callers : ~PatchSet(c) /\ ~PatchBlock(c) /\ ~ReRunSet(c) /\ ~RequestEmit(c)
  BY <1>2, Zenon DEF PatchSet, PatchBlock, ReRunSet, RequestEmit
<1>4. \A c \in Callers : ~RequestFails(c)
  BY <1>2 DEF RequestFails
<1>5. \A c \in Callers : \A s : ~Issue(c, s)
  BY <1>1, Zenon DEF Issue
<1>6. \A c \in Callers : /\ ~ReRunRead(c) /\ ~StopSet(c)
                          /\ \A to \in PatchTargets : ~PatchRead(c, to)
  BY <1>5, Zenon DEF ReRunRead, StopSet, PatchRead
<1>7. \A a \in AgentRef : ~Update(a)
  BY <1>1, Zenon DEF Update
<1> QED BY <1>3, <1>4, <1>6, <1>7, Zenon DEF CallerStep, RequestStep

(* A caller's step, before a run was requested.                            *)
LEMMA CallerKeepsOneRequest ==
  ASSUME MaxRequests = 1, RequestInv, CallerStep, UNCHANGED runs, Next
  PROVE  OneRequest'
<1>0. /\ TypeOK /\ IInv /\ OneRequest
      /\ issued \in Nat
      /\ requests \in [Callers -> RequestState]
      /\ task \in TaskRow
  BY DEF RequestInv, RecordInv, IInv, TypeOK
<1>1. /\ ~Requested
      /\ \A t \in Numbered : MessagesIn(log, t) = {}
      /\ runs = << >>
  BY <1>0, CallersDone DEF OneRequest
<1>2. ASSUME UNCHANGED log
      PROVE  /\ ~Requested'
             /\ runs' = << >>
             /\ \A t \in Numbered : MessagesIn(log', t) = {}
  BY <1>1, <1>2 DEF Requested
<1>3. ASSUME NEW c \in Callers, Issue(c, requests'[c]), UNCHANGED <<log, runs>>,
             \/ requests'[c].pc = "patch"
             \/ requests'[c] = Emitting(StopRequested)
             \/ requests'[c].pc = "rerun" /\ task'.agent # NoAgent /\ requests'[c].agent # NoAgent
      PROVE  OneRequest'
  <2>1. /\ issued = 0 /\ issued' = 1
        /\ \A d \in Callers : requests[d] = Idle
    BY <1>0, <1>3 DEF Issue, OneRequest
  <2>2. \A d \in Callers \ {c} : requests'[d] = Idle
    BY <1>0, <1>3, <2>1 DEF Issue
  <2>3. requests'[c].pc = "emit" => requests'[c].cmd.topic # "run-requested"
    BY <1>3 DEF Emitting, StopRequested
  <2> QED BY <1>2, <1>3, <2>1, <2>2, <2>3 DEF OneRequest, Idle, Emitting
<1>4. ASSUME NEW c \in Callers, requests[c] # Idle, NEW s, Proceed(c, s), UNCHANGED <<issued, log>>,
             s.pc # "rerun",
             s.pc = "emit" /\ s.cmd.topic = "run-requested" =>
               task'.agent # NoAgent /\ task'.status = "doing" /\ task'.round = s.cmd.round
      PROVE  OneRequest'
  <2>1. /\ issued = 1 /\ \A d \in Callers \ {c} : requests[d] = Idle
    BY <1>4 DEF OneRequest, RequestInv
  <2>2. requests'[c] = s /\ \A d \in Callers \ {c} : requests'[d] = Idle
    BY <1>0, <1>4, <2>1 DEF Proceed
  <2> QED BY <1>2, <1>4, <2>1, <2>2 DEF OneRequest, Idle
<1>5. CASE \E c \in Callers : ReRunRead(c) \/ StopSet(c) \/ \E to \in PatchTargets : PatchRead(c, to)
  <2>1. PICK c \in Callers :
               ReRunRead(c) \/ StopSet(c) \/ \E to \in PatchTargets : PatchRead(c, to)
    BY <1>5
  <2>2. CASE ReRunRead(c)
    <3> DEFINE s == [pc |-> "rerun", round |-> task.round + 1, agent |-> task.agent]
    <3>1. requests'[c] = s /\ Issue(c, s) /\ UNCHANGED <<log, task>> /\ task.agent # NoAgent
      BY <1>0, <2>2 DEF ReRunRead, Issue
    <3>2. s.pc = "rerun" /\ s.agent = task.agent
      OBVIOUS
    <3> HIDE DEF s
    <3>3. /\ Issue(c, requests'[c]) /\ UNCHANGED <<log, runs>>
          /\ requests'[c].pc = "rerun"
          /\ task'.agent # NoAgent
          /\ requests'[c].agent # NoAgent
      BY <3>1, <3>2
    <3> QED BY <1>3, <3>3, Zenon
  <2>3. CASE StopSet(c)
    <3>1. requests'[c] = Emitting(StopRequested) /\ UNCHANGED log
          /\ Issue(c, Emitting(StopRequested))
      BY <1>0, <2>3 DEF StopSet, Issue
    <3> QED BY <1>3, <3>1
  <2>4. ASSUME NEW to \in PatchTargets, PatchRead(c, to)
        PROVE  OneRequest'
    <3> DEFINE s == [pc |-> "patch", to |-> to, prev |-> task.status]
    <3>1. requests'[c] = s /\ Issue(c, s) /\ UNCHANGED log
      BY <1>0, <2>4 DEF PatchRead, Issue
    <3>2. s.pc = "patch"
      OBVIOUS
    <3> HIDE DEF s
    <3> QED BY <1>3, <3>1, <3>2
  <2> QED BY <2>1, <2>2, <2>3, <2>4
<1>6. ASSUME NEW c \in Callers, PatchSet(c) PROVE OneRequest'
  <2>1. requests[c] # Idle /\ UNCHANGED <<issued, log>>
    BY <1>6 DEF PatchSet, Idle
  <2>2. CASE Proceed(c, Emitting(RunRequested(task.round, task.agent)))
              /\ requests[c].to = "doing" /\ task.agent # NoAgent
    <3>1. task'.agent = task.agent /\ task'.status = "doing" /\ task'.round = task.round
      BY <1>0, <1>6, <2>2 DEF PatchSet, TaskRow
    <3> DEFINE s == Emitting(RunRequested(task.round, task.agent))
    <3>2. s.pc = "emit" /\ s.cmd.round = task.round
      BY DEF Emitting, RunRequested
    <3>3. Proceed(c, s) /\ task.agent # NoAgent
      BY <2>2
    <3> HIDE DEF s
    <3> QED BY <1>4, <2>1, <3>1, <3>2, <3>3
  <2>3. ASSUME NEW s \in {Idle, [pc |-> "block"], Emitting(StopRequested)}, Proceed(c, s)
        PROVE  OneRequest'
    <3>1. s.pc # "rerun" /\ ~(s.pc = "emit" /\ s.cmd.topic = "run-requested")
      BY DEF Idle, Emitting, StopRequested
    <3> QED BY <1>4, <2>1, <2>3, <3>1
  <2>4. \/ /\ Proceed(c, Emitting(RunRequested(task.round, task.agent)))
           /\ requests[c].to = "doing" /\ task.agent # NoAgent
        \/ \E s \in {Idle, [pc |-> "block"], Emitting(StopRequested)} : Proceed(c, s)
    BY <1>6 DEF PatchSet
  <2> QED BY <2>2, <2>3, <2>4
<1>7. ASSUME NEW c \in Callers, PatchBlock(c) \/ RequestFails(c) PROVE OneRequest'
  <2>1. requests[c] # Idle /\ UNCHANGED <<issued, log>> /\ Proceed(c, Idle)
    BY <1>7 DEF PatchBlock, RequestFails, Idle
  <2> QED BY <1>4, <2>1 DEF Idle
<1>8. ASSUME NEW c \in Callers, ReRunSet(c) PROVE OneRequest'
  <2>0. /\ requests[c] # Idle /\ UNCHANGED <<issued, log>>
        /\ requests[c].pc = "rerun"
        /\ task.agent # NoAgent
    BY <1>0, <1>8 DEF ReRunSet, Idle, OneRequest
  <2> DEFINE s == Emitting(RunRequested(requests[c].round, requests[c].agent))
  <2>1. s.pc = "emit" /\ s.cmd.round = requests[c].round /\ Proceed(c, s)
    BY <1>8 DEF ReRunSet, Emitting, RunRequested
  <2>2. task'.agent = task.agent /\ task'.status = "doing" /\ task'.round = requests[c].round
    BY <1>0, <1>8 DEF ReRunSet, TaskRow
  <2> HIDE DEF s
  <2> QED BY <1>4, <2>0, <2>1, <2>2
<1>9. ASSUME NEW c \in Callers, RequestEmit(c) PROVE OneRequest'
  <2>1. /\ requests[c] # Idle /\ requests[c].pc = "emit"
        /\ UNCHANGED <<issued, task>> /\ Proceed(c, Idle)
    BY <1>9 DEF RequestEmit, Idle
  <2>2. /\ issued' = 1
        /\ \A d \in Callers : requests'[d] = Idle
    BY <1>0, <2>1 DEF Proceed, OneRequest
  <2>3. ~Requested' => \A t \in Numbered : MessagesIn(log', t) = {}
    <3> SUFFICES ASSUME NEW t \in Numbered, NEW m \in MessagesIn(log', t) PROVE Requested'
      OBVIOUS
    <3>1. Origin(t, m)
      BY <1>0, <1>1, NewMessages
    <3>2. t = "run-requested"
      BY <1>0, <1>1, <3>1, NothingRequested DEF Origin, RunOf, Idle, Facts
    <3> QED BY <3>2 DEF Requested
  <2> QED BY <1>1, <2>2, <2>3 DEF OneRequest, Idle
<1>10. CASE \E a \in AgentRef : Update(a)
  <2>1. /\ issued = 0 /\ issued' = 1 /\ UNCHANGED <<requests, log>>
        /\ \A c \in Callers : requests[c] = Idle
    BY <1>0, <1>10 DEF Update, OneRequest
  <2> QED BY <1>2, <2>1 DEF OneRequest, Idle
<1> QED BY <1>5, <1>6, <1>7, <1>8, <1>9, <1>10 DEF CallerStep, RequestStep

(* The others' steps.                                                      *)
LEMMA StepKinds ==
  ASSUME Next
  PROVE  \/ CallerStep /\ UNCHANGED runs
         \/ (CompletedStep \/ VerdictStep \/ \E t \in Facts : ClaimFails(t)) /\ UNCHANGED runs
         \/ Crash /\ UNCHANGED runs
         \/ Executor!Next /\ UNCHANGED sagaVars
BY DEF Next, SagaNext, SagaStep, CallerStep

(* Every step of an unattended task keeps the request the only one.        *)
LEMMA RequestPreserved ==
  ASSUME MaxRequests = 1
  PROVE  RequestInv /\ [Next]_vars => RequestInv'
<1> SUFFICES ASSUME RequestInv, [Next]_vars PROVE RequestInv'
  OBVIOUS
<1>1. RecordInv'
  BY RecordPreserved DEF RequestInv
<1>2. CASE UNCHANGED vars
  BY <1>1, <1>2 DEF vars, RequestInv, OneRequest, Requested, MessagesIn
<1>3. CASE Next
  <2>0. IInv /\ TypeOK /\ OneRequest /\ Grown
    BY <1>3, StepGrows DEF RequestInv, RecordInv, IInv
  <2>1. CASE CallerStep /\ UNCHANGED runs
    BY <1>1, <1>3, <2>1, CallerKeepsOneRequest DEF RequestInv
  <2>2. CASE ~(CallerStep /\ UNCHANGED runs)
    <3>1. /\ UNCHANGED issued
          /\ UNCHANGED requests \/ \A c \in Callers : requests'[c] = Idle
      BY <1>3, <2>2, StepKinds DEF CompletedStep, VerdictStep, ClaimStep, IgnoreReviewerRun,
         ImplementerFailed, ImplementerDone, ApplyVerdict, ReadTask, Republish, ClaimEmit,
         ClaimFails, Crash, sagaVars
    <3>2. CASE Requested
      <4>1. Requested'
        BY <2>0, <3>2 DEF Grown, Requested, Topics, Commands
      <4>2. \A c \in Callers : requests'[c] = Idle
        BY <2>0, <3>1, <3>2 DEF OneRequest
      <4> QED BY <1>1, <2>0, <3>1, <3>2, <4>1, <4>2 DEF RequestInv, OneRequest, Idle
    <3>3. CASE ~Requested
      <4>1. /\ DOMAIN runs = {} /\ runs = << >>
            /\ \A t \in Numbered : MessagesIn(log, t) = {}
            /\ \A t \in Facts : ~HasNext(log, offset, t) /\ claims[t] = Idle
        BY <2>0, <3>3, NothingRequested DEF OneRequest
      <4>2. ~(CompletedStep \/ VerdictStep \/ \E t \in Facts : ClaimFails(t))
        <5>1. \A t \in Facts : ~Receiving(t) /\ claims[t].pc = "idle"
          BY <4>1 DEF Receiving, Idle
        <5> QED BY <5>1 DEF Facts, CompletedStep, VerdictStep, ClaimStep, IgnoreReviewerRun,
                ImplementerFailed, ImplementerDone, ApplyVerdict, ReadTask, Republish, ClaimEmit,
                ClaimFails, MayFail
      <4>3. ~Executor!Next
        BY <4>1, SameEvents DEF Executor!Next, Executor!StartImplementer, Executor!StartReviewer,
           Numbered
      <4>4. Crash /\ UNCHANGED runs
        BY <1>3, <2>2, <4>2, <4>3, StepKinds
      <4>5. UNCHANGED <<log, task, issued, runs>> /\ \A c \in Callers : requests'[c] = Idle
        BY <4>4 DEF Crash
      <4> QED BY <1>1, <2>0, <4>1, <4>5 DEF RequestInv, OneRequest, Requested, Idle
    <3> QED BY <3>2, <3>3
  <2> QED BY <2>1, <2>2
<1> QED BY <1>2, <1>3

(* At first nobody has asked for anything.                                 *)
LEMMA RequestInitially == Init => RequestInv
<1> SUFFICES ASSUME Init PROVE RequestInv
  OBVIOUS
<1>1. /\ issued = 0
      /\ runs = << >>
      /\ \A t \in Numbered : MessagesIn(log, t) = {}
      /\ \A c \in Callers : requests[c] = Idle
  BY DEF Init, SagaInit, Executor!Init, EmptyLog, MessagesIn, Numbered, Topics, Commands, Facts
<1> QED BY <1>1, RecordInitially DEF RequestInv, OneRequest, Requested, Numbered, Idle

-----------------------------------------------------------------------------
(* The turns of an unattended task.                                        *)

Rounds == FirstRound .. task.round

(* The task has an agent, and nothing is about a round that was not        *)
(* reached.                                                                *)
RoundsInPlay ==
  /\ task.agent # NoAgent
  /\ task.round \in Rounds
  /\ FirstRound \in Nat
  /\ \A t \in Numbered : \A m \in MessagesIn(log, t) : m.round \in Rounds
  /\ \A r \in DOMAIN runs : runs[r].round \in Rounds

(* A round is over when saga_runs has the verdict that asked for changes.  *)
RoundClosed(k) ==
  \E v \in RunOf("reviewer", k) :
    v \in marks /\ Verdict(v, k, "REQUEST_CHANGES") \in MessagesIn(log, "verdict")

EarlierClosed == \A k \in FirstRound .. task.round - 1 : RoundClosed(k)

(* A round is reviewed once saga_runs has its implementer run.             *)
ReviewedMarked ==
  \A r \in DOMAIN runs :
    runs[r].role = "reviewer" => \E i \in RunOf("implementer", runs[r].round) : i \in marks

CommandsInHand ==
  /\ claims["verdict"].pc = "emit" => claims["verdict"].cmd.round = task.round
  /\ \A t \in Facts : claims[t].pc = "advance" => claims[t].agent # NoAgent

Turns == RoundsInPlay /\ EarlierClosed /\ ReviewedMarked /\ CommandsInHand /\ RunsAlternate

TurnsInv == RequestInv /\ (Requested => Turns)

(* A handler goes on with the agent of the row it read.                    *)
LEMMA AdvanceMoves ==
  ASSUME IInv, Next, NEW t \in Facts, claims'[t].pc = "advance"
  PROVE  claims'[t] = claims[t] \/ claims'[t].agent = task.agent
<1>0. claims \in [Facts -> ClaimState]
  BY DEF IInv, TypeOK
<1>1. ASSUME NEW u \in Facts, NEW s, Continue(u, s), s.pc # "advance" \/ s.agent = task.agent
      PROVE  claims'[t] = claims[t] \/ claims'[t].agent = task.agent
  BY <1>0, <1>1 DEF Continue
<1>2. ASSUME NEW u \in Facts, Return(u)
      PROVE  claims'[t] = claims[t]
  BY <1>0, <1>2 DEF Return, Idle
<1>3. "verdict" \in Facts /\ "run.completed" \in Facts
  BY DEF Facts
<1>4. ASSUME NEW u \in Facts, ClaimStep(u) \/ ClaimFails(u)
      PROVE  claims'[t] = claims[t] \/ claims'[t].agent = task.agent
  <2>1. CASE ReadTask(u)
    BY <1>1, <2>1 DEF ReadTask
  <2>2. CASE Republish(u)
    <3>1. Return(u) \/ Continue(u, Emitting(CommandAgain(u)))
      BY <2>2 DEF Republish
    <3>2. Emitting(CommandAgain(u)).pc = "emit"
      BY DEF Emitting
    <3> QED BY <1>1, <1>2, <3>1, <3>2
  <2>3. CASE ClaimEmit(u)
    BY <1>2, <2>3 DEF ClaimEmit
  <2>4. CASE ClaimFails(u)
    <3>1. Return(u) \/ claims' = [claims EXCEPT ![u] = Idle]
      BY <2>4 DEF ClaimFails
    <3> QED BY <1>0, <1>2, <3>1 DEF Idle
  <2> QED BY <1>4, <2>1, <2>2, <2>3, <2>4 DEF ClaimStep
<1>5. CASE IgnoreReviewerRun \/ ImplementerFailed
  BY <1>2, <1>3, <1>5 DEF IgnoreReviewerRun, ImplementerFailed
<1>6. CASE ImplementerDone
  <2>1. PICK s : /\ Continue("run.completed", s) \/ Return("run.completed")
                 /\ s.pc \in {"republish", "emit"}
    BY <1>6 DEF ImplementerDone, Emitting
  <2> QED BY <1>1, <1>2, <1>3, <2>1
<1>7. CASE ApplyVerdict
  <2>1. PICK s : /\ Continue("verdict", s) \/ Return("verdict")
                 /\ s.pc \in {"republish", "emit"}
    BY <1>7 DEF ApplyVerdict, Emitting
  <2> QED BY <1>1, <1>2, <1>3, <2>1
<1>8. CASE Crash
  BY <1>8 DEF Crash, Idle
<1>9. CASE CallerStep \/ UNCHANGED sagaVars
  BY <1>9 DEF CallerStep, sagaVars, RequestStep, PatchSet, PatchBlock, ReRunSet, RequestEmit,
     ReRunRead, StopSet, RequestFails, PatchRead, Update
<1> QED BY <1>3, <1>4, <1>5, <1>6, <1>7, <1>8, <1>9, StepKinds DEF CompletedStep, VerdictStep

(* Only callers assign a task.                                             *)
LEMMA AgentKept ==
  ASSUME IInv, Next, ~CallerStep
  PROVE  task'.agent = task.agent
<1>0. task \in TaskRow
  BY DEF IInv, TypeOK
<1>1. CASE ImplementerFailed \/ ImplementerDone
  BY <1>0, <1>1 DEF ImplementerFailed, ImplementerDone, SagaAdvance, TaskRow
<1>2. CASE ApplyVerdict
  <2>1. task' = task \/ task' = AfterVerdict(Fact("verdict"))
    BY <1>2 DEF ApplyVerdict, SagaAdvance
  <2> QED BY <1>0, <2>1 DEF AfterVerdict, TaskRow
<1>3. CASE \/ IgnoreReviewerRun \/ Crash \/ UNCHANGED sagaVars
           \/ \E t \in Facts : ClaimStep(t) \/ ClaimFails(t)
  BY <1>3 DEF IgnoreReviewerRun, Crash, sagaVars, ClaimStep, ClaimFails, ReadTask, Republish,
     ClaimEmit
<1>4. "verdict" \in Facts /\ "run.completed" \in Facts
  BY DEF Facts
<1> QED BY <1>1, <1>2, <1>3, <1>4, StepKinds DEF CompletedStep, VerdictStep

(* A verdict that saga_runs does not have is about the round the task is   *)
(* in: of the others, saga_runs has the verdict.                           *)
LEMMA VerdictCurrent ==
  ASSUME TurnsInv, Requested, HasNext(log, offset, "verdict"), Fact("verdict").run \notin marks
  PROVE  /\ Fact("verdict").round = task.round
         /\ Fact("verdict") \in MessagesIn(log, "verdict")
         /\ Fact("verdict").run \in RunOf("reviewer", task.round)
<1> DEFINE d == Fact("verdict")
<1>0. /\ TypeOK /\ Turns /\ RunsUnique /\ FactsOnRecord
      /\ "verdict" \in Facts /\ "verdict" \in Numbered
      /\ task.round \in Nat
  BY DEF TurnsInv, RequestInv, RecordInv, IInv, Facts, Numbered, TypeOK, TaskRow
<1>1. d \in MessagesIn(log, "verdict") /\ d.round \in Nat
  BY <1>0, FactPublished, FactType
<1>2. d.round \in FirstRound .. task.round /\ FirstRound \in Nat
  BY <1>0, <1>1 DEF Turns, RoundsInPlay, Rounds
<1>3. d.run \in RunOf("reviewer", d.round)
  BY <1>0, <1>1 DEF FactsOnRecord
<1>4. ~RoundClosed(d.round)
  <2> SUFFICES ASSUME NEW v \in RunOf("reviewer", d.round), v \in marks PROVE FALSE
    BY DEF RoundClosed
  <2>1. v = d.run
    BY <1>0, <1>3 DEF RunsUnique, RunOf
  <2> QED BY <2>1
<1> HIDE DEF d
<1>5. d.round \notin FirstRound .. task.round - 1
  BY <1>0, <1>4, Zenon DEF Turns, EarlierClosed
<1>6. d.round = task.round
  BY <1>0, <1>1, <1>2, <1>5
<1> QED BY <1>1, <1>3, <1>6 DEF d

(* What an unattended task's row does.                                     *)
LEMMA RowKept ==
  ASSUME MaxRequests = 1, TurnsInv, Requested, Next
  PROVE  /\ task'.agent = task.agent
         /\ \/ task'.round = task.round
            \/ /\ NextRound
               /\ task'.round = task.round + 1
               /\ \A k \in {task.round} : RoundClosed(k)'
         /\ Requested'
         /\ FirstRound' = FirstRound
<1>0. /\ RequestInv /\ RecordInv /\ IInv /\ TypeOK
      /\ task \in TaskRow
      /\ OneRequest
      /\ "verdict" \in Facts /\ "verdict" \in Topics /\ "run-requested" \in Topics
  BY DEF TurnsInv, RequestInv, RecordInv, IInv, TypeOK, Facts, Topics, Commands
<1>1. Grown
  BY <1>0, StepGrows
<1>2. task'.agent = task.agent
  BY <1>0, CallersDone, AgentKept
<1>3. Requested' /\ FirstRound' = FirstRound
  <2>1. log["run-requested"] \in Seq(Message) /\ DOMAIN log["run-requested"] # {}
    BY <1>0 DEF TypeOK, LogType, Requested, MessagesIn
  <2>2. 1 \in 1 .. Len(log["run-requested"])
    BY <2>1
  <2> QED BY <1>0, <1>1, <2>2 DEF Grown, Requested, FirstRound
<1>4. \A c \in Callers : requests[c].pc # "rerun"
  BY <1>0 DEF OneRequest, Idle
<1>5. ASSUME NextRound
      PROVE  task'.round = task.round + 1 /\ \A k \in {task.round} : RoundClosed(k)'
  <2> DEFINE d == Fact("verdict")
  <2>1. /\ HasNext(log, offset, "verdict")
        /\ d.run \notin marks /\ d.run \in marks'
        /\ d.decision = "REQUEST_CHANGES"
        /\ task' = [task EXCEPT !.status = "doing", !.round = d.round + 1]
    BY <1>5 DEF NextRound, Advances
  <2>2. /\ d.round = task.round
        /\ d \in MessagesIn(log, "verdict")
        /\ d.run \in RunOf("reviewer", task.round)
    BY <2>1, VerdictCurrent
  <2>3. d \in VerdictMsg
    BY <1>0, <2>1, FactType
  <2> HIDE DEF d
  <2>4. d = Verdict(d.run, task.round, "REQUEST_CHANGES")
    BY <2>1, <2>2, <2>3 DEF Verdict, VerdictMsg
  <2>5. d.run \in DOMAIN runs' /\ runs'[d.run] = [role |-> "reviewer", round |-> task.round]
    BY <1>1, <2>2 DEF Grown, RunOf
  <2>6. Verdict(d.run, task.round, "REQUEST_CHANGES") \in MessagesIn(log', "verdict")
    BY <1>0, <1>1, <2>2, <2>4 DEF Grown
  <2>7. task'.round = task.round + 1
    BY <1>0, <2>1, <2>2 DEF TaskRow
  <2>8. \A k \in {task.round} : RoundClosed(k)'
    BY <2>1, <2>5, <2>6 DEF RoundClosed, RunOf
  <2> QED BY <2>7, <2>8
<1>6. RowMoves
  BY <1>0, StepMoves
<1> QED BY <1>2, <1>3, <1>4, <1>5, <1>6 DEF RowMoves

(* A round that is over stays over.                                        *)
LEMMA ClosedStays ==
  ASSUME Grown, NEW k, RoundClosed(k)
  PROVE  RoundClosed(k)'
<1>1. PICK v \in RunOf("reviewer", k) :
        v \in marks /\ Verdict(v, k, "REQUEST_CHANGES") \in MessagesIn(log, "verdict")
  BY DEF RoundClosed
<1>2. v \in RunOf("reviewer", k)'
  BY RunStays
<1>3. v \in marks' /\ Verdict(v, k, "REQUEST_CHANGES") \in MessagesIn(log', "verdict")
  BY <1>1 DEF Grown, Topics, Facts
<1> QED BY <1>2, <1>3 DEF RoundClosed

(* The step that publishes the request starts the first round.             *)
LEMMA FirstRequest ==
  ASSUME MaxRequests = 1, TurnsInv, ~Requested, Next, Requested'
  PROVE  /\ Turns'
         /\ task'.status = "doing"
         /\ \E m \in MessagesIn(log', "run-requested") : m.round = task'.round
<1>0. /\ RequestInv /\ RecordInv /\ IInv /\ TypeOK /\ OneRequest
      /\ LogType(log)
      /\ "run-requested" \in Numbered /\ "run-requested" \in Topics
      /\ "verdict" \in Facts
      /\ Numbered \subseteq Topics
  BY DEF TurnsInv, RequestInv, RecordInv, IInv, TypeOK, Numbered, Topics, Commands, Facts
<1>1. /\ runs = << >> /\ DOMAIN runs = {}
      /\ \A t \in Numbered : MessagesIn(log, t) = {}
      /\ \A t \in Facts : claims[t] = Idle
  BY <1>0, NothingRequested DEF OneRequest
<1>2. PICK m : m \in MessagesIn(log', "run-requested")
  BY DEF Requested
<1>3. /\ m \notin MessagesIn(log, "run-requested")
      /\ Origin("run-requested", m)
  BY <1>0, <1>1, <1>2, NewMessages
<1>4. PICK c \in Callers : requests[c].pc = "emit" /\ requests[c].cmd = m
  BY <1>0, <1>1, <1>3 DEF Origin, Idle
<1>5. log' # log
  BY <1>2, <1>3
<1>6. PICK msg \in Message : log' = Published(log, msg)
  BY <1>0, <1>5, StepAdds
<1>7. UNCHANGED <<task, marks, runs>>
  BY <1>0, <1>5, StepAdds
<1>8. /\ m = msg /\ msg.topic = "run-requested"
      /\ \A t \in Numbered : t # "run-requested" => MessagesIn(log', t) = {}
      /\ MessagesIn(log', "run-requested") = {m}
  <2>1. \A t \in Numbered :
          MessagesIn(log', t) = IF t = msg.topic THEN {msg} ELSE {}
    BY <1>0, <1>1, <1>6, PublishedMessages
  <2> QED BY <1>0, <1>2, <2>1
<1>9. /\ task.agent # NoAgent
      /\ task.round = m.round
      /\ task.round \in Nat
  BY <1>0, <1>4, <1>8 DEF OneRequest, TypeOK, TaskRow
<1>10. log'["run-requested"][1] = m
  <2>1. log'["run-requested"] = Append(log["run-requested"], msg)
    BY <1>0, <1>6, <1>8, PublishedAppends
  <2>2. log["run-requested"] \in Seq(Message)
    BY <1>0 DEF LogType
  <2>3. MessagesIn(log, "run-requested") = {}
    BY <1>0, <1>1
  <2>4. Len(log["run-requested"]) = 0
    <3> DEFINE s == log["run-requested"]
    <3>1. \A i : i \notin DOMAIN s
      BY <2>3 DEF MessagesIn
    <3>2. s \in Seq(Message)
      BY <2>2
    <3> HIDE DEF s
    <3>3. Len(s) = 0
      <4>1. Len(s) \in Nat /\ DOMAIN s = 1 .. Len(s)
        BY <3>2
      <4>2. 1 \notin 1 .. Len(s)
        BY <3>1, <4>1
      <4> QED BY <4>1, <4>2
    <3> QED BY <3>3 DEF s
  <2> QED BY <1>8, <2>1, <2>2, <2>4
<1>11. FirstRound' = task.round /\ task'.round = task.round /\ task'.agent = task.agent
  BY <1>7, <1>9, <1>10 DEF FirstRound
<1>12. \A t \in Numbered : \A n \in MessagesIn(log', t) : n.round = task.round
  BY <1>8, <1>9
<1>13. DOMAIN runs' = {}
  BY <1>1, <1>7
<1>14. task.round \in task.round .. task.round /\ task.round .. task.round - 1 = {}
  BY <1>9
<1>15. RoundsInPlay'
  BY <1>9, <1>11, <1>12, <1>13, <1>14 DEF RoundsInPlay, Rounds
<1>16. EarlierClosed'
  BY <1>11, <1>14 DEF EarlierClosed
<1>17. ReviewedMarked' /\ RunsAlternate'
  BY <1>13 DEF ReviewedMarked, RunsAlternate
<1>18. CommandsInHand'
  <2>1. claims'["verdict"].pc = "emit" => claims'["verdict"].cmd.round = task'.round
    BY <1>0, <1>1, StepMoves DEF VerdictMoves, Idle
  <2>2. \A t \in Facts : claims'[t].pc = "advance" => claims'[t].agent # NoAgent
    BY <1>0, <1>1, <1>9, AdvanceMoves DEF Idle
  <2> QED BY <2>1, <2>2 DEF CommandsInHand
<1>19. task'.status = "doing"
  BY <1>0, <1>4, <1>7, <1>8 DEF OneRequest
<1>20. m.round = task'.round
  BY <1>9, <1>11
<1> QED BY <1>2, <1>15, <1>16, <1>17, <1>18, <1>19, <1>20 DEF Turns

(* Nothing gets ahead of the task's round.                                 *)
LEMMA PlayKept ==
  ASSUME MaxRequests = 1, TurnsInv, Requested, Next
  PROVE  RoundsInPlay'
<1>0. /\ IInv /\ TypeOK /\ InHand /\ Turns /\ RoundsInPlay /\ OneRequest /\ FactsOnRecord
      /\ "verdict" \in Facts /\ "run.completed" \in Facts
  BY DEF TurnsInv, RequestInv, RecordInv, IInv, Turns, Facts
<1>1. /\ task'.agent = task.agent
      /\ task'.round = task.round \/ task'.round = task.round + 1
      /\ FirstRound' = FirstRound
  BY RowKept
<1>2. /\ task.round \in Nat /\ FirstRound \in Nat
      /\ task.round \in FirstRound .. task.round
  BY <1>0 DEF TypeOK, TaskRow, RoundsInPlay, Rounds
<1>3. task'.round \in Rounds' /\ \A k \in Rounds : k \in Rounds'
  BY <1>1, <1>2 DEF Rounds
<1>4. ASSUME NEW t \in Numbered, NEW m \in MessagesIn(log', t)
      PROVE  m.round \in Rounds
  <2>1. CASE m \in MessagesIn(log, t)
    BY <1>0, <2>1 DEF RoundsInPlay
  <2>2. CASE Origin(t, m)
    <3>1. CASE claims["verdict"].pc = "emit" /\ claims["verdict"].cmd = m
      BY <1>0, <3>1 DEF Turns, CommandsInHand, RoundsInPlay
    <3>2. CASE claims["run.completed"].pc = "emit" /\ claims["run.completed"].cmd = m
      <4>1. /\ m.round = Fact("run.completed").round
            /\ HasNext(log, offset, "run.completed")
        BY <1>0, <3>2 DEF InHand, ClaimInHand, Idle
      <4>2. Fact("run.completed") \in MessagesIn(log, "run.completed")
        BY <1>0, <4>1, FactPublished
      <4> QED BY <1>0, <4>1, <4>2 DEF RoundsInPlay, Numbered
    <3>3. ASSUME NEW role, m.run \in RunOf(role, m.round)
          PROVE  m.round \in Rounds
      BY <1>0, <3>3 DEF RunOf, RoundsInPlay
    <3>4. \A c \in Callers : requests[c].pc # "emit"
      BY <1>0 DEF OneRequest, Idle
    <3> QED BY <2>2, <3>1, <3>2, <3>3, <3>4 DEF Origin
  <2> QED BY <1>0, <2>1, <2>2, NewMessages
<1>5. ASSUME NEW r \in DOMAIN runs'
      PROVE  runs'[r].round \in Rounds
  <2>1. ASSUME NEW role \in Roles, NEW m \in Message, Creates(role, m)
        PROVE  runs'[r].round \in Rounds
    <3>1. m.round \in Rounds
      BY <1>0, <2>1 DEF Creates, RoundsInPlay, Numbered
    <3>2. CASE r \in DOMAIN runs
      <4>1. runs'[r] = runs[r]
        BY <1>0, <2>1, <3>2, RunCreated
      <4> QED BY <1>0, <3>2, <4>1 DEF RoundsInPlay
    <3>3. CASE r = Len(runs) + 1
      <4>1. runs'[r] = [role |-> role, round |-> m.round]
        BY <1>0, <2>1, <3>3, RunCreated
      <4> QED BY <3>1, <4>1
    <3> QED BY <1>0, <2>1, <3>2, <3>3, RunCreated
  <2> QED BY <1>0, <2>1, StepCreates DEF RoundsInPlay
<1>6. FirstRound' \in Nat /\ task'.agent # NoAgent
  BY <1>0, <1>1, <1>2 DEF RoundsInPlay
<1> QED BY <1>3, <1>4, <1>5, <1>6 DEF RoundsInPlay

(* The task leaves a round only when it is over.                           *)
LEMMA ClosedKept ==
  ASSUME MaxRequests = 1, TurnsInv, Requested, Next
  PROVE  EarlierClosed'
<1>0. /\ IInv /\ EarlierClosed /\ RoundsInPlay /\ Grown
  BY StepGrows DEF TurnsInv, RequestInv, RecordInv, Turns
<1>1. /\ \/ task'.round = task.round
         \/ task'.round = task.round + 1 /\ \A k \in {task.round} : RoundClosed(k)'
      /\ FirstRound' = FirstRound
  BY RowKept
<1>2. task.round \in Nat /\ FirstRound \in Nat
  BY <1>0 DEF IInv, TypeOK, TaskRow, RoundsInPlay
<1>3. ASSUME NEW k \in FirstRound .. task.round - 1
      PROVE  RoundClosed(k)'
  <2>1. RoundClosed(k)
    BY <1>0, <1>3 DEF EarlierClosed
  <2> QED BY <1>0, <2>1, ClosedStays
<1>4. CASE task'.round = task.round
  BY <1>1, <1>3, <1>4 DEF EarlierClosed
<1>5. CASE task'.round = task.round + 1 /\ \A k \in {task.round} : RoundClosed(k)'
  <2>1. \A k \in FirstRound .. (task.round + 1) - 1 :
          k \in FirstRound .. task.round - 1 \/ k \in {task.round}
    BY <1>2
  <2>2. \A k \in FirstRound .. (task.round + 1) - 1 : RoundClosed(k)'
    BY <1>3, <1>5, <2>1
  <2> QED BY <1>1, <1>5, <2>2 DEF EarlierClosed
<1> QED BY <1>1, <1>4, <1>5

(* A run of this role and round may start after the runs before r.         *)
InTurn(r, role, k) ==
  IF role = "reviewer"
  THEN \E i \in RunOf("implementer", k) :
         i < r /\ RunCompleted(i, "implementer", "done", k) \in MessagesIn(log, "run.completed")
  ELSE k # FirstRound =>
         \E v \in RunOf("reviewer", k - 1) :
           v < r /\ Verdict(v, k - 1, "REQUEST_CHANGES") \in MessagesIn(log, "verdict")

(* A run started in its turn stays so.                                     *)
LEMMA InTurnStays ==
  ASSUME Grown, FirstRound' = FirstRound, NEW r, NEW role, NEW k, InTurn(r, role, k)
  PROVE  InTurn(r, role, k)'
<1>1. ASSUME NEW rl, NEW n, NEW i \in RunOf(rl, n)
      PROVE  i \in RunOf(rl, n)'
  BY RunStays
<1>2. /\ MessagesIn(log, "verdict") \subseteq MessagesIn(log', "verdict")
      /\ MessagesIn(log, "run.completed") \subseteq MessagesIn(log', "run.completed")
  BY DEF Grown, Topics, Facts
<1>3. CASE role = "reviewer"
  <2>1. PICK i \in RunOf("implementer", k) :
          i < r /\ RunCompleted(i, "implementer", "done", k) \in MessagesIn(log, "run.completed")
    BY <1>3 DEF InTurn
  <2>2. i \in RunOf("implementer", k)'
    BY <1>1
  <2> QED BY <1>2, <1>3, <2>1, <2>2 DEF InTurn
<1>4. CASE role # "reviewer" /\ k # FirstRound
  <2>1. PICK v \in RunOf("reviewer", k - 1) :
          v < r /\ Verdict(v, k - 1, "REQUEST_CHANGES") \in MessagesIn(log, "verdict")
    BY <1>4 DEF InTurn
  <2>2. v \in RunOf("reviewer", k - 1)'
    BY <1>1
  <2> QED BY <1>2, <1>4, <2>1, <2>2 DEF InTurn
<1>5. CASE role # "reviewer" /\ k = FirstRound
  BY <1>5 DEF InTurn
<1> QED BY <1>3, <1>4, <1>5

(* The Executor starts a run in its turn.                                  *)
LEMMA AlternateKept ==
  ASSUME TurnsInv, Requested, Next, FirstRound' = FirstRound
  PROVE  ReviewedMarked' /\ RunsAlternate'
<1>0. /\ IInv /\ TypeOK /\ Turns /\ FactsOnRecord /\ ReviewCommandsReportCommits /\ Grown
      /\ "verdict" \in Topics /\ "run.completed" \in Topics
      /\ FirstRound \in Nat /\ task.round \in Nat
  BY StepGrows DEF TurnsInv, RequestInv, RecordInv, IInv, Turns, RoundsInPlay, Topics, Facts,
     TypeOK, TaskRow
<1> DEFINE Marked1(k) == \E i \in RunOf("implementer", k) : i \in marks
           Starts(r, role, k) == InTurn(r, role, k) /\ (role = "reviewer" => Marked1(k))
<1>1. ASSUME NEW r \in DOMAIN runs
      PROVE  Starts(r, runs[r].role, runs[r].round)
  BY <1>0 DEF Turns, RunsAlternate, ReviewedMarked, InTurn
<1>2. ASSUME NEW r, NEW role, NEW k, Starts(r, role, k)
      PROVE  Starts(r, role, k)'
  <2>1. InTurn(r, role, k)'
    BY <1>0, <1>2, InTurnStays
  <2>2. ASSUME NEW i \in RunOf("implementer", k), i \in marks
        PROVE  i \in RunOf("implementer", k)' /\ i \in marks'
    BY <1>0, <2>2, RunStays DEF Grown
  <2> QED BY <1>2, <2>1, <2>2
<1>3. ASSUME NEW role \in Roles, NEW m \in Message, Creates(role, m)
      PROVE  Starts(Len(runs) + 1, role, m.round)
  <2>1. /\ m.round \in Nat
        /\ \A r \in DOMAIN runs : r < Len(runs) + 1
    BY <1>0, <1>3, RunCreated, RoundTypes DEF Creates, Numbered
  <2>2. CASE role = "reviewer"
    <3>1. /\ m.run \in marks
          /\ RunCompleted(m.run, "implementer", "done", m.round)
               \in MessagesIn(log, "run.completed")
      BY <1>0, <1>3, <2>2 DEF Creates, ReviewCommandsReportCommits
    <3>2. m.run \in RunOf("implementer", m.round)
      BY <1>0, <3>1 DEF FactsOnRecord, RunCompleted
    <3>3. m.run < Len(runs) + 1
      BY <2>1, <3>2 DEF RunOf
    <3> QED BY <2>2, <3>1, <3>2, <3>3 DEF InTurn
  <2>3. CASE role = "implementer" /\ m.round # FirstRound
    <3>1. m.round \in FirstRound .. task.round
      BY <1>0, <1>3, <2>3 DEF Creates, Turns, RoundsInPlay, Rounds, Numbered
    <3>2. m.round - 1 \in FirstRound .. task.round - 1
      BY <1>0, <2>1, <2>3, <3>1
    <3>3. RoundClosed(m.round - 1)
      BY <1>0, <3>2 DEF Turns, EarlierClosed
    <3>4. PICK v \in RunOf("reviewer", m.round - 1) :
            Verdict(v, m.round - 1, "REQUEST_CHANGES") \in MessagesIn(log, "verdict")
      BY <3>3 DEF RoundClosed
    <3>5. v < Len(runs) + 1
      BY <2>1, <3>4 DEF RunOf
    <3> QED BY <2>3, <3>4, <3>5 DEF InTurn
  <2>4. CASE role = "implementer" /\ m.round = FirstRound
    BY <2>4 DEF InTurn
  <2> QED BY <2>2, <2>3, <2>4 DEF Roles
<1> HIDE DEF Starts
<1>4. ASSUME NEW r \in DOMAIN runs', NEW role, NEW k, runs'[r].role = role, runs'[r].round = k
      PROVE  Starts(r, role, k)'
  <2>1. CASE r \in DOMAIN runs
    <3>1. runs'[r] = runs[r]
      BY <1>0, <2>1 DEF Grown
    <3>2. Starts(r, role, k)
      BY <1>1, <1>4, <2>1, <3>1
    <3> QED BY <1>2, <3>2
  <2>2. ASSUME NEW rl \in Roles, NEW m \in Message, Creates(rl, m), r = Len(runs) + 1
        PROVE  Starts(r, role, k)'
    <3>1. runs'[r] = [role |-> rl, round |-> m.round]
      BY <1>0, <2>2, RunCreated
    <3>2. role = rl /\ k = m.round
      BY <1>4, <3>1
    <3>3. Starts(r, role, k)
      BY <1>3, <2>2, <3>2
    <3> QED BY <1>2, <3>3
  <2>3. CASE UNCHANGED runs
    BY <1>4, <2>1, <2>3
  <2> QED BY <1>0, <2>1, <2>2, <2>3, RunCreated, StepCreates
<1>5. \A r \in DOMAIN runs' : \A role, k :
        runs'[r].role = role /\ runs'[r].round = k =>
          InTurn(r, role, k)' /\ (role = "reviewer" => Marked1(k)')
  BY <1>4 DEF Starts
<1>6. ReviewedMarked'
  BY <1>5 DEF ReviewedMarked
<1> HIDE DEF Marked1
<1>7. RunsAlternate'
  BY <1>5 DEF RunsAlternate, InTurn
<1> QED BY <1>6, <1>7

(* What a claim has in hand is about the round the task is in.             *)
LEMMA CommandsKept ==
  ASSUME MaxRequests = 1, TurnsInv, Requested, Next
  PROVE  CommandsInHand'
<1>0. /\ IInv /\ Turns
      /\ task.agent # NoAgent
      /\ claims["verdict"].pc = "emit" => claims["verdict"].cmd.round = task.round
      /\ \A t \in Facts : claims[t].pc = "advance" => claims[t].agent # NoAgent
  BY DEF TurnsInv, RequestInv, RecordInv, Turns, RoundsInPlay, CommandsInHand
<1>1. ASSUME claims'["verdict"].pc = "emit"
      PROVE  claims'["verdict"].cmd.round = task'.round
  <2>1. CASE claims'["verdict"] = claims["verdict"]
    <3>1. ~NextRound
      BY <1>1, <2>1 DEF NextRound
    <3>2. task'.round = task.round
      BY <3>1, RowKept
    <3> QED BY <1>0, <1>1, <2>1, <3>2
  <2> QED BY <1>0, <1>1, <2>1, StepMoves DEF VerdictMoves
<1>2. \A t \in Facts : claims'[t].pc = "advance" => claims'[t].agent # NoAgent
  BY <1>0, AdvanceMoves
<1> QED BY <1>1, <1>2 DEF CommandsInHand

(* Every step of an unattended task keeps the turns.                       *)
LEMMA TurnsPreserved ==
  ASSUME MaxRequests = 1
  PROVE  TurnsInv /\ [Next]_vars => TurnsInv'
<1> SUFFICES ASSUME TurnsInv, [Next]_vars PROVE TurnsInv'
  OBVIOUS
<1>1. RequestInv'
  BY RequestPreserved DEF TurnsInv
<1>2. CASE UNCHANGED vars
  <2>1. /\ UNCHANGED <<log, task, marks, claims, runs>>
        /\ \A t : MessagesIn(log', t) = MessagesIn(log, t)
    BY <1>2 DEF vars, MessagesIn
  <2>2. Requested' = Requested /\ FirstRound' = FirstRound
    BY <2>1 DEF Requested, FirstRound
  <2>3. RoundsInPlay => RoundsInPlay'
    BY <2>1, <2>2 DEF RoundsInPlay, Rounds
  <2>4. \A role, k : RunOf(role, k)' = RunOf(role, k)
    BY <2>1 DEF RunOf
  <2>5. EarlierClosed => EarlierClosed'
    BY <2>1, <2>2, <2>4 DEF EarlierClosed, RoundClosed
  <2>6. (ReviewedMarked => ReviewedMarked') /\ (CommandsInHand => CommandsInHand')
    BY <2>1 DEF ReviewedMarked, RunOf, CommandsInHand
  <2>7. RunsAlternate => RunsAlternate'
    BY <2>1, <2>2 DEF RunsAlternate, RunOf
  <2> QED BY <1>1, <2>2, <2>3, <2>5, <2>6, <2>7 DEF TurnsInv, Turns
<1>3. CASE Next
  <2>1. CASE Requested
    <3>1. FirstRound' = FirstRound
      BY <1>3, <2>1, RowKept
    <3> QED BY <1>1, <1>3, <2>1, <3>1, PlayKept, ClosedKept, AlternateKept, CommandsKept
            DEF TurnsInv, Turns
  <2>2. CASE ~Requested
    BY <1>1, <1>3, <2>2, FirstRequest DEF TurnsInv
  <2> QED BY <2>1, <2>2
<1> QED BY <1>2, <1>3

(* At first nothing was requested.                                         *)
LEMMA TurnsInitially == Init => TurnsInv
<1> SUFFICES ASSUME Init PROVE TurnsInv
  OBVIOUS
<1>1. ~Requested
  BY DEF Init, EmptyLog, Requested, MessagesIn, Topics, Commands
<1> QED BY <1>1, RequestInitially DEF TurnsInv

(* Implementer and reviewer take turns on a task that nobody but the saga  *)
(* and the Executor acts on: whatever crashes and is redelivered, a round  *)
(* is reviewed only after its implementer run was reported done, and the   *)
(* next one starts only after a verdict on this one asked for changes.     *)
THEOREM RoundsInTurn ==
  ASSUME MaxRequests = 1
  PROVE  Spec => []RunsAlternate
<1>1. TurnsInv => RunsAlternate
  <2>1. ASSUME TurnsInv, ~Requested PROVE RunsAlternate
    BY <2>1, NothingRequested DEF TurnsInv, RunsAlternate
  <2> QED BY <2>1 DEF TurnsInv, Turns
<1>2. TurnsInv /\ [Next]_vars => TurnsInv'
  BY TurnsPreserved
<1> QED BY <1>1, <1>2, TurnsInitially, PTL DEF Spec

(* On such a task, the verdict that moves it out of review is one on the   *)
(* round under review, although onVerdict compares only the status and the *)
(* run id: saga_runs has the verdicts on all the earlier rounds.           *)
THEOREM CurrentVerdicts ==
  ASSUME MaxRequests = 1
  PROVE  Spec => VerdictIsCurrent
<1> DEFINE Current ==
             \A run \in marks' \ marks :
               (claims["verdict"] # Idle /\ Fact("verdict").run = run /\ task' # task)
                 => Fact("verdict").round = task.round
<1>1. TurnsInv => Current
  <2> SUFFICES ASSUME TurnsInv, claims["verdict"] # Idle, Fact("verdict").run \notin marks
               PROVE  Fact("verdict").round = task.round
    OBVIOUS
  <2>1. HasNext(log, offset, "verdict") /\ "verdict" \in Facts
    BY DEF TurnsInv, RequestInv, RecordInv, IInv, InHand, ClaimInHand, Facts
  <2>2. Requested
    BY <2>1, NothingRequested DEF TurnsInv
  <2> QED BY <2>1, <2>2, VerdictCurrent
<1> HIDE DEF Current
<1>2. TurnsInv /\ [Next]_vars => TurnsInv'
  BY TurnsPreserved
<1>3. Spec => [][Current]_vars
  BY <1>1, <1>2, TurnsInitially, PTL DEF Spec
<1> QED BY <1>3 DEF VerdictIsCurrent, Current

-----------------------------------------------------------------------------
(* An unattended task is never stranded.                                   *)

Command(u) == IF u = "verdict" THEN "run-requested" ELSE "review-requested"

StatusFor(u) == IF u = "verdict" THEN "doing" ELSE "review"

(* A fact that makes its handler publish the command of the task's round,  *)
(* now that saga_runs has it.                                              *)
Backs(u, d) ==
  /\ d.run \in marks
  /\ IF u = "verdict"
     THEN d.decision = "REQUEST_CHANGES" /\ d.round = task.round - 1
     ELSE d.role = "implementer" /\ d.status = "done" /\ d.round = task.round

(* The command of the task's round is published.                           *)
Reached(u) == \E m \in MessagesIn(log, Command(u)) : m.round = task.round

(* A fact that backs it is still to be delivered, or handled.              *)
Due(u) == \E i \in offset[u].next .. Len(log[u]) : Backs(u, log[u][i])

BackedAt(u) == task.status = StatusFor(u) => Reached(u) \/ Due(u)

(* A fact is parked only after so many faults.                             *)
FailuresCounted == \A t \in Facts : failures[t] <= faults

BackedInv ==
  /\ TurnsInv
  /\ FailuresCounted
  /\ Requested => \A u \in Facts : BackedAt(u)

(* A finished implementer run that saga_runs does not have is that of the  *)
(* round the task is in: the earlier rounds were reviewed.                 *)
LEMMA ImplementerCurrent ==
  ASSUME TurnsInv, Requested, HasNext(log, offset, "run.completed"),
         Fact("run.completed").role = "implementer", Fact("run.completed").run \notin marks
  PROVE  Fact("run.completed").round = task.round
<1> DEFINE d == Fact("run.completed")
<1>0. /\ TypeOK /\ Turns /\ RunsUnique /\ FactsOnRecord
      /\ "run.completed" \in Facts /\ "run.completed" \in Numbered
      /\ task.round \in Nat
  BY DEF TurnsInv, RequestInv, RecordInv, IInv, Facts, Numbered, TypeOK, TaskRow
<1>1. d \in MessagesIn(log, "run.completed") /\ d.round \in Nat
  BY <1>0, FactPublished, FactType
<1>2. d.round \in FirstRound .. task.round /\ FirstRound \in Nat
  BY <1>0, <1>1 DEF Turns, RoundsInPlay, Rounds
<1>3. d.run \in RunOf("implementer", d.round)
  BY <1>0, <1>1 DEF FactsOnRecord
<1>4. ~RoundClosed(d.round)
  <2> SUFFICES ASSUME NEW v \in RunOf("reviewer", d.round) PROVE FALSE
    BY DEF RoundClosed
  <2>1. v \in DOMAIN runs /\ runs[v].role = "reviewer" /\ runs[v].round = d.round
    BY DEF RunOf
  <2>2. PICK i \in RunOf("implementer", d.round) : i \in marks
    BY <1>0, <2>1 DEF Turns, ReviewedMarked
  <2>3. i = d.run
    BY <1>0, <1>3 DEF RunsUnique, RunOf
  <2> QED BY <2>2, <2>3
<1> HIDE DEF d
<1>5. d.round \notin FirstRound .. task.round - 1
  BY <1>0, <1>4, Zenon DEF Turns, EarlierClosed
<1>6. d.round = task.round
  BY <1>0, <1>1, <1>2, <1>5
<1> QED BY <1>6 DEF d

(* A handler that fails so often that its fact is parked has used up the   *)
(* faults.                                                                 *)
LEMMA FailuresKept ==
  ASSUME IInv, FailuresCounted, [Next]_vars
  PROVE  FailuresCounted'
<1>0. /\ failures \in [Facts -> Nat] /\ faults \in Nat
      /\ "verdict" \in Facts /\ "run.completed" \in Facts
  BY DEF IInv, TypeOK, Facts
<1>1. ASSUME faults' \in {faults, faults + 1}, NEW u \in Facts,
             \/ failures' = failures
             \/ failures' = [failures EXCEPT ![u] = 0]
             \/ failures' = [failures EXCEPT ![u] = @ + 1] /\ faults' = faults + 1
      PROVE  FailuresCounted'
  <2>1. \A m, n \in Nat : m <= n => m <= n + 1 /\ m + 1 <= n + 1 /\ 0 <= n /\ 0 <= n + 1
    OBVIOUS
  <2>2. ASSUME NEW t \in Facts PROVE failures'[t] <= faults'
    BY <1>0, <1>1, <2>1, <2>2 DEF FailuresCounted
  <2> QED BY <2>2 DEF FailuresCounted
<1>2. ASSUME NEW u \in Facts, NEW s, Continue(u, s) \/ Return(u), UNCHANGED faults
      PROVE  FailuresCounted'
  BY <1>1, <1>2 DEF Continue, Return
<1>3. ASSUME NEW u \in Facts, ClaimStep(u) PROVE FailuresCounted'
  <2>1. faults' \in {faults, faults + 1}
    BY <1>3 DEF ClaimStep, ReadTask, Republish, ClaimEmit, Publish, Fault
  <2>2. failures' = failures \/ failures' = [failures EXCEPT ![u] = 0]
    BY <1>3 DEF ClaimStep, ReadTask, Republish, ClaimEmit, Continue, Return
  <2> QED BY <1>1, <2>1, <2>2
<1>4. ASSUME NEW u \in Facts, ClaimFails(u) PROVE FailuresCounted'
  BY <1>1, <1>4 DEF ClaimFails, Fault, Return
<1>5. CASE IgnoreReviewerRun \/ ImplementerFailed
  BY <1>0, <1>2, <1>5 DEF IgnoreReviewerRun, ImplementerFailed
<1>6. CASE ImplementerDone
  BY <1>0, <1>2, <1>6 DEF ImplementerDone
<1>7. CASE ApplyVerdict
  BY <1>0, <1>2, <1>7 DEF ApplyVerdict
<1>8. CASE Crash
  BY <1>0, <1>8 DEF Crash, Fault, FailuresCounted
<1>9. CASE CallerStep
  <2>1. UNCHANGED failures
    BY <1>9 DEF CallerStep, RequestStep, PatchSet, PatchBlock, ReRunSet, RequestEmit, ReRunRead,
       StopSet, RequestFails, PatchRead, Update, retries
  <2>2. faults' \in {faults, faults + 1}
    BY <1>9 DEF CallerStep, RequestStep, PatchSet, PatchBlock, ReRunSet, RequestEmit, ReRunRead,
       StopSet, RequestFails, PatchRead, Update, Publish, Fault
  <2> QED BY <1>0, <1>1, <2>1, <2>2
<1>10. CASE UNCHANGED sagaVars
  BY <1>10 DEF sagaVars, FailuresCounted
<1>11. CASE UNCHANGED vars
  BY <1>11 DEF vars, FailuresCounted
<1> QED BY <1>0, <1>3, <1>4, <1>5, <1>6, <1>7, <1>8, <1>9, <1>10, <1>11, StepKinds
        DEF CompletedStep, VerdictStep

(* onImplementerDone moves the task to review.                             *)
ToReview ==
  LET d == Fact("run.completed")
  IN /\ claims["run.completed"].pc = "advance"
     /\ Advances(d.run, "doing")
     /\ task' = [task EXCEPT !.status = "review"]
     /\ d.run \in marks'
     /\ claims["run.completed"].agent # NoAgent => UNCHANGED offset
     /\ UNCHANGED log

(* The steps that move an unattended task.                                 *)
LEMMA TaskMoves ==
  ASSUME IInv, Next, ~CallerStep
  PROVE  task' = task \/ task'.status \notin {"doing", "review"} \/ NextRound \/ ToReview
<1>0. task \in TaskRow /\ "verdict" \in Facts /\ "run.completed" \in Facts
      /\ TypeOK /\ ClaimInHand("verdict") /\ claims \in [Facts -> ClaimState]
  BY DEF IInv, InHand, TypeOK, Facts
<1>1. CASE ImplementerFailed
  BY <1>0, <1>1 DEF ImplementerFailed, SagaAdvance, TaskRow
<1>2. CASE ImplementerDone
  <2> DEFINE d == Fact("run.completed")
  <2>1. CASE ~Advances(d.run, "doing")
    BY <1>2, <2>1 DEF ImplementerDone, SagaAdvance
  <2>2. CASE Advances(d.run, "doing")
    BY <1>2, <2>2 DEF ImplementerDone, SagaAdvance, ToReview, Continue
  <2> QED BY <2>1, <2>2
<1>3. CASE ApplyVerdict /\ UNCHANGED runs
  <2> DEFINE d == Fact("verdict")
  <2>1. CASE ~Advances(d.run, "review")
    BY <1>3, <2>1 DEF ApplyVerdict, SagaAdvance
  <2>2. CASE Advances(d.run, "review")
    <3>1. /\ HasNext(log, offset, "verdict")
          /\ claims["verdict"].pc = "advance"
          /\ UNCHANGED <<log, requests, issued>>
          /\ task' = AfterVerdict(d) /\ d.run \in marks'
      BY <1>0, <1>3, <2>2 DEF ApplyVerdict, SagaAdvance, ClaimInHand, Idle
    <3>2. d \in VerdictMsg
      BY <1>0, <3>1, FactType
    <3>3. CASE d.decision = "APPROVE" \/ d.round + 1 > MaxReviewRounds
      BY <1>0, <3>1, <3>3 DEF AfterVerdict, TaskRow
    <3>4. CASE ~(d.decision = "APPROVE" \/ d.round + 1 > MaxReviewRounds)
      <4>1. d.decision = "REQUEST_CHANGES" /\ d.round + 1 <= MaxReviewRounds
        BY <3>2, <3>4, SagaAssumption DEF VerdictMsg, Decisions
      <4>2. task' = [task EXCEPT !.status = "doing", !.round = d.round + 1]
        BY <3>1, <3>4 DEF AfterVerdict
      <4>3. Continue("verdict", Emitting(RunRequested(d.round + 1, claims["verdict"].agent)))
        BY <1>3, <2>2, <4>1 DEF ApplyVerdict
      <4>4. /\ claims'["verdict"] = Emitting(RunRequested(d.round + 1, claims["verdict"].agent))
            /\ UNCHANGED offset
        BY <1>0, <4>3 DEF Continue
      <4>5. claims'["verdict"].pc = "emit" /\ claims'["verdict"].cmd.round = d.round + 1
        BY <4>4 DEF Emitting, RunRequested
      <4> QED BY <1>3, <2>2, <3>1, <4>1, <4>2, <4>4, <4>5 DEF NextRound
    <3> QED BY <3>3, <3>4
  <2> QED BY <2>1, <2>2
<1>4. CASE \/ IgnoreReviewerRun \/ Crash \/ UNCHANGED sagaVars
           \/ \E t \in Facts : ClaimStep(t) \/ ClaimFails(t)
  BY <1>4 DEF IgnoreReviewerRun, Crash, sagaVars, ClaimStep, ClaimFails, ReadTask, Republish,
     ClaimEmit
<1> QED BY <1>0, <1>1, <1>2, <1>3, <1>4, StepKinds DEF CompletedStep, VerdictStep

(* A step publishes, when nothing gets lost.                               *)
LEMMA CommandReaches ==
  ASSUME MayLosePublish = FALSE, TypeOK, NEW cmd \in CommandMsg, Publish(cmd)
  PROVE  cmd \in MessagesIn(log', cmd.topic)
<1>1. cmd \in Message /\ log' = Published(log, cmd) /\ LogType(log)
  BY DEF Message, Publish, TypeOK
<1>2. cmd.topic \in Topics
  BY <1>1, PublishedAppends
<1> QED BY <1>1, <1>2, PublishedMessages

(* A group passes a fact that backs the task's command only once the       *)
(* command is published.                                                   *)
LEMMA PassedOnceReached ==
  ASSUME MayLosePublish = FALSE, MaxFaults < MaxRedeliveries,
         BackedInv, Requested, Next, ~CallerStep,
         NEW u \in Facts, HasNext(log, offset, u), offset'[u].next = offset[u].next + 1,
         task.status = StatusFor(u), Backs(u, Fact(u))
  PROVE  \E m \in MessagesIn(log', Command(u)) : m.round = task.round
<1> DEFINE Goal == \E m \in MessagesIn(log', Command(u)) : m.round = task.round
<1>0. /\ IInv /\ TypeOK /\ InHand /\ Turns /\ FailuresCounted
      /\ task \in TaskRow /\ offset \in [Facts -> Offset]
      /\ offset[u].next \in Nat
      /\ "verdict" \in Facts /\ "run.completed" \in Facts /\ "verdict" # "run.completed"
  BY DEF BackedInv, TurnsInv, RequestInv, RecordInv, IInv, TypeOK, Facts, Offset
<1>1. /\ Fact(u).run \in marks
      /\ u = "verdict" => Fact(u).decision = "REQUEST_CHANGES" /\ task.status = "doing"
      /\ u = "run.completed" => /\ Fact(u).role = "implementer" /\ Fact(u).status = "done"
                                /\ Fact(u).round = task.round /\ task.status = "review"
  BY <1>0 DEF Backs, StatusFor
<1>2. offset' # offset
  BY <1>0
<1>3. ASSUME NEW t \in Facts, Return(t) PROVE t = u
  BY <1>0, <1>2, <1>3 DEF Return, Marked
<1>4. ~(IgnoreReviewerRun \/ ImplementerFailed)
  <2>1. ASSUME Return("run.completed") PROVE u = "run.completed"
    BY <1>0, <1>3, <2>1
  <2>2. Roles = {"implementer", "reviewer"} /\ "implementer" # "reviewer"
    BY DEF Roles
  <2> QED BY <1>1, <2>1, <2>2 DEF IgnoreReviewerRun, ImplementerFailed
<1>5. ~ImplementerDone
  <2> SUFFICES ASSUME ImplementerDone PROVE FALSE
    OBVIOUS
  <2>1. Return("run.completed") /\ Advances(Fact("run.completed").run, "doing")
    BY <1>2 DEF ImplementerDone, Continue
  <2>2. u = "run.completed"
    BY <1>0, <1>3, <2>1
  <2> QED BY <1>1, <2>1, <2>2 DEF Advances
<1>6. ~ApplyVerdict
  <2> SUFFICES ASSUME ApplyVerdict PROVE FALSE
    OBVIOUS
  <2>1. /\ Return("verdict")
        /\ Advances(Fact("verdict").run, "review") \/ Fact("verdict").decision # "REQUEST_CHANGES"
    BY <1>2 DEF ApplyVerdict, Continue
  <2>2. u = "verdict"
    BY <1>0, <1>3, <2>1
  <2> QED BY <1>1, <2>1, <2>2 DEF Advances
<1>7. ASSUME NEW t \in Facts PROVE ~ReadTask(t) /\ ~Republish(t)
  <2>1. ~ReadTask(t)
    BY <1>2 DEF ReadTask, Continue
  <2>2. ASSUME Republish(t) PROVE FALSE
    <3>1. Overtaken(t) /\ t = u
      BY <1>2, <1>3, <2>2 DEF Republish, Continue
    <3>2. task.agent # NoAgent
      BY <1>0 DEF Turns, RoundsInPlay
    <3> QED BY <1>0, <1>1, <3>1, <3>2 DEF Overtaken
  <2> QED BY <2>1, <2>2
<1>8. ASSUME NEW t \in Facts PROVE ~ClaimFails(t)
  <2> SUFFICES ASSUME ClaimFails(t) PROVE FALSE
    OBVIOUS
  <2>1. failures[t] + 1 >= MaxRedeliveries /\ faults < MaxFaults
    BY <1>2 DEF ClaimFails, Fault
  <2>2. failures[t] <= faults /\ failures[t] \in Nat /\ faults \in Nat
    BY <1>0 DEF FailuresCounted, TypeOK
  <2>3. MaxFaults \in Nat /\ MaxRedeliveries \in Nat
    BY SagaAssumption
  <2> QED BY <2>1, <2>2, <2>3
<1>9. ~Crash /\ ~UNCHANGED sagaVars
  <2>1. ASSUME Crash PROVE FALSE
    <3>1. offset'[u] \in ResumeAt(offset[u])
      BY <1>0, <2>1 DEF Crash, ResumePoints
    <3> QED BY <1>0, <3>1 DEF ResumeAt, Offset
  <2> QED BY <1>2, <2>1 DEF sagaVars
<1>10. ASSUME NEW t \in Facts, ClaimEmit(t) PROVE Goal
  <2>1. t = u /\ claims[u].pc = "emit" /\ Publish(claims[u].cmd)
    BY <1>3, <1>10 DEF ClaimEmit
  <2>2. ClaimInHand(u) /\ claims[u] # Idle
    BY <1>0, <2>1 DEF InHand, Idle
  <2>3. CASE u = "verdict"
    <3>1. claims[u].cmd \in RunRequestedMsg /\ claims[u].cmd.round = task.round
      BY <1>0, <2>1, <2>2, <2>3 DEF ClaimInHand, Turns, CommandsInHand
    <3>2. claims[u].cmd \in CommandMsg /\ claims[u].cmd.topic = Command(u)
      BY <2>3, <3>1 DEF CommandMsg, RunRequestedMsg, Command
    <3> QED BY <1>0, <2>1, <3>1, <3>2, CommandReaches
  <2>4. CASE u = "run.completed"
    <3>1. claims[u].cmd \in ReviewRequestedMsg /\ claims[u].cmd.round = task.round
      BY <1>0, <1>1, <2>1, <2>2, <2>4 DEF ClaimInHand
    <3>2. claims[u].cmd \in CommandMsg /\ claims[u].cmd.topic = Command(u)
      BY <1>0, <2>4, <3>1 DEF CommandMsg, ReviewRequestedMsg, Command
    <3> QED BY <1>0, <2>1, <3>1, <3>2, CommandReaches
  <2> QED BY <2>3, <2>4 DEF Facts
<1> HIDE DEF Goal
<1>11. Goal
  BY <1>0, <1>4, <1>5, <1>6, <1>7, <1>8, <1>9, <1>10, StepKinds
     DEF CompletedStep, VerdictStep, ClaimStep
<1> QED BY <1>11 DEF Goal

(* As long as the task stays where it is, its command stays backed.        *)
LEMMA BackedWhileThere ==
  ASSUME MayLosePublish = FALSE, MaxFaults < MaxRedeliveries,
         BackedInv, Requested, Next, ~CallerStep, UNCHANGED task, NEW u \in Facts
  PROVE  BackedAt(u)'
<1>0. /\ IInv /\ TypeOK /\ Grown /\ BackedAt(u)
      /\ u \in Topics /\ Command(u) \in Topics
      /\ offset \in [Facts -> Offset]
      /\ offset[u].next \in Nat \ {0}
      /\ Len(log[u]) \in Nat
  BY StepGrows DEF BackedInv, TurnsInv, RequestInv, RecordInv, IInv, TypeOK, Topics, Facts,
     Commands, Command, Offset, LogType
<1>1. offset'[u].next \in Nat /\ Len(log'[u]) \in Nat /\ Len(log'[u]) >= Len(log[u])
  <2>1. TypeOK'
    BY <1>0, Inductively DEF IInv
  <2> QED BY <1>0, <2>1 DEF TypeOK, Offset, LogType, Grown
<1> SUFFICES ASSUME task.status = StatusFor(u) PROVE Reached(u)' \/ Due(u)'
  BY DEF BackedAt
<1>2. CASE Reached(u)
  BY <1>0, <1>2 DEF Reached, Grown
<1>3. ASSUME NEW i \in offset[u].next .. Len(log[u]), Backs(u, log[u][i])
      PROVE  Reached(u)' \/ Due(u)'
  <2>1. log'[u][i] = log[u][i] /\ i \in 1 .. Len(log[u])
    BY <1>0, <1>3 DEF Grown
  <2>2. \A d : Backs(u, d) => Backs(u, d)'
    BY <1>0 DEF Backs, Grown
  <2>3. CASE offset'[u].next <= i
    <3>1. i \in offset'[u].next .. Len(log'[u])
      BY <1>0, <1>1, <2>1, <2>3
    <3> DEFINE d == log[u][i]
    <3>2. Backs(u, d)
      BY <1>3
    <3> HIDE DEF d
    <3>3. Backs(u, d) => \A e : e = d => Backs(u, e)'
      BY <2>2
    <3>4. log'[u][i] = d
      BY <2>1 DEF d
    <3> QED BY <3>1, <3>2, <3>3, <3>4 DEF Due
  <2>4. CASE ~(offset'[u].next <= i)
    <3>1. /\ HasNext(log, offset, u)
          /\ offset'[u].next = offset[u].next + 1
          /\ i = offset[u].next
      <4>1. ~(offset'[u].next \in 1 .. offset[u].next)
        BY <1>0, <1>1, <1>3, <2>4
      <4>2. HasNext(log, offset, u) /\ offset'[u].next = offset[u].next + 1
        BY <1>0, <4>1, StepSkips
      <4> QED BY <1>0, <1>3, <2>4, <4>2
    <3>2. Backs(u, Fact(u))
      BY <1>3, <3>1 DEF Fact, Delivered
    <3>3. \E m \in MessagesIn(log', Command(u)) : m.round = task.round
      BY <3>1, <3>2, PassedOnceReached
    <3> QED BY <3>3 DEF Reached
  <2> QED BY <2>3, <2>4
<1> QED BY <1>0, <1>2, <1>3 DEF BackedAt, Due

(* A fact that moves the task backs the command of where it moves it.      *)
LEMMA BackedByMove ==
  ASSUME BackedInv, Requested, Next, NextRound \/ ToReview, NEW u \in Facts
  PROVE  BackedAt(u)'
<1>0. /\ IInv /\ TypeOK /\ InHand /\ Turns /\ TurnsInv
      /\ task \in TaskRow
      /\ "verdict" \in Facts /\ "run.completed" \in Facts /\ "verdict" # "run.completed"
      /\ u = "verdict" \/ u = "run.completed"
  BY DEF BackedInv, TurnsInv, RequestInv, RecordInv, IInv, TypeOK, Facts
<1>1. ASSUME NEW t \in Facts, HasNext(log, offset, t), Backs(t, Fact(t))', Fact(t)' = Fact(t),
             UNCHANGED <<log, offset>>
      PROVE  Due(t)'
  <2>1. offset[t].next \in offset[t].next .. Len(log[t])
    BY <1>0, <1>1 DEF HasNext, TypeOK, Offset, LogType, Topics
  <2> QED BY <1>1, <2>1 DEF Due, Fact, Delivered
<1>2. CASE NextRound
  <2> DEFINE d == Fact("verdict")
  <2>1. /\ HasNext(log, offset, "verdict") /\ UNCHANGED <<log, offset>>
        /\ d.run \in marks' /\ d.decision = "REQUEST_CHANGES"
        /\ task' = [task EXCEPT !.status = "doing", !.round = d.round + 1]
    BY <1>2 DEF NextRound
  <2>2. task'.status = "doing" /\ task'.round = d.round + 1 /\ d.round \in Nat
    BY <1>0, <2>1, FactType DEF TaskRow
  <2>3. d' = d
    BY <2>1 DEF Fact, Delivered
  <2> HIDE DEF d
  <2>4. d.round = task'.round - 1
    BY <2>2
  <2>5. Backs("verdict", d)'
    BY <2>1, <2>3, <2>4 DEF Backs
  <2>6. Due("verdict")'
    BY <1>0, <1>1, <2>1, <2>3, <2>5 DEF d
  <2> QED BY <1>0, <2>2, <2>6 DEF BackedAt, StatusFor
<1>3. CASE ToReview
  <2> DEFINE d == Fact("run.completed")
  <2>1. /\ claims["run.completed"].pc = "advance" /\ UNCHANGED log
        /\ d.run \notin marks /\ d.run \in marks'
        /\ task' = [task EXCEPT !.status = "review"]
        /\ claims["run.completed"].agent # NoAgent => UNCHANGED offset
    BY <1>3 DEF ToReview, Advances
  <2>2. UNCHANGED offset
    BY <1>0, <2>1 DEF Turns, CommandsInHand
  <2>3. /\ HasNext(log, offset, "run.completed")
        /\ d.role = "implementer" /\ d.status = "done"
    BY <1>0, <2>1 DEF InHand, ClaimInHand, Idle
  <2>4. d.round = task.round
    BY <1>0, <2>1, <2>3, ImplementerCurrent
  <2>5. task'.status = "review" /\ task'.round = task.round
    BY <1>0, <2>1 DEF TaskRow
  <2>6. d' = d
    BY <2>1, <2>2 DEF Fact, Delivered
  <2> HIDE DEF d
  <2>7. Backs("run.completed", d)'
    BY <1>0, <2>1, <2>3, <2>4, <2>5, <2>6 DEF Backs
  <2>8. Due("run.completed")'
    BY <1>0, <1>1, <2>1, <2>2, <2>3, <2>6, <2>7 DEF d
  <2> QED BY <1>0, <2>5, <2>8 DEF BackedAt, StatusFor
<1> QED BY <1>2, <1>3

(* Every step of an unattended task keeps its command backed.              *)
LEMMA BackedPreserved ==
  ASSUME MaxRequests = 1, MayLosePublish = FALSE, MaxFaults < MaxRedeliveries
  PROVE  BackedInv /\ [Next]_vars => BackedInv'
<1> SUFFICES ASSUME BackedInv, [Next]_vars PROVE BackedInv'
  OBVIOUS
<1>0. TurnsInv /\ IInv /\ RequestInv
  BY DEF BackedInv, TurnsInv, RequestInv, RecordInv
<1>1. TurnsInv' /\ FailuresCounted'
  BY <1>0, TurnsPreserved, FailuresKept DEF BackedInv
<1>2. CASE UNCHANGED vars
  <2>1. UNCHANGED <<log, task, marks, offset>>
    BY <1>2 DEF vars
  <2>2. Requested' = Requested /\ \A u \in Facts : BackedAt(u)' = BackedAt(u)
    BY <2>1 DEF Requested, BackedAt, Reached, Due, Backs, MessagesIn
  <2> QED BY <1>1, <2>2 DEF BackedInv
<1>3. CASE Next /\ Requested
  <2>1. ~CallerStep
    BY <1>0, <1>3, CallersDone
  <2>2. ASSUME NEW u \in Facts PROVE BackedAt(u)'
    <3>1. CASE UNCHANGED task
      BY <1>3, <2>1, <3>1, BackedWhileThere
    <3>2. CASE NextRound \/ ToReview
      BY <1>3, <3>2, BackedByMove
    <3>3. CASE task'.status \notin {"doing", "review"}
      BY <3>3 DEF BackedAt, StatusFor
    <3> QED BY <1>0, <1>3, <2>1, <3>1, <3>2, <3>3, TaskMoves
  <2> QED BY <1>1, <2>2 DEF BackedInv
<1>4. CASE Next /\ ~Requested /\ Requested'
  <2>1. /\ task'.status = "doing"
        /\ \E m \in MessagesIn(log', "run-requested") : m.round = task'.round
    BY <1>0, <1>4, FirstRequest
  <2>2. ASSUME NEW u \in Facts PROVE BackedAt(u)'
    <3>1. CASE u = "verdict"
      BY <2>1, <3>1 DEF BackedAt, Reached, Command
    <3>2. CASE u # "verdict"
      BY <2>1, <3>2 DEF BackedAt, StatusFor
    <3> QED BY <3>1, <3>2
  <2> QED BY <1>1, <2>2 DEF BackedInv
<1>5. CASE ~Requested'
  BY <1>1, <1>5 DEF BackedInv
<1> QED BY <1>2, <1>3, <1>4, <1>5

(* A task that is doing or in review is never waiting for nothing, if it   *)
(* was requested once, commands are not lost and faults are too few to     *)
(* park a fact: the command of its round is published, or a fact that      *)
(* makes its handler publish it is still to be delivered.  This is what    *)
(* redelivery and republishIfAt are for.                                   *)
THEOREM NeverStranded ==
  ASSUME MaxRequests = 1, MayLosePublish = FALSE, MaxFaults < MaxRedeliveries
  PROVE  Spec => []CommandIsBacked
<1>1. BackedInv => CommandIsBacked
  <2> SUFFICES ASSUME BackedInv, log["run-requested"] # << >>
               PROVE  /\ task.status = "doing" => Reached("verdict") \/ Due("verdict")
                      /\ task.status = "review" => Reached("run.completed") \/ Due("run.completed")
    BY DEF CommandIsBacked, Reached, Due, Backs, Command
  <2>1. log["run-requested"] \in Seq(Message)
    BY DEF BackedInv, TurnsInv, RequestInv, RecordInv, IInv, TypeOK, LogType, Topics, Commands
  <2>2. 1 \in DOMAIN log["run-requested"]
    BY <2>1
  <2>3. Requested
    BY <2>2 DEF Requested, MessagesIn
  <2> QED BY <2>3 DEF BackedInv, BackedAt, StatusFor, Facts
<1>2. Init => BackedInv
  <2> SUFFICES ASSUME Init PROVE BackedInv
    OBVIOUS
  <2>1. ~Requested /\ FailuresCounted
    BY DEF Init, SagaInit, EmptyLog, Requested, MessagesIn, Topics, Commands, FailuresCounted
  <2> QED BY <2>1, TurnsInitially DEF BackedInv
<1>3. BackedInv /\ [Next]_vars => BackedInv'
  BY BackedPreserved
<1> QED BY <1>1, <1>2, <1>3, PTL DEF Spec

=============================================================================
