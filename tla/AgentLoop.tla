------------------------------ MODULE AgentLoop ------------------------------
(***************************************************************************)
(* The driver between the setup and the teardown of the tools.  The        *)
(* simulated one plays a script of steps.  The LLM one asks the provider,  *)
(* puts each tool call and its result on record, until the model gives a   *)
(* final message, a cap is reached or the context ends (a stop, or the     *)
(* wall clock); what the model says is any of it.  As New builds it it has *)
(* no HTTP client, and its first round trip is a nil pointer: "llm".  The  *)
(* loop behind it is checked for a driver that has one: "client".          *)
(***************************************************************************)
EXTENDS RunTools, Sequences

CONSTANTS Drivers, MaxSteps, MaxToolCalls

ASSUME LoopAssumption ==
  /\ Drivers \subseteq {"simulated", "llm", "client"}
  /\ {MaxSteps, MaxToolCalls} \subseteq Nat

VARIABLES driver, loop, stepLog

loopVars == <<driver, loop, stepLog>>
agentLoopVars == <<toolVars, loopVars>>

StepKinds == {"reasoning", "tool_call", "message", "output", "error", "unavailable"}
Results == {"output", "error", "unavailable"}
NoLoop == [pc |-> "off", role |-> "none", gated |-> FALSE, calls |-> 0, out |-> "none",
           status |-> "none", verdict |-> "none"]

AgentLoopTypeOK ==
  /\ RunToolsTypeOK
  /\ driver \in Drivers
  /\ loop \in [pc : {"off", "script", "chat", "call", "tool", "result", "message"},
               role : {"none", "implementer", "reviewer"},
               gated : BOOLEAN, calls : 0 .. MaxToolCalls,
               out : Results \cup {"none"}, status : {"none", "done", "aborted", "stopped"},
               verdict : {"none", "approve", "request_changes"}]
  /\ stepLog \in Seq(StepKinds)

AgentLoopInit == RunToolsInit /\ driver \in Drivers /\ loop = NoLoop /\ stepLog = <<>>

(* Execute returns, and the deferred cleanup begins.                       *)
Finished(status, verdict) ==
  /\ loop' = [loop EXCEPT !.pc = "off", !.status = status, !.verdict = verdict]
  /\ Now("close")
  /\ UNCHANGED driver

Calling == UNCHANGED <<driver, toolRun>>
LoopOnly == UNCHANGED <<sandboxKind, worktree, branch, containers, runCount, ended, litter>>

(* The key and the rules the run goes with: a request that fails is none.  *)
FetchKey == BOOLEAN
FetchEnabledRules == SUBSET {"test-gate"}
runContext == [key : FetchKey, rules : FetchEnabledRules]

(* Execute begins.  The LLM driver ends at once for want of a key; the     *)
(* simulated one asks whether test-gate is among the rules.                *)
Execute ==
  /\ toolRun.pc = "running" /\ loop.pc = "off"
  /\ \E role \in {"implementer", "reviewer"}, rc \in runContext :
       \/ /\ driver = "simulated"
          /\ loop' = [NoLoop EXCEPT !.pc = "script", !.role = role, !.gated = "test-gate" \in rc.rules]
          /\ UNCHANGED toolRun
       \/ /\ driver # "simulated" /\ rc.key
          /\ loop' = [NoLoop EXCEPT !.pc = "chat", !.role = role]
          /\ UNCHANGED toolRun
       \/ /\ driver # "simulated" /\ ~rc.key
          /\ loop' = [NoLoop EXCEPT !.role = role, !.status = "aborted"]
          /\ Now("close")
  /\ LoopOnly /\ UNCHANGED <<driver, processes, stepLog, toolFaults>>

(* The simulated driver.  Nothing counts its steps; the context is looked  *)
(* at after a step when there is a delay.                                  *)
Script ==
  LET tool == <<"tool_call", "output">>
      told == IF loop.role = "reviewer" THEN <<"message">> ELSE <<>>
  IN <<"reasoning", "message">> \o (IF loop.gated THEN tool \o tool ELSE tool)
       \o <<"message">> \o told

decideVerdict(role) == IF role = "reviewer" THEN {"approve", "request_changes"} ELSE {"none"}

(* A step that could not be recorded ends either driver.  The simulated    *)
(* reviewer has made up its mind before its last step.                     *)
aborted(verdict) == Finished(IF ended # "no" THEN "stopped" ELSE "aborted", verdict)
finishOnStepErr == aborted("none")

Decided == loop.role = "reviewer" /\ Len(stepLog) = Len(Script) - 1

Play ==
  /\ loop.pc = "script"
  /\ IF Len(stepLog) = Len(Script)
     THEN (\E v \in decideVerdict(loop.role) : Finished("done", v)) /\ UNCHANGED <<stepLog, toolFaults>>
     ELSE \/ /\ UnderContextFails
             /\ IF Decided THEN \E v \in decideVerdict(loop.role) : aborted(v) ELSE aborted("none")
             /\ UNCHANGED stepLog
          \/ /\ UnderContextHolds
             /\ stepLog' = Append(stepLog, Script[Len(stepLog) + 1])
             /\ Calling /\ UNCHANGED loop
  /\ LoopOnly /\ UNCHANGED processes

(* One turn.  A round trip the context cut short is an error like another. *)
(* The turns need no count: one with a tool call leaves two steps, so the  *)
(* cap on steps comes before the bound of the loop.                        *)
chat ==
  /\ loop.pc = "chat"
  /\ \/ ended # "no" /\ Finished("stopped", "none")
     \/ driver = "client" /\ Finished("aborted", "none")
     \/ /\ driver = "client" /\ ended = "no"
        /\ \/ loop' = [loop EXCEPT !.pc = "message"]
           \/ \E n \in 1 .. MaxToolCalls : loop' = [loop EXCEPT !.pc = "call", !.calls = n]
        /\ Calling
  /\ LoopOnly /\ UNCHANGED <<processes, stepLog, toolFaults>>

(* Nothing recovers in a run's goroutine: the whole Executor stops.        *)
ChatPanics ==
  /\ loop.pc = "chat" /\ driver = "llm" /\ ended = "no"
  /\ Die
  /\ loop' = NoLoop
  /\ UNCHANGED <<driver, stepLog, toolFaults>>

OverCapByOne(seq) == seq > MaxSteps + 1
OverCap(seq) == seq > MaxSteps

(* A step is recorded, or the cap, the table or the context says no.  The  *)
(* table is written under the task's context, which the wall clock is not  *)
(* part of; afterwards either ends the loop.                               *)
emit(kind, Continue) ==
  LET seq == Len(stepLog) + 1 IN
  \/ OverCap(seq) /\ finishOnStepErr /\ UNCHANGED <<stepLog, toolFaults>>
  \/ ~OverCap(seq) /\ UnderContextFails /\ finishOnStepErr /\ UNCHANGED stepLog
  \/ /\ ~OverCap(seq) /\ UnderContextHolds
     /\ stepLog' = Append(stepLog, kind)
     /\ IF ended = "no" THEN Continue ELSE finishOnStepErr

EmitCall ==
  /\ loop.pc = "call"
  /\ emit("tool_call", loop' = [loop EXCEPT !.pc = "tool"] /\ Calling)
  /\ LoopOnly /\ UNCHANGED processes

Result(out) == loop' = [loop EXCEPT !.pc = "result", !.out = out]

(* One request to a server over its pipes.  One that times out or is cut   *)
(* short kills the server, and later requests to it fail.                  *)
call(s) ==
  \/ s \in processes /\ ended = "no" /\ UNCHANGED processes /\ Result("output")
  \/ UNCHANGED processes /\ Result("error")
  \/ kill(s) /\ Result("error")

(* A tool no server has is an error of the first like any other.           *)
BridgeCall == toolRun.tools /\ \E s \in toolRun.conns : call(s)

(* A built-in tool.  A command is aborted with the context; the files are  *)
(* the host's and do not ask for it.                                       *)
RunCommand == (ended = "no" /\ Result("output")) \/ Result("error")
HostFile == Result("output") \/ Result("error")

Builtin ==
  /\ toolRun.exec # "none"
  /\ RunCommand \/ HostFile
  /\ UNCHANGED processes

Unavailable ==
  /\ toolRun.exec = "none" \/ ~toolRun.tools
  /\ Result("unavailable")
  /\ UNCHANGED processes

dispatchTool ==
  /\ loop.pc = "tool"
  /\ BridgeCall \/ Builtin \/ Unavailable
  /\ Calling /\ LoopOnly /\ UNCHANGED <<stepLog, toolFaults>>

EmitResult ==
  /\ loop.pc = "result"
  /\ emit(loop.out, /\ loop' = [loop EXCEPT !.pc = IF loop.calls = 1 THEN "chat" ELSE "call",
                                            !.calls = @ - 1, !.out = "none"]
                    /\ Calling)
  /\ LoopOnly /\ UNCHANGED processes

EmitMessage ==
  /\ loop.pc = "message"
  /\ emit("message", \E v \in decideVerdict(loop.role) : Finished("done", v))
  /\ LoopOnly /\ UNCHANGED processes

WallClock ==
  /\ loop.pc \notin {"off", "script"} /\ ended = "no"
  /\ ended' = "clock"
  /\ UNCHANGED <<sandboxKind, worktree, branch, containers, processes, toolRun,
                 runCount, litter, toolFaults, loopVars>>

(* The deferred cleanup; what the run reported is not looked at again.     *)
CleanUpAfter == envClose /\ loop' = NoLoop /\ stepLog' = <<>> /\ UNCHANGED driver

AgentLoopNext ==
  \/ (SetupTools \/ Provision \/ StopRun) /\ UNCHANGED loopVars
  \/ CleanUpAfter
  \/ ExecutorStops /\ loop' = NoLoop /\ stepLog' = <<>> /\ UNCHANGED driver
  \/ Execute \/ Play \/ chat \/ ChatPanics \/ EmitCall \/ dispatchTool \/ EmitResult \/ EmitMessage \/ WallClock

AgentLoopSpec == AgentLoopInit /\ [][AgentLoopNext]_agentLoopVars

-----------------------------------------------------------------------------
(* How a run ended agrees with the steps it left.  Done means the script   *)
(* played to its end, or the model's final message on record, and nothing  *)
(* after it; a verdict is a reviewer's that is done, or that failed to     *)
(* record the very last step of the script; stopped, that the context did  *)
(* end.  The LLM driver keeps its cap and puts every result right after    *)
(* its call (llm.go:57-133, driver.go:144-247).                            *)
EndingsAreHonest ==
  LET last == Len(stepLog) IN
  /\ loop.status = "done" => IF driver = "simulated" THEN stepLog = Script ELSE stepLog[last] = "message"
  /\ loop.verdict # "none" =>
       /\ loop.role = "reviewer"
       /\ loop.status = "done" \/ (driver = "simulated" /\ last = Len(Script) - 1)
  /\ loop.status = "stopped" => ended # "no"
  /\ driver # "simulated" =>
       /\ last <= MaxSteps
       /\ \A i \in 1 .. last :
            /\ stepLog[i] \in Results <=> i % 2 = 0
            /\ stepLog[i] = "message" => i = last /\ loop.status \in {"none", "done", "stopped"}

=============================================================================
