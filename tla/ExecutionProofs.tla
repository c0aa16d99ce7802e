--------------------------- MODULE ExecutionProofs ---------------------------
(***************************************************************************)
(* Proofs about what happens inside a run: the tools it is given, the      *)
(* driver's loop and the live stream of its steps; for any servers, runs,  *)
(* steps, tool calls and faults.                                           *)
(***************************************************************************)
EXTENDS AgentLoop, StepStream, SequenceTheorems, FiniteSetTheorems, TLAPS

(* Where a run that still has its container, its worktree or its servers   *)
(* may be.  What is on no such run has been given up on.                   *)
ContainerHeld ==
  \/ toolRun.pc = "start"
  \/ toolRun.exec = "docker" /\ toolRun.pc \in {"bridge", "running", "close"}

WorktreeHeld ==
  \/ toolRun.pc \in {"create", "start"}
  \/ toolRun.exec # "none" /\ toolRun.pc \in {"bridge", "running", "close", "remove"}

ServersHeld ==
  \/ toolRun.pc = "bridge"
  \/ toolRun.tools /\ toolRun.pc \in {"running", "close", "remove", "hangup"}

Accounted ==
  /\ containers # {} => "container" \in litter \/ (ContainerHeld /\ containers = {runCount})
  /\ worktree => "worktree" \in litter \/ WorktreeHeld
  /\ processes # {} => "process" \in litter \/ (ServersHeld /\ processes \subseteq toolRun.conns)

(* The types of RunTools in two halves: the ones that count, and the rest. *)
ToolCounts ==
  /\ containers \subseteq 1 .. MaxToolRuns
  /\ runCount \in 0 .. MaxToolRuns
  /\ toolFaults \in 0 .. MaxToolFaults
  /\ toolRun.pc # "none" => runCount # 0

ToolTypes ==
  /\ sandboxKind \in {"none", "local", "docker"}
  /\ worktree \in BOOLEAN
  /\ branch \in BOOLEAN
  /\ processes \subseteq Servers
  /\ toolRun \in [pc : {"none", "sandbox", "create", "start", "bridge", "running",
                        "close", "remove", "hangup"},
                  exec : {"none", "local", "docker"}, rest : SUBSET Servers,
                  conns : SUBSET Servers, tools : BOOLEAN]
  /\ ended \in {"no", "stop", "clock"}
  /\ litter \subseteq Belongings

ToolsInv == ToolCounts /\ ToolTypes /\ Accounted

-----------------------------------------------------------------------------
(* Nothing is there before the first run.                                  *)
LEMMA ToolsInitHold == RunToolsInit => ToolsInv
<1>1. RunToolsInit => ToolTypes
  <2>1. RunToolsInit => worktree \in BOOLEAN /\ branch \in BOOLEAN
    BY DEF RunToolsInit
  <2>2. RunToolsInit => litter \subseteq Belongings /\ processes \subseteq Servers
    BY DEF RunToolsInit
  <2> QED BY <2>1, <2>2 DEF RunToolsInit, ToolTypes, NoRun
<1>2. RunToolsInit => ToolCounts
  <2>1. RunToolsInit => containers = {} /\ runCount = 0 /\ toolFaults = 0 /\ toolRun.pc = "none"
    BY DEF RunToolsInit, NoRun
  <2> QED BY <2>1, ToolsAssumption DEF ToolCounts
<1>3. RunToolsInit => Accounted
  BY DEF RunToolsInit, Accounted, NoRun
<1> QED BY <1>1, <1>2, <1>3 DEF ToolsInv

(* The setup of the sandbox accounts for what it makes.                    *)
LEMMA SandboxAccounted ==
  ToolsInv /\ (SetupTools \/ addWorktree \/ createAndStart) => ToolsInv'
<1>1. ASSUME ToolsInv, SetupTools PROVE ToolsInv'
  <2>0. ToolCounts /\ ToolTypes /\ Accounted
    BY <1>1 DEF ToolsInv
  <2> USE DEF SetupTools, NoRun, Enabled
  <2>1. ToolCounts'
    <3>1. /\ UNCHANGED <<containers, toolFaults>>
          /\ runCount < MaxToolRuns /\ runCount' = runCount + 1
      BY <1>1
    <3>2. /\ MaxToolRuns \in Nat /\ runCount \in 0 .. MaxToolRuns
          /\ containers \subseteq 1 .. MaxToolRuns /\ toolFaults \in 0 .. MaxToolFaults
      BY <2>0, ToolsAssumption DEF ToolCounts
    <3>3. runCount' \in 0 .. MaxToolRuns /\ runCount' # 0
      BY <3>1, <3>2
    <3> QED BY <3>1, <3>2, <3>3 DEF ToolCounts
  <2>2. ToolTypes'
    BY <2>0, <1>1 DEF ToolTypes, Belongings
  <2>3. Accounted'
    BY <2>0, <1>1 DEF ToolCounts, ToolTypes, Accounted, ContainerHeld, WorktreeHeld, ServersHeld
  <2> QED BY <2>1, <2>2, <2>3 DEF ToolsInv
<1>2. ASSUME ToolsInv, addWorktree PROVE ToolsInv'
  <2>0. ToolCounts /\ ToolTypes /\ Accounted
    BY <1>2 DEF ToolsInv
  <2> USE DEF addWorktree, UnderContextHolds, UnderContextFails, Now, Keep, Leave
  <2>1. ToolCounts'
    BY <2>0, <1>2, ToolsAssumption DEF ToolCounts, ToolTypes, ToolFault, NoToolFault
  <2>2. ToolTypes'
    BY <2>0, <1>2 DEF ToolTypes, Belongings
  <2>3. Accounted'
    <3>1. containers' = containers /\ processes' = processes /\ litter \subseteq litter'
      BY <1>2
    <3>2. worktree' => "worktree" \in litter' \/ WorktreeHeld'
      BY <2>0, <1>2 DEF ToolTypes, Accounted, WorktreeHeld
    <3>3. containers # {} => "container" \in litter
      BY <2>0, <1>2 DEF Accounted, ContainerHeld
    <3>4. processes # {} => "process" \in litter
      BY <2>0, <1>2 DEF Accounted, ServersHeld
    <3> QED BY <3>1, <3>2, <3>3, <3>4 DEF Accounted
  <2> QED BY <2>1, <2>2, <2>3 DEF ToolsInv
<1>3. ASSUME ToolsInv, createAndStart PROVE ToolsInv'
  <2>0. ToolCounts /\ ToolTypes /\ Accounted
    BY <1>3 DEF ToolsInv
  <2> USE DEF createAndStart, UnderContextHolds, UnderContextFails, Now, Keep, CleanUp
  <2>1. ToolCounts'
    BY <2>0, <1>3, ToolsAssumption DEF ToolCounts, ToolTypes, ToolFault, NoToolFault
  <2>2. ToolTypes'
    BY <2>0, <1>3 DEF ToolTypes, Belongings
  <2>3. Accounted'
    BY <2>0, <1>3 DEF ToolCounts, ToolTypes, Accounted, ContainerHeld, WorktreeHeld, ServersHeld
  <2> QED BY <2>1, <2>2, <2>3 DEF ToolsInv
<1> QED BY <1>1, <1>2, <1>3

(* So do the bridge and the teardown.                                      *)
LEMMA TeardownAccounted ==
  ToolsInv /\ (BridgeNew \/ Ready \/ envClose \/ removeWorktree \/ bridgeClose) => ToolsInv'
<1>1. ASSUME ToolsInv, BridgeNew PROVE ToolsInv'
  <2>0. ToolCounts /\ ToolTypes /\ Accounted
    BY <1>1 DEF ToolsInv
  <2>6. /\ toolRun.pc = "bridge"
        /\ UNCHANGED <<sandboxKind, worktree, branch, containers, runCount, ended, litter, toolFaults>>
    BY <1>1 DEF BridgeNew
  <2>4. PICK s \in toolRun.rest :
           \/ /\ toolRun' = [toolRun EXCEPT !.rest = @ \ {s}]
              /\ UNCHANGED processes
           \/ \E tools \in BOOLEAN :
                /\ processes' = processes \cup {s}
                /\ toolRun' = [toolRun EXCEPT !.rest = @ \ {s}, !.conns = @ \cup {s},
                                              !.tools = tools]
    <3> DEFINE s == CHOOSE v \in toolRun.rest : TRUE
    <3>1. s \in toolRun.rest
      BY <1>1 DEF BridgeNew
    <3>2. \A listed : (toolRun.tools \/ listed = "tools") \in BOOLEAN
      BY <2>0 DEF ToolTypes
    <3> QED BY <2>0, <1>1, <3>1, <3>2 DEF BridgeNew, dial
  <2>5. s \in Servers
    BY <2>0 DEF ToolTypes
  <2>1. ToolCounts'
    BY <2>0, <2>6, <2>4 DEF ToolCounts, ToolTypes
  <2>2. ToolTypes'
    BY <2>0, <2>6, <2>4, <2>5 DEF ToolTypes
  <2>3. Accounted'
    BY <2>0, <2>6, <2>4 DEF ToolTypes, Accounted, ContainerHeld, WorktreeHeld, ServersHeld
  <2> QED BY <2>1, <2>2, <2>3 DEF ToolsInv
<1>2. ASSUME ToolsInv, Ready PROVE ToolsInv'
  <2>0. ToolCounts /\ ToolTypes /\ Accounted
    BY <1>2 DEF ToolsInv
  <2> USE DEF Ready, Now, Keep, Leave
  <2>1. ToolCounts'
    BY <2>0, <1>2, ToolsAssumption DEF ToolCounts, ToolTypes, ToolFault, NoToolFault
  <2>2. ToolTypes'
    BY <2>0, <1>2 DEF ToolTypes, Belongings
  <2>3. Accounted'
    BY <2>0, <1>2 DEF ToolCounts, ToolTypes, Accounted, ContainerHeld, WorktreeHeld, ServersHeld
  <2> QED BY <2>1, <2>2, <2>3 DEF ToolsInv
<1>3. ASSUME ToolsInv, envClose PROVE ToolsInv'
  <2>0. ToolCounts /\ ToolTypes /\ Accounted
    BY <1>3 DEF ToolsInv
  <2> USE DEF envClose, Now, Keep, Leave, Torn
  <2>1. ToolCounts'
    BY <2>0, <1>3, ToolsAssumption DEF ToolCounts, ToolTypes, ToolFault, NoToolFault
  <2>2. ToolTypes'
    BY <2>0, <1>3 DEF ToolTypes, Belongings
  <2>3. Accounted'
    BY <2>0, <1>3 DEF ToolCounts, ToolTypes, Accounted, ContainerHeld, WorktreeHeld, ServersHeld
  <2> QED BY <2>1, <2>2, <2>3 DEF ToolsInv
<1>4. ASSUME ToolsInv, removeWorktree PROVE ToolsInv'
  <2>0. ToolCounts /\ ToolTypes /\ Accounted
    BY <1>4 DEF ToolsInv
  <2> USE DEF removeWorktree, Now, Keep, Leave, Torn
  <2>1. ToolCounts'
    BY <2>0, <1>4, ToolsAssumption DEF ToolCounts, ToolTypes, ToolFault, NoToolFault
  <2>2. ToolTypes'
    BY <2>0, <1>4 DEF ToolTypes, Belongings
  <2>3. Accounted'
    BY <2>0, <1>4 DEF ToolCounts, ToolTypes, Accounted, ContainerHeld, WorktreeHeld, ServersHeld
  <2> QED BY <2>1, <2>2, <2>3 DEF ToolsInv
<1>5. ASSUME ToolsInv, bridgeClose PROVE ToolsInv'
  <2>0. ToolCounts /\ ToolTypes /\ Accounted
    BY <1>5 DEF ToolsInv
  <2> USE DEF bridgeClose, NoRun
  <2>1. ToolCounts'
    BY <2>0, <1>5, ToolsAssumption DEF ToolCounts, ToolTypes, ToolFault, NoToolFault
  <2>2. ToolTypes'
    BY <2>0, <1>5 DEF ToolTypes, Belongings
  <2>3. Accounted'
    BY <2>0, <1>5 DEF ToolCounts, ToolTypes, Accounted, ContainerHeld, WorktreeHeld, ServersHeld
  <2> QED BY <2>1, <2>2, <2>3 DEF ToolsInv
<1> QED BY <1>1, <1>2, <1>3, <1>4, <1>5

(* A stop changes nothing of it, and an Executor that stops gives all up.  *)
LEMMA StopAccounted ==
  ToolsInv /\ (StopRun \/ (Die /\ (ToolFault \/ NoToolFault))) => ToolsInv'
<1>1. ASSUME ToolsInv, StopRun PROVE ToolsInv'
  <2>0. ToolCounts /\ ToolTypes /\ Accounted
    BY <1>1 DEF ToolsInv
  <2> USE DEF StopRun
  <2>1. ToolCounts' /\ ToolTypes'
    BY <2>0, <1>1 DEF ToolCounts, ToolTypes
  <2>2. Accounted'
    BY <2>0, <1>1 DEF Accounted, ContainerHeld, WorktreeHeld, ServersHeld
  <2> QED BY <2>1, <2>2 DEF ToolsInv
<1>2. ASSUME ToolsInv, Die /\ (ToolFault \/ NoToolFault) PROVE ToolsInv'
  <2>0. ToolCounts /\ ToolTypes /\ Accounted
    BY <1>2 DEF ToolsInv
  <2> USE DEF Die, NoRun
  <2>1. ToolTypes'
    BY <2>0, <1>2 DEF ToolTypes
  <2>2. ToolCounts'
    <3>1. toolFaults' \in 0 .. MaxToolFaults
      BY <2>0, <1>2, ToolsAssumption DEF ToolCounts, ToolFault, NoToolFault
    <3> QED BY <2>0, <1>2, <3>1 DEF ToolCounts
  <2>3. Accounted'
    BY <1>2 DEF Accounted, Belongings
  <2> QED BY <2>1, <2>2, <2>3 DEF ToolsInv
<1> QED BY <1>1, <1>2

(* The driver may kill a server, and it ends the run once it has begun.    *)
LEMMA DriverAccounted ==
  ASSUME ToolsInv, UNCHANGED <<sandboxKind, worktree, branch, containers, runCount, litter>>,
         ended' \in {"no", "stop", "clock"}, toolFaults' \in 0 .. MaxToolFaults,
         processes' \subseteq processes,
         toolRun' = toolRun \/ (toolRun.pc = "running" /\ Now("close"))
  PROVE  ToolsInv'
<1>0. ToolCounts /\ ToolTypes /\ Accounted
  BY DEF ToolsInv
<1>1. ToolTypes'
  BY <1>0 DEF ToolTypes, Now
<1>2. ToolCounts'
  BY <1>0 DEF ToolTypes, ToolCounts, Now
<1>3. Accounted'
  BY <1>0 DEF ToolTypes, Accounted, Now, ContainerHeld, WorktreeHeld, ServersHeld
<1> QED BY <1>1, <1>2, <1>3 DEF ToolsInv

-----------------------------------------------------------------------------
(* What the LLM driver has put on record: as many steps as the cap allows, *)
(* a result after each call.                                               *)
Paired(log) ==
  /\ Len(log) <= MaxSteps
  /\ \A i \in 1 .. Len(log) : log[i] \in Results <=> i % 2 = 0

Unanswered(log) == \A i \in 1 .. Len(log) : log[i] # "message"

LoopTypes ==
  /\ driver \in Drivers
  /\ loop \in [pc : {"off", "script", "chat", "call", "tool", "result", "message"},
               role : {"none", "implementer", "reviewer"},
               gated : BOOLEAN, calls : 0 .. MaxToolCalls,
               out : Results \cup {"none"}, status : {"none", "done", "aborted", "stopped"},
               verdict : {"none", "approve", "request_changes"}]
  /\ stepLog \in Seq(StepKinds)

(* A driver runs while its run does, leaves nothing behind it, and has not *)
(* ended before it ends.                                                   *)
LoopPlace ==
  /\ loop.pc # "off" => toolRun.pc = "running" /\ loop.status = "none" /\ loop.verdict = "none"
  /\ loop.pc = "off" /\ toolRun.pc # "close" => loop = NoLoop /\ stepLog = <<>>
  /\ loop.pc \in {"call", "tool", "result"} => loop.calls # 0
  /\ loop.pc = "result" => loop.out # "none"

(* The simulated driver is where the script is, the other where its turns  *)
(* are, and the one without an HTTP client nowhere yet.                    *)
LogInHand ==
  /\ loop.pc = "script" =>
       /\ driver = "simulated"
       /\ Len(stepLog) <= Len(Script)
       /\ \A i \in 1 .. Len(stepLog) : stepLog[i] = Script[i]
  /\ loop.pc \notin {"off", "script"} =>
       /\ driver # "simulated"
       /\ Unanswered(stepLog)
       /\ loop.pc \in {"tool", "result"} <=> Len(stepLog) % 2 = 1
  /\ driver # "simulated" => Paired(stepLog)
  /\ driver = "llm" => loop.pc \in {"off", "chat"} /\ stepLog = <<>>

LoopInv == LoopTypes /\ LoopPlace /\ LogInHand /\ EndingsAreHonest

(* A step is recorded at the place it is for.                              *)
LEMMA StepRecorded ==
  ASSUME NEW log \in Seq(StepKinds), Paired(log), Unanswered(log), Len(log) + 1 <= MaxSteps,
         NEW kind \in StepKinds, kind \in Results <=> Len(log) % 2 = 1
  PROVE  /\ Append(log, kind) \in Seq(StepKinds)
         /\ Len(Append(log, kind)) = Len(log) + 1
         /\ Paired(Append(log, kind))
         /\ \A i \in 1 .. Len(log) + 1 : Append(log, kind)[i] = "message" => i = Len(log) + 1
         /\ Append(log, kind)[Len(log) + 1] = kind
<1> DEFINE new == Append(log, kind)
<1>1. /\ new \in Seq(StepKinds) /\ Len(new) = Len(log) + 1 /\ Len(log) \in Nat
      /\ new[Len(log) + 1] = kind
      /\ \A i \in 1 .. Len(log) : new[i] = log[i]
  OBVIOUS
<1> HIDE DEF new
<1>2. \A i \in 1 .. Len(log) + 1 : i \in 1 .. Len(log) \/ i = Len(log) + 1
  BY <1>1
<1>3. (Len(log) + 1) % 2 = 0 <=> Len(log) % 2 = 1
  BY <1>1
<1>4. Paired(new)
  BY <1>1, <1>2, <1>3 DEF Paired
<1>5. \A i \in 1 .. Len(log) + 1 : new[i] = "message" => i = Len(log) + 1
  BY <1>1, <1>2 DEF Unanswered
<1> QED BY <1>1, <1>4, <1>5 DEF new

ScriptFor(role, gated) ==
  LET tool == <<"tool_call", "output">>
      told == IF role = "reviewer" THEN <<"message">> ELSE <<>>
  IN <<"reasoning", "message">> \o (IF gated THEN tool \o tool ELSE tool)
       \o <<"message">> \o told

(* The script is a list of steps.                                          *)
LEMMA ScriptOfSteps ==
  ASSUME NEW role, NEW gated
  PROVE  /\ ScriptFor(role, gated) \in Seq(StepKinds)
         /\ Len(ScriptFor(role, gated)) \in Nat
<1> DEFINE tool == <<"tool_call", "output">>
           told == IF role = "reviewer" THEN <<"message">> ELSE <<>>
           begun == <<"reasoning", "message">>
           used == IF gated THEN tool \o tool ELSE tool
<1>0. {"reasoning", "tool_call", "message", "output"} \subseteq StepKinds
  BY DEF StepKinds
<1>1. begun \in Seq(StepKinds) /\ tool \in Seq(StepKinds) /\ <<"message">> \in Seq(StepKinds)
  BY <1>0
<1>2. told \in Seq(StepKinds)
  BY <1>1, EmptySeq
<1> HIDE DEF begun, tool, told
<1>3. used \in Seq(StepKinds)
  BY <1>1, ConcatProperties
<1> HIDE DEF used
<1>4. begun \o used \o <<"message">> \o told \in Seq(StepKinds)
  BY <1>1, <1>2, <1>3, ConcatProperties
<1>5. ScriptFor(role, gated) = begun \o used \o <<"message">> \o told
  BY DEF ScriptFor, begun, used, tool, told
<1> QED BY <1>4, <1>5, LenProperties

(* It depends on the role and on the rule, which a run keeps.              *)
LEMMA ScriptKept ==
  ASSUME loop'.role = loop.role, loop'.gated = loop.gated
  PROVE  Script' = Script
BY DEF Script

(* A driver that ends as it should leaves an honest ending.                *)
LEMMA EndedHonestly ==
  ASSUME ToolsInv, LoopInv, loop.pc # "off",
         NEW status \in {"done", "aborted", "stopped"},
         NEW verdict \in {"none", "approve", "request_changes"},
         Finished(status, verdict),
         stepLog' \in Seq(StepKinds),
         status = "stopped" => ended' # "no",
         verdict # "none" =>
           /\ loop.role = "reviewer"
           /\ status = "done" \/ (driver = "simulated" /\ Len(stepLog') = Len(Script) - 1),
         status = "done" => IF driver = "simulated" THEN stepLog' = Script
                                                    ELSE stepLog'[Len(stepLog')] = "message",
         driver # "simulated" =>
           /\ Paired(stepLog')
           /\ \A i \in 1 .. Len(stepLog') :
                stepLog'[i] = "message" => i = Len(stepLog') /\ status # "aborted",
         driver # "llm" \/ stepLog' = <<>>
  PROVE  LoopInv'
<1>1. /\ loop'.pc = "off" /\ loop'.status = status /\ loop'.verdict = verdict
      /\ loop'.role = loop.role /\ loop'.gated = loop.gated
      /\ toolRun'.pc = "close" /\ driver' = driver
  BY DEF Finished, Now, LoopInv, LoopTypes, ToolsInv, ToolTypes
<1>2. LoopTypes'
  BY DEF Finished, LoopInv, LoopTypes
<1>3. LoopPlace'
  BY <1>1 DEF LoopPlace
<1>4. LogInHand'
  BY <1>1 DEF LogInHand
<1>5. Script' = Script
  BY <1>1, ScriptKept
<1>6. EndingsAreHonest'
  <2>1. loop'.status = "done" => IF driver' = "simulated" THEN stepLog' = Script'
                                                         ELSE stepLog'[Len(stepLog')] = "message"
    BY <1>1, <1>5
  <2>2. loop'.verdict # "none" =>
          /\ loop'.role = "reviewer"
          /\ loop'.status = "done" \/ (driver' = "simulated" /\ Len(stepLog') = Len(Script') - 1)
    BY <1>1, <1>5
  <2>3. loop'.status = "stopped" => ended' # "no"
    BY <1>1
  <2>4. driver' # "simulated" =>
          /\ Len(stepLog') <= MaxSteps
          /\ \A i \in 1 .. Len(stepLog') :
               /\ stepLog'[i] \in Results <=> i % 2 = 0
               /\ stepLog'[i] = "message" => i = Len(stepLog')
                                             /\ loop'.status \in {"none", "done", "stopped"}
    BY <1>1 DEF Paired
  <2> QED BY <2>1, <2>2, <2>3, <2>4 DEF EndingsAreHonest
<1> QED BY <1>2, <1>3, <1>4, <1>6 DEF LoopInv

(* So a driver that goes on goes on.                                       *)
LEMMA WentOnHonestly ==
  ASSUME LoopInv, UNCHANGED driver, loop.pc # "off", loop'.pc # "off",
         LoopTypes', LoopPlace', LogInHand',
         loop'.pc = "script" <=> loop.pc = "script"
  PROVE  LoopInv'
<1>1. loop'.status = "none" /\ loop'.verdict = "none"
  BY DEF LoopPlace
<1>2. driver' # "simulated" => Paired(stepLog') /\ Unanswered(stepLog')
  BY DEF LogInHand
<1>3. EndingsAreHonest'
  BY <1>1, <1>2 DEF EndingsAreHonest, Paired, Unanswered
<1> QED BY <1>3 DEF LoopInv

(* No driver, before a run and after one.                                  *)
LEMMA NothingLeft ==
  ASSUME LoopInv, driver' = driver, loop' = NoLoop, stepLog' = <<>>
  PROVE  LoopInv'
<1>1. Len(stepLog') = 0 /\ stepLog' \in Seq(StepKinds)
  OBVIOUS
<1>2. LoopTypes'
  BY <1>1, LoopAssumption DEF LoopInv, LoopTypes, NoLoop
<1>3. LoopPlace'
  BY DEF LoopPlace, NoLoop
<1>4. MaxSteps \in Nat
  BY LoopAssumption
<1>5. Paired(stepLog')
  BY <1>1, <1>4 DEF Paired
<1>6. LogInHand'
  BY <1>5 DEF LogInHand, NoLoop
<1>7. EndingsAreHonest'
  BY <1>1, <1>5 DEF EndingsAreHonest, NoLoop, Paired
<1> QED BY <1>2, <1>3, <1>6, <1>7 DEF LoopInv

(* Execute finds nothing of an earlier run, and begins with an empty log.  *)
LEMMA ExecuteHolds ==
  ASSUME ToolsInv, LoopInv, Execute
  PROVE  LoopInv' /\ ToolsInv'
<1>1. /\ toolRun.pc = "running" /\ loop.pc = "off"
      /\ UNCHANGED <<sandboxKind, worktree, branch, containers, runCount, ended, litter>>
      /\ UNCHANGED <<driver, processes, stepLog, toolFaults>>
      /\ toolRun' = toolRun \/ Now("close")
  BY DEF Execute, LoopOnly
<1>2. /\ loop = NoLoop /\ stepLog = <<>> /\ stepLog' = <<>>
      /\ LoopTypes /\ driver \in {"simulated", "llm", "client"}
      /\ ended \in {"no", "stop", "clock"} /\ toolFaults \in 0 .. MaxToolFaults
  BY <1>1, LoopAssumption DEF LoopInv, LoopPlace, LoopTypes, ToolsInv, ToolTypes, ToolCounts
<1>3. ToolsInv'
  BY <1>1, <1>2, DriverAccounted
<1>4. Len(stepLog') = 0 /\ Paired(stepLog') /\ Unanswered(stepLog')
  <2>1. Len(stepLog') = 0 /\ MaxSteps \in Nat
    BY <1>2, LoopAssumption
  <2> QED BY <2>1 DEF Paired, Unanswered
<1>5. PICK role \in {"implementer", "reviewer"}, gated \in BOOLEAN :
        \/ /\ driver = "simulated" /\ UNCHANGED toolRun
           /\ loop' = [NoLoop EXCEPT !.pc = "script", !.role = role, !.gated = gated]
        \/ /\ driver # "simulated" /\ UNCHANGED toolRun
           /\ loop' = [NoLoop EXCEPT !.pc = "chat", !.role = role]
        \/ /\ driver # "simulated" /\ Now("close")
           /\ loop' = [NoLoop EXCEPT !.role = role, !.status = "aborted"]
  <2>1. PICK role \in {"implementer", "reviewer"}, rc \in runContext :
          \/ /\ driver = "simulated"
             /\ loop' = [NoLoop EXCEPT !.pc = "script", !.role = role,
                                       !.gated = "test-gate" \in rc.rules]
             /\ UNCHANGED toolRun
          \/ /\ driver # "simulated"
             /\ loop' = [NoLoop EXCEPT !.pc = "chat", !.role = role]
             /\ UNCHANGED toolRun
          \/ /\ driver # "simulated"
             /\ loop' = [NoLoop EXCEPT !.role = role, !.status = "aborted"]
             /\ Now("close")
    BY Zenon DEF Execute
  <2>2. ("test-gate" \in rc.rules) \in BOOLEAN
    OBVIOUS
  <2> QED BY <2>1, <2>2, Zenon
<1>6. LoopTypes'
  BY <1>1, <1>2, <1>5, LoopAssumption DEF LoopTypes, NoLoop
<1>7. LoopPlace'
  BY <1>1, <1>2, <1>5 DEF LoopPlace, NoLoop, Now, ToolsInv, ToolTypes
<1>8. LogInHand'
  <2>1. loop'.pc \in {"script", "chat", "off"} /\ (loop'.pc = "script" <=> driver = "simulated")
    BY <1>5 DEF NoLoop
  <2>2. Len(stepLog') % 2 # 1
    BY <1>4
  <2>3. Len(stepLog') <= Len(Script)'
    <3>1. Len(Script)' \in Nat
      BY ScriptOfSteps DEF Script, ScriptFor
    <3> QED BY <1>4, <3>1
  <2> QED BY <1>1, <1>2, <1>4, <2>1, <2>2, <2>3 DEF LogInHand
<1>9. EndingsAreHonest'
  <2>1. /\ loop'.status \in {"none", "aborted"} /\ loop'.verdict = "none"
    BY <1>5 DEF NoLoop
  <2> QED BY <1>4, <2>1 DEF EndingsAreHonest, Paired
<1> QED BY <1>3, <1>6, <1>7, <1>8, <1>9 DEF LoopInv

(* A fault of the tools is one of the faults there may be.                 *)
LEMMA FaultsCounted ==
  ASSUME ToolCounts, UnderContextFails \/ UnderContextHolds \/ ToolFault \/ NoToolFault
  PROVE  toolFaults' \in 0 .. MaxToolFaults
BY ToolsAssumption DEF ToolCounts, UnderContextFails, UnderContextHolds, ToolFault, NoToolFault

(* Whatever the driver does, the tools stay accounted for.                 *)
LEMMA DriverKeepsTools ==
  ASSUME ToolsInv, LoopInv,
         Play \/ chat \/ EmitCall \/ dispatchTool \/ EmitResult \/ EmitMessage \/ WallClock
  PROVE  ToolsInv'
<1>1. UNCHANGED <<sandboxKind, worktree, branch, containers, runCount, litter>>
  BY DEF Play, chat, EmitCall, dispatchTool, EmitResult, EmitMessage, WallClock, LoopOnly
<1>2. ended' \in {"no", "stop", "clock"}
  BY DEF Play, chat, EmitCall, dispatchTool, EmitResult, EmitMessage, WallClock, LoopOnly,
         ToolsInv, ToolTypes
<1>3. processes' \subseteq processes
  BY DEF Play, chat, EmitCall, dispatchTool, EmitResult, EmitMessage, WallClock,
         BridgeCall, call, kill, Builtin, Unavailable
<1>4. toolFaults' \in 0 .. MaxToolFaults
  <2>1. toolFaults' = toolFaults \/ UnderContextFails \/ UnderContextHolds
    BY DEF Play, chat, EmitCall, dispatchTool, EmitResult, EmitMessage, WallClock, emit
  <2> QED BY <2>1, FaultsCounted DEF ToolsInv, NoToolFault
<1>5. loop.pc # "off"
  BY DEF Play, chat, EmitCall, dispatchTool, EmitResult, EmitMessage, WallClock
<1>6. toolRun.pc = "running"
  BY <1>5 DEF LoopInv, LoopPlace
<1>7. toolRun' = toolRun \/ Now("close")
  BY DEF Play, chat, EmitCall, dispatchTool, EmitResult, EmitMessage, WallClock, emit,
         Finished, finishOnStepErr, aborted, Calling
<1> QED BY <1>1, <1>2, <1>3, <1>4, <1>6, <1>7, DriverAccounted

(* The simulated driver plays the next step of the script, ends when there *)
(* is none, or with what it has when one cannot be recorded.               *)
LEMMA PlayHolds ==
  ASSUME ToolsInv, LoopInv, Play
  PROVE  LoopInv'
<1>0. /\ loop.pc = "script" /\ driver = "simulated" /\ UNCHANGED ended
      /\ LoopTypes /\ LoopPlace /\ stepLog \in Seq(StepKinds)
      /\ Script \in Seq(StepKinds) /\ Len(Script) \in Nat
      /\ Len(stepLog) <= Len(Script)
      /\ \A i \in 1 .. Len(stepLog) : stepLog[i] = Script[i]
  BY ScriptOfSteps DEF LoopInv, LoopTypes, LogInHand, Play, LoopOnly, Script, ScriptFor
<1>1. CASE Len(stepLog) = Len(Script) /\ UNCHANGED stepLog
           /\ \E v \in decideVerdict(loop.role) : Finished("done", v)
  <2>1. stepLog = Script
    BY <1>0, <1>1, SeqEqual
  <2>2. PICK v \in decideVerdict(loop.role) : Finished("done", v)
    BY <1>1
  <2>3. /\ v \in {"none", "approve", "request_changes"}
        /\ v # "none" => loop.role = "reviewer"
    BY <2>2 DEF decideVerdict
  <2> QED BY <1>0, <1>1, <2>1, <2>2, <2>3, EndedHonestly
<1>2. CASE UNCHANGED stepLog /\ \E v \in {"none"} \cup decideVerdict(loop.role) :
             aborted(v) /\ (v # "none" => Decided)
  <2>1. PICK v \in {"none"} \cup decideVerdict(loop.role) : aborted(v) /\ (v # "none" => Decided)
    BY <1>2
  <2>2. /\ v \in {"none", "approve", "request_changes"}
        /\ v # "none" => loop.role = "reviewer" /\ Len(stepLog) = Len(Script) - 1
    BY <2>1 DEF decideVerdict, Decided
  <2>3. PICK status \in {"stopped", "aborted"} :
          Finished(status, v) /\ (status = "stopped" => ended # "no")
    BY <2>1 DEF aborted
  <2> QED BY <1>0, <1>2, <2>2, <2>3, EndedHonestly
<1>3. CASE /\ Len(stepLog) # Len(Script) /\ UNCHANGED <<loop, driver, toolRun>>
           /\ stepLog' = Append(stepLog, Script[Len(stepLog) + 1])
  <2>1. Len(stepLog) \in Nat /\ Len(stepLog) + 1 \in 1 .. Len(Script)
    BY <1>0, <1>3
  <2>2. Script[Len(stepLog) + 1] \in StepKinds /\ Script' = Script
    BY <1>0, <1>3, <2>1, ElementOfSeq, ScriptKept
  <2>3. /\ stepLog' \in Seq(StepKinds) /\ Len(stepLog') = Len(stepLog) + 1
        /\ stepLog'[Len(stepLog) + 1] = Script[Len(stepLog) + 1]
        /\ \A i \in 1 .. Len(stepLog) : stepLog'[i] = stepLog[i]
    BY <1>0, <1>3, <2>2
  <2>4. Len(stepLog') <= Len(Script) /\ \A i \in 1 .. Len(stepLog') : stepLog'[i] = Script[i]
    BY <1>0, <2>1, <2>3
  <2>5. LoopTypes' /\ LoopPlace'
    BY <1>0, <1>3, <2>3 DEF LoopTypes, LoopPlace
  <2>6. LogInHand'
    BY <1>0, <1>3, <2>2, <2>4 DEF LogInHand
  <2> QED BY <1>0, <1>3, <2>5, <2>6, WentOnHonestly
<1>4. Play => \/ /\ Len(stepLog) = Len(Script) /\ UNCHANGED stepLog
                 /\ \E v \in decideVerdict(loop.role) : Finished("done", v)
              \/ /\ UNCHANGED stepLog
                 /\ \E v \in {"none"} \cup decideVerdict(loop.role) :
                      aborted(v) /\ (v # "none" => Decided)
              \/ /\ Len(stepLog) # Len(Script) /\ UNCHANGED <<loop, driver, toolRun>>
                 /\ stepLog' = Append(stepLog, Script[Len(stepLog) + 1])
  BY DEF Play, Calling
<1> QED BY <1>1, <1>2, <1>3, <1>4

(* What emit does: the run ends, with or without the step on record, or    *)
(* the step is on record and the loop goes on.                             *)
LEMMA EmitCases ==
  ASSUME ToolsInv, LoopInv, loop.pc \in {"call", "result", "message"}, UNCHANGED ended,
         NEW kind \in StepKinds, kind \in Results <=> loop.pc = "result",
         \/ UNCHANGED stepLog
         \/ ~OverCap(Len(stepLog) + 1) /\ stepLog' = Append(stepLog, kind)
  PROVE  /\ driver = "client"
         /\ stepLog' = stepLog \/ Len(stepLog') = Len(stepLog) + 1
         /\ stepLog' \in Seq(StepKinds)
         /\ Len(stepLog') \in Nat
         /\ Paired(stepLog')
         /\ stepLog' # stepLog => stepLog'[Len(stepLog')] = kind
         /\ \A i \in 1 .. Len(stepLog') :
              stepLog'[i] = "message" => i = Len(stepLog') /\ stepLog' # stepLog
<1>1. driver = "client"
  BY LoopAssumption DEF LoopInv, LoopTypes, LogInHand
<1>2. /\ stepLog \in Seq(StepKinds) /\ Paired(stepLog) /\ Unanswered(stepLog)
      /\ Len(stepLog) \in Nat
      /\ loop.pc = "result" <=> Len(stepLog) % 2 = 1
  BY <1>1, LenProperties DEF LoopInv, LoopTypes, LogInHand
<1>3. CASE UNCHANGED stepLog
  BY <1>1, <1>2, <1>3 DEF Unanswered
<1>4. CASE ~OverCap(Len(stepLog) + 1) /\ stepLog' = Append(stepLog, kind)
  <2>1. Len(stepLog) + 1 <= MaxSteps
    BY <1>2, <1>4, LoopAssumption DEF OverCap
  <2>2. kind \in Results <=> Len(stepLog) % 2 = 1
    BY <1>2
  <2>3. /\ stepLog' \in Seq(StepKinds) /\ Len(stepLog') = Len(stepLog) + 1 /\ Paired(stepLog')
        /\ \A i \in 1 .. Len(stepLog) + 1 : stepLog'[i] = "message" => i = Len(stepLog) + 1
        /\ stepLog'[Len(stepLog) + 1] = kind
    BY <1>2, <1>4, <2>1, <2>2, StepRecorded
  <2>4. stepLog' # stepLog
    BY <1>2, <2>3
  <2> QED BY <1>1, <1>2, <2>3, <2>4
<1> QED BY <1>3, <1>4

(* A loop that ends over a step has been stopped, or has told nothing.     *)
LEMMA EmitEnds ==
  ASSUME ToolsInv, LoopInv, loop.pc \in {"call", "result", "message"}, UNCHANGED ended,
         NEW kind \in StepKinds, kind \in Results <=> loop.pc = "result",
         finishOnStepErr,
         \/ UNCHANGED stepLog
         \/ ended # "no" /\ ~OverCap(Len(stepLog) + 1) /\ stepLog' = Append(stepLog, kind)
  PROVE  LoopInv'
<1>1. PICK status \in {"stopped", "aborted"} :
        Finished(status, "none") /\ (status = "stopped" <=> ended # "no")
  BY DEF finishOnStepErr, aborted
<1>2. /\ driver = "client" /\ stepLog' \in Seq(StepKinds) /\ Paired(stepLog')
      /\ \A i \in 1 .. Len(stepLog') :
           stepLog'[i] = "message" => i = Len(stepLog') /\ stepLog' # stepLog
  BY EmitCases
<1>3. stepLog' # stepLog => status # "aborted"
  BY <1>1
<1> QED BY <1>1, <1>2, <1>3, EndedHonestly

(* A turn with the provider.                                               *)
LEMMA ChatHolds ==
  ASSUME ToolsInv, LoopInv, chat
  PROVE  LoopInv'
<1>0. /\ loop.pc = "chat" /\ driver # "simulated" /\ UNCHANGED <<stepLog, ended>>
      /\ LoopTypes /\ LoopPlace /\ LogInHand /\ Paired(stepLog) /\ Unanswered(stepLog)
  BY DEF LoopInv, LogInHand, chat, LoopOnly
<1>1. CASE (Finished("stopped", "none") /\ ended # "no") \/ Finished("aborted", "none")
  BY <1>0, <1>1, EndedHonestly DEF LoopTypes, LogInHand, Unanswered
<1>2. ASSUME driver = "client", UNCHANGED <<driver, toolRun>>,
             NEW n \in 0 .. MaxToolCalls, NEW pc \in {"message", "call"},
             loop' = [loop EXCEPT !.pc = pc, !.calls = n],
             pc = "call" => n # 0
      PROVE  LoopInv'
  <2>1. /\ loop'.pc = pc /\ loop'.calls = n /\ loop'.status = loop.status
        /\ loop'.verdict = loop.verdict /\ loop'.out = loop.out
    BY <1>0, <1>2 DEF LoopTypes
  <2>2. LoopTypes'
    BY <1>0, <1>2 DEF LoopTypes
  <2>3. LoopPlace'
    BY <1>0, <1>2, <2>1 DEF LoopPlace
  <2>4. LogInHand'
    BY <1>0, <1>2, <2>1 DEF LogInHand
  <2> QED BY <1>0, <1>2, <2>1, <2>2, <2>3, <2>4, WentOnHonestly
<1>3. CASE driver = "client" /\ Calling /\ loop' = [loop EXCEPT !.pc = "message"]
  <2> DEFINE n == loop.calls
  <2>1. n \in 0 .. MaxToolCalls /\ loop' = [loop EXCEPT !.pc = "message", !.calls = n]
    BY <1>0, <1>3 DEF LoopTypes
  <2> HIDE DEF n
  <2> QED BY <1>2, <1>3, <2>1 DEF Calling
<1>4. CASE driver = "client" /\ Calling
           /\ \E n \in 1 .. MaxToolCalls : loop' = [loop EXCEPT !.pc = "call", !.calls = n]
  <2>1. PICK n \in 1 .. MaxToolCalls : loop' = [loop EXCEPT !.pc = "call", !.calls = n]
    BY <1>4
  <2>2. n \in 0 .. MaxToolCalls /\ n # 0
    BY LoopAssumption
  <2> QED BY <1>2, <1>4, <2>1, <2>2 DEF Calling
<1> QED BY <1>1, <1>3, <1>4 DEF chat

(* A tool call is put on record before the tool is asked.                  *)
LEMMA EmitCallHolds ==
  ASSUME ToolsInv, LoopInv, EmitCall
  PROVE  LoopInv'
<1>0. /\ loop.pc = "call" /\ UNCHANGED ended /\ LoopTypes /\ LoopPlace /\ LogInHand
      /\ "tool_call" \in StepKinds /\ "tool_call" \notin Results
      /\ stepLog \in Seq(StepKinds) /\ Len(stepLog) \in Nat
  BY LenProperties DEF LoopInv, LoopTypes, EmitCall, LoopOnly, StepKinds, Results
<1>1. CASE /\ ~OverCap(Len(stepLog) + 1) /\ stepLog' = Append(stepLog, "tool_call")
           /\ loop' = [loop EXCEPT !.pc = "tool"] /\ Calling
  <2>1. /\ driver = "client" /\ Len(stepLog') = Len(stepLog) + 1 /\ stepLog' \in Seq(StepKinds)
        /\ Paired(stepLog') /\ stepLog'[Len(stepLog')] = "tool_call"
        /\ \A i \in 1 .. Len(stepLog') : stepLog'[i] = "message" => i = Len(stepLog')
    <3>1. stepLog' # stepLog
      BY <1>0, <1>1
    <3> QED BY <1>0, <1>1, <3>1, EmitCases
  <2>2. Len(stepLog) % 2 = 0 /\ Len(stepLog') % 2 = 1
    BY <1>0, <2>1 DEF LogInHand
  <2>3. /\ loop'.pc = "tool" /\ loop'.calls = loop.calls /\ loop'.status = loop.status
        /\ loop'.verdict = loop.verdict
    BY <1>0, <1>1 DEF LoopTypes
  <2>4. LoopTypes'
    BY <1>0, <1>1, <2>1 DEF LoopTypes, Calling
  <2>5. LoopPlace'
    BY <1>0, <1>1, <2>3 DEF LoopPlace, Calling
  <2>6. Unanswered(stepLog')
    BY <2>1 DEF Unanswered
  <2>7. LogInHand'
    BY <1>1, <2>1, <2>2, <2>3, <2>6 DEF LogInHand, Calling
  <2> QED BY <1>0, <1>1, <2>3, <2>4, <2>5, <2>7, WentOnHonestly DEF Calling
<1>2. CASE /\ finishOnStepErr
           /\ \/ UNCHANGED stepLog
              \/ ended # "no" /\ ~OverCap(Len(stepLog) + 1) /\ stepLog' = Append(stepLog, "tool_call")
  BY <1>0, <1>2, EmitEnds
<1> QED BY <1>1, <1>2 DEF EmitCall, emit

(* Whatever becomes of the call, it has a result.                          *)
LEMMA DispatchHolds ==
  ASSUME ToolsInv, LoopInv, dispatchTool
  PROVE  LoopInv'
<1>1. PICK out \in Results : loop' = [loop EXCEPT !.pc = "result", !.out = out]
  BY DEF dispatchTool, BridgeCall, call, Builtin, RunCommand, HostFile, Unavailable, Result, Results
<1>2. /\ loop.pc = "tool" /\ UNCHANGED <<stepLog, driver, toolRun>>
      /\ LoopTypes /\ LoopPlace /\ LogInHand /\ out # "none"
  BY DEF LoopInv, dispatchTool, Calling, Results
<1>3. /\ loop'.pc = "result" /\ loop'.calls = loop.calls /\ loop'.status = loop.status
      /\ loop'.verdict = loop.verdict /\ loop'.out = out
  BY <1>1, <1>2 DEF LoopTypes
<1>4. LoopTypes'
  BY <1>1, <1>2 DEF LoopTypes
<1>5. LoopPlace'
  BY <1>2, <1>3 DEF LoopPlace
<1>6. LogInHand'
  BY <1>2, <1>3 DEF LogInHand
<1> QED BY <1>2, <1>3, <1>4, <1>5, <1>6, WentOnHonestly

(* The result is put on record, and the next call or the next turn is due. *)
LEMMA EmitResultHolds ==
  ASSUME ToolsInv, LoopInv, EmitResult
  PROVE  LoopInv'
<1>0. /\ loop.pc = "result" /\ UNCHANGED ended /\ LoopTypes /\ LoopPlace /\ LogInHand
      /\ loop.out \in StepKinds /\ loop.out \in Results
      /\ stepLog \in Seq(StepKinds) /\ Len(stepLog) \in Nat
  <2>1. loop.pc = "result" /\ UNCHANGED ended /\ LoopTypes /\ LoopPlace /\ LogInHand
    BY DEF LoopInv, EmitResult, LoopOnly
  <2>2. loop.out \in Results
    BY <2>1 DEF LoopTypes, LoopPlace
  <2> QED BY <2>1, <2>2, LenProperties DEF LoopTypes, StepKinds, Results
<1>1. CASE /\ ~OverCap(Len(stepLog) + 1) /\ stepLog' = Append(stepLog, loop.out)
           /\ loop' = [loop EXCEPT !.pc = IF loop.calls = 1 THEN "chat" ELSE "call",
                                   !.calls = @ - 1, !.out = "none"]
           /\ Calling
  <2>1. /\ driver = "client" /\ Len(stepLog') = Len(stepLog) + 1 /\ stepLog' \in Seq(StepKinds)
        /\ Paired(stepLog') /\ stepLog'[Len(stepLog')] = loop.out
        /\ \A i \in 1 .. Len(stepLog') : stepLog'[i] = "message" => i = Len(stepLog')
    <3>1. stepLog' # stepLog
      BY <1>0, <1>1
    <3> QED BY <1>0, <1>1, <3>1, EmitCases
  <2>2. Len(stepLog) % 2 = 1 /\ Len(stepLog') % 2 = 0
    BY <1>0, <2>1 DEF LogInHand
  <2>3. loop.calls \in 1 .. MaxToolCalls /\ loop.calls - 1 \in 0 .. MaxToolCalls
        /\ (loop.calls - 1 = 0 <=> loop.calls = 1)
    <3>1. loop.calls \in 0 .. MaxToolCalls /\ loop.calls # 0 /\ MaxToolCalls \in Nat
      BY <1>0, LoopAssumption DEF LoopTypes, LoopPlace
    <3> QED BY <3>1
  <2>4. PICK pc \in {"chat", "call"}, n \in 0 .. MaxToolCalls :
          /\ loop' = [loop EXCEPT !.pc = pc, !.calls = n, !.out = "none"]
          /\ pc = "call" => n # 0
    BY <1>0, <1>1, <2>3 DEF LoopTypes
  <2>5. /\ loop'.pc = pc /\ loop'.calls = n /\ loop'.status = loop.status
        /\ loop'.verdict = loop.verdict
    BY <1>0, <2>4 DEF LoopTypes
  <2>6. LoopTypes'
    BY <1>0, <1>1, <2>1, <2>4 DEF LoopTypes, Calling
  <2>7. LoopPlace'
    BY <1>0, <1>1, <2>4, <2>5 DEF LoopPlace, Calling
  <2>8. Unanswered(stepLog')
    <3>1. "message" \notin Results
      BY DEF Results
    <3> QED BY <1>0, <2>1, <3>1 DEF Unanswered
  <2>9. LogInHand'
    BY <1>1, <2>1, <2>2, <2>5, <2>8 DEF LogInHand, Calling
  <2> QED BY <1>0, <1>1, <2>5, <2>6, <2>7, <2>9, WentOnHonestly DEF Calling
<1>2. CASE /\ finishOnStepErr
           /\ \/ UNCHANGED stepLog
              \/ ended # "no" /\ ~OverCap(Len(stepLog) + 1) /\ stepLog' = Append(stepLog, loop.out)
  BY <1>0, <1>2, EmitEnds
<1> QED BY <1>1, <1>2 DEF EmitResult, emit

(* The final message ends the run, done when it is on record in time.      *)
LEMMA EmitMessageHolds ==
  ASSUME ToolsInv, LoopInv, EmitMessage
  PROVE  LoopInv'
<1>0. /\ loop.pc = "message" /\ UNCHANGED ended
      /\ "message" \in StepKinds /\ "message" \notin Results
      /\ stepLog \in Seq(StepKinds) /\ Len(stepLog) \in Nat
  BY LenProperties DEF LoopInv, LoopTypes, EmitMessage, LoopOnly, StepKinds, Results
<1>1. CASE /\ ~OverCap(Len(stepLog) + 1) /\ stepLog' = Append(stepLog, "message")
           /\ \E v \in decideVerdict(loop.role) : Finished("done", v)
  <2>1. PICK v \in decideVerdict(loop.role) : Finished("done", v)
    BY <1>1
  <2>2. v \in {"none", "approve", "request_changes"} /\ (v # "none" => loop.role = "reviewer")
    BY DEF decideVerdict
  <2>3. stepLog' # stepLog
    BY <1>0, <1>1
  <2>4. /\ driver = "client" /\ stepLog' \in Seq(StepKinds)
        /\ Paired(stepLog') /\ stepLog'[Len(stepLog')] = "message"
        /\ \A i \in 1 .. Len(stepLog') : stepLog'[i] = "message" => i = Len(stepLog')
    BY <1>0, <1>1, <2>3, EmitCases
  <2> QED BY <1>0, <2>1, <2>2, <2>4, EndedHonestly
<1>2. CASE /\ finishOnStepErr
           /\ \/ UNCHANGED stepLog
              \/ ended # "no" /\ ~OverCap(Len(stepLog) + 1) /\ stepLog' = Append(stepLog, "message")
  BY <1>0, <1>2, EmitEnds
<1> QED BY <1>1, <1>2 DEF EmitMessage, emit

(* While the tools are set up, torn down or stopped the driver stands.     *)
LEMMA DriverStands ==
  ASSUME ToolsInv, LoopInv, UNCHANGED loopVars,
         SetupTools \/ Provision \/ StopRun \/ WallClock
  PROVE  LoopInv'
<1>1. /\ LoopTypes /\ LoopPlace /\ LogInHand /\ EndingsAreHonest
      /\ UNCHANGED <<driver, loop, stepLog>>
  BY DEF LoopInv, loopVars
<1>2. CASE SetupTools \/ Provision
  <2>1. toolRun.pc \notin {"running", "close"}
    BY <1>2 DEF SetupTools, Provision, addWorktree, createAndStart, BridgeNew, Ready,
                removeWorktree, bridgeClose
  <2>2. loop = NoLoop /\ loop.pc = "off" /\ stepLog = <<>>
    BY <1>1, <2>1 DEF LoopPlace
  <2> QED BY <1>1, <2>2, NothingLeft
<1>3. CASE StopRun \/ WallClock
  <2>1. UNCHANGED toolRun /\ ended' # "no"
    BY <1>3 DEF StopRun, WallClock
  <2>2. Script' = Script
    BY <1>1, ScriptKept
  <2>3. EndingsAreHonest'
    BY <1>1, <2>1, <2>2 DEF EndingsAreHonest
  <2>4. LoopPlace' /\ LoopTypes'
    BY <1>1, <2>1 DEF LoopPlace, LoopTypes
  <2>5. LogInHand'
    BY <1>1, <2>2 DEF LogInHand
  <2> QED BY <2>3, <2>4, <2>5 DEF LoopInv
<1> QED BY <1>2, <1>3

(* The invariant of a run's tools and driver.                              *)
RunInv == ToolsInv /\ LoopInv

(* A run begins with nothing.                                              *)
LEMMA RunInitHolds == AgentLoopInit => RunInv
<1> SUFFICES ASSUME AgentLoopInit PROVE RunInv
  OBVIOUS
<1>1. ToolsInv
  BY ToolsInitHold DEF AgentLoopInit
<1>2. /\ driver \in Drivers /\ loop = NoLoop /\ stepLog = <<>>
      /\ Len(stepLog) = 0 /\ stepLog \in Seq(StepKinds) /\ MaxSteps \in Nat
  BY LoopAssumption DEF AgentLoopInit
<1>3. LoopTypes
  BY <1>2, LoopAssumption DEF LoopTypes, NoLoop
<1>4. LoopPlace
  BY <1>2 DEF LoopPlace, NoLoop
<1>5. Paired(stepLog)
  BY <1>2 DEF Paired
<1>6. LogInHand
  BY <1>2, <1>5 DEF LogInHand, NoLoop
<1>7. EndingsAreHonest
  BY <1>2, <1>5 DEF EndingsAreHonest, NoLoop, Paired
<1> QED BY <1>1, <1>3, <1>4, <1>6, <1>7 DEF RunInv, LoopInv

(* Every step of a run keeps it.                                           *)
LEMMA RunNextHolds == RunInv /\ [AgentLoopNext]_agentLoopVars => RunInv'
<1> SUFFICES ASSUME ToolsInv, LoopInv, [AgentLoopNext]_agentLoopVars PROVE ToolsInv' /\ LoopInv'
  BY DEF RunInv
<1>1. CASE (SetupTools \/ Provision \/ StopRun) /\ UNCHANGED loopVars
  <2>1. ToolsInv'
    BY <1>1, SandboxAccounted, TeardownAccounted, StopAccounted DEF Provision
  <2> QED BY <1>1, <2>1, DriverStands
<1>2. CASE CleanUpAfter
  BY <1>2, TeardownAccounted, NothingLeft DEF CleanUpAfter
<1>3. CASE ExecutorStops /\ loop' = NoLoop /\ stepLog' = <<>> /\ UNCHANGED driver
  BY <1>3, StopAccounted, NothingLeft DEF ExecutorStops
<1>4. CASE ChatPanics
  <2>1. stepLog = <<>>
    BY <1>4 DEF ChatPanics, LoopInv, LogInHand
  <2> QED BY <1>4, <2>1, StopAccounted, NothingLeft DEF ChatPanics, NoToolFault
<1>5. CASE Execute
  BY <1>5, ExecuteHolds
<1>6. CASE Play \/ chat \/ EmitCall \/ dispatchTool \/ EmitResult \/ EmitMessage
  BY <1>6, DriverKeepsTools, PlayHolds, ChatHolds, EmitCallHolds, DispatchHolds,
     EmitResultHolds, EmitMessageHolds
<1>7. CASE WallClock
  BY <1>7, DriverKeepsTools, DriverStands DEF WallClock
<1>8. CASE UNCHANGED agentLoopVars
  <2>1. /\ UNCHANGED <<driver, loop, stepLog, toolRun, ended>>
        /\ UNCHANGED <<sandboxKind, worktree, branch, containers, processes, runCount, litter,
                       toolFaults>>
    BY <1>8 DEF agentLoopVars, loopVars, toolVars
  <2>2. ToolsInv'
    BY <2>1 DEF ToolsInv, ToolTypes, ToolCounts, Accounted, ContainerHeld, WorktreeHeld, ServersHeld
  <2>3. LoopInv'
    <3>1. Script' = Script
      BY <2>1, ScriptKept
    <3>2. LoopTypes' /\ LoopPlace'
      BY <2>1 DEF LoopInv, LoopTypes, LoopPlace
    <3>3. LogInHand' /\ EndingsAreHonest'
      BY <2>1, <3>1 DEF LoopInv, LogInHand, EndingsAreHonest
    <3> QED BY <3>2, <3>3 DEF LoopInv
  <2> QED BY <2>2, <2>3
<1> QED BY <1>1, <1>2, <1>3, <1>4, <1>5, <1>6, <1>7, <1>8 DEF AgentLoopNext

(* A run that is accounted for has its types.                              *)
LEMMA RunTypesHold == RunInv => AgentLoopTypeOK
<1>1. ToolTypes /\ ToolCounts => RunToolsTypeOK
  BY DEF ToolTypes, ToolCounts, RunToolsTypeOK
<1> QED BY <1>1 DEF RunInv, ToolsInv, LoopInv, LoopTypes, AgentLoopTypeOK

(* The types of a run's tools and of its driver, for any servers, drivers, *)
(* steps, tool calls, runs and faults.                                     *)
THEOREM RunTypes == AgentLoopSpec => []AgentLoopTypeOK
BY RunTypesHold, RunInitHolds, RunNextHolds, PTL DEF AgentLoopSpec

(* Nothing of a run is left when it is over that the code has not given up *)
(* on, whatever the driver does in between.                                *)
THEOREM TornDown == AgentLoopSpec => []ToolsTornDown
<1>1. RunInv => ToolsTornDown
  BY DEF RunInv, ToolsInv, Accounted, ContainerHeld, WorktreeHeld, ServersHeld, ToolsTornDown
<1> QED BY <1>1, RunInitHolds, RunNextHolds, PTL DEF AgentLoopSpec

(* How a run says it ended agrees with the steps it put on record.         *)
THEOREM HonestEndings == AgentLoopSpec => []EndingsAreHonest
<1>1. RunInv => EndingsAreHonest
  BY DEF RunInv, LoopInv
<1> QED BY <1>1, RunInitHolds, RunNextHolds, PTL DEF AgentLoopSpec

-----------------------------------------------------------------------------
(* The topic holds the steps in the order of the run, and the one in hand  *)
(* is later than all of them.                                              *)
Unpublished == IF stepInHand THEN 1 ELSE 0

HandHeld == stepInHand \in BOOLEAN /\ (stepInHand => stepRows # 0)

TopicInOrder ==
  /\ stepRows \in 0 .. MaxStreamSteps
  /\ stepTopic \in Seq(1 .. MaxStreamSteps)
  /\ Len(stepTopic) + Unpublished <= stepRows
  /\ \A i \in 1 .. Len(stepTopic) : stepTopic[i] + Unpublished <= stepRows
  /\ \A i, j \in 1 .. Len(stepTopic) : i < j => stepTopic[i] < stepTopic[j]

ConnType ==
  [pc : {"off", "replay", "join", "tail"}, seen : SUBSET Shown, sent : Seq(Shown),
   pos : 0 .. MaxStreamSteps, from : 0 .. MaxStreamSteps, committed : 0 .. NoOffset,
   got : SUBSET (1 .. MaxStreamSteps)]

(* A step later than everything that was sent.                             *)
After(sent, n) ==
  \A i \in 1 .. Len(sent) : sent[i].seq <= n /\ (sent[i].id = "event" => sent[i].seq < n)

(* A connection tails from one offset on, remembers what it has sent, and  *)
(* will not go back further than that: what it has not seen of the topic   *)
(* comes after everything it has sent.                                     *)
ConnInOrder(c) ==
  /\ c \in ConnType
  /\ c.pc \in {"off", "replay"} => c.sent = <<>>
  /\ c.pc # "tail" => c.committed = NoOffset
  /\ \A i \in 1 .. Len(c.sent) : c.sent[i] \in c.seen
  /\ \A i \in 1 .. Len(c.sent) : c.sent[i].seq <= stepRows
  /\ \A i \in 1 .. Len(c.sent) : c.sent[i].id = "event" => c.sent[i].seq + Unpublished <= stepRows
  /\ \A i, j \in 1 .. Len(c.sent) : i < j => c.sent[i].seq <= c.sent[j].seq /\ c.sent[i] # c.sent[j]
  /\ c.pc = "tail" =>
       /\ c.from <= c.pos
       /\ c.pos <= Len(stepTopic)
       /\ c.committed # NoOffset => c.from <= c.committed /\ c.committed <= c.pos
       /\ \A i \in (c.from + 1) .. c.pos : EventStep(stepTopic[i]) \in c.seen
       /\ \A i \in (c.pos + 1) .. Len(stepTopic) :
            EventStep(stepTopic[i]) \notin c.seen => After(c.sent, stepTopic[i])

StreamInv == HandHeld /\ TopicInOrder /\ ConnInOrder(conn)

(* A connection that has sent nothing is in order.                         *)
LEMMA OfflineInOrder ==
  ASSUME NEW pc \in {"off", "replay", "join"},
         NEW c, c = [pc |-> pc, seen |-> {}, sent |-> <<>>, pos |-> 0, from |-> 0,
                     committed |-> NoOffset, got |-> {}]
  PROVE  ConnInOrder(c)
<1>1. MaxStreamSteps \in Nat /\ NoOffset \in 0 .. NoOffset /\ 0 \in 0 .. MaxStreamSteps
  BY StreamAssumption DEF NoOffset
<1>2. <<>> \in Seq(Shown) /\ Len(<<>>) = 0
  OBVIOUS
<1>3. c \in ConnType
  BY <1>1, <1>2 DEF ConnType
<1>4. c.pc # "tail" /\ c.sent = <<>> /\ c.committed = NoOffset /\ c.seen = {}
  OBVIOUS
<1> QED BY <1>2, <1>3, <1>4 DEF ConnInOrder

(* Nothing has happened.                                                   *)
LEMMA StreamInitHolds == StreamInit => StreamInv
<1> SUFFICES ASSUME StreamInit PROVE StreamInv
  OBVIOUS
<1>1. MaxStreamSteps \in Nat /\ stepRows = 0 /\ stepTopic = <<>> /\ Unpublished = 0
  BY StreamAssumption DEF StreamInit, Unpublished
<1>2. stepTopic \in Seq(1 .. MaxStreamSteps) /\ Len(stepTopic) = 0
  BY <1>1
<1>3. TopicInOrder
  BY <1>1, <1>2 DEF TopicInOrder
<1>4. HandHeld
  BY DEF StreamInit, HandHeld
<1>5. ConnInOrder(conn)
  <2>1. conn = [pc |-> "off", seen |-> {}, sent |-> <<>>, pos |-> 0, from |-> 0,
                committed |-> NoOffset, got |-> {}]
    BY DEF StreamInit, Offline
  <2> QED BY <2>1, OfflineInOrder
<1> QED BY <1>3, <1>4, <1>5 DEF StreamInv

(* A step of the run is written, then published or lost: the topic and     *)
(* every connection stay in order.                                         *)
LEMMA PublishingHolds ==
  ASSUME StreamInv, AppendStep \/ PublishStep
  PROVE  StreamInv'
<1>h. HandHeld
  BY DEF StreamInv
<1>0. /\ stepRows \in Nat /\ stepRows \in 0 .. MaxStreamSteps
      /\ Len(stepTopic) \in Nat /\ stepTopic \in Seq(1 .. MaxStreamSteps)
      /\ MaxStreamSteps \in Nat
      /\ \A i \in 1 .. Len(stepTopic) : stepTopic[i] \in 1 .. MaxStreamSteps
      /\ TopicInOrder /\ ConnInOrder(conn)
  BY StreamAssumption, LenProperties DEF StreamInv, TopicInOrder
<1>c. /\ conn.sent \in Seq(Shown) /\ Len(conn.sent) \in Nat
      /\ \A i \in 1 .. Len(conn.sent) : conn.sent[i] \in Shown /\ conn.sent[i].seq \in Nat
      /\ conn.pos \in Nat /\ conn.from \in Nat
  <2>1. conn.sent \in Seq(Shown) /\ conn.pos \in Nat /\ conn.from \in Nat
    BY <1>0 DEF ConnInOrder, ConnType
  <2>2. \A i \in 1 .. Len(conn.sent) : conn.sent[i] \in Shown
    BY <2>1, ElementOfSeq
  <2> QED BY <2>1, <2>2, LenProperties DEF Shown
<1>1. CASE AppendStep
  <2>1. /\ stepRows' = stepRows + 1 /\ stepRows < MaxStreamSteps
        /\ UNCHANGED <<stepTopic, conn>>
    BY <1>1 DEF AppendStep
  <2>2. Unpublished = 0 /\ Unpublished' = 1
    BY <1>1 DEF Unpublished, AppendStep
  <2>5. HandHeld'
    BY <1>0, <1>1 DEF HandHeld, AppendStep
  <2>3. TopicInOrder'
    BY <1>0, <2>1, <2>2 DEF TopicInOrder
  <2>4. ConnInOrder(conn)'
    BY <1>0, <1>c, <2>1, <2>2 DEF ConnInOrder, After
  <2> QED BY <2>3, <2>4, <2>5 DEF StreamInv
<1>2. CASE PublishStep
  <2>1. /\ UNCHANGED <<stepRows, conn>>
        /\ stepTopic' = stepTopic \/ stepTopic' = Append(stepTopic, stepRows)
    BY <1>2 DEF PublishStep
  <2>2. Unpublished = 1 /\ Unpublished' = 0 /\ stepRows # 0
    BY <1>h, <1>2 DEF Unpublished, PublishStep, HandHeld
  <2>5. HandHeld'
    BY <1>2 DEF HandHeld, PublishStep
  <2>3. CASE stepTopic' = stepTopic
    <3>1. TopicInOrder'
      BY <1>0, <2>1, <2>2, <2>3 DEF TopicInOrder
    <3>2. ConnInOrder(conn)'
      BY <1>0, <1>c, <2>1, <2>2, <2>3 DEF ConnInOrder, After
    <3> QED BY <2>5, <3>1, <3>2 DEF StreamInv
  <2>4. CASE stepTopic' = Append(stepTopic, stepRows)
    <3>0. stepRows \in 1 .. MaxStreamSteps
      BY <1>0, <2>2
    <3>1. /\ stepTopic' \in Seq(1 .. MaxStreamSteps)
          /\ Len(stepTopic') = Len(stepTopic) + 1
          /\ \A i \in 1 .. Len(stepTopic) : stepTopic'[i] = stepTopic[i]
          /\ stepTopic'[Len(stepTopic) + 1] = stepRows
      BY <1>0, <2>4, <3>0
    <3>2. \A i \in 1 .. Len(stepTopic') : i \in 1 .. Len(stepTopic) \/ i = Len(stepTopic) + 1
      BY <1>0, <3>1
    <3>3. \A i \in 1 .. Len(stepTopic) : stepTopic[i] < stepRows
      BY <1>0, <2>2 DEF TopicInOrder
    <3>4. \A i \in 1 .. Len(stepTopic') : stepTopic'[i] <= stepRows
      BY <1>0, <3>1, <3>2, <3>3
    <3>5. \A i, j \in 1 .. Len(stepTopic') : i < j => stepTopic'[i] < stepTopic'[j]
      <4>1. \A i, j \in 1 .. Len(stepTopic) : i < j => stepTopic[i] < stepTopic[j]
        BY <1>0 DEF TopicInOrder
      <4> SUFFICES ASSUME NEW i \in 1 .. Len(stepTopic'), NEW j \in 1 .. Len(stepTopic'), i < j
                   PROVE  stepTopic'[i] < stepTopic'[j]
        OBVIOUS
      <4>2. i \in 1 .. Len(stepTopic)
        BY <1>0, <3>1
      <4>3. CASE j \in 1 .. Len(stepTopic)
        BY <3>1, <4>1, <4>2, <4>3
      <4>4. CASE j = Len(stepTopic) + 1
        BY <3>1, <3>3, <4>2, <4>4
      <4> QED BY <3>2, <4>3, <4>4
    <3>6. Len(stepTopic) + 1 <= stepRows
      BY <1>0, <2>2 DEF TopicInOrder
    <3>7. TopicInOrder'
      BY <1>0, <2>1, <2>2, <3>1, <3>4, <3>5, <3>6 DEF TopicInOrder
    <3>8. After(conn.sent, stepRows)
      BY <1>0, <1>c, <2>2 DEF ConnInOrder, After
    <3>9. ConnInOrder(conn)'
      <4>1. /\ \A i \in 1 .. Len(conn.sent) : conn.sent[i].id = "event" =>
                 conn.sent[i].seq + Unpublished' <= stepRows'
        BY <1>0, <1>c, <2>1, <2>2 DEF ConnInOrder
      <4>2. ASSUME conn.pc = "tail"
            PROVE  /\ conn.pos <= Len(stepTopic')
                   /\ \A i \in (conn.from + 1) .. conn.pos :
                        EventStep(stepTopic'[i]) \in conn.seen
                   /\ \A i \in (conn.pos + 1) .. Len(stepTopic') :
                        EventStep(stepTopic'[i]) \notin conn.seen => After(conn.sent, stepTopic'[i])
        <5>1. /\ conn.pos <= Len(stepTopic)
              /\ \A i \in (conn.from + 1) .. conn.pos : EventStep(stepTopic[i]) \in conn.seen
              /\ \A i \in (conn.pos + 1) .. Len(stepTopic) :
                   EventStep(stepTopic[i]) \notin conn.seen => After(conn.sent, stepTopic[i])
          BY <1>0, <4>2 DEF ConnInOrder
        <5>2. \A i \in (conn.from + 1) .. conn.pos : i \in 1 .. Len(stepTopic)
          BY <1>0, <1>c, <5>1
        <5>3. \A i \in (conn.pos + 1) .. Len(stepTopic') :
                i = Len(stepTopic) + 1 \/ (i \in 1 .. Len(stepTopic) /\ i \in (conn.pos + 1) .. Len(stepTopic))
          BY <1>0, <1>c, <3>1, <5>1
        <5>4. conn.pos <= Len(stepTopic')
          BY <1>0, <1>c, <3>1, <5>1
        <5> QED BY <3>1, <3>8, <5>1, <5>2, <5>3, <5>4
      <4> QED BY <1>0, <2>1, <4>1, <4>2 DEF ConnInOrder
    <3> QED BY <2>5, <3>7, <3>9 DEF StreamInv
  <2> QED BY <2>1, <2>3, <2>4
<1> QED BY <1>1, <1>2

(* A step nobody has seen yet is sent after the others.                    *)
LEMMA SentInOrder ==
  ASSUME StreamInv, conn.pc = "tail", conn.pos < Len(stepTopic),
         NEW i, i = conn.pos + 1,
         NEW step, step = EventStep(stepTopic[i]), step \notin conn.seen,
         conn' = [conn EXCEPT !.pos = i, !.got = @ \cup {i},
                              !.seen = @ \cup {step}, !.sent = Append(@, step)]
  PROVE  ConnInOrder(conn')
<1> DEFINE sent == conn.sent
           n == Len(conn.sent)
           new == Append(conn.sent, step)
<1>0. /\ conn \in ConnType /\ ConnInOrder(conn) /\ TopicInOrder
      /\ sent \in Seq(Shown) /\ n \in Nat
      /\ conn.pos \in Nat /\ conn.from \in Nat /\ conn.from <= conn.pos
      /\ Len(stepTopic) \in Nat /\ i \in 1 .. Len(stepTopic) /\ i \in 1 .. MaxStreamSteps
      /\ stepTopic[i] \in 1 .. MaxStreamSteps
      /\ stepTopic \in Seq(1 .. MaxStreamSteps) /\ stepRows \in Nat
  <2>1. conn \in ConnType /\ ConnInOrder(conn) /\ TopicInOrder
    BY DEF StreamInv, ConnInOrder
  <2>2. /\ sent \in Seq(Shown) /\ conn.pos \in Nat /\ conn.from \in Nat /\ conn.from <= conn.pos
        /\ stepTopic \in Seq(1 .. MaxStreamSteps) /\ stepRows \in 0 .. MaxStreamSteps
        /\ Len(stepTopic) + Unpublished <= stepRows
    BY <2>1 DEF ConnInOrder, ConnType, TopicInOrder
  <2>3. Len(stepTopic) \in Nat /\ n \in Nat
    BY <2>2, LenProperties
  <2>4. i \in 1 .. Len(stepTopic)
    BY <2>2, <2>3
  <2>5. Len(stepTopic) <= MaxStreamSteps
    BY <2>2, <2>3, StreamAssumption DEF Unpublished
  <2>6. stepTopic[i] \in 1 .. MaxStreamSteps
    BY <2>2, <2>4, ElementOfSeq
  <2>7. i \in 1 .. MaxStreamSteps
    BY <2>3, <2>4, <2>5, StreamAssumption
  <2> QED BY <2>1, <2>2, <2>3, <2>4, <2>6, <2>7
<1>1. /\ step \in Shown /\ step.seq = stepTopic[i] /\ step.id = "event"
  BY <1>0 DEF EventStep, Shown
<1>2. /\ conn'.pc = "tail" /\ conn'.pos = i /\ conn'.seen = conn.seen \cup {step}
      /\ conn'.sent = new /\ conn'.from = conn.from /\ conn'.committed = conn.committed
      /\ conn'.got = conn.got \cup {i}
  BY <1>0 DEF ConnType
<1>3. /\ new \in Seq(Shown) /\ Len(new) = n + 1 /\ new[n + 1] = step
      /\ \A k \in 1 .. n : new[k] = sent[k]
      /\ \A k \in 1 .. Len(new) : k \in 1 .. n \/ k = n + 1
      /\ \A k \in 1 .. n : sent[k] \in Shown /\ sent[k].seq \in Nat
  <2>1. /\ new \in Seq(Shown) /\ Len(new) = n + 1 /\ new[n + 1] = step
        /\ \A k \in 1 .. n : new[k] = sent[k]
    BY <1>0, <1>1
  <2>2. \A k \in 1 .. n : sent[k] \in Shown
    BY <1>0, ElementOfSeq
  <2>3. \A shownStep \in Shown : shownStep.seq \in Nat
    BY DEF Shown
  <2> HIDE DEF new, sent, n
  <2>4. \A k \in 1 .. Len(new) : k \in 1 .. n \/ k = n + 1
    BY <1>0, <2>1
  <2> QED BY <2>1, <2>2, <2>3, <2>4
<1>4. conn' \in ConnType
  <2>1. conn.seen \cup {step} \in SUBSET Shown /\ conn.got \cup {i} \in SUBSET (1 .. MaxStreamSteps)
    BY <1>0, <1>1 DEF ConnType
  <2>2. i \in 0 .. MaxStreamSteps
    BY <1>0
  <2>3. conn' = [conn EXCEPT !.pos = i, !.got = conn.got \cup {i},
                             !.seen = conn.seen \cup {step}, !.sent = new]
    OBVIOUS
  <2> HIDE DEF new, sent, n
  <2> QED BY <1>0, <1>3, <2>1, <2>2, <2>3 DEF ConnType
<1>5. After(sent, stepTopic[i])
  <2>1. i \in (conn.pos + 1) .. Len(stepTopic)
    BY <1>0
  <2> QED BY <1>0, <2>1 DEF ConnInOrder
<1> HIDE DEF new, n, sent
<1>6. \A k \in 1 .. Len(new) : new[k] \in conn'.seen
  BY <1>0, <1>2, <1>3 DEF ConnInOrder, sent, n
<1>7. /\ \A k \in 1 .. n : sent[k].seq <= stepRows
      /\ \A k \in 1 .. n : sent[k].id = "event" => sent[k].seq + Unpublished <= stepRows
      /\ \A k, l \in 1 .. n : k < l => sent[k].seq <= sent[l].seq /\ sent[k] # sent[l]
      /\ \A k \in 1 .. n : sent[k] # step
  BY <1>0 DEF ConnInOrder, sent, n
<1>8. stepTopic[i] + Unpublished <= stepRows /\ stepTopic[i] <= stepRows
  BY <1>0 DEF TopicInOrder, Unpublished
<1>9. /\ \A k \in 1 .. Len(new) : new[k].seq <= stepRows
      /\ \A k \in 1 .. Len(new) : new[k].id = "event" => new[k].seq + Unpublished <= stepRows
  BY <1>1, <1>3, <1>7, <1>8
<1>10. \A k, l \in 1 .. Len(new) : k < l => new[k].seq <= new[l].seq /\ new[k] # new[l]
  <2> SUFFICES ASSUME NEW k \in 1 .. Len(new), NEW l \in 1 .. Len(new), k < l
               PROVE  new[k].seq <= new[l].seq /\ new[k] # new[l]
    OBVIOUS
  <2>1. k \in 1 .. n
    BY <1>0, <1>3
  <2>2. CASE l \in 1 .. n
    BY <1>3, <1>7, <2>1, <2>2
  <2>3. CASE l = n + 1
    BY <1>1, <1>3, <1>5, <1>7, <2>1, <2>3 DEF After, sent, n
  <2> QED BY <1>3, <2>2, <2>3
<1>11. /\ conn.from <= i /\ i <= Len(stepTopic)
       /\ conn.committed # NoOffset => conn.from <= conn.committed /\ conn.committed <= i
  <2>1. conn.committed \in Nat
    BY <1>0, StreamAssumption DEF ConnType, NoOffset
  <2> QED BY <1>0, <2>1 DEF ConnInOrder
<1>12. \A k \in (conn.from + 1) .. i : EventStep(stepTopic[k]) \in conn'.seen
  <2>1. \A k \in (conn.from + 1) .. conn.pos : EventStep(stepTopic[k]) \in conn.seen
    BY <1>0 DEF ConnInOrder
  <2>2. \A k \in (conn.from + 1) .. i : k \in (conn.from + 1) .. conn.pos \/ k = i
    BY <1>0
  <2> QED BY <1>2, <2>1, <2>2
<1>13. ASSUME NEW k \in (i + 1) .. Len(stepTopic), EventStep(stepTopic[k]) \notin conn'.seen
       PROVE  After(new, stepTopic[k])
  <2>1. k \in 1 .. Len(stepTopic) /\ k \in (conn.pos + 1) .. Len(stepTopic) /\ i < k
    BY <1>0
  <2>2. stepTopic[i] < stepTopic[k]
    BY <1>0, <2>1 DEF TopicInOrder
  <2>3. After(sent, stepTopic[k])
    BY <1>0, <1>2, <1>13, <2>1 DEF ConnInOrder, sent
  <2>4. \A l \in 1 .. n : sent[l].seq <= stepTopic[k]
                           /\ (sent[l].id = "event" => sent[l].seq < stepTopic[k])
    BY <2>3 DEF After, sent, n
  <2>5. step.seq <= stepTopic[k] /\ step.seq < stepTopic[k]
    <3>1. stepTopic[k] \in 1 .. MaxStreamSteps
      BY <1>0, <2>1, ElementOfSeq
    <3> QED BY <1>0, <1>1, <2>2, <3>1
  <2> QED BY <1>3, <2>4, <2>5 DEF After
<1>c. PICK c : c = conn'
  OBVIOUS
<1>14. /\ c \in ConnType /\ c.pc = "tail" /\ c.sent = new /\ c.from = conn.from /\ c.pos = i
       /\ c.committed = conn.committed
  BY <1>2, <1>4, <1>c
<1>15. /\ \A k \in 1 .. Len(new) : new[k] \in c.seen
       /\ \A k \in (conn.from + 1) .. i : EventStep(stepTopic[k]) \in c.seen
       /\ \A k \in (i + 1) .. Len(stepTopic) :
            EventStep(stepTopic[k]) \notin c.seen => After(new, stepTopic[k])
  BY <1>6, <1>12, <1>13, <1>c
<1>16. ConnInOrder(c)
  BY <1>9, <1>10, <1>11, <1>14, <1>15 DEF ConnInOrder
<1> QED BY <1>c, <1>16, Zenon

(* Whatever a connection does, it stays in order.                          *)
LEMMA ConnectionHolds ==
  ASSUME StreamInv,
         serveStream \/ Serve \/ CommitOffset \/ Rejoin \/ EndStream
  PROVE  StreamInv'
<1>0. /\ HandHeld /\ TopicInOrder /\ ConnInOrder(conn)
      /\ conn \in ConnType
      /\ conn.pos \in 0 .. MaxStreamSteps /\ conn.from \in 0 .. MaxStreamSteps
      /\ conn.committed \in 0 .. NoOffset /\ NoOffset = MaxStreamSteps + 1
      /\ conn.sent \in Seq(Shown) /\ Len(conn.sent) \in Nat
      /\ MaxStreamSteps \in Nat
  BY StreamAssumption, LenProperties DEF StreamInv, ConnInOrder, ConnType, NoOffset
<1>1. /\ stepRows \in 0 .. MaxStreamSteps /\ stepTopic \in Seq(1 .. MaxStreamSteps)
      /\ Len(stepTopic) \in 0 .. MaxStreamSteps /\ Len(stepTopic) \in Nat
  <2>1. /\ stepRows \in 0 .. MaxStreamSteps /\ stepTopic \in Seq(1 .. MaxStreamSteps)
        /\ Len(stepTopic) + Unpublished <= stepRows
    BY <1>0 DEF TopicInOrder
  <2>2. Len(stepTopic) \in Nat
    BY <2>1, LenProperties
  <2> QED BY <1>0, <2>1, <2>2 DEF Unpublished
<1>2. UNCHANGED <<stepRows, stepInHand, stepTopic>>
  BY DEF serveStream, Serve, Steps, NewStepTailer, TailRun, CommitOffset, Rejoin, EndStream
<1>3. ASSUME ConnInOrder(conn')
      PROVE  StreamInv'
  <2>1. HandHeld' /\ TopicInOrder' /\ Unpublished' = Unpublished
    BY <1>0, <1>2 DEF HandHeld, TopicInOrder, Unpublished
  <2>2. ConnInOrder(conn)'
    BY <1>2, <1>3, <2>1 DEF ConnInOrder, After
  <2> QED BY <2>1, <2>2 DEF StreamInv
<1>4. CASE serveStream \/ EndStream
  <2>1. \E pc \in {"off", "replay"} :
          conn' = [pc |-> pc, seen |-> {}, sent |-> <<>>, pos |-> 0, from |-> 0,
                   committed |-> NoOffset, got |-> {}]
    BY <1>4 DEF serveStream, EndStream, Offline
  <2> QED BY <1>3, <2>1, OfflineInOrder
<1>5. CASE Steps
  <2> DEFINE steps == [k \in 1 .. stepRows |-> RowStep(k)]
  <2>1. CASE conn' = [conn EXCEPT !.pc = "join"] /\ conn.pc = "replay"
    <3>1. conn'.pc = "join" /\ conn'.sent = <<>> /\ conn'.committed = NoOffset /\ conn' \in ConnType
      BY <1>0, <2>1 DEF ConnInOrder, ConnType
    <3>2. Len(<<>>) = 0
      OBVIOUS
    <3> QED BY <1>3, <3>1, <3>2 DEF ConnInOrder
  <2>2. CASE conn.pc = "replay"
             /\ conn' = [conn EXCEPT !.pc = "join", !.sent = ListSteps,
                                     !.seen = {RowStep(k) : k \in 1 .. stepRows}]
    <3>1. \A k \in 1 .. stepRows : RowStep(k) \in Shown /\ RowStep(k).seq = k /\ RowStep(k).id = "row"
      BY <1>0, <1>1 DEF RowStep, Shown
    <3>2. steps \in Seq(Shown) /\ Len(steps) = stepRows /\ \A k \in 1 .. stepRows : steps[k] = RowStep(k)
      <4>1. stepRows \in Nat /\ steps \in [1 .. stepRows -> Shown]
        BY <1>0, <1>1, <3>1
      <4> HIDE DEF steps
      <4>2. steps \in UNION {[1 .. m -> Shown] : m \in Nat}
        BY <4>1
      <4>3. steps \in Seq(Shown)
        BY <4>2, SeqDef
      <4>4. Len(steps) = stepRows
        BY <4>1, <4>3, LenProperties
      <4> QED BY <4>3, <4>4 DEF steps
    <3>3. {RowStep(k) : k \in 1 .. stepRows} \in SUBSET Shown
      BY <3>1
    <3>4. conn' = [conn EXCEPT !.pc = "join", !.sent = steps,
                               !.seen = {RowStep(k) : k \in 1 .. stepRows}]
      BY <2>2 DEF ListSteps
    <3> HIDE DEF steps
    <3>5. /\ conn' \in ConnType /\ conn'.pc = "join" /\ conn'.sent = steps
          /\ conn'.seen = {RowStep(k) : k \in 1 .. stepRows}
          /\ conn'.committed = NoOffset
      BY <1>0, <2>2, <3>2, <3>3, <3>4 DEF ConnType, ConnInOrder
    <3>6. /\ \A k \in 1 .. Len(steps) : steps[k] \in {RowStep(m) : m \in 1 .. stepRows}
          /\ \A k \in 1 .. Len(steps) : steps[k].seq = k /\ steps[k].id = "row"
      BY <3>1, <3>2
    <3>7. \A k, l \in 1 .. Len(steps) : k < l => steps[k].seq <= steps[l].seq /\ steps[k] # steps[l]
      <4>1. \A k, l \in 1 .. Len(steps) : k < l => k <= l /\ k # l
        BY <1>1, <3>2
      <4> QED BY <3>6, <4>1
    <3>8. \A k \in 1 .. Len(steps) : steps[k].seq <= stepRows
      <4>1. \A k \in 1 .. Len(steps) : k <= stepRows
        BY <1>1, <3>2
      <4> QED BY <3>6, <4>1
    <3> PICK c : c = conn'
      OBVIOUS
    <3>9. ConnInOrder(c)
      BY <3>5, <3>6, <3>7, <3>8 DEF ConnInOrder
    <3>10. ConnInOrder(conn')
      BY <3>9, Zenon
    <3> QED BY <1>3, <3>10
  <2> QED BY <1>5, <2>1, <2>2 DEF Steps
<1>6. CASE TailRun
  <2> DEFINE i == conn.pos + 1
             step == EventStep(stepTopic[i])
  <2>1. conn.pc = "tail" /\ conn.pos < Len(stepTopic)
    BY <1>6 DEF TailRun
  <2>2. CASE step \notin conn.seen
    <3>1. conn' = [conn EXCEPT !.pos = i, !.got = @ \cup {i},
                               !.seen = @ \cup {step}, !.sent = Append(@, step)]
      BY <1>6, <2>2 DEF TailRun, Remember
    <3> HIDE DEF i, step
    <3>2. i = conn.pos + 1 /\ step = EventStep(stepTopic[i])
      BY DEF i, step
    <3>3. ConnInOrder(conn')
      BY <2>1, <2>2, <3>1, <3>2, SentInOrder
    <3> QED BY <1>3, <3>3
  <2>3. CASE step \in conn.seen
    <3>1. conn' = [conn EXCEPT !.pos = i, !.got = @ \cup {i}]
      BY <1>6, <2>3 DEF TailRun
    <3>2. i \in 1 .. Len(stepTopic) /\ i \in 1 .. MaxStreamSteps /\ i \in 0 .. MaxStreamSteps
      BY <1>0, <1>1, <2>1
    <3>3. /\ conn' \in ConnType /\ conn'.pc = "tail" /\ conn'.pos = i /\ conn'.from = conn.from
          /\ conn'.sent = conn.sent /\ conn'.seen = conn.seen /\ conn'.committed = conn.committed
      BY <1>0, <2>1, <3>1, <3>2 DEF ConnType
    <3>4. /\ conn.from <= i /\ i <= Len(stepTopic)
          /\ conn.committed # NoOffset => conn.from <= conn.committed /\ conn.committed <= i
      BY <1>0, <2>1, <3>2 DEF ConnInOrder
    <3>5. \A k \in (conn.from + 1) .. i : EventStep(stepTopic[k]) \in conn.seen
      <4>1. \A k \in (conn.from + 1) .. i : k \in (conn.from + 1) .. conn.pos \/ k = i
        BY <1>0
      <4> QED BY <1>0, <2>1, <2>3, <4>1 DEF ConnInOrder
    <3>6. \A k \in (i + 1) .. Len(stepTopic) : k \in (conn.pos + 1) .. Len(stepTopic)
      BY <1>0, <1>1
    <3> HIDE DEF i, step
    <3> PICK c : c = conn'
      OBVIOUS
    <3>7. ConnInOrder(c)
      BY <1>0, <2>1, <3>3, <3>4, <3>5, <3>6 DEF ConnInOrder
    <3>8. ConnInOrder(conn')
      BY <3>7, Zenon
    <3> QED BY <1>3, <3>8
  <2> QED BY <2>2, <2>3
<1>7. CASE NewStepTailer
  <2>1. CASE conn' = Offline
    BY <1>3, <2>1, OfflineInOrder DEF Offline
  <2>2. CASE conn.pc = "join"
             /\ conn' = [conn EXCEPT !.pc = "tail", !.pos = Len(stepTopic), !.from = Len(stepTopic)]
    <3>1. /\ conn' \in ConnType /\ conn'.pc = "tail" /\ conn'.pos = Len(stepTopic)
          /\ conn'.from = Len(stepTopic) /\ conn'.sent = conn.sent /\ conn'.seen = conn.seen
          /\ conn'.committed = NoOffset
      BY <1>0, <1>1, <2>2 DEF ConnType, ConnInOrder
    <3>2. (Len(stepTopic) + 1) .. Len(stepTopic) = {} /\ Len(stepTopic) <= Len(stepTopic)
      BY <1>1
    <3> PICK c : c = conn'
      OBVIOUS
    <3>3. ConnInOrder(c)
      BY <1>0, <3>1, <3>2 DEF ConnInOrder
    <3>4. ConnInOrder(conn')
      BY <3>3, Zenon
    <3> QED BY <1>3, <3>4
  <2> QED BY <1>7, <2>1, <2>2 DEF NewStepTailer
<1>8. CASE CommitOffset
  <2>1. conn.pc = "tail" /\ conn.pos > conn.from /\ conn' = [conn EXCEPT !.committed = conn.pos]
    BY <1>8 DEF CommitOffset
  <2>2. conn.pos \in 0 .. NoOffset
    BY <1>0
  <2>3. /\ conn' \in ConnType /\ conn'.pc = "tail" /\ conn'.pos = conn.pos /\ conn'.from = conn.from
        /\ conn'.sent = conn.sent /\ conn'.seen = conn.seen /\ conn'.committed = conn.pos
    BY <1>0, <2>1, <2>2 DEF ConnType
  <2>4. conn.from <= conn.pos /\ conn.pos <= conn.pos
    BY <1>0, <2>1
  <2> PICK c : c = conn'
    OBVIOUS
  <2>5. ConnInOrder(c)
    BY <1>0, <2>1, <2>3, <2>4 DEF ConnInOrder
  <2>6. ConnInOrder(conn')
    BY <2>5, Zenon
  <2> QED BY <1>3, <2>6
<1>9. CASE Rejoin
  <2>1. CASE conn.committed = NoOffset
    <3>1. conn.pc = "tail"
          /\ conn' = [conn EXCEPT !.pos = Len(stepTopic), !.from = Len(stepTopic)]
      BY <1>9, <2>1 DEF Rejoin, SessionStart
    <3>2. /\ conn' \in ConnType /\ conn'.pc = "tail" /\ conn'.pos = Len(stepTopic)
          /\ conn'.from = Len(stepTopic) /\ conn'.sent = conn.sent /\ conn'.seen = conn.seen
          /\ conn'.committed = NoOffset
      BY <1>0, <1>1, <2>1, <3>1 DEF ConnType
    <3>3. (Len(stepTopic) + 1) .. Len(stepTopic) = {} /\ Len(stepTopic) <= Len(stepTopic)
      BY <1>1
    <3> PICK c : c = conn'
      OBVIOUS
    <3>4. ConnInOrder(c)
      BY <1>0, <3>2, <3>3 DEF ConnInOrder
    <3>5. ConnInOrder(conn')
      BY <3>4, Zenon
    <3> QED BY <1>3, <3>5
  <2>2. CASE conn.committed # NoOffset
    <3> DEFINE p == conn.committed
    <3>1. /\ conn.pc = "tail"
          /\ conn' = [conn EXCEPT !.pos = p, !.from = conn.from]
      BY <1>9, <2>2 DEF Rejoin, SessionStart
    <3>2. p \in 0 .. MaxStreamSteps /\ conn.from <= p /\ p <= conn.pos /\ conn.pos <= Len(stepTopic)
      BY <1>0, <2>2, <3>1 DEF ConnInOrder
    <3>3. /\ conn' \in ConnType /\ conn'.pc = "tail" /\ conn'.pos = p /\ conn'.from = conn.from
          /\ conn'.sent = conn.sent /\ conn'.seen = conn.seen /\ conn'.committed = p
      BY <1>0, <3>1, <3>2 DEF ConnType
    <3>4. p <= Len(stepTopic) /\ p <= p
      BY <1>0, <1>1, <3>2
    <3>5. \A k \in (conn.from + 1) .. p : k \in (conn.from + 1) .. conn.pos
      BY <1>0, <3>2
    <3>6. \A k \in (p + 1) .. Len(stepTopic) :
            k \in (conn.from + 1) .. conn.pos \/ k \in (conn.pos + 1) .. Len(stepTopic)
      BY <1>0, <1>1, <3>2
    <3> HIDE DEF p
    <3> PICK c : c = conn'
      OBVIOUS
    <3>7. ConnInOrder(c)
      BY <1>0, <3>1, <3>2, <3>3, <3>4, <3>5, <3>6 DEF ConnInOrder
    <3>8. ConnInOrder(conn')
      BY <3>7, Zenon
    <3> QED BY <1>3, <3>8
  <2> QED BY <2>1, <2>2
<1> QED BY <1>4, <1>5, <1>6, <1>7, <1>8, <1>9 DEF Serve

(* A step of the run, of the connection or of the viewer.                  *)
LEMMA StreamNextHolds == StreamInv /\ [StreamNext]_streamVars => StreamInv'
<1> SUFFICES ASSUME StreamInv, [StreamNext]_streamVars PROVE StreamInv'
  OBVIOUS
<1>1. CASE UNCHANGED streamVars
  BY <1>1 DEF streamVars, StreamInv, HandHeld, TopicInOrder, Unpublished, ConnInOrder, After
<1> QED BY <1>1, PublishingHolds, ConnectionHolds DEF StreamNext

(* A connection sends the steps of a run in order and none of them twice,  *)
(* for any steps and faults, however often the group joins again and       *)
(* whatever offset it is given back.                                       *)
THEOREM StepsInOrder == StreamSpec => []StepsComeInOrder
<1>1. StreamInv => StepsComeInOrder
  BY DEF StreamInv, ConnInOrder, StepsComeInOrder
<1> QED BY <1>1, StreamInitHolds, StreamNextHolds, PTL DEF StreamSpec

-----------------------------------------------------------------------------
(* The step stream.                                                        *)
StreamTypes ==
  StreamInv /\ shown \in Seq(Shown) /\ streamFaults \in 0 .. MaxStreamFaults

(* What is new of a replay is put after the list.                          *)
LEMMA ReplayTyped ==
  ASSUME shown \in Seq(Shown), stepRows \in 0 .. MaxStreamSteps, onReplay(ListSteps)
  PROVE  shown' \in Seq(Shown)
<1> DEFINE new == {i \in DOMAIN ListSteps : Unseen(shown, ListSteps[i])}
<1>1. /\ stepRows \in Nat /\ DOMAIN ListSteps = 1 .. stepRows
      /\ \A i \in 1 .. stepRows : ListSteps[i] \in Shown
  BY StreamAssumption DEF ListSteps, RowStep, Shown
<1>2. IsFiniteSet(new) /\ Cardinality(new) \in Nat
  <2>1. IsFiniteSet(1 .. stepRows)
    BY <1>1, FS_Interval
  <2>2. new \subseteq 1 .. stepRows
    BY <1>1
  <2> HIDE DEF new
  <2> QED BY <2>1, <2>2, FS_Subset, FS_CardinalityType
<1>3. PICK at \in [1 .. Cardinality(new) -> new] :
        shown' = shown \o [i \in DOMAIN at |-> ListSteps[at[i]]]
  BY DEF onReplay
<1>4. new \subseteq 1 .. stepRows
  BY <1>1
<1> HIDE DEF new
<1>5. [i \in DOMAIN at |-> ListSteps[at[i]]] \in [1 .. Cardinality(new) -> Shown]
  BY <1>1, <1>3, <1>4
<1>6. [i \in DOMAIN at |-> ListSteps[at[i]]] \in Seq(Shown)
  <2>1. [i \in DOMAIN at |-> ListSteps[at[i]]] \in UNION {[1 .. m -> Shown] : m \in Nat}
    BY <1>2, <1>5
  <2> QED BY <2>1, SeqDef
<1> QED BY <1>3, <1>6, ConcatProperties

(* Nothing is on record and nobody watches.                                *)
LEMMA StreamTypesInit == StreamInit => StreamTypes
BY StreamInitHolds, StreamAssumption DEF StreamInit, StreamTypes

(* The list grows by steps of the run.                                     *)
LEMMA StreamTyped ==
  ASSUME StreamTypes, [StreamNext]_streamVars
  PROVE  StreamTypes'
<1>0. /\ shown \in Seq(Shown) /\ streamFaults \in 0 .. MaxStreamFaults /\ MaxStreamFaults \in Nat
      /\ stepRows \in 0 .. MaxStreamSteps /\ stepTopic \in Seq(1 .. MaxStreamSteps)
      /\ conn.pos \in Nat
  BY StreamAssumption DEF StreamTypes, StreamInv, TopicInOrder, ConnInOrder, ConnType
<1>1. streamFaults' \in 0 .. MaxStreamFaults
  <2>1. UNCHANGED streamFaults \/ StreamFault
    BY DEF StreamNext, AppendStep, PublishStep, serveStream, Serve, Steps, NewStepTailer, TailRun,
           CommitOffset, Rejoin, EndStream, streamVars
  <2> QED BY <1>0, <2>1 DEF StreamFault
<1>2. shown' \in Seq(Shown)
  <2>1. CASE UNCHANGED shown
    BY <1>0, <2>1
  <2>2. CASE onReplay(ListSteps)
    BY <1>0, <2>2, ReplayTyped
  <2>3. CASE TailRun
    <3> DEFINE step == EventStep(stepTopic[conn.pos + 1])
    <3>1. conn.pos + 1 \in 1 .. Len(stepTopic)
      <4>1. conn.pos < Len(stepTopic) /\ Len(stepTopic) \in Nat
        BY <1>0, <2>3, LenProperties DEF TailRun
      <4> QED BY <1>0, <4>1
    <3>2. step \in Shown
      <4>1. stepTopic[conn.pos + 1] \in 1 .. MaxStreamSteps
        BY <1>0, <3>1, ElementOfSeq
      <4> QED BY <4>1 DEF EventStep, Shown
    <3>3. shown' = shown \/ shown' = Append(shown, step)
      BY <2>3 DEF TailRun, onStep
    <3> HIDE DEF step
    <3> QED BY <1>0, <3>2, <3>3, AppendProperties
  <2> QED BY <2>1, <2>2, <2>3
          DEF StreamNext, AppendStep, PublishStep, serveStream, Serve, Steps, NewStepTailer,
              CommitOffset, Rejoin, EndStream, streamVars
<1> QED BY <1>1, <1>2, StreamNextHolds DEF StreamTypes

(* A stream in order has its types.                                        *)
LEMMA StreamTypesHold == StreamTypes => StreamTypeOK
BY StreamAssumption
   DEF StreamTypes, StreamInv, HandHeld, TopicInOrder, ConnInOrder, ConnType, StreamTypeOK

=============================================================================
