------------------------------ MODULE RunTools ------------------------------
(***************************************************************************)
(* What a run is given and what is taken from it again: the git worktree   *)
(* and its branch, the container it is mounted in, the processes of the    *)
(* agent's MCP servers.  The runs of one task follow one another, because  *)
(* the run control queues them until the tools of the last are torn down.  *)
(***************************************************************************)
EXTENDS Naturals, FiniteSets

CONSTANTS Servers, MaxToolRuns, MaxToolFaults

ASSUME ToolsAssumption == MaxToolRuns \in Nat /\ MaxToolFaults \in Nat

VARIABLES
  sandboxKind,  \* the deployment's sandbox: none, local or docker
  worktree,     \* the task's worktree is on disk
  branch,       \* the task's branch is in the clone
  containers,   \* Docker: the task's containers
  processes,    \* MCP servers that are running
  toolRun,      \* the run: where it is and what it was given
  runCount, ended, litter, toolFaults

toolVars == <<sandboxKind, worktree, branch, containers, processes, toolRun,
              runCount, ended, litter, toolFaults>>

NoRun == [pc |-> "none", exec |-> "none", rest |-> {}, conns |-> {}, tools |-> FALSE]
Belongings == {"container", "worktree", "process"}

RunToolsTypeOK ==
  /\ sandboxKind \in {"none", "local", "docker"}
  /\ worktree \in BOOLEAN
  /\ branch \in BOOLEAN
  /\ containers \subseteq 1 .. MaxToolRuns
  /\ processes \subseteq Servers
  /\ toolRun \in [pc : {"none", "sandbox", "create", "start", "bridge", "running",
                        "close", "remove", "hangup"},
                  exec : {"none", "local", "docker"}, rest : SUBSET Servers,
                  conns : SUBSET Servers, tools : BOOLEAN]
  /\ runCount \in 0 .. MaxToolRuns
  /\ ended \in {"no", "stop", "clock"}
  /\ litter \subseteq Belongings
  /\ toolFaults \in 0 .. MaxToolFaults

RunToolsInit ==
  /\ sandboxKind \in {"none", "local", "docker"}
  /\ worktree = FALSE /\ branch = FALSE
  /\ containers = {} /\ processes = {}
  /\ toolRun = NoRun
  /\ runCount = 0 /\ ended = "no" /\ litter = {} /\ toolFaults = 0

ToolFault == toolFaults < MaxToolFaults /\ toolFaults' = toolFaults + 1
NoToolFault == UNCHANGED toolFaults
Now(pc) == toolRun' = [toolRun EXCEPT !.pc = pc]
Leave(thing) == litter' = litter \cup {thing}
Keep == UNCHANGED litter

(* What is done under the run's context fails once the task is stopped,    *)
(* and may fail anyway.                                                    *)
UnderContextFails == IF ended = "stop" THEN NoToolFault ELSE ToolFault
UnderContextHolds == ended # "stop" /\ NoToolFault

-----------------------------------------------------------------------------
Enabled == sandboxKind # "none"

(* The agent's servers are fetched first; a failed fetch is none.          *)
SetupTools ==
  /\ toolRun.pc = "none" /\ runCount < MaxToolRuns
  /\ runCount' = runCount + 1
  /\ ended' = "no"
  /\ \E mcpServers \in SUBSET Servers :
       toolRun' = [NoRun EXCEPT !.pc = IF Enabled THEN "sandbox" ELSE "bridge", !.rest = mcpServers]
  /\ UNCHANGED <<sandboxKind, worktree, branch, containers, processes, litter, toolFaults>>

(* git worktree add -b: refused when the branch or the directory is there, *)
(* and the name is the task's as long as its prompt does not change.       *)
(* Killed half way it may leave either.                                    *)
addWorktree ==
  /\ toolRun.pc = "sandbox"
  /\ \/ /\ UnderContextHolds
        /\ IF worktree \/ branch
           THEN Now("bridge") /\ UNCHANGED <<worktree, branch>>
           ELSE /\ worktree' = TRUE /\ branch' = TRUE
                /\ toolRun' = [toolRun EXCEPT !.pc = IF sandboxKind = "docker" THEN "create" ELSE "bridge",
                                              !.exec = IF sandboxKind = "docker" THEN "none" ELSE "local"]
        /\ Keep
     \/ /\ UnderContextFails
        /\ \/ UNCHANGED <<worktree, branch>> /\ Keep
           \/ branch' = TRUE /\ UNCHANGED worktree /\ Keep
           \/ branch' = TRUE /\ worktree' = TRUE /\ Leave("worktree")
        /\ Now("bridge")
  /\ UNCHANGED <<sandboxKind, containers, processes, runCount, ended>>

(* git worktree remove --force, after a setup that failed, under its       *)
(* context: it does nothing when a stop is what made the setup fail.  The  *)
(* branch stays.                                                           *)
CleanUp(lost) ==
  /\ worktree' = (ended = "stop")
  /\ litter' = litter \cup lost \cup (IF ended = "stop" THEN {"worktree"} ELSE {})
  /\ Now("bridge")

createAndStart ==
  /\ \/ /\ toolRun.pc = "create"
        /\ \/ /\ UnderContextHolds
              /\ containers' = containers \cup {runCount}
              /\ Now("start") /\ Keep /\ UNCHANGED worktree
           \/ UnderContextFails /\ CleanUp({}) /\ UNCHANGED containers
     \/ /\ toolRun.pc = "start"
        /\ \/ /\ UnderContextHolds
              /\ toolRun' = [toolRun EXCEPT !.pc = "bridge", !.exec = "docker"]
              /\ Keep /\ UNCHANGED worktree
           \/ UnderContextFails /\ CleanUp({"container"})
        /\ UNCHANGED containers
  /\ UNCHANGED <<sandboxKind, branch, processes, runCount, ended>>

-----------------------------------------------------------------------------
(* The bridge: a server is started, shaken hands with and asked for its    *)
(* tools, of which it may have none.  What fails on the way kills it again *)
(* and it is skipped; both calls are cut short by a stop.                  *)
handshake == IF ended = "stop" THEN {} ELSE {"tools", "no tools"}

dial(s) == processes' = processes \cup {s}

BridgeNew ==
  /\ toolRun.pc = "bridge" /\ toolRun.rest # {}
  /\ LET s == CHOOSE v \in toolRun.rest : TRUE IN
       \/ /\ toolRun' = [toolRun EXCEPT !.rest = @ \ {s}]
          /\ UNCHANGED processes
       \/ \E listed \in handshake :
            /\ dial(s)
            /\ toolRun' = [toolRun EXCEPT !.rest = @ \ {s}, !.conns = @ \cup {s},
                                          !.tools = @ \/ listed = "tools"]
  /\ UNCHANGED <<sandboxKind, worktree, branch, containers, runCount, ended, litter, toolFaults>>

(* A bridge without a tool is neither used nor closed.                     *)
Ready ==
  /\ toolRun.pc = "bridge" /\ toolRun.rest = {}
  /\ Now("running")
  /\ IF toolRun.conns # {} /\ ~toolRun.tools THEN Leave("process") ELSE Keep
  /\ UNCHANGED <<sandboxKind, worktree, branch, containers, processes, runCount, ended, toolFaults>>

(* Killed by a timed-out call or by a stop during one.                     *)
kill(s) == processes' = processes \ {s}

-----------------------------------------------------------------------------
TornUnderContext(kept) == kept \/ ended = "stop"

(* The cleanup runs under a context of its own, a stop does not reach it.  *)
Torn(kept) == kept

envClose ==
  /\ toolRun.pc = "close"
  /\ IF toolRun.exec = "none"
     THEN Now("hangup") /\ UNCHANGED <<containers, litter, toolFaults>>
     ELSE /\ Now("remove")
          /\ \E kept \in BOOLEAN :
               /\ kept => toolRun.exec = "docker"
               /\ IF kept THEN ToolFault /\ Leave("container") ELSE NoToolFault /\ Keep
               /\ containers' = IF Torn(kept) THEN containers ELSE containers \ {runCount}
  /\ UNCHANGED <<sandboxKind, worktree, branch, processes, runCount, ended>>

removeWorktree ==
  /\ toolRun.pc = "remove"
  /\ Now("hangup")
  /\ \E kept \in BOOLEAN :
       /\ IF kept THEN ToolFault /\ Leave("worktree") ELSE NoToolFault /\ Keep
       /\ worktree' = Torn(kept)
  /\ UNCHANGED <<sandboxKind, branch, containers, processes, runCount, ended>>

bridgeClose ==
  /\ toolRun.pc = "hangup"
  /\ processes' = IF toolRun.tools THEN processes \ toolRun.conns ELSE processes
  /\ toolRun' = NoRun
  /\ UNCHANGED <<sandboxKind, worktree, branch, containers, runCount, ended, litter, toolFaults>>

(* CancelTask, at any moment of the run.                                   *)
StopRun ==
  /\ toolRun.pc # "none" /\ ended = "no"
  /\ ended' = "stop"
  /\ UNCHANGED <<sandboxKind, worktree, branch, containers, processes, toolRun,
                 runCount, litter, toolFaults>>

(* The Executor stops: what the run had stays, and nobody looks for it.    *)
Die ==
  /\ toolRun.pc # "none"
  /\ toolRun' = NoRun
  /\ litter' = Belongings
  /\ UNCHANGED <<sandboxKind, worktree, branch, containers, processes, runCount, ended>>

ExecutorStops == ToolFault /\ Die

Provision ==
  addWorktree \/ createAndStart \/ BridgeNew \/ Ready \/ removeWorktree \/ bridgeClose

-----------------------------------------------------------------------------
(* When a run is over nothing of it is left, however its setup failed and  *)
(* whether or not it was stopped: no container, no worktree, no process.   *)
(* What may be left is what the code does give up: a container that did    *)
(* not start, the servers of a bridge without tools, what a stop or a      *)
(* fault kept git or Docker from removing (provisioner.go:37-41).          *)
ToolsTornDown ==
  toolRun.pc = "none" =>
    /\ containers # {} => "container" \in litter
    /\ worktree        => "worktree" \in litter
    /\ processes # {}  => "process" \in litter

(* README.md:79-80: moving a task to doing gives it a worktree on its      *)
(* branch, each time it is moved there, when nothing fails.                *)
RunsHaveTheirWorktree ==
  toolRun.pc = "running" /\ Enabled /\ ended = "no" /\ toolFaults = 0 => toolRun.exec # "none"

=============================================================================
