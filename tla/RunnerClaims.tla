---------------------------- MODULE RunnerClaims ----------------------------
(***************************************************************************)
(* What the repository's documents and comments say of the Executor's run  *)
(* control and the code does not do.  Each is refuted by a run of its own; *)
(* README tells the counterexamples.                                       *)
(***************************************************************************)
EXTENDS Runner

(* A queued command is dispatched: runctl.go:26-27, "it is re-dispatched   *)
(* when the in-flight run finishes, preserving the saga's expectation that *)
(* every command eventually executes".                                     *)
QueuedCommandRuns == pending # NoCommand ~> pending = NoCommand

(* Once a stop is handled, nothing of what was asked before it goes on     *)
(* uncancelled: runctl.go:56-57, "drops any queued follow-up command — a   *)
(* stopped task must not spring back to life".                             *)
StopEndsTheTask ==
  [][claims["stop-requested"].pc = "cancel" /\ claims'["stop-requested"] = Idle
       => \A w \in Workers :
            /\ workers'[w].pc \notin {"restart", "register", "defer"}
            /\ workers'[w].pc \in Executing => workers'[w].cancelled]_vars

(* A review ends in a verdict: agent-execution-runner/spec.md:40-41, "the  *)
(* runner SHALL execute a reviewer variant that inspects the work and      *)
(* emits a verdict".                                                       *)
ReviewsEndInAVerdict ==
  \A r \in 1 .. MaxCommands :
    (r \in DOMAIN rows /\ rows[r].role = "reviewer")
      ~> \E m \in MessagesIn(log, "verdict") : m.run = r

=============================================================================
