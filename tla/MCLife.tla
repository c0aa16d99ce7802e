------------------------------- MODULE MCLife -------------------------------
(***************************************************************************)
(* The two sides of a task's life, each by itself under the fairness of    *)
(* its goroutines: the saga with any Executor of the contract, started by  *)
(* one request and then left alone, and the run control with any saga that *)
(* asks.  A behaviour is about one "side"; the other's variables stay      *)
(* where they start, so the state space is the sum of theirs.              *)
(***************************************************************************)
EXTENDS MCSagaSystem

CONSTANTS w1, w2, w3,
          Workers, NoWorker, Rounds, MaxCommands, FaultKinds,
          MaxRunFaults,  \* MaxFaults of the run control
          RunVerdicts    \* ReviewerOutcomes of the run control

VARIABLES side,
          runLog, runOffset, rows, running, cancels, pending, workers, runClaims, runFaults

RunControl ==
  INSTANCE Runner
    WITH log <- runLog, offset <- runOffset, claims <- runClaims, faults <- runFaults,
         MaxFaults <- MaxRunFaults, ReviewerOutcomes <- RunVerdicts

runnerVars == <<runLog, runOffset, rows, running, cancels, pending, workers, runClaims, runFaults>>
lifeVars == <<side, vars, runnerVars>>

LifeInit ==
  /\ side \in {"saga", "executor"}
  /\ Init
  /\ RunControl!Init
  /\ side = "executor" => task.agent = NoAgent

LifeNext ==
  /\ UNCHANGED side
  /\ \/ side = "saga" /\ Next /\ UNCHANGED runnerVars
     \/ side = "executor" /\ RunControl!Next /\ UNCHANGED vars

(* On the side that is not looked at no message and no request ever        *)
(* arrives, so nothing fair is enabled there.                              *)
LifeSpec ==
  /\ LifeInit /\ [][LifeNext]_lifeVars
  /\ SagaFairness /\ ExecutorFairness
  /\ RunControl!RunnerFairness

(* What is checked of the run control; module Runner says what it is about. *)
(* A run that executes is reported, stopped or not.                        *)
RunsAreReported == RunControl!RunsAreReported

(* The task's entry is always given back.                                  *)
TaskIsReleased == RunControl!TaskIsReleased

=============================================================================
