----------------------------- MODULE SagaClaims -----------------------------
(***************************************************************************)
(* What the repository's documents and comments say of the task lifecycle  *)
(* and the code does not do.  Each is refuted by a run of its own; README   *)
(* tells the counterexamples.                                              *)
(***************************************************************************)
EXTENDS SagaSystem, FiniteSets

(* A task moved to doing gets a run: task-management/spec.md:33-35, "the   *)
(* service SHALL additionally publish a task.run-requested command so an   *)
(* agent run begins", and a task whose run began does not stay in doing.   *)
DoingGetsARun ==
  \A c \in Callers :
    (requests[c].pc = "emit" /\ requests[c].cmd.topic = "run-requested")
      ~> task.status # "doing"

(* A lost publish cannot strand the saga: saga.go:191-192, "re-emit the    *)
(* command so the saga cannot strand".                                     *)
LostPublishIsRecovered == task.status = "review" ~> task.status # "review"

(* There are at most MaxReviewRounds review rounds:                        *)
(* task-management/spec.md:48, "MUST NOT exceed 5 review rounds", and      *)
(* :59-60, after the fifth the service "MUST NOT start another round".     *)
ReviewRoundsAreCapped ==
  Cardinality({runs[r].round : r \in {q \in DOMAIN runs : runs[q].role = "reviewer"}})
    <= MaxReviewRounds

=============================================================================
