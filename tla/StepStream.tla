----------------------------- MODULE StepStream -----------------------------
(***************************************************************************)
(* The live step log: the Executor writes each step to its table and       *)
(* publishes it, the Gateway replays the table and then tails the topic,   *)
(* and the browser drops the steps whose id it has.  One run, one viewer   *)
(* that connects again whenever its stream ends.                           *)
(***************************************************************************)
EXTENDS Naturals, Sequences, FiniteSets

CONSTANTS MaxStreamSteps, MaxStreamFaults

ASSUME StreamAssumption == MaxStreamSteps \in Nat /\ MaxStreamFaults \in Nat

VARIABLES
  stepRows,     \* steps on record, 1 to stepRows
  stepInHand,   \* the last one is still to be published
  stepTopic,    \* the published steps, in order
  conn,         \* the Gateway's side of the connection
  shown,        \* the browser's list
  streamFaults

streamVars == <<stepRows, stepInHand, stepTopic, conn, shown, streamFaults>>

(* AppendStep lets the table choose the id and drops it; what is published *)
(* carries the id the driver made up.                                      *)
RowStep(n) == [seq |-> n, id |-> "row"]
EventStep(n) == [seq |-> n, id |-> "event"]
Shown == [seq : 1 .. MaxStreamSteps, id : {"row", "event"}]

NoOffset == MaxStreamSteps + 1
Offline == [pc |-> "off", seen |-> {}, sent |-> <<>>, pos |-> 0, from |-> 0,
            committed |-> NoOffset, got |-> {}]

StreamTypeOK ==
  /\ stepRows \in 0 .. MaxStreamSteps
  /\ stepInHand \in BOOLEAN
  /\ stepTopic \in Seq(1 .. MaxStreamSteps)
  /\ conn.pc \in {"off", "replay", "join", "tail"}
  /\ conn.seen \subseteq Shown
  /\ conn.sent \in Seq(Shown)
  /\ {conn.from, conn.pos} \subseteq 0 .. MaxStreamSteps
  /\ conn.committed \in 0 .. NoOffset
  /\ conn.got \subseteq 1 .. MaxStreamSteps
  /\ shown \in Seq(Shown)
  /\ streamFaults \in 0 .. MaxStreamFaults

StreamInit ==
  /\ stepRows = 0
  /\ stepInHand = FALSE
  /\ stepTopic = <<>>
  /\ conn = Offline
  /\ shown = <<>>
  /\ streamFaults = 0

StreamFault == streamFaults < MaxStreamFaults /\ streamFaults' = streamFaults + 1
ListSteps == [n \in 1 .. stepRows |-> RowStep(n)]
Unseen(list, step) == step \notin {list[i] : i \in DOMAIN list}

(* useTaskStream: a step whose id is in the list already is not added.     *)
onStep(step) == shown' = IF Unseen(shown, step) THEN Append(shown, step) ELSE shown

(* A whole replay, event by event: what is new of it comes after the list, *)
(* in the order it was sent.                                               *)
onReplay(steps) ==
  LET new == {i \in DOMAIN steps : Unseen(shown, steps[i])} IN
  \E at \in [1 .. Cardinality(new) -> new] :
    /\ \A i, j \in DOMAIN at : i < j => at[i] < at[j]
    /\ shown' = shown \o [i \in DOMAIN at |-> steps[at[i]]]

(* The sink of a run: the row first, then the event, which may be lost.    *)
AppendStep ==
  /\ ~stepInHand /\ stepRows < MaxStreamSteps
  /\ stepRows' = stepRows + 1
  /\ stepInHand' = TRUE
  /\ UNCHANGED <<stepTopic, conn, shown, streamFaults>>

PublishStep ==
  /\ stepInHand
  /\ stepInHand' = FALSE
  /\ \/ stepTopic' = Append(stepTopic, stepRows) /\ UNCHANGED streamFaults
     \/ StreamFault /\ UNCHANGED stepTopic
  /\ UNCHANGED <<stepRows, conn, shown>>

-----------------------------------------------------------------------------
serveStream ==
  /\ conn.pc = "off"
  /\ conn' = [Offline EXCEPT !.pc = "replay"]
  /\ UNCHANGED <<stepRows, stepInHand, stepTopic, shown, streamFaults>>

(* The replay; a failed read is an empty one.                              *)
Steps ==
  /\ conn.pc = "replay"
  /\ \/ /\ conn' = [conn EXCEPT !.pc = "join", !.sent = ListSteps,
                                !.seen = {RowStep(n) : n \in 1 .. stepRows}]
        /\ onReplay(ListSteps)
        /\ UNCHANGED streamFaults
     \/ /\ StreamFault
        /\ conn' = [conn EXCEPT !.pc = "join"]
        /\ UNCHANGED shown
  /\ UNCHANGED <<stepRows, stepInHand, stepTopic>>

(* A fresh consumer group starts at the newest offset.                     *)
NewStepTailer ==
  /\ conn.pc = "join"
  /\ \/ /\ conn' = [conn EXCEPT !.pc = "tail", !.pos = Len(stepTopic), !.from = Len(stepTopic)]
        /\ UNCHANGED streamFaults
     \/ StreamFault /\ conn' = Offline
  /\ UNCHANGED <<stepRows, stepInHand, stepTopic, shown>>

Forget(seen, step) == seen
Remember(seen, step) == seen \cup {step}

(* The handler of the tail, and the mark after it.                         *)
TailRun ==
  /\ conn.pc = "tail" /\ conn.pos < Len(stepTopic)
  /\ LET i == conn.pos + 1
         step == EventStep(stepTopic[i]) IN
       IF step \in conn.seen
       THEN conn' = [conn EXCEPT !.pos = i, !.got = @ \cup {i}] /\ UNCHANGED shown
       ELSE /\ conn' = [conn EXCEPT !.pos = i, !.got = @ \cup {i},
                                    !.seen = Remember(@, step), !.sent = Append(@, step)]
            /\ onStep(step)
  /\ UNCHANGED <<stepRows, stepInHand, stepTopic, streamFaults>>

(* Marked offsets are committed now and then.                              *)
CommitOffset ==
  /\ conn.pc = "tail" /\ conn.pos > conn.from
  /\ conn' = [conn EXCEPT !.committed = conn.pos]
  /\ UNCHANGED <<stepRows, stepInHand, stepTopic, shown, streamFaults>>

SessionStartUnchecked(committed) == committed
SessionStartNewest(committed) == Len(stepTopic)

(* Where the group's next session begins.                                  *)
SessionStart(committed) == IF committed = NoOffset THEN Len(stepTopic) ELSE committed

(* The session is lost and Run joins again.                                *)
Rejoin ==
  /\ conn.pc = "tail"
  /\ StreamFault
  /\ conn' = [conn EXCEPT !.pos = SessionStart(conn.committed),
                          !.from = IF conn.committed = NoOffset THEN Len(stepTopic) ELSE @]
  /\ UNCHANGED <<stepRows, stepInHand, stepTopic, shown>>

(* The client goes away, or the tail ends with an error.                   *)
EndStream ==
  /\ conn.pc # "off"
  /\ conn' = Offline
  /\ UNCHANGED <<stepRows, stepInHand, stepTopic, shown, streamFaults>>

Serve == Steps \/ NewStepTailer \/ TailRun

StreamNext ==
  \/ AppendStep \/ PublishStep
  \/ serveStream \/ Serve \/ CommitOffset \/ Rejoin \/ EndStream

(* The goroutines of a connection run while it lasts.                      *)
StreamFairness == WF_streamVars(Serve)

StreamSpec == StreamInit /\ [][StreamNext]_streamVars /\ StreamFairness

-----------------------------------------------------------------------------
(* A connection sends steps in the order of the run and no event twice,    *)
(* although the topic redelivers (stream.go:51-55).                        *)
StepsComeInOrder ==
  \A i, j \in 1 .. Len(conn.sent) : i < j =>
    conn.sent[i].seq <= conn.sent[j].seq /\ conn.sent[i] # conn.sent[j]

(* What is published after the tail has joined reaches the viewer, unless  *)
(* the stream ends or starts a session with nothing committed, however     *)
(* often the group joins again (kafka.go:196-198).                         *)
LiveStepsArrive ==
  \A i \in 1 .. MaxStreamSteps :
    (conn.pc = "tail" /\ conn.from < i /\ i <= Len(stepTopic))
      ~> (conn.pc # "tail" \/ i \in conn.got \/ conn.from >= i)

(* design.md:182 and useTaskStream.ts:12: step.id is the dedup key, so a   *)
(* reconnect after replay does not render a step twice.                    *)
NoStepShownTwice ==
  \A i, j \in 1 .. Len(shown) : i # j => shown[i].seq # shown[j].seq

=============================================================================
