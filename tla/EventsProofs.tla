---------------------------- MODULE EventsProofs ----------------------------
(***************************************************************************)
(* Lemmas about the logs of module Events, for the proofs about the        *)
(* modules that extend it.                                                 *)
(***************************************************************************)
EXTENDS Events, TLAPS

(* Publishing a message appends it to its topic's log and leaves the       *)
(* others alone.                                                           *)
LEMMA PublishedAppends ==
  ASSUME NEW lg, LogType(lg), NEW msg \in Message
  PROVE  /\ msg.topic \in Topics
         /\ Published(lg, msg) \in [Topics -> Seq(Message)]
         /\ Published(lg, msg)[msg.topic] = Append(lg[msg.topic], msg)
         /\ \A t \in Topics : t # msg.topic => Published(lg, msg)[t] = lg[t]
<1>1. msg.topic \in Topics
  BY DEF Message, CommandMsg, RunRequestedMsg, ReviewRequestedMsg, StopRequestedMsg,
         RunCompletedMsg, VerdictMsg, Topics, Commands, Facts
<1>2. lg \in [Topics -> Seq(Message)]
  BY DEF LogType
<1> QED BY <1>1, <1>2 DEF Published

(* Publishing keeps the log well formed.                                   *)
LEMMA PublishedType ==
  ASSUME NEW lg, LogType(lg), NEW msg \in Message
  PROVE  LogType(Published(lg, msg))
<1> DEFINE new == Published(lg, msg)
<1>1. /\ msg.topic \in Topics
      /\ new \in [Topics -> Seq(Message)]
      /\ new[msg.topic] = Append(lg[msg.topic], msg)
      /\ \A t \in Topics : t # msg.topic => new[t] = lg[t]
  BY PublishedAppends
<1>2. ASSUME NEW t \in Topics, NEW i \in DOMAIN new[t]
      PROVE  new[t][i].topic = t
  <2> HIDE DEF new
  <2>1. lg[t] \in Seq(Message) /\ \A j \in DOMAIN lg[t] : lg[t][j].topic = t
    BY DEF LogType
  <2>2. CASE t = msg.topic
    BY <1>1, <1>2, <2>1, <2>2
  <2>3. CASE t # msg.topic
    BY <1>1, <1>2, <2>1, <2>3
  <2> QED BY <2>2, <2>3
<1> QED BY <1>1, <1>2 DEF LogType

(* The topic of a message tells its payload.                               *)
LEMMA MessageOfTopic ==
  ASSUME NEW m \in Message
  PROVE  /\ m.topic = "run-requested" => m \in RunRequestedMsg
         /\ m.topic = "review-requested" => m \in ReviewRequestedMsg
         /\ m.topic = "stop-requested" => m \in StopRequestedMsg
         /\ m.topic = "run.completed" => m \in RunCompletedMsg
         /\ m.topic = "verdict" => m \in VerdictMsg
BY DEF Message, CommandMsg, RunRequestedMsg, ReviewRequestedMsg, StopRequestedMsg,
       RunCompletedMsg, VerdictMsg

(* What was published stays where it was.                                  *)
LEMMA PublishedKeeps ==
  ASSUME NEW lg, LogType(lg), NEW msg \in Message, NEW t \in Topics
  PROVE  /\ Len(Published(lg, msg)[t]) >= Len(lg[t])
         /\ \A i \in 1 .. Len(lg[t]) : Published(lg, msg)[t][i] = lg[t][i]
<1> DEFINE new == Published(lg, msg)
<1>1. lg[t] \in Seq(Message)
  BY DEF LogType
<1>2. /\ new[msg.topic] = Append(lg[msg.topic], msg)
      /\ t # msg.topic => new[t] = lg[t]
  BY PublishedAppends
<1> HIDE DEF new
<1>3. Len(new[t]) >= Len(lg[t]) /\ \A i \in 1 .. Len(lg[t]) : new[t][i] = lg[t][i]
  <2>1. CASE t = msg.topic
    BY <1>1, <1>2, <2>1
  <2>2. CASE t # msg.topic
    BY <1>1, <1>2, <2>2
  <2> QED BY <2>1, <2>2
<1> QED BY <1>3 DEF new

(* A topic's messages after a publish: those of before, and the new one.   *)
LEMMA PublishedMessages ==
  ASSUME NEW lg, LogType(lg), NEW msg \in Message, NEW t \in Topics
  PROVE  MessagesIn(Published(lg, msg), t) =
           MessagesIn(lg, t) \cup (IF t = msg.topic THEN {msg} ELSE {})
<1> DEFINE new == Published(lg, msg)
<1>1. lg[t] \in Seq(Message)
  BY DEF LogType
<1>2. /\ new[msg.topic] = Append(lg[msg.topic], msg)
      /\ t # msg.topic => new[t] = lg[t]
  BY PublishedAppends
<1> HIDE DEF new
<1>3. CASE t = msg.topic
  <2>1. /\ DOMAIN new[t] = DOMAIN lg[t] \cup {Len(lg[t]) + 1}
        /\ \A i \in DOMAIN lg[t] : new[t][i] = lg[t][i]
        /\ new[t][Len(lg[t]) + 1] = msg
    BY <1>1, <1>2, <1>3
  <2> QED BY <1>3, <2>1 DEF MessagesIn, new
<1>4. CASE t # msg.topic
  BY <1>2, <1>4 DEF MessagesIn, new
<1> QED BY <1>3, <1>4

(* No message disappears from a topic.                                     *)
LEMMA PublishedGrows ==
  ASSUME NEW lg, LogType(lg), NEW msg \in Message, NEW t \in Topics
  PROVE  /\ MessagesIn(lg, t) \subseteq MessagesIn(Published(lg, msg), t)
         /\ msg.topic # t => Published(lg, msg)[t] = lg[t]
BY PublishedMessages, PublishedAppends

(* What is published is a message of the topic it was published to.        *)
LEMMA MessagesType ==
  ASSUME NEW lg, LogType(lg), NEW t \in Topics, NEW m \in MessagesIn(lg, t)
  PROVE  m \in Message /\ m.topic = t
<1>1. lg[t] \in Seq(Message) /\ \A i \in DOMAIN lg[t] : lg[t][i].topic = t
  BY DEF LogType
<1> QED BY <1>1 DEF MessagesIn

=============================================================================
