------------------------------- MODULE FanOut -------------------------------
(***************************************************************************)
(* The Gateway's composed answers.  The health page and the workspace list *)
(* start a goroutine per upstream call and wait for all of them; the one   *)
(* collects over a channel, the other has each call write a slot of its    *)
(* own.  The KPI page makes its calls one after the other.                 *)
(***************************************************************************)
EXTENDS Naturals, Sequences, FiniteSets

CONSTANT Upstreams

ASSUME FanAssumption == IsFiniteSet(Upstreams)

VARIABLES
  up,         \* the upstreams that answer
  page,       \* the page being composed, or "none"
  asks,       \* each call: where it is and what it found
  results,    \* the channel
  slots       \* what the page has so far

fanVars == <<up, page, asks, results, slots>>

Probes == Upstreams \cup {"gateway"}
Asked(kind) == IF kind = "health" THEN Probes ELSE Upstreams
NotAsked == [pc |-> "none", found |-> FALSE]

FanTypeOK ==
  /\ up \subseteq Upstreams
  /\ page \in {"none", "health", "counts", "kpis"}
  /\ asks \in [Probes -> [pc : {"none", "asking", "sending", "done"}, found : BOOLEAN]]
  /\ results \in Seq(Probes) /\ Len(results) <= Cardinality(Probes)
  /\ slots \subseteq Probes

FanInit ==
  /\ up = Upstreams
  /\ page = "none"
  /\ asks = [p \in Probes |-> NotAsked]
  /\ results = <<>>
  /\ slots = {}

StartPage(kind) ==
  /\ page = "none"
  /\ page' = kind
  /\ asks' = [p \in Probes |->
       IF p \in Asked(kind) THEN [NotAsked EXCEPT !.pc = "asking"] ELSE NotAsked]
  /\ slots' = {}
  /\ UNCHANGED <<up, results>>

serveHealth == StartPage("health")
serveWorkspaces == StartPage("counts")
serveKpis == StartPage("kpis")

(* The call, under the client's timeout; the Gateway does not ask itself.  *)
(* A probe counts any status as an answer, a count needs its number.       *)
Ask(p) ==
  /\ asks[p].pc = "asking"
  /\ page = "kpis" => \A q \in Probes : asks[q].pc # "sending"
  /\ \E ok \in BOOLEAN :
       /\ ok => p \in up \cup {"gateway"}
       /\ p = "gateway" => ok
       /\ asks' = [asks EXCEPT ![p] = [pc |-> "sending", found |-> ok]]
  /\ UNCHANGED <<up, page, results, slots>>

NoBuffer == 0
Capacity == Cardinality(Asked(page))

(* The end of a call: a send that waits for room, or a slot.               *)
Tell(p) ==
  /\ asks[p].pc = "sending"
  /\ asks' = [asks EXCEPT ![p].pc = "done"]
  /\ IF page = "health"
     THEN Len(results) < Capacity /\ results' = Append(results, p) /\ UNCHANGED slots
     ELSE slots' = IF asks[p].found THEN slots \cup {p} ELSE slots
  /\ page # "health" => UNCHANGED results
  /\ UNCHANGED <<up, page>>

(* wg.Wait, close, the results in the order of the probes, the answer.     *)
Compose ==
  /\ page # "none"
  /\ \A p \in Asked(page) : asks[p].pc = "done"
  /\ slots' = IF page = "health" THEN {results[i] : i \in DOMAIN results} ELSE slots
  /\ results' = <<>>
  /\ page' = "none"
  /\ UNCHANGED <<up, asks>>

UpstreamChanges ==
  /\ \E p \in Upstreams : up' = IF p \in up THEN up \ {p} ELSE up \cup {p}
  /\ UNCHANGED <<page, asks, results, slots>>

FanNext ==
  \/ serveHealth \/ serveWorkspaces \/ serveKpis \/ Compose \/ UpstreamChanges
  \/ \E p \in Probes : Ask(p) \/ Tell(p)

(* Every goroutine goes on, and every call ends by its timeout.            *)
FanFairness ==
  /\ WF_fanVars(Compose)
  /\ \A p \in Probes : WF_fanVars(Ask(p)) /\ WF_fanVars(Tell(p))

FanSpec == FanInit /\ [][FanNext]_fanVars /\ FanFairness

(* A page that was asked for is answered, whichever upstreams are down:    *)
(* no call waits for the handler that waits for it (routes.go:324-326).    *)
PageAnswers == page # "none" ~> page = "none"

=============================================================================
