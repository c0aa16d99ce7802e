# A TLA+ model of the agents-team kanban backend

The system turns a kanban card into work done by LLM agents: a task moved to
*doing* gets an implementer run, a finished implementer run gets a reviewer run,
a reviewer asks for changes or approves, and the card follows. Five Go services
(`src/backend/services`) and a TypeScript frontend (`src/frontend`) share the
work; the life of a task crosses two of them, over Kafka.

This directory models that life, the Workspace service's *saga* and the
Executor's *run control*, in full detail; and, one module each, the components
around it: what a run is given and taken from, the driver's loop, the live step
stream, the Gateway's access control, Identity's accounts, members, logins and
provisioning, the catalogue with the agents that use it, and the start of a
service on a shared database. TLC checks all of it on small instances. TLAPS
proves every safety property checked of both sides of the life of a task, that the
Executor keeps what the saga relies on, and the safety properties of the
components around it, for every instance; types of some components and
liveness are model-checked only.

Contents: [inventory](#1-inventory), [what is modelled](#2-the-model),
[properties and runs](#3-properties-and-runs),
[claims the code does not keep](#4-claims-the-code-does-not-keep),
[proofs](#5-proofs), [not modelled](#6-not-modelled-and-why), [plan](#7-plan).

## 1. Inventory

Paths are relative to `src/backend` unless they start with `src/`.

### Workspace service: the task saga
*Code*: `services/workspace/internal/application/task/saga.go`, `task.go`,
`infrastructure/repository/task/repo.go`, `interfaces/messaging/consumer.go`,
`infrastructure/bus/bus.go`.
*State*: the `tasks` row (status, `round_no`, `agent_id`), the `saga_runs` table of
run ids already applied, the offsets of the consumer group `workspace-saga`.
*Operations*: `PatchStatus`, `ReRun`, `Stop`, `OpenPr`, `Create`, `Update`, `Delete`
from HTTP; `onImplementerDone`, `onImplementerFailed`, `onVerdict` from Kafka.
*Hard behaviour*: HTTP requests and two fact claims interleave between SQL
statements; commands are published after the commit they report, so a crash or
a failed publish separates the two; facts are delivered at least once.
*Correct when*: no fact moves the task twice; none is lost; a command never
overtakes the commit it reports; implementer and reviewer alternate; an
unattended task ends up done or blocked after a bounded number of reviews.

### Executor: run control
*Code*: `services/executor/internal/application/runctl.go`, `dispatch.go`,
`orchestrator.go`, `infrastructure/repository/run/repo.go`.
*State*: three `sync.Map` registries keyed by task (`running`, `cancels`, `pending`),
one goroutine per run, the `runs` table, the offsets of the group `runner-commands`.
*Operations*: `Dispatch` of run, review, stop and open-pr commands; `startRun`,
`CancelTask`, `StartImplementer`, `StartReviewer`, `executeAndFinish`.
*Hard behaviour*: the claims of the four command topics run side by side with the
goroutines and with the deferred cleanup of an ending goroutine, which starts the
queued command itself; a stop cancels the context the run's own statements use;
commands are marked before the run they start is on record.
*Correct when*: one run of a task at a time; a stop reaches the run that
executes; every run that executes is reported once, as it is on record; the task
is always given back; a duplicate command starts nothing.

### Kafka platform layer
*Code*: `internal/platform/kafka/kafka.go`, `internal/contracts/events/events.go`.
*State*: topics partitioned by task id, offsets per group, a count of failures per
event id, dead-letter topics.
*Operations*: `Publish`, `ConsumeClaim`, `routeToDLQ`, `Run`, `NewTailConsumer`.
*Hard behaviour*: redelivery from the committed offset, order per topic only,
parking of a message after five failures, best effort.
*Correct when*: nothing is passed over that was neither handled nor parked.

### Executor: driver and tools, sandbox, MCP bridge
*Code*: `services/executor/internal/driver`, `sandbox`, `mcp`,
`infrastructure/tools/provisioner.go`.
*State*: the conversation of a run and the steps on record; its worktree, branch and
container; the MCP server processes.
*Operations*: `SetupTools` (worktree, container, bridge), the simulated script, the
LLM loop with its tool calls, teardown.
*Hard behaviour*: caps (50 steps, 30 minutes), a stop between any two of these, a
setup that fails half way, a branch that outlives its run
(`sandbox/worktree.go:28`), an MCP server killed in the middle of a call.
*Correct when*: how a run ended agrees with the steps it left; when it is over
nothing of it is left; each run of a task gets a worktree.

### Gateway: realtime stream
*Code*: `services/gateway/internal/application/stream.go`,
`infrastructure/kafka/tailer.go`, `src/frontend/src/hooks/useTaskStream.ts`.
*State*: per connection, the step ids seen; in the browser, the list of steps.
*Hard behaviour*: replay from the database, then a tail from the newest offset; a
tail that loses its session and joins again; a live step and its replayed copy
with different ids (the driver's and the table's).
*Correct when*: the browser shows every step once, in order.

### Gateway: access control, routing, composed pages
*Code*: `services/gateway/internal/application/acl.go`, `route.go`,
`interfaces/http/routes.go`.
*State*: a cache from session token to identity, 60 s; the goroutines of a page that
asks several upstreams.
*Hard behaviour*: staleness after a removal; negative entries; an answer stored
later than it was true; goroutines that send on a channel nobody reads yet.
*Correct when*: access ends soon after membership does; a page is answered
whichever upstreams are down.

### Identity: accounts, membership, approvals, provisioning
*Code*: `services/identity/internal/application/{auth,orgs,admin}`,
`infrastructure/provision/{provision,reconcile}.go`, `infrastructure/bus/bus.go`.
*State*: users, sessions, signup requests (auth plane); organisations,
workspaces, members, join and organisation requests, invites (orgs plane); the
login throttle; provisioning state per workspace.
*Hard behaviour*: read-then-write rules across requests (last owner, pending
requests), a bus between the planes that logs and drops a handler's error, a
sweeper that retries provisioning next to the inline attempt, counters kept in a
map whose operations are atomic one at a time only.
*Correct when*: a workspace keeps an owner; what was granted is what was decided and
both planes agree; a created workspace is provisioned in the end; the throttle
counts failures only.

### Workspace: catalog, resources, projects; Agent service
*Code*: `services/workspace/internal/application/{catalog,resources,project}`,
`services/agent/internal/application`.
*State*: skills, MCP servers, rules, plugins, knowledge, projects; agents with
their attachments; encrypted provider keys.
*Hard behaviour*: a projection of MCP servers fed by in-process events; rules seeded
again after a user has switched one off; attachments checked against a projection.
*Correct when*: a run gets its own workspace's servers and the rules its workspace chose.

### Platform: start-up
*Code*: `internal/platform/db/db.go`, `internal/platform/svcrun/svcrun.go`.
*State*: the schema and `schema_migrations` of a database that replicas share.
*Hard behaviour*: replicas check and apply a file at the same time, without a lock;
either may fail in between.
*Correct when*: files are committed in their turn, a failed one is not on record, and nobody
serves without all.

### Configuration, HTTP helpers, tenancy headers; frontend
No behaviour a model would add to, apart from the stream's merge in the browser.

### How they interact

    browser --HTTP--> Gateway --HTTP--> Workspace --run/review/stop-requested--> Executor
       ^               |  |  \              ^  ^                                  |  |
       |               |  |   +-> Agent     |  +------ run.completed, verdict ----+  |
       |               |  +-----> Identity -+ POST provision                         |
       +------ SSE ----+<----------------------------- step -------------------------+

The saga and the run control share nothing but the topics: each has its own
database and process. Everything either keeps is keyed by the task id. The
Executor asks the Agent service for a run's servers and key and the Workspace
service for its rules; the Gateway asks Identity who somebody is.

`PROJECT.json` lists, under `hazards`, what in this code is hard to test, at its
line, with the property that covers it or why there is none.

## 2. The model

| module | models |
|---|---|
| `Events` | the event payloads, topics as logs, consumer offsets and redelivery |
| `TaskSaga` | the Workspace side of a task: HTTP operations and fact handlers, statement by statement |
| `ExecutorContract` | what the saga may rely on the Executor for (abstract specification) |
| `SagaSystem` | `TaskSaga` with an Executor that keeps the contract; fairness; properties |
| `Runner` | the Executor side: registries, goroutines, claims, dedup, reports; properties and refinement of `ExecutorContract` |
| `RunTools` | worktree, branch, container and MCP processes over the runs of one task |
| `AgentLoop` | `RunTools` with the driver between setup and teardown |
| `StepStream` | table and topic of steps, the Gateway's replay and tail, the browser's list |
| `FanOut` | the Gateway's health, workspace and KPI pages |
| `Gateway` | routing, the session cache and the checks before a request is passed on |
| `Members` | roles and removals in one workspace |
| `Accounts` | invitation, signup, approval and decline across Identity's two planes |
| `Logins` | login, its throttle, sessions |
| `Provisioning` | creation of a workspace, inline provisioning and the sweeper |
| `Resources` | the Workspace service's other tables, with the projection of MCP servers and the seeding of rules |
| `Agents` | `Resources` with the Agent service: attachments, provider keys, what a run is given |
| `Startup` | pool, migrations, listener and shutdown of replicas of one service |
| `SagaClaims`, `RunnerClaims` | what documents and comments say and the code does not do |
| `MCSagaSystem`, `MCRunner` | model values and symmetry for TLC |
| `MCLife`, `MCServices` | the composite runs: saga and run control, and the components around them |
| `EventsProofs`, `SagaProofs`, `RunnerProofs` | lemmas about logs; the theorems about `SagaSystem` and `Runner` |
| `IdentityProofs` | the theorems about `Members`, `Accounts`, `Logins` and `Provisioning` |
| `CatalogProofs`, `GatewayProofs` | the theorems about `Resources` and `Agents`, `Gateway` |
| `ExecutionProofs` | the theorems about `AgentLoop` with `RunTools`, and about `StepStream` |
| `ServicesProofs` | the theorems about `Startup`, and the types of every component of `MCServices` |

### The life of a task

**One task.** No statement, registry operation or partition of the lifecycle
involves two tasks, so the modules follow one. A topic is the partition that
task's events land on; messages of other tasks in it would only delay these.

**Grain.** One SQL statement, one `sync.Map` operation and one publish is one
step each. Two reads are merged with the statement after or before them: `Stop`
reads the row only to discover that it exists, and `SetStatus`'s fall-back read
returns a row of which only the agent is used, in the one case it could be
stale that case emits nothing. `SagaAdvance` is a single
statement (`WITH ins AS (INSERT ...) UPDATE`), so mark and transition are a step.

**Topics and offsets** (`Events`). `log[t]` is the sequence of messages published.
The producer is idempotent and waits for all replicas, so a publish that succeeds
appends once. A group's offset has `next` (the message it is handed) and
`committed`. Marks are committed in the background: the model decides at a
restart how far the commit had got (`ResumePoints`), which covers every moment
it could have happened.

**The saga** (`TaskSaga`).

| variable | code |
|---|---|
| `task` | `status`, `round_no`, `agent_id` of the `tasks` row |
| `marks` | run ids in `saga_runs` |
| `requests` | where the handler goroutine of each HTTP request is, with the locals it carries |
| `claims` | the same for the two `ConsumeClaim` goroutines |
| `offset` | group `workspace-saga` |
| `failures`, `parked` | `dispatcher.failures` of the message next in line; messages sent to the dead-letter topic |

`PatchRead`, `PatchSet`, `PatchBlock` are the three statements of `PatchStatus`;
`ReRunRead`, `ReRunSet` those of `ReRun`; `StopSet` is `Stop`; `RequestEmit` their
publish. `ReadTask`, `ImplementerDone` / `ApplyVerdict`, `Republish`, `ClaimEmit`
are the steps of the fact handlers and `ImplementerFailed`, `IgnoreReviewerRun`
the handlers of one step. `RequestFails`, `ClaimFails` and `Crash` are what goes
wrong; a lost publish is an alternative of `Publish`. When one claim's handler
fails the whole consumer session ends and the context of the other claim's
handler is cancelled; that is a failure of its own in the model, so every
combination is explored, and the runs allow for several.

**The run control** (`Runner`).

| variable | code |
|---|---|
| `running`, `cancels`, `pending` | the three registries, the entry of this task |
| `workers` | goroutines: the command, whether their context is cancelled, the run they execute and how it ended |
| `claims` | the `ConsumeClaim` goroutines of the command topics |
| `rows` | the `runs` table |

`TakeTask`, `Queue`, `Launch` are the steps of `startRun` in a claim; `Restart`,
`Requeue`, `Relaunch` the same steps when the deferred function of an ending
goroutine calls `startRun`; `DropQueued`, `CancelRegistered` are `CancelTask`;
`Check` to `Judge` are `StartImplementer` / `StartReviewer` / `executeAndFinish`;
`Unregister`, `Release`, `Redispatch` the deferred function. The driver is the set
of its possible results (`Endings`): any configured status, with a verdict for a
reviewer that is done and possibly one for a reviewer that is stopped, as the
simulated driver does. The saga is `SagaAsks`, which may publish any command at
any time: more than the real saga does.

**Composition.** `SagaSystem` puts `TaskSaga` next to `ExecutorContract`, and
run `runner_faults` checks, and theorem `Refinement` proves, that `Runner` implements
`ExecutorContract` (mapping the `runs` table to the contract's `runs`). The saga's properties are thus checked
and proved against every Executor that keeps the contract, this one among them.
The contract promises little on purpose: at most one run per role and round, each
started by a published command, at most one `run.completed` and one verdict per
run, in this order. It holds as long as the dedup read does not fail: `hasRun` answers "no" when its
query fails and a duplicate command then creates a second run of the round, so
`runner_faults` leaves the fault `"list"` out; `life` has it. The other read,
of the implementer run by `StartReviewer` (`"get"`), only makes a command end early
and is in both.

### Inside a run

**Tools** (`RunTools`). The runs of one task follow one another, which `OneOwner` of
`Runner` is about, so worktree and branch are one Boolean each, containers and
processes a set. `SetupTools`, `addWorktree`, `createAndStart`, `BridgeNew`, `Ready` are the
setup; `envClose`, `removeWorktree`, `bridgeClose` the teardown, under a context of its own. A
stop may come at any moment (`StopRun`); from then on what runs under the task's
context fails (`UnderContextFails`). `litter` is history: what the code has given up on.

**Driver** (`AgentLoop`). `loop` is where `Execute` is, `stepLog` the kinds of steps on record.
`Play` is the simulated script; `chat`, `EmitCall`, `dispatchTool`, `EmitResult`, `EmitMessage` are a turn of
the LLM driver, where the model may answer anything. `emit` has the three ways a
step is refused: cap, table, context. `driver = "llm"` is the driver as `New` builds it, `"client"` the same loop with
an HTTP client, without which the loop cannot be reached (section 4).

### Around it

**Stream** (`StepStream`). Run and viewer advance independently: a row, then its event,
which may be lost; a connection replays, joins at the newest offset, tails, and
commits now and then; a lost session begins again where it had committed, or at
the newest when it had not. The browser's list outlives connections.

**Pages** (`FanOut`). Each upstream call is a goroutine that asks, then tells, over a
channel of the capacity the code gives it or into a slot of its own.

**Access** (`Gateway`). `Resolve` is the route table. A request that needs an identity loads
the cache, perhaps asks Identity (`fetch`), stores the answer (`store`) and is checked; Identity
changes its mind at any time (`IdentityChanges`) and time passes while requests wait
(`GatewayTick`), no longer than `MaxWait`. `lostFor` is history: how long ago a membership ended.

**Identity.** `Members` has a step per statement of PATCH and DELETE: write, count, restore;
and list, count, delete. `Accounts` names a person, her user, her request and her address by one
value, as the code allows one request per address; a call's next statement is its
`pc`, and bus handlers are the last step of the call that publishes. `Logins` separates the
two halves of `recordFailure` (load, then store) and keeps the failures that did
happen as history. `Provisioning` has both ends of the POST, whose answer may be lost after it
took effect, and the sweeper as a goroutine that starts over with the service.

**Catalogue** (`Resources`, `Agents`). The tables do not read one another, so a behaviour of `Resources` is
about one of them (`table`); `chosen` is history: what a user last made of a rule. `Agents` adds
attachments, keys and what the Executor fetches, with the catalogue changing under it.

**Start-up** (`Startup`). `schema` is the files whose statements are committed, in that order;
`recorded` the rows of `schema_migrations`; a file's statements and its row commit together.

## 3. Properties and runs

Each property has a mutant in `PROJECT.json`: a plausible bug, written as an
operator next to the one it replaces, under which the run finds it violated.

### `saga_human`: callers, faults and redelivery
Two callers issuing two requests out of PATCH (to doing, stopped, backlog),
re-run, stop and reassignment, one fault (lost publish, failed statement,
restart), rounds up to 1, implementer runs done or aborted, reviewers with a
verdict. A handler's first failure parks its fact here (`MaxRedeliveries` 1);
failures that are retried are in `life`, and the theorem about
`NoFactSkipped` covers every limit. 576 thousand states.

* `TypeOK`.
* `AdvanceOncePerRun`: a step that is not a caller's changes the row only together
  with a mark for the run of its fact that was not there before. It would break
  if the update did not depend on the insert, or the mark were made elsewhere.
* `ReviewCommandsReportCommits`: a published review request names a run whose mark
  is committed and which ended done in the named round; so no crash lets a
  command overtake its commit, and no caller's round bump leaks into it.
* `NoFactSkipped`: whatever the offset has passed either left its mark or was parked.
* `InHand`: what handlers hold between their steps; also the inductive
  strengthening of section 5.

### `life`: what happens in the end
Both sides of the life of a task under fairness, each by itself: `side` says which one a
behaviour is about, the other's variables stay where they start (`MCLife`). 142 thousand
states.

*The saga on its own.* One request starts the task, then two faults (restarts, failed
statements) with `MaxReviewRounds` 1. Two rounds of review are enough to reach
"changes, then changes again, then blocked", a redelivered verdict of an older
round, and a republish in each handler. 36 thousand states.
* `RunsAlternate`: each review has its finished implementer run before it, and each
  later round a verdict that asked for it.
* `CommandIsBacked`: a task in doing or review has its command published, or a fact
  still to be delivered whose handler publishes it. This is the promise of
  `republishIfAt`.
* `VerdictIsCurrent`: a verdict that moves the task is about the round under
  review, although the code never compares them.
* `TaskSettles`: a task whose run was requested ends up done or blocked.

`TaskSettles` assumes that the Executor executes each command and that a reviewer
ends with a verdict; without either the claims `QueuedCommandRuns` and
`ReviewsEndInAVerdict` of section 4 are the way it fails. It also assumes that
publishes are not lost (claim `LostPublishIsRecovered`) and that no fact is
parked: two faults are below the limit of five.

*Fairness.* Weak fairness for each request in progress, for each claim and for
the Executor's starts and reports: these are goroutines that hold no lock
between steps, statements have timeouts, and `Run` re-enters `Consume` for ever.
Callers are under no fairness (nobody has to click) and neither are faults.

*The run control on its own.* Three commands, rounds 0 and 1, one failed read (the
dedup list or the implementer run), under
weak fairness of claims and goroutines (a driver returns: it has a step cap and a
wall-clock cap). 107 thousand states.
* `RunsAreReported`: a run that executes is reported, stopped or not.
* `TaskIsReleased`: the registry entry is always given back.

### `runner_faults`: one owner, and the contract kept
Three commands, rounds 0 and 1, two faults out of restart, failed read of the
implementer run, failed INSERT, failed `FinishRun`, lost publish. 2.1 million states.
* `TypeOK`.
* `OneOwner`: whoever won `LoadOrStore` has the task to itself until
  `running.Delete`, and the entry exists exactly while there is an owner.
* `CancelsTheRunning`: the registry holds the cancel function of a goroutine exactly
  while it executes. The order of the two deletes in the deferred function
  matters here.
* `InHand`: a goroutine past `CreateRun` has a run on record that is of its command's
  role and round and of which nothing was reported that it is still to report;
  queued and held commands are published ones; no fact is about an unknown run.
* `ReportsMatchRows`: a reported run is on record with its role and round, and with the
  status reported. The row may only say `running` still, and only where a fault was
  spent that may have been the UPDATE of `FinishRun`: the error is logged and the
  saga told anyway.
* `KeepsContract`: the specification of `ExecutorContract`, refined.

Three goroutines suffice for three commands: at most one goroutine per command
exists, and `Launch` is never refused for want of one.

### `services`: the components around it
The eleven remaining components share no variable, and none of them changes
another's. One run checks them all: `part` says which one a behaviour is about, the
others stay where they start (`ServicesInit` picks their first initial state), so the
state space is the sum of theirs: 247 thousand states. A property is about the variables of one
component and is checked in every state of that component.

| part | states | bounds | property |
|---|---|---|---|
| members | 26 thousand | two people, two requests at a time, one fault | `DemotionsKeepAnOwner` |
| accounts | 17 thousand | one applicant, two workspaces, two calls at a time, one fault | `DecisionsHold` |
| provisioning | 20 thousand | two workspaces, two requests next to the sweeper, one fault (POST, mark, restart) | `MarkedMeansSeeded`, `EveryWorkspaceProvisioned` |
| logins | 30 thousand | one account, the address, two logins at a time, three failures, limit 2, three ticks, window 1 | `CountsAreFailures` |
| gateway | 76 thousand | one session, one workspace, two requests, a path of each kind, TTL and wait of one tick | `AccessEndsSoon` |
| stream | 6 thousand | three steps, two faults | `StepsComeInOrder`, `LiveStepsArrive` |
| pages | 1 thousand | two upstreams and the Gateway itself | `PageAnswers` |
| resources | 7 thousand | two rows or two workspaces of rules, one fault | `GuardrailsHold` |
| agents | 14 thousand | one agent, two definitions, two workspaces, one provider | `RunsGetTheirOwnServers` |
| agent loop | 49 thousand | two runs, one server, cap of two steps, two calls a turn, one fault, three drivers | `ToolsTornDown`, `EndingsAreHonest` |
| startup | 1 thousand | two replicas, three files, two faults | `SchemaBeforeService` |

* `ServicesTypeOK`: the types of all of them.
* `DemotionsKeepAnOwner`: `UpdateRole` writes first and counts afterwards. Whatever demotions run
  side by side there is an owner, or the check that restores one is ahead, as long
  as no request was cut short and no removal raced another request. Two requests
  and two people are enough for two owners to demote each other.
* `DecisionsHold`: an approved applicant is an active member of what she asked for; one
  that is not approved has nothing of an approval; the status she polls never
  disagrees with a decision. Two administrators decide at once, statements roll
  back, bus handlers fail.
* `MarkedMeansSeeded`: the mark is not set before the other service has seeded its rules.
* `EveryWorkspaceProvisioned`: a created workspace is provisioned in the end. Weak fairness of the
  sweeper's start and steps: `Run` is a loop in a goroutine of its own with a
  timeout on each POST. Nothing is asked of the request that created the workspace.
* `CountsAreFailures`: no entry, in the map or about to be stored, counts more failures than
  happened since its window opened. Lost updates make it count fewer: two
  concurrent failures are one, which is the direction that favours the user.
* `AccessEndsSoon`: a request to a workspace or a task's runs, artifacts or stream is
  passed on only for a member or for one who was a member less than a TTL and
  two waits ago. One TTL is not enough: an answer is dated when it is stored, after the wait for
  it, and the request that uses it may wait once more for the task's workspace.
* `StepsComeInOrder`: a connection sends steps in the order of the run, no event twice.
* `LiveStepsArrive`: what is published after the tail has joined reaches the viewer, unless
  the stream ends or begins a session with nothing committed. Weak fairness of the
  connection's own goroutines.
* `PageAnswers`: a page is answered: no goroutine waits for the handler that waits for it.
  Weak fairness of handler and goroutines; each call has a client timeout.
* `GuardrailsHold`: before the first seeding a run has none of the default rules, after
  it all but those a user switched off last, however often the sweep seeds again.
* `RunsGetTheirOwnServers`: a run's servers belong to its agent's workspace, although they were
  checked against a projection and are read from the catalogue later.
* `ToolsTornDown`: between runs there is no container, worktree or process left, except
  what `litter` says the code gave up on, each with its reason (section 4).
* `EndingsAreHonest`: *done* means the script played to its end or the final message on
  record; *stopped* that the context did end; a verdict is a reviewer's; the LLM
  driver stays below its cap and every result follows its call.
* `SchemaBeforeService`: a migration is committed after all before it, one that failed is not on
  record, and a serving replica has them all. How often a file runs it does not say (section 4).

`CHECK_DEADLOCK FALSE`: these components may stop, when bounds on faults, rows or runs are
used up. Two of a kind (requests, people, replicas, rows) are the least that race;
where the protocol has a limit (cap, window, TTL) the instance crosses it.

## 4. Claims the code does not keep

Each run below states what a document, a comment or a task list says, and TLC
finds the behaviour that contradicts it. `PROJECT.json` quotes the lines.

* `claim_doing` (`DoingGetsARun`): PATCH doing, run, stop, PATCH doing again. The
  second run request repeats `round_no`, the Executor's per-round dedup drops it
  as a duplicate, and the task stays in doing. Only a re-run bumps the round.
* `claim_publish` (`LostPublishIsRecovered`): the republish on redelivery covers a
  crash between commit and publish. A publish that *fails* is logged and the
  handler returns nil: the fact is marked and never delivered again.
* `claim_rounds` (`ReviewRoundsAreCapped`): `round_no` starts at 0 and `saga.go:246` compares
  `round_no + 1` with `maxReviewRounds`, so a task whose reviewer always asks for changes is
  reviewed in rounds 0 to 5, six times, where the documents allow five. The run has the
  code's own limit of five and neither faults nor a second request.
* `claim_queue` (`QueuedCommandRuns`): `LoadOrStore` finds the task in flight; the run
  ends, deletes its entry and finds nothing queued; then `pending.Store`. The
  command stays queued until another one comes.
* `claim_stop` (`StopEndsTheTask`): a stop arrives after the deferred function took the
  queued command and before `startRun` stored its cancel function.
* `claim_verdict` (`ReviewsEndInAVerdict`): a reviewer run that aborts publishes no
  verdict and the saga ignores a reviewer's `run.completed`, so the task stays in
  review.
* `claim_stream` (`NoStepShownTwice`): a step seen live carries the id the driver made up, its
  row the id the table chose. A viewer that reconnects is replayed the row and
  sees the step twice.
* `claim_worktree` (`RunsHaveTheirWorktree`): `git worktree add -b` finds the branch of the task's first
  run, which nothing deletes: the second run, the reviewer's, goes on with its
  tools stubbed.

The counterexamples of `claim_rounds`, `claim_stop`, `claim_stream` and `claim_worktree` are finite,
the others are infinite behaviours under the fairness of their specification.

The model has these behaviours too; no run is spent on them.

*The life of a task*
* Two concurrent PATCHes to doing both publish: the emission depends on the status
  read before (`saga.go:32`), not on whether the UPDATE matched
  (`domain/task/task.go:51-53`). The Executor's dedup absorbs the second command.
* Two concurrent re-runs, or a re-run and a verdict, write the same round (`saga.go:72`): of the
  two run requests one is executed.
* An agent removed during a review gives a run request with an empty agent
  (`saga.go:281`), which the Executor ignores; the task stays in doing.
* An ending goroutine may put an older dequeued command over a newer queued one
  (`runctl.go:48`).
* Commands of a task are on several topics, so a stop may be handled before the
  run request published earlier, and that run then starts; order holds within a topic only.

*Inside a run*
* `New` gives the LLM driver no HTTP client: its first round trip is a nil dereference
  that nothing recovers, and the Executor stops (`driver.go:120-130`, `llm.go:163`).
* A setup that fails because of a stop cleans up under the stopped context and leaves
  the worktree (`sandbox.go:118-120`); a container that was created and does not start is not removed;
  an MCP bridge without tools is neither used nor closed.
* A stop during a round trip is reported *aborted* unless the loop looks at the
  context next; the wall clock is reported *stopped*, as S4 of `docs/spec.md` has it, where
  REQ-3.6 has *aborted*.
* A simulated reviewer that fails to record its last step publishes its verdict all the
  same; the simulated driver has no step cap.

*Stream*
* Steps between the end of the replay and the start of the tail are seen by neither;
  a tail that joins again with nothing committed starts at the newest. The purpose of
  `realtime-streaming/spec.md` (:5) is a view "without gaps or duplicates"; `claim_stream` shows
  the duplicates, and no property covers the gaps.

*Identity and access*
* A removal next to another request takes the last owner away (`member.go:44`): `Remove` deletes on
  the strength of a count it made before. A concurrent role change may make the
  owner that is restored one nobody chose.
* Nothing keeps an owner from removing herself: the check compares the id of a
  membership row with a user id.
* Two approvals of one organisation request create two organisations (`org.go:65`).
* A failed lookup of a session's workspaces is an empty list, cached for 60 s; an error of
  the lookup of the user is cached as a rejection.
* The throttle's key of client and e-mail address is counted and never asked for.
* A failed binding of the repository is swallowed and the workspace is marked all the same.

*Catalogue and agents*
* The deletion of an MCP server publishes an event without a workspace: the projection's
  statement fails and its row stays.
* Update and delete of an agent name an alias they do not declare and are always
  refused (`agent/repo.go:234`, `:251`); nothing writes the projections attachments are checked
  against, so only definitions projected by an earlier deployment can be attached.
* Under a changed master key the stored provider keys cannot be opened.

*Start-up*
* Two comments disagree on how often a migration runs. `db.go:49-51` says exactly once, and
  a restart never executes it again; the Workspace service's
  `migrations/0010_resources_rules_unique.sql:4` says "this file re-runs on every boot". `Migrate`
  skips what `schema_migrations` records (`db.go:76-82`), and so does the model: a committed file is
  not run again. The second comment is out of date; its file would stand the repetition.

## 5. Proofs

Twenty-six theorems, for every set of callers, agents, goroutines, people, workspaces,
servers, sessions and replicas and every bound. They assume the named assumptions on the
constants, which TLC evaluates in the runs: `AgentAssumption`, `SagaAssumption`,
`OutcomeAssumption`, `RunnerAssumption`, `FilesAssumption`; `AccountsAssumption` (the founder's request is
no workspace); `GatewayAssumption` (a TTL of at least a tick, the absent token and workspace are
none); `ToolsAssumption`, `LoopAssumption`, `StreamAssumption`, `MembersAssumption`,
`LoginsAssumption` (bounds are numbers, the drivers those of the code); `ProvisioningAssumption`
and `FanAssumption` (finitely many workspace ids and upstreams); `ResourcesAssumption` (`default` is
a name). Five theorems have a hypothesis of their own:

| theorem | hypothesis | why |
|---|---|---|
| `Refinement` | the dedup read does not fail | a failed read starts a duplicate run, which the contract excludes |
| `ReportedAsRecorded`, its second half | `FinishRun` does not fail | the error is logged and the run reported all the same |
| `RoundsAreBounded`, its second half | one request, `MaxReviewRounds` not 0 | each re-run raises the round without asking for the limit, and with a limit of 0 a re-run, as the one request, reaches round 1 |
| `RoundsInTurn`, `CurrentVerdicts` | one request | a re-run starts a round without a verdict; these are about an unattended task |
| `NeverStranded` | one request, no lost publish, `MaxFaults < MaxRedeliveries` | section 4 has what a lost publish does; a parked fact is not delivered again |

**The saga** (`SagaProofs`).
* `Invariance`: `Spec => [](TypeOK /\ InHand)`.
* `Idempotence`: `Spec => AdvanceOncePerRun`.
* `CommandsReportCommits`: `Spec => []ReviewCommandsReportCommits`.
* `NothingSkipped`: `Spec => []NoFactSkipped`.
* `RoundsAreBounded`: no run's round is above `RoundLimit`; without a re-run it is one of 0 to
  `MaxReviewRounds`. That is one review round more than the documents say, and no more than that.
* `RoundsInTurn`: `Spec => []RunsAlternate`.
* `CurrentVerdicts`: `Spec => VerdictIsCurrent`.
* `NeverStranded`: `Spec => []CommandIsBacked`.

None of the next three is inductive: a step that publishes has to know where the
command in hand comes from, and a step that marks a message what its handler has
done. `InHand` says it: a claim that is not idle still has its fact at the offset; past
`SagaAdvance` the mark of that fact is committed; a command to publish is the one
that fact calls for; and no caller ever has a review request in hand. With types it
is inductive (`Invariance`, one lemma per action group). For `Idempotence`, each
claim action changes the row only through `SagaAdvance`, whose condition is the
absence of the mark. For `CommandsReportCommits`, marks and published messages only
grow, and the one step that appends a review request holds it `InHand`. For
`NothingSkipped`, a restart moves the offset back, never forward (`OffsetsInLog`: an
offset is at most one past the log, so what lies before it does not change), and a
step forward has marked the fact or parked it.

The last four need the history of a task. They share `RecordInv`: the Executor's
table has one run per role and round, and a fact is about the run it names.
* `RoundLimit` is `MaxReviewRounds` plus one for each request after the first. A verdict
  raises the round only below `MaxReviewRounds`, a request by one; the invariant says this of
  the row, of what handlers and callers hold, of commands, runs and facts.
* `Turns` is the history of an unattended task. Every round before the present one
  is closed: `saga_runs` has its reviewer's run and the verdict asked for changes
  (`EarlierClosed`). A reviewer run exists only for a round whose implementer run is in
  `saga_runs` (`ReviewedMarked`). So a verdict or an implementer's end that is *not* yet in
  `saga_runs` is of the present round, there being one run per round. That is why the code
  need not compare rounds: the marks do (`CurrentVerdicts`). `OneRequest` says what the single
  request may still hold; before it has asked for a run nothing has happened.
* `BackedInv` says the same of commands. A task in doing or review has the command of its
  round published, or a fact that makes its handler publish it lies at the offset or
  after it. The offset passes that fact only when the handler has published
  (`republishIfAt` for one that was marked before a crash) or the fact was parked, for which
  the faults are too few (`FailuresCounted`); a restart moves the offset back.

**The run control** (`RunnerProofs`).
* `Invariance`: `Spec => [](TypeOK /\ InHand)`.
* `SingleOwner`: `Spec => []OneOwner`.
* `StopReachesTheRun`: `Spec => []CancelsTheRunning`.
* `Refinement`: `"list" \notin FaultKinds` gives `Spec => KeepsContract`.
* `ReportedAsRecorded`: `Spec => [](ReportsMatchRows /\ ("finish" \notin FaultKinds => ...))`,
  where the second half is the agreement without the exception for a lost UPDATE.

The inductive invariant is the conjunction of all four properties, since they need each
other. Only `TakeTask`, `Launch`, `Unregister`, `Release`, `Restart`, `Relaunch` and
`Crash` touch the owners; each of them is the owner's own step or finds the task
free, and `OneOwner` says that the others are then not executing, which is what keeps
the registration (`CancelsTheRunning`) and the reports (`InHand`: nothing else can
have reported the run) right. Types need `InHand` too: a goroutine's command is a
run or review command because a claim that is about to launch one holds the message
at its offset. The refinement adds one more invariant, `CheckStillHolds`: between
`hasRun` and `CreateRun` nobody else creates the round's run. It is preserved because
only an executing goroutine creates runs, and there is one. Then `Create` (and a
failed one that left its row) is the contract's `StartImplementer` or `StartReviewer`,
`Report` its `ReportCompleted`, `Judge` its `ReportVerdict`, `Ask` a command published, and
every other step a stutter. `ReportedAsRecorded` adds what a goroutine about to report knows
(`RowInHand`): its row has the outcome it will report, or still says *running* because the
UPDATE was lost. Rows of finished runs are written by nobody else, since a row is
finished only by the goroutine that created it.

Together with the saga's theorems this carries the saga's properties over to the
Executor as it is: `SagaSystem` runs against any Executor of the contract.

**Identity** (`IdentityProofs`).
* `MarksAreTrue`: `ProvisioningSpec => []MarkedMeansSeeded`. Inductive with `MarkersHaveSeeded`: whoever is about to
  mark a workspace, request or sweeper, has had it confirmed, and rules are never unseeded.
* `DecisionsTheorem`: `AccountsSpec => []DecisionsHold`. What a call is about to do is right because of what
  can no longer change: a call knows (`CallKnows`) that the request it decides was there,
  that what it is about to publish is decided, and a decided request stays decided.
* `ThrottleIsHonest`: `LoginsSpec => []CountsAreFailures`. An entry is *honest* when it counts at most the
  failures of its key since its window opened; the set of those only grows, so what
  a request holds stays honest however long it holds it, and what it stores counts
  one more exactly when one more failure, numbered apart from the others, is on record.
* `LastOwner`: `MembersSpec => []DemotionsKeepAnOwner`. A call alone since its first step knows the rows as they are
  (`AloneMeansAlone`), so a deletion that raced nobody leaves the owner it counted
  (`DeletionsLeaveAnOwner`); a demotion is always followed by its own check.

**The catalogue** (`CatalogProofs`).
* `Guardrails`: `ResourcesSpec => []GuardrailsHold`. A workspace's rules are all there or none
  (`SeededWhole`), so seeding again finds its conflict and overwrites nothing a user chose.
* `ServersAreTheirs`: `AgentsSpec => []RunsGetTheirOwnServers`. The projection, where it has a row's workspace, has the
  row's own (`ProjectionsAgree`): ids are not used again and rows do not move, which covers
  the time between check and use.

**The Gateway** (`GatewayProofs`).
* `AccessEndsTheorem`: `GatewaySpec => AccessEndsSoon`. `Recent(k, w, n)`: a member, or one at most `n` ticks ago. Each
  fresh entry is recent by its age and one wait, what a request has in hand by
  that and its own wait; a tick makes both sides one older. With an age below the TTL
  and waits of at most `MaxWait` the sum stays below `Memory`. A guarded path is never one of
  the routes that are merely passed on (`GuardedRoutes`), and a task's workspace that
  could not be found is in nobody's list.

**Inside a run and its stream** (`ExecutionProofs`).
* `RunTypes`: `AgentLoopSpec => []AgentLoopTypeOK`.
* `TornDown`: `AgentLoopSpec => []ToolsTornDown`. `Accounted`: a container, worktree or process is given up
  on (`litter`) or belongs to the run at a place from which its removal is still ahead. A
  container belongs to the current run only, since the earlier ones have ended.
* `HonestEndings`: `AgentLoopSpec => []EndingsAreHonest`. `LogInHand`: the simulated driver's log is the
  part of the script it has played; the LLM driver's has a result at each even place, and
  it waits for a tool exactly when the log's length is odd (`Paired`), which keeps a
  final message from landing between a call and its result.
* `StepsInOrder`: `StreamSpec => []StepsComeInOrder`. `TopicInOrder`: the topic rises, and the step in hand is later
  than all of it. `ConnInOrder`: a tail does not go back behind the offset it joined at,
  it remembers what it has sent since, and what it has not seen of the topic comes
  after everything it sent. So redelivery meets only steps that are seen or new.

**Start-up, and all components side by side** (`ServicesProofs`).
* `SchemaTheorem`: `StartupSpec => [](StartupTypeOK /\ SchemaBeforeService)`. The files recorded are the first ones, each
  committed once (`SchemaIsPrefix`), a replica has
  found recorded what lies before the file it is at, and of two that commit the
  same file the primary key refuses one.
* `ServicesTyped`: `ServicesSpec => []ServicesTypeOK`. `ServicesInv` is the conjunction of what the types of
  each component rest on, and a step of one leaves the others alone. Most types are
  not inductive by themselves: what a login counts is bounded because it is honest and
  failures are (`LoginsTypes`); the organisations are at most the committed
  workspaces (`ProvisioningTypes`), one being made only with a workspace; a call that will
  write its workspace down has one (`CallsPlaced`, `PostsPlaced`); the health page's channel has
  room for a probe of each upstream and the Gateway's own (`FanTyped`); an offset is
  at most the length of the topic, which is at most the steps on record (`StreamInv`).

**Only model-checked.** Liveness (`TaskSettles`, `RunsAreReported`, `TaskIsReleased`,
`EveryWorkspaceProvisioned`, `LiveStepsArrive`, `PageAnswers`), which is out of the prover's reach.

## 6. Not modelled, and why

* Payload fields no decision reads (prompt, model, workspace), logging, HTTP codes.
* The `pr-open-requested` / `pr.opened` pair, findings and artifacts: they do not
  feed back into the lifecycle. Creation, deletion and feedback of a task are actions of
  `Resources`, on the row alone; a task deleted under a run in flight is not modelled.
* Administration (feature flags nothing reads) and the audit table, to which lines are
  only ever appended. `SetOrgStatus`, which nothing reads; `CreateOrg`, which passes an empty
  owner and is always refused. Plugins have no statement that creates one.
* The matching of JSON-RPC ids on an MCP connection: one goroutine uses a connection,
  one call at a time.
* Configuration, HTTP helpers, tenancy headers, tokens: wiring and parsing, no state. The models have
  the configuration that is deployed. With `WORKSPACE_URL` unset there is no provisioner, its call returns
  nil (`provision.go:38-40`) and a workspace is marked without a POST, so `MarkedMeansSeeded` is about
  deployments that set it, as the compose file does. `StepDelay` is 0, as `main.go:77` has it: a delay
  after the last step would let a stop end a run *stopped* whose script has played to its end.
* A consumer session lost without a restart of the process (`kafka.go:199-222`): the offsets go back
  while requests, registries and failure counts survive. `Crash` is the only step that moves offsets
  back, together with all of these. A redelivery next to surviving registries is what a command published
  twice amounts to, which the run control's runs have; next to surviving requests it is not modelled.
* The call `serveWorkspaces` makes through the reverse proxy before its probes: one sequential call with
  a timeout, over before the fan-out begins.
* The frontend's pages, stores and API calls: rendering of what the services answer.
* The dead-letter topic itself: parking is one step. Malformed envelopes.
* Bounds: `MaxRequests`, `MaxFaults`, `MaxCommands` and their likes limit how often callers act,
  things go wrong and commands are published; `MaxReviewRounds` is 1 instead of 5 and
  `MaxRedeliveries` 1 in `saga_human`; caps, windows and times to live are a few ticks or steps.
  `MaxFailures` (failed logins) and `MaxFounded` (organisations of one applicant) are of this kind.
  The theorems do not depend on any of them.
* Components are composed where they exchange state: saga and Executor over the contract, driver and
  tools, catalogue and agents. The Gateway asks an Identity that may change at any time instead of
  `Members` itself.

## 7. Plan

1. `TaskSaga`: `Create`, `Delete`, `OpenPr` (facts of a deleted task are parked, a deleted
   task is never written again).
2. `Kanban`: `TaskSaga` composed with `Runner` itself, for properties across both (a stopped
   task whose run is cancelled ends stopped), and `TaskLifecycle`, the abstract
   life of a card, as a refinement of `SagaSystem`.
3. `KafkaConsumer`: several messages, malformed envelopes, failure counts, dead-letter
   topic; refines the delivery `Events` assumes.
4. Theorems about `Kanban` and `TaskLifecycle`, once they are there.
