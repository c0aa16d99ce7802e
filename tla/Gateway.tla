------------------------------ MODULE Gateway ------------------------------
(***************************************************************************)
(* The Gateway: which upstream a path belongs to, who is asking, and what  *)
(* is checked before the request is passed on.  Who is asking comes from   *)
(* Identity and is cached per session token, so a request may be judged by *)
(* an answer that is no longer true.  Time is a counter of coarse ticks.   *)
(***************************************************************************)
EXTENDS Naturals

CONSTANTS
  Tokens, Spaces, NoToken, NoSpace,
  RequestPaths,       \* <<first, third>> path segments; "" is none
  GatewayCalls,
  TTL,                \* the cache's 60 seconds
  MaxWait             \* the client timeouts: no request waits longer

ASSUME GatewayAssumption ==
  TTL \in Nat \ {0} /\ MaxWait \in Nat /\ NoToken \notin Tokens /\ NoSpace \notin Spaces

VARIABLES
  live,          \* Identity: sessions that exist
  member,        \* Identity: the workspaces of the session's user
  lostFor,       \* history: ticks since a membership was taken away
  cache,
  gwCalls

gatewayVars == <<live, member, lostFor, cache, gwCalls>>

(* Workspace paths carry a workspace, task paths a task of that workspace; *)
(* "list" is a GET of the whole collection.                                *)
Paths == {[domain |-> p[1], sub |-> p[2], of |-> s] : p \in RequestPaths, s \in Spaces}
NoPath == [domain |-> "", sub |-> "", of |-> NoSpace]

(* Ages stop counting where they stop mattering: an entry is stale at TTL, *)
(* a lost membership is certainly forgotten after Memory.                  *)
Memory == TTL + 2 * MaxWait
NotCached == [kind |-> "none", union |-> {}, age |-> 0]
Rejected == [kind |-> "rejected", union |-> {}, age |-> 0]
Known(u) == [kind |-> "known", union |-> u, age |-> 0]
CacheEntry == [kind : {"none", "rejected", "known"}, union : SUBSET Spaces, age : 0 .. TTL]

NoRequest == [pc |-> "idle", token |-> NoToken, path |-> NoPath, held |-> NotCached, waited |-> 0]

GatewayCall ==
  [pc : {"idle", "load", "fetch", "store", "check", "task", "passed"},
   token : Tokens \cup {NoToken}, path : Paths \cup {NoPath},
   held : CacheEntry, waited : 0 .. MaxWait]

GatewayTypeOK ==
  /\ live \subseteq Tokens
  /\ member \in [Tokens -> SUBSET Spaces]
  /\ lostFor \in [Tokens -> [Spaces -> 0 .. Memory]]
  /\ cache \in [Tokens -> CacheEntry]
  /\ gwCalls \in [GatewayCalls -> GatewayCall]

GatewayInit ==
  /\ live = Tokens
  /\ member \in [Tokens -> SUBSET Spaces]
  /\ lostFor = [k \in Tokens |-> [s \in Spaces |-> Memory]]
  /\ cache = [k \in Tokens |-> NotCached]
  /\ gwCalls = [c \in GatewayCalls |-> NoRequest]

-----------------------------------------------------------------------------
(* The routing table.                                                      *)
WorkspaceDomains == {"projects", "tasks", "skills", "mcp-servers", "resources"}
AgentDomains == {"agents", "provider-keys"}
IdentityDomains == {"auth", "sysadmin", "workspaces", "orgs", "admin"}
Tenant == WorkspaceDomains \cup AgentDomains \cup IdentityDomains \cup {"runs"}

OwnerOf(domain) ==
  CASE domain \in WorkspaceDomains -> "workspace"
    [] domain \in AgentDomains     -> "agent"
    [] domain \in IdentityDomains  -> "identity"
    [] OTHER                       -> "executor"

RouteTo(kind, upstream, identified) ==
  [kind |-> kind, upstream |-> upstream, identified |-> identified]

InWorkspaceService == {"skills", "knowledge", "plugins", "rules", "mcp"}

(* The rules, each with what the ones before it leave.                     *)
Resolve(path) ==
  CASE path.domain = "tasks" /\ path.sub = "stream" ->
         RouteTo("stream", "executor", TRUE)
    [] path.domain = "auth" /\ path.sub \in {"login", "me"} ->
         RouteTo("session", "identity", FALSE)
    [] path.domain = "workspaces" /\ path.sub \in InWorkspaceService ->
         RouteTo("workspaceRemap", "workspace", TRUE)
    [] path.domain = "workspaces" /\ path.sub \notin {"", "list"} \cup InWorkspaceService ->
         RouteTo("workspaceRemap", "identity", TRUE)
    [] path.domain = "tasks" /\ path.sub \in {"runs", "artifacts"} ->
         RouteTo("taskRuns", "executor", TRUE)
    [] path.domain \notin Tenant ->
         RouteTo("none", "none", FALSE)
    [] path.domain = "workspaces" /\ path.sub = "list" ->
         RouteTo("workspacesList", "identity", TRUE)
    [] path.domain = "sysadmin" /\ path.sub \in {"kpis", "health"} ->
         RouteTo("superadminOnly", "identity", TRUE)
    [] OTHER ->
         RouteTo("proxy", OwnerOf(path.domain), path.domain # "auth")

-----------------------------------------------------------------------------
Advance(c, pc) == gwCalls' = [gwCalls EXCEPT ![c].pc = pc]
End(c) == gwCalls' = [gwCalls EXCEPT ![c] = NoRequest]
Fresh(e) == e.kind # "none" /\ e.age < TTL

(* What the client says of itself is stripped; only the cookie is left.    *)
serve(c) ==
  /\ gwCalls[c].pc = "idle"
  /\ \E path \in Paths, k \in Tokens \cup {NoToken} :
       /\ Resolve(path).kind \notin {"none", "session"}
       /\ k = NoToken => ~Resolve(path).identified
       /\ gwCalls' = [gwCalls EXCEPT ![c] =
            [NoRequest EXCEPT !.pc = IF k = NoToken THEN "check" ELSE "load",
                              !.token = k, !.path = path]]
  /\ UNCHANGED cache

(* A login or a look at oneself: Identity has answered 200, and the user   *)
(* is composed with the workspaces of the cookie the REQUEST came with.    *)
serveSession(c) ==
  /\ gwCalls[c].pc = "idle"
  /\ \E path \in Paths, k \in Tokens :
       /\ Resolve(path).kind = "session"
       /\ gwCalls' = [gwCalls EXCEPT ![c] =
            [NoRequest EXCEPT !.pc = "load", !.token = k, !.path = path]]
  /\ UNCHANGED cache

(* Identity's answer: a list of workspaces that cannot be read is an empty *)
(* one, a session that cannot be looked up is answered like one that does  *)
(* not exist.                                                              *)
identity(k) ==
  {Rejected} \cup (IF k \in live THEN {Known(member[k]), Known({})} ELSE {})

(* What the client makes of it; NotCached is an answer that does not come. *)
Answers(k) == identity(k) \cup {NotCached}

inject(c) == IF Resolve(gwCalls[c].path).identified THEN End(c) ELSE Advance(c, "check")

(* ACL.Resolve: a fresh entry answers, a stale one is evicted; then        *)
(* Identity is asked, and what is stored afterwards is dated afterwards.   *)
ResolveSession(c) ==
  LET k == gwCalls[c].token
      held == gwCalls[c].held IN
  \/ /\ gwCalls[c].pc = "load"
     /\ IF Fresh(cache[k])
        THEN /\ IF cache[k].kind = "known"
                THEN gwCalls' = [gwCalls EXCEPT ![c].pc = "check", ![c].held = cache[k]]
                ELSE inject(c)
             /\ UNCHANGED cache
        ELSE cache' = [cache EXCEPT ![k] = NotCached] /\ Advance(c, "fetch")
  \/ /\ gwCalls[c].pc = "fetch"
     /\ \E answer \in Answers(k) :
          IF answer = NotCached THEN inject(c)
          ELSE gwCalls' = [gwCalls EXCEPT ![c].pc = "store", ![c].held = answer]
     /\ UNCHANGED cache
  \/ /\ gwCalls[c].pc = "store"
     /\ cache' = [cache EXCEPT ![k] = held]
     /\ IF held.kind = "known" THEN Advance(c, "check") ELSE inject(c)

AnyoneIsMember(union, w) == TRUE
IsWorkspaceMember(union, w) == w \in union

(* The checks of each route, on the identity in hand; a refusal ends the   *)
(* call.                                                                   *)
check(c) ==
  LET call == gwCalls[c]
      kind == Resolve(call.path).kind IN
  /\ call.pc = "check"
  /\ CASE kind = "workspaceRemap" ->
            IF IsWorkspaceMember(call.held.union, call.path.of) THEN Advance(c, "passed") ELSE End(c)
       [] kind \in {"taskRuns", "stream"} -> Advance(c, "task")
       [] kind = "superadminOnly" -> Advance(c, "passed") \/ End(c)
       [] OTHER -> Advance(c, "passed")
  /\ UNCHANGED cache

(* The Workspace service says whose a task is, that there is none, or      *)
(* nothing; only the first can let a request through.                      *)
TaskWorkspace(path) == {path.of, NoSpace}
TaskAccessible(union, w) == w \in union

requireTask(c) ==
  LET call == gwCalls[c] IN
  /\ call.pc = "task"
  /\ \E w \in TaskWorkspace(call.path) :
       IF TaskAccessible(call.held.union, w) THEN Advance(c, "passed") ELSE End(c)
  /\ UNCHANGED cache

(* The upstream has the request.                                           *)
Passed(c) == gwCalls[c].pc = "passed" /\ End(c) /\ UNCHANGED cache

(* The janitor drops what re-reading never would.                          *)
Janitor ==
  /\ \E k \in Tokens :
       /\ cache[k].kind # "none" /\ ~Fresh(cache[k])
       /\ cache' = [cache EXCEPT ![k] = NotCached]
  /\ UNCHANGED gwCalls

Handling == \E c \in GatewayCalls :
  serve(c) \/ serveSession(c) \/ ResolveSession(c) \/ check(c) \/ requireTask(c) \/ Passed(c)

(* Meanwhile in Identity: a logout, a removal, an approval.                *)
IdentityChanges ==
  /\ \/ /\ \E k \in live : live' = live \ {k}
        /\ UNCHANGED <<member, lostFor>>
     \/ \E k \in Tokens : \E w \in member[k] :
          /\ member' = [member EXCEPT ![k] = @ \ {w}]
          /\ lostFor' = [lostFor EXCEPT ![k][w] = 0]
          /\ UNCHANGED live
     \/ \E k \in Tokens : \E w \in Spaces \ member[k] :
          /\ member' = [member EXCEPT ![k] = @ \cup {w}]
          /\ lostFor' = [lostFor EXCEPT ![k][w] = Memory]
          /\ UNCHANGED live
  /\ UNCHANGED <<cache, gwCalls>>

(* Time passes while requests wait for an upstream, up to its timeout.     *)
GatewayTick ==
  /\ \A c \in GatewayCalls :
       gwCalls[c].pc # "idle" => gwCalls[c].pc \in {"fetch", "store", "task"} /\ gwCalls[c].waited < MaxWait
  /\ lostFor' = [k \in Tokens |-> [s \in Spaces |-> IF lostFor[k][s] = Memory THEN Memory ELSE lostFor[k][s] + 1]]
  /\ cache' = [k \in Tokens |->
       IF cache[k].kind = "none" \/ cache[k].age = TTL THEN cache[k] ELSE [cache[k] EXCEPT !.age = @ + 1]]
  /\ gwCalls' = [c \in GatewayCalls |->
       IF gwCalls[c].pc = "idle" THEN gwCalls[c] ELSE [gwCalls[c] EXCEPT !.waited = @ + 1]]
  /\ UNCHANGED <<live, member>>

GatewayNext ==
  \/ (Handling \/ Janitor) /\ UNCHANGED <<live, member, lostFor>>
  \/ IdentityChanges
  \/ GatewayTick

GatewaySpec == GatewayInit /\ [][GatewayNext]_gatewayVars

-----------------------------------------------------------------------------
(* A route that names a workspace or a task is passed on only for somebody *)
(* who is a member, or was until at most a TTL and two waits ago: what a   *)
(* slow Identity answered is dated when stored, not when true (acl.go).    *)
RecentMember(k, w) ==
  w \in member[k] \/ lostFor[k][w] < Memory

PassesForMembers(c) ==
  LET call == gwCalls[c] IN
  /\ gwCalls'[c].pc = "passed" /\ call.pc # "passed"
  /\ \/ call.path.domain = "workspaces" /\ call.path.sub \notin {"", "list"}
     \/ call.path.domain = "tasks" /\ call.path.sub \in {"stream", "runs", "artifacts"}
  => call.token # NoToken /\ RecentMember(call.token, call.path.of)

AccessEndsSoon == [][\A c \in GatewayCalls : PassesForMembers(c)]_gatewayVars

=============================================================================
