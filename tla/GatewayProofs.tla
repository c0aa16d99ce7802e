--------------------------- MODULE GatewayProofs ---------------------------
(***************************************************************************)
(* Proofs about the Gateway's access control, for any number of sessions,  *)
(* workspaces, requests and paths, any time to live and any timeout.       *)
(***************************************************************************)
EXTENDS Gateway, TLAPS

(* A member, or one who was at most n ticks ago.                           *)
Recent(k, w, n) == w \in member[k] \/ lostFor[k][w] <= n

EntryHolds(k, e) ==
  /\ e \in CacheEntry
  /\ e.kind # "known" => e.union = {}
  /\ e.kind = "known" /\ e.age < TTL => \A w \in e.union : Recent(k, w, e.age + MaxWait)

(* What a request holds was true when its wait began or is as old as the   *)
(* entry it was taken from; what it is about to store, it has waited for.  *)
CallHolds(call) ==
  /\ call \in GatewayCall
  /\ call.pc \in {"load", "fetch", "store"} => call.token \in Tokens
  /\ call.pc = "idle" => call.held.kind # "known"
  /\ call.held.kind # "known" => call.held.union = {}
  /\ call.held.kind = "known" =>
       /\ call.token \in Tokens
       /\ call.held.age < TTL
       /\ \A w \in call.held.union : Recent(call.token, w, call.held.age + MaxWait + call.waited)
  /\ call.pc = "store" =>
       /\ call.held.age = 0
       /\ \A w \in call.held.union : Recent(call.token, w, call.waited)

GatewayInv ==
  /\ member \in [Tokens -> SUBSET Spaces]
  /\ lostFor \in [Tokens -> [Spaces -> 0 .. Memory]]
  /\ live \subseteq Tokens
  /\ cache \in [Tokens -> CacheEntry]
  /\ \A k \in Tokens : EntryHolds(k, cache[k])
  /\ gwCalls \in [GatewayCalls -> GatewayCall]
  /\ \A c \in GatewayCalls : CallHolds(gwCalls[c])

(* Nothing is cached and nobody has asked.                                 *)
LEMMA GatewayInitHolds == GatewayInit => GatewayInv
<1> SUFFICES ASSUME GatewayInit PROVE GatewayInv
  OBVIOUS
<1>0. TTL \in Nat \ {0} /\ MaxWait \in Nat /\ Memory \in Nat /\ Memory \in 0 .. Memory
  BY GatewayAssumption DEF Memory
<1>1. NotCached \in CacheEntry /\ NotCached.kind = "none" /\ NotCached.union = {}
  BY <1>0 DEF NotCached, CacheEntry
<1>2. NoRequest \in GatewayCall /\ NoRequest.pc = "idle" /\ NoRequest.held = NotCached
  BY <1>0, <1>1 DEF NoRequest, GatewayCall
<1>3. CallHolds(NoRequest) /\ \A k \in Tokens : EntryHolds(k, NotCached)
  BY <1>1, <1>2 DEF CallHolds, EntryHolds
<1> QED BY <1>0, <1>1, <1>2, <1>3 DEF GatewayInit, GatewayInv

(* Who was a member recently was one less recently.                        *)
LEMMA RecentGrows ==
  ASSUME GatewayInv, NEW k \in Tokens, NEW w \in Spaces, NEW n \in Nat, NEW m \in Nat,
         n <= m, Recent(k, w, n)
  PROVE  Recent(k, w, m)
<1>1. lostFor[k][w] \in Nat
  BY GatewayAssumption DEF GatewayInv, Memory
<1> QED BY <1>1 DEF Recent

(* While no membership changes and no time passes, a step replaces a call  *)
(* and perhaps an entry by others that hold.                               *)
LEMMA GatewayStepHolds ==
  ASSUME GatewayInv, UNCHANGED <<live, member, lostFor>>,
         NEW c \in GatewayCalls, NEW call, CallHolds(call),
         gwCalls' = [gwCalls EXCEPT ![c] = call],
         \/ cache' = cache
         \/ \E k \in Tokens, entry \in CacheEntry :
              EntryHolds(k, entry) /\ cache' = [cache EXCEPT ![k] = entry]
  PROVE  GatewayInv'
<1>1. gwCalls' \in [GatewayCalls -> GatewayCall] /\ \A d \in GatewayCalls : CallHolds(gwCalls'[d])
  BY DEF GatewayInv, CallHolds
<1>2. cache' \in [Tokens -> CacheEntry] /\ \A j \in Tokens : EntryHolds(j, cache'[j])
  BY DEF GatewayInv, EntryHolds
<1> QED BY <1>1, <1>2 DEF GatewayInv, CallHolds, EntryHolds, Recent

(* Nothing to hold holds.                                                  *)
LEMMA NothingHolds ==
  /\ NotCached \in CacheEntry /\ NotCached.kind = "none" /\ NotCached.union = {}
  /\ NoRequest \in GatewayCall /\ NoRequest.pc = "idle" /\ NoRequest.held = NotCached
  /\ CallHolds(NoRequest)
  /\ \A k \in Tokens : EntryHolds(k, NotCached)
<1>0. TTL \in Nat \ {0} /\ MaxWait \in Nat
  BY GatewayAssumption
<1>1. NotCached \in CacheEntry /\ NotCached.kind = "none" /\ NotCached.union = {}
  BY <1>0 DEF NotCached, CacheEntry
<1>2. NoRequest \in GatewayCall /\ NoRequest.pc = "idle" /\ NoRequest.held = NotCached
  BY <1>0, <1>1 DEF NoRequest, GatewayCall
<1> QED BY <1>1, <1>2 DEF CallHolds, EntryHolds

(* A request goes on to a check, to the upstream, or ends, with what it    *)
(* has in hand.                                                            *)
LEMMA GoingOnHolds ==
  ASSUME GatewayInv, UNCHANGED <<live, member, lostFor>>, NEW c \in GatewayCalls,
         End(c) \/ \E pc \in {"check", "task", "passed"} : Advance(c, pc),
         cache' = cache
         \/ \E k \in Tokens, entry \in CacheEntry :
              EntryHolds(k, entry) /\ cache' = [cache EXCEPT ![k] = entry]
  PROVE  GatewayInv'
<1>1. CASE End(c)
  BY <1>1, NothingHolds, GatewayStepHolds DEF End
<1>2. ASSUME NEW pc \in {"check", "task", "passed"}, Advance(c, pc) PROVE GatewayInv'
  <2> DEFINE new == [gwCalls[c] EXCEPT !.pc = pc]
  <2>1. CallHolds(gwCalls[c]) /\ gwCalls[c] \in GatewayCall
        /\ gwCalls \in [GatewayCalls -> GatewayCall]
    BY DEF GatewayInv
  <2>2. /\ new \in GatewayCall /\ new.pc = pc /\ new.token = gwCalls[c].token
        /\ new.held = gwCalls[c].held /\ new.waited = gwCalls[c].waited
    BY <2>1 DEF GatewayCall
  <2>3. gwCalls' = [gwCalls EXCEPT ![c] = new]
    BY <1>2, <2>1 DEF Advance
  <2> HIDE DEF new
  <2>4. CallHolds(new)
    BY <2>1, <2>2 DEF CallHolds
  <2> QED BY <2>3, <2>4, GatewayStepHolds
<1> QED BY <1>1, <1>2

(* A request arrives, with a token to look up or without one.              *)
LEMMA ArrivalHolds ==
  ASSUME GatewayInv, UNCHANGED <<live, member, lostFor>>, NEW c \in GatewayCalls,
         serve(c) \/ serveSession(c)
  PROVE  GatewayInv'
<1>1. PICK path \in Paths, k \in Tokens \cup {NoToken}, pc \in {"check", "load"} :
        /\ k = NoToken => pc = "check"
        /\ gwCalls' = [gwCalls EXCEPT ![c] =
             [NoRequest EXCEPT !.pc = pc, !.token = k, !.path = path]]
  <2>1. CASE serve(c)
    <3>1. PICK path \in Paths, k \in Tokens \cup {NoToken} :
            gwCalls' = [gwCalls EXCEPT ![c] =
              [NoRequest EXCEPT !.pc = IF k = NoToken THEN "check" ELSE "load",
                                !.token = k, !.path = path]]
      BY <2>1 DEF serve
    <3>2. CASE k = NoToken
      BY <3>1, <3>2
    <3>3. CASE k # NoToken
      BY <3>1, <3>3
    <3> QED BY <3>2, <3>3
  <2>2. CASE serveSession(c)
    BY <2>2, GatewayAssumption DEF serveSession
  <2> QED BY <2>1, <2>2
<1> DEFINE new == [NoRequest EXCEPT !.pc = pc, !.token = k, !.path = path]
<1>2. new \in GatewayCall /\ new.pc = pc /\ new.token = k /\ new.held = NotCached
  BY NothingHolds DEF GatewayCall
<1>3. gwCalls' = [gwCalls EXCEPT ![c] = new] /\ cache' = cache
  BY <1>1 DEF serve, serveSession
<1> HIDE DEF new
<1>4. CallHolds(new)
  BY <1>1, <1>2, NothingHolds DEF CallHolds
<1> QED BY <1>3, <1>4, GatewayStepHolds

(* ACL.Resolve, over its three steps.                                      *)
LEMMA ResolvingHolds ==
  ASSUME GatewayInv, UNCHANGED <<live, member, lostFor>>, NEW c \in GatewayCalls,
         ResolveSession(c)
  PROVE  GatewayInv'
<1>a. PICK call \in GatewayCall : call = gwCalls[c]
  BY DEF GatewayInv
<1>0. /\ call = gwCalls[c] /\ call \in GatewayCall /\ CallHolds(call)
      /\ gwCalls \in [GatewayCalls -> GatewayCall]
      /\ cache \in [Tokens -> CacheEntry] /\ \A k \in Tokens : EntryHolds(k, cache[k])
      /\ member \in [Tokens -> SUBSET Spaces]
      /\ call.held \in CacheEntry
  BY <1>a DEF GatewayInv, GatewayCall
<1>1. call.waited \in Nat /\ call.waited <= MaxWait /\ MaxWait \in Nat /\ TTL \in Nat /\ TTL > 0
  BY <1>0, GatewayAssumption DEF GatewayCall
<1>2. ASSUME inject(c),
             cache' = cache \/ \E k \in Tokens, entry \in CacheEntry :
               EntryHolds(k, entry) /\ cache' = [cache EXCEPT ![k] = entry]
      PROVE  GatewayInv'
  BY <1>2, GoingOnHolds DEF inject
<1>3. CASE call.pc = "load"
  <2>0. call.token \in Tokens
    BY <1>0, <1>3 DEF CallHolds
  <2>1. PICK e \in CacheEntry : e = cache[call.token]
    BY <1>0, <2>0
  <2>2. CASE Fresh(e) /\ e.kind = "known"
    <3> DEFINE new == [call EXCEPT !.pc = "check", !.held = e]
    <3>1. gwCalls' = [gwCalls EXCEPT ![c] = new] /\ cache' = cache
      BY <1>0, <1>3, <2>1, <2>2 DEF ResolveSession
    <3>2. /\ new \in GatewayCall /\ new.pc = "check" /\ new.token = call.token
          /\ new.held = e /\ new.waited = call.waited
      BY <1>0, <2>1 DEF GatewayCall
    <3> HIDE DEF new
    <3>3. e.age < TTL /\ e.age \in Nat /\ e.union \subseteq Spaces
      BY <1>1, <2>1, <2>2 DEF Fresh, CacheEntry
    <3>4. ASSUME NEW w \in e.union
          PROVE  Recent(call.token, w, e.age + MaxWait + call.waited)
      <4>1. Recent(call.token, w, e.age + MaxWait)
        BY <1>0, <2>0, <2>1, <2>2, <3>3 DEF EntryHolds
      <4>2. /\ e.age + MaxWait \in Nat /\ e.age + MaxWait + call.waited \in Nat
            /\ e.age + MaxWait <= e.age + MaxWait + call.waited
        BY <1>1, <3>3
      <4> QED BY <2>0, <3>3, <4>1, <4>2, RecentGrows
    <3>5. CallHolds(new)
      BY <2>0, <2>2, <3>2, <3>3, <3>4 DEF CallHolds
    <3> QED BY <3>1, <3>5, GatewayStepHolds
  <2>3. CASE Fresh(e) /\ e.kind # "known"
    <3>1. inject(c) /\ cache' = cache
      BY <1>0, <1>3, <2>1, <2>3 DEF ResolveSession
    <3> QED BY <1>2, <3>1
  <2>4. CASE ~Fresh(e)
    <3> DEFINE new == [call EXCEPT !.pc = "fetch"]
    <3>1. gwCalls' = [gwCalls EXCEPT ![c] = new]
          /\ cache' = [cache EXCEPT ![call.token] = NotCached]
      BY <1>0, <1>3, <2>1, <2>4 DEF ResolveSession, Advance
    <3>2. /\ new \in GatewayCall /\ new.pc = "fetch" /\ new.token = call.token
          /\ new.held = call.held /\ new.waited = call.waited
      BY <1>0 DEF GatewayCall
    <3> HIDE DEF new
    <3>3. CallHolds(new)
      BY <1>0, <2>0, <3>2 DEF CallHolds
    <3> QED BY <2>0, <3>1, <3>3, NothingHolds, GatewayStepHolds
  <2> QED BY <2>2, <2>3, <2>4
<1>4. CASE call.pc = "fetch"
  <2>0. call.token \in Tokens /\ cache' = cache
    BY <1>0, <1>4 DEF CallHolds, ResolveSession
  <2>1. PICK answer \in Answers(call.token) :
          IF answer = NotCached THEN inject(c)
          ELSE gwCalls' = [gwCalls EXCEPT ![c].pc = "store", ![c].held = answer]
    BY <1>0, <1>4 DEF ResolveSession
  <2>2. CASE answer = NotCached
    BY <1>2, <2>0, <2>1, <2>2
  <2>3. CASE answer # NotCached
    <3>1. /\ answer \in CacheEntry /\ answer.age = 0
          /\ answer.kind # "known" => answer.union = {}
          /\ answer.union \subseteq member[call.token]
      BY <1>0, <1>1, <2>0, <2>1, <2>3 DEF Answers, identity, Rejected, Known, CacheEntry
    <3> DEFINE new == [call EXCEPT !.pc = "store", !.held = answer]
    <3>2. gwCalls' = [gwCalls EXCEPT ![c] = new]
      BY <1>0, <2>1, <2>3
    <3>3. /\ new \in GatewayCall /\ new.pc = "store" /\ new.token = call.token
          /\ new.held = answer /\ new.waited = call.waited
      BY <1>0, <3>1 DEF GatewayCall
    <3> HIDE DEF new
    <3>4. CallHolds(new)
      BY <1>1, <2>0, <3>1, <3>3 DEF CallHolds, Recent
    <3> QED BY <2>0, <3>2, <3>4, GatewayStepHolds
  <2> QED BY <2>2, <2>3
<1>5. CASE call.pc = "store"
  <2>0. call.token \in Tokens /\ cache' = [cache EXCEPT ![call.token] = call.held]
    BY <1>0, <1>5 DEF CallHolds, ResolveSession
  <2>1. EntryHolds(call.token, call.held)
    <3>1. /\ call.held.age = 0 /\ call.held.union \subseteq Spaces
          /\ \A w \in call.held.union : Recent(call.token, w, call.waited)
      BY <1>0, <1>5 DEF CallHolds, CacheEntry
    <3>2. \A w \in call.held.union : Recent(call.token, w, MaxWait)
      BY <1>1, <2>0, <3>1, RecentGrows
    <3>3. call.held.age + MaxWait = MaxWait
      BY <1>1, <3>1
    <3> QED BY <1>0, <3>2, <3>3 DEF EntryHolds, CallHolds
  <2>2. inject(c) \/ Advance(c, "check")
    BY <1>0, <1>5 DEF ResolveSession
  <2> QED BY <1>0, <1>2, <2>0, <2>1, <2>2, GoingOnHolds
<1> QED BY <1>0, <1>3, <1>4, <1>5 DEF ResolveSession

(* What Identity changes makes nobody's membership less recent.            *)
LEMMA ChangesHold ==
  ASSUME GatewayInv, IdentityChanges
  PROVE  GatewayInv'
<1>0. /\ member \in [Tokens -> SUBSET Spaces] /\ Memory \in Nat
      /\ lostFor \in [Tokens -> [Spaces -> 0 .. Memory]]
      /\ live \subseteq Tokens
      /\ cache \in [Tokens -> CacheEntry] /\ gwCalls \in [GatewayCalls -> GatewayCall]
  BY GatewayAssumption DEF GatewayInv, Memory
<1>1. /\ member' \in [Tokens -> SUBSET Spaces] /\ live' \subseteq Tokens
      /\ lostFor' \in [Tokens -> [Spaces -> 0 .. Memory]]
  <2>1. ASSUME NEW k \in live, live' = live \ {k}, UNCHANGED <<member, lostFor>>
        PROVE  /\ member' \in [Tokens -> SUBSET Spaces] /\ live' \subseteq Tokens
               /\ lostFor' \in [Tokens -> [Spaces -> 0 .. Memory]]
    BY <1>0, <2>1
  <2>2. ASSUME NEW k \in Tokens, NEW w \in Spaces, NEW ws \in SUBSET Spaces,
               NEW n \in {0, Memory}, member' = [member EXCEPT ![k] = ws],
               lostFor' = [lostFor EXCEPT ![k][w] = n], UNCHANGED live
        PROVE  /\ member' \in [Tokens -> SUBSET Spaces] /\ live' \subseteq Tokens
               /\ lostFor' \in [Tokens -> [Spaces -> 0 .. Memory]]
    <3>1. n \in 0 .. Memory
      BY <1>0, <2>2
    <3>2. lostFor' \in [Tokens -> [Spaces -> 0 .. Memory]]
      BY <1>0, <2>2, <3>1, Zenon
    <3> QED BY <1>0, <2>2, <3>2
  <2>3. CASE \E k \in live : live' = live \ {k} /\ UNCHANGED <<member, lostFor>>
    BY <2>1, <2>3
  <2>4. CASE \E k \in Tokens : \E w \in member[k] :
               /\ member' = [member EXCEPT ![k] = @ \ {w}]
               /\ lostFor' = [lostFor EXCEPT ![k][w] = 0]
               /\ UNCHANGED live
    BY <1>0, <2>2, <2>4
  <2>5. CASE \E k \in Tokens : \E w \in Spaces \ member[k] :
               /\ member' = [member EXCEPT ![k] = @ \cup {w}]
               /\ lostFor' = [lostFor EXCEPT ![k][w] = Memory]
               /\ UNCHANGED live
    BY <1>0, <2>2, <2>5
  <2> QED BY <2>3, <2>4, <2>5 DEF IdentityChanges
<1>2. ASSUME NEW k \in Tokens, NEW w \in Spaces, NEW n \in Nat, Recent(k, w, n)
      PROVE  Recent(k, w, n)'
  BY <1>0, <1>2 DEF IdentityChanges, Recent
<1>3. UNCHANGED <<cache, gwCalls>>
  BY DEF IdentityChanges
<1>4. ASSUME NEW k \in Tokens PROVE EntryHolds(k, cache[k])'
  <2>1. EntryHolds(k, cache[k]) /\ cache[k].age \in Nat /\ cache[k].union \subseteq Spaces
        /\ cache[k].age + MaxWait \in Nat
    BY <1>0, GatewayAssumption DEF GatewayInv, CacheEntry
  <2> QED BY <1>2, <1>3, <2>1 DEF EntryHolds
<1>5. ASSUME NEW c \in GatewayCalls PROVE CallHolds(gwCalls[c])'
  <2>1. CallHolds(gwCalls[c]) /\ gwCalls[c].waited \in Nat
        /\ gwCalls[c].held \in CacheEntry
    BY <1>0, GatewayAssumption DEF GatewayInv, GatewayCall
  <2>2. gwCalls[c].held.age \in Nat /\ gwCalls[c].held.union \subseteq Spaces
    BY <2>1, GatewayAssumption DEF CacheEntry
  <2>3. gwCalls[c].held.age + MaxWait + gwCalls[c].waited \in Nat
    BY <2>1, <2>2, GatewayAssumption
  <2> QED BY <1>2, <1>3, <2>1, <2>2, <2>3 DEF CallHolds
<1> QED BY <1>0, <1>1, <1>3, <1>4, <1>5 DEF GatewayInv

(* A tick ages what is cached and what waits at least as much as it makes  *)
(* a membership less recent.                                               *)
LEMMA TickHolds ==
  ASSUME GatewayInv, GatewayTick
  PROVE  GatewayInv'
<1>0. /\ member \in [Tokens -> SUBSET Spaces] /\ Memory \in Nat /\ TTL \in Nat /\ MaxWait \in Nat
      /\ lostFor \in [Tokens -> [Spaces -> 0 .. Memory]]
      /\ live \subseteq Tokens
      /\ cache \in [Tokens -> CacheEntry] /\ gwCalls \in [GatewayCalls -> GatewayCall]
      /\ UNCHANGED <<live, member>>
  BY GatewayAssumption DEF GatewayInv, Memory, GatewayTick
<1>1. lostFor' \in [Tokens -> [Spaces -> 0 .. Memory]]
      /\ \A k \in Tokens, w \in Spaces : lostFor'[k][w] <= lostFor[k][w] + 1
  <2>1. \A k \in Tokens, w \in Spaces : lostFor[k][w] \in 0 .. Memory
    BY <1>0
  <2>2. \A n \in 0 .. Memory : /\ (IF n = Memory THEN Memory ELSE n + 1) \in 0 .. Memory
                               /\ (IF n = Memory THEN Memory ELSE n + 1) <= n + 1
    BY <1>0
  <2>3. lostFor' = [k \in Tokens |-> [s \in Spaces |->
                      IF lostFor[k][s] = Memory THEN Memory ELSE lostFor[k][s] + 1]]
    BY DEF GatewayTick
  <2> QED BY <2>1, <2>2, <2>3
<1>2. ASSUME NEW k \in Tokens, NEW w \in Spaces, NEW n \in Nat, Recent(k, w, n)
      PROVE  Recent(k, w, n + 1)'
  <2>1. lostFor[k][w] \in Nat /\ lostFor'[k][w] \in Nat /\ lostFor'[k][w] <= lostFor[k][w] + 1
    BY <1>0, <1>1
  <2> QED BY <1>0, <1>2, <2>1 DEF Recent
<1>3. ASSUME NEW k \in Tokens PROVE cache'[k] \in CacheEntry /\ EntryHolds(k, cache[k])'
  <2>1. PICK e \in CacheEntry : e = cache[k]
    BY <1>0
  <2>2. EntryHolds(k, e) /\ e.age \in 0 .. TTL /\ e.union \subseteq Spaces
    BY <2>1 DEF GatewayInv, CacheEntry
  <2>3. CASE e.kind = "none" \/ e.age = TTL
    <3>1. cache'[k] = e
      BY <2>1, <2>3 DEF GatewayTick
    <3>2. ~(e.kind = "known" /\ e.age < TTL)
      BY <1>0, <2>3
    <3> QED BY <2>2, <3>1, <3>2 DEF EntryHolds
  <2>4. CASE ~(e.kind = "none" \/ e.age = TTL)
    <3>1. cache'[k] = [e EXCEPT !.age = e.age + 1]
      BY <2>1, <2>4 DEF GatewayTick
    <3>2. PICK new : new = [e EXCEPT !.age = e.age + 1]
      OBVIOUS
    <3>3. e.age + 1 \in 0 .. TTL /\ e.age < TTL
      <4>1. e.age \in 0 .. TTL /\ TTL \in Nat /\ e.age # TTL
        BY <1>0, <2>2, <2>4
      <4> QED BY <4>1
    <3>4. new \in CacheEntry /\ new.kind = e.kind /\ new.union = e.union /\ new.age = e.age + 1
      BY <3>2, <3>3 DEF CacheEntry
    <3>5. ASSUME NEW w \in e.union, e.kind = "known" PROVE Recent(k, w, e.age + 1 + MaxWait)'
      <4>1. Recent(k, w, e.age + MaxWait)
        BY <2>2, <3>3, <3>5 DEF EntryHolds
      <4>2. e.age + MaxWait \in Nat /\ (e.age + MaxWait) + 1 = e.age + 1 + MaxWait
        BY <1>0, <2>2
      <4>3. Recent(k, w, (e.age + MaxWait) + 1)'
        BY <1>2, <2>2, <4>1, <4>2
      <4> QED BY <4>2, <4>3
    <3>6. cache'[k] = new
      BY <3>1, <3>2
    <3> QED BY <2>2, <3>4, <3>5, <3>6 DEF EntryHolds
  <2> QED BY <2>3, <2>4
<1>4. ASSUME NEW c \in GatewayCalls PROVE gwCalls'[c] \in GatewayCall /\ CallHolds(gwCalls[c])'
  <2>1. PICK call \in GatewayCall : call = gwCalls[c]
    BY <1>0
  <2>2. CallHolds(call) /\ call.waited \in 0 .. MaxWait /\ call.held \in CacheEntry
    BY <2>1 DEF GatewayInv, GatewayCall
  <2>3. call.held.age \in Nat /\ call.held.union \subseteq Spaces
    BY <1>0, <2>2 DEF CacheEntry
  <2>4. CASE call.pc = "idle"
    <3>1. gwCalls'[c] = call
      BY <2>1, <2>4 DEF GatewayTick
    <3> QED BY <2>2, <2>4, <3>1 DEF CallHolds
  <2>5. CASE call.pc # "idle"
    <3>1. PICK new : new = [call EXCEPT !.waited = call.waited + 1]
      OBVIOUS
    <3>2. gwCalls'[c] = new /\ call.waited < MaxWait
      BY <2>1, <2>5, <3>1 DEF GatewayTick
    <3>3. call.waited + 1 \in 0 .. MaxWait
      BY <1>0, <2>2, <3>2
    <3>4. /\ new \in GatewayCall /\ new.pc = call.pc /\ new.token = call.token
          /\ new.held = call.held /\ new.waited = call.waited + 1
      BY <3>1, <3>3 DEF GatewayCall
    <3>5. ASSUME NEW w \in call.held.union, call.token \in Tokens, NEW n \in Nat,
                 Recent(call.token, w, n + call.waited)
          PROVE  Recent(call.token, w, n + (call.waited + 1))'
      <4>1. n + call.waited \in Nat /\ (n + call.waited) + 1 = n + (call.waited + 1)
        BY <1>0, <2>2
      <4>2. Recent(call.token, w, (n + call.waited) + 1)'
        BY <1>2, <2>3, <3>5, <4>1
      <4> QED BY <4>1, <4>2
    <3>6. call.held.age + MaxWait \in Nat /\ 0 + call.waited = call.waited
          /\ 0 + (call.waited + 1) = call.waited + 1 /\ 0 \in Nat
      BY <1>0, <2>2, <2>3
    <3>7. ASSUME call.held.kind = "known", NEW w \in call.held.union
          PROVE  Recent(call.token, w, call.held.age + MaxWait + new.waited)'
      BY <2>2, <3>4, <3>5, <3>6, <3>7 DEF CallHolds
    <3>8. ASSUME call.pc = "store", NEW w \in call.held.union
          PROVE  Recent(call.token, w, new.waited)'
      <4>1. call.token \in Tokens /\ Recent(call.token, w, 0 + call.waited)
        BY <2>2, <3>6, <3>8 DEF CallHolds
      <4>2. Recent(call.token, w, 0 + (call.waited + 1))'
        BY <3>5, <3>6, <4>1
      <4> QED BY <3>4, <3>6, <4>2
    <3> QED BY <2>2, <2>5, <3>2, <3>4, <3>7, <3>8 DEF CallHolds
  <2> QED BY <2>4, <2>5
<1>5. cache' \in [Tokens -> CacheEntry] /\ gwCalls' \in [GatewayCalls -> GatewayCall]
  BY <1>0, <1>3, <1>4 DEF GatewayTick
<1> QED BY <1>0, <1>1, <1>3, <1>4, <1>5 DEF GatewayInv

(* The janitor only forgets.                                               *)
LEMMA JanitorHolds ==
  ASSUME GatewayInv, Janitor, UNCHANGED <<live, member, lostFor>>
  PROVE  GatewayInv'
<1>1. PICK k \in Tokens : cache' = [cache EXCEPT ![k] = NotCached] /\ gwCalls' = gwCalls
  BY DEF Janitor
<1>2. cache' \in [Tokens -> CacheEntry] /\ \A j \in Tokens : EntryHolds(j, cache'[j])
  BY <1>1, NothingHolds DEF GatewayInv
<1> QED BY <1>1, <1>2 DEF GatewayInv, CallHolds, EntryHolds, Recent

(* A step of any request.                                                  *)
LEMMA HandlersHold ==
  ASSUME GatewayInv, Handling, UNCHANGED <<live, member, lostFor>>
  PROVE  GatewayInv'
<1>1. PICK c \in GatewayCalls :
        serve(c) \/ serveSession(c) \/ ResolveSession(c) \/ check(c) \/ requireTask(c) \/ Passed(c)
  BY DEF Handling
<1>2. CASE serve(c) \/ serveSession(c)
  BY <1>2, ArrivalHolds
<1>3. CASE ResolveSession(c)
  BY <1>3, ResolvingHolds
<1>4. CASE check(c)
  <2>1. End(c) \/ Advance(c, "task") \/ Advance(c, "passed")
    BY <1>4 DEF check
  <2>2. cache' = cache
    BY <1>4 DEF check
  <2> QED BY <2>1, <2>2, GoingOnHolds
<1>5. CASE requireTask(c)
  BY <1>5, GoingOnHolds DEF requireTask
<1>6. CASE Passed(c)
  BY <1>6, GoingOnHolds DEF Passed
<1> QED BY <1>1, <1>2, <1>3, <1>4, <1>5, <1>6

(* A step of the Gateway, of identity or of time.                          *)
LEMMA GatewayNextHolds == GatewayInv /\ [GatewayNext]_gatewayVars => GatewayInv'
<1>1. CASE UNCHANGED gatewayVars
  BY <1>1 DEF gatewayVars, GatewayInv, CallHolds, EntryHolds, Recent
<1>2. CASE GatewayNext
  BY <1>2, HandlersHold, JanitorHolds, ChangesHold, TickHolds DEF GatewayNext
<1> QED BY <1>1, <1>2

(* What is cached and what requests hold is always that recent.            *)
LEMMA GatewayInvariance == GatewaySpec => []GatewayInv
BY GatewayInitHolds, GatewayNextHolds, PTL DEF GatewaySpec

----------------------------------------------------------------------------
(* The route of a path that names a workspace or a task.                   *)
Guarded(path) ==
  \/ path.domain = "workspaces" /\ path.sub \notin {"", "list"}
  \/ path.domain = "tasks" /\ path.sub \in {"stream", "runs", "artifacts"}

(* Such a path is never one of the routes that are merely passed on.       *)
LEMMA GuardedRoutes ==
  ASSUME NEW path, Guarded(path)
  PROVE  Resolve(path).kind \in {"workspaceRemap", "taskRuns", "stream"}
<1>1. CASE path.domain = "tasks" /\ path.sub = "stream"
  <2>1. Resolve(path) = RouteTo("stream", "executor", TRUE)
    BY <1>1 DEF Resolve, Tenant, WorkspaceDomains, AgentDomains, IdentityDomains
  <2> QED BY <2>1 DEF RouteTo
<1>2. CASE path.domain = "workspaces" /\ path.sub \in InWorkspaceService
  <2>1. Resolve(path) = RouteTo("workspaceRemap", "workspace", TRUE)
    BY <1>2 DEF Resolve, Tenant, WorkspaceDomains, AgentDomains, IdentityDomains, InWorkspaceService
  <2> QED BY <2>1 DEF RouteTo
<1>3. CASE path.domain = "workspaces" /\ path.sub \notin {"", "list"} \cup InWorkspaceService
  <2>1. Resolve(path) = RouteTo("workspaceRemap", "identity", TRUE)
    BY <1>3 DEF Resolve, Tenant, WorkspaceDomains, AgentDomains, IdentityDomains, InWorkspaceService
  <2> QED BY <2>1 DEF RouteTo
<1>4. CASE path.domain = "tasks" /\ path.sub \in {"runs", "artifacts"}
  <2>1. Resolve(path) = RouteTo("taskRuns", "executor", TRUE)
    BY <1>4 DEF Resolve, Tenant, WorkspaceDomains, AgentDomains, IdentityDomains
  <2> QED BY <2>1 DEF RouteTo
<1> QED BY <1>1, <1>2, <1>3, <1>4 DEF Guarded


(* Whose workspace is in the list a request holds was a member recently:   *)
(* the entry's age and the two waits add up to less than Memory.           *)
LEMMA HeldIsRecent ==
  ASSUME GatewayInv, NEW c \in GatewayCalls, NEW w \in gwCalls[c].held.union
  PROVE  gwCalls[c].token # NoToken /\ RecentMember(gwCalls[c].token, w)
<1>1. PICK call \in GatewayCall : call = gwCalls[c]
  BY DEF GatewayInv
<1>2. CallHolds(call) /\ call.held \in CacheEntry /\ call.waited \in 0 .. MaxWait
  BY <1>1 DEF GatewayInv, GatewayCall
<1>3. call.held.kind = "known" /\ call.token \in Tokens /\ call.held.age < TTL
      /\ Recent(call.token, w, call.held.age + MaxWait + call.waited)
  BY <1>1, <1>2 DEF CallHolds
<1>4. w \in Spaces /\ call.held.age \in 0 .. TTL
  BY <1>1, <1>2 DEF CacheEntry
<1>5. call.held.age + MaxWait + call.waited < Memory /\ call.held.age + MaxWait + call.waited \in Nat
  BY <1>2, <1>3, <1>4, GatewayAssumption DEF Memory
<1>6. lostFor[call.token][w] \in 0 .. Memory /\ Memory \in Nat
  BY <1>3, <1>4, GatewayAssumption DEF GatewayInv, Memory
<1>7. RecentMember(call.token, w)
  <2>1. CASE w \in member[call.token]
    BY <2>1 DEF RecentMember
  <2>2. CASE lostFor[call.token][w] <= call.held.age + MaxWait + call.waited
    BY <1>5, <1>6, <2>2 DEF RecentMember
  <2> QED BY <1>3, <2>1, <2>2 DEF Recent
<1> QED BY <1>1, <1>3, <1>7, GatewayAssumption

(* Only a check that found the workspace in that list lets a request pass. *)
LEMMA PassingIsChecked ==
  ASSUME GatewayInv, [GatewayNext]_gatewayVars, NEW c \in GatewayCalls,
         gwCalls'[c].pc = "passed", gwCalls[c].pc # "passed", Guarded(gwCalls[c].path)
  PROVE  gwCalls[c].path.of \in gwCalls[c].held.union
<1>0. PICK call \in GatewayCall : call = gwCalls[c]
  BY DEF GatewayInv
<1>1. gwCalls \in [GatewayCalls -> GatewayCall] /\ call.held.union \subseteq Spaces
  BY <1>0 DEF GatewayInv, GatewayCall, CacheEntry
<1>2. gwCalls' # gwCalls
  OBVIOUS
<1>3. ~GatewayTick
  <2>1. ASSUME GatewayTick PROVE gwCalls'[c].pc = gwCalls[c].pc
    <3>1. gwCalls'[c] = IF call.pc = "idle" THEN call ELSE [call EXCEPT !.waited = call.waited + 1]
      BY <1>0, <2>1 DEF GatewayTick
    <3> QED BY <1>0, <3>1 DEF GatewayCall
  <2> QED BY <2>1
<1>4. Handling
  BY <1>2, <1>3 DEF GatewayNext, gatewayVars, IdentityChanges, Janitor
<1>5. PICK d \in GatewayCalls :
        serve(d) \/ serveSession(d) \/ ResolveSession(d) \/ check(d) \/ requireTask(d) \/ Passed(d)
  BY <1>4 DEF Handling
<1>6. Resolve(call.path).kind \in {"workspaceRemap", "taskRuns", "stream"}
  BY <1>0, GuardedRoutes
<1>7. ~End(d)
  BY <1>1 DEF End, NoRequest
<1>8. ASSUME NEW pc \in {"check", "fetch", "task", "passed"}, Advance(d, pc) PROVE d = c /\ pc = "passed"
  BY <1>1, <1>8 DEF Advance
<1>9. ~serve(d) /\ ~serveSession(d)
  <2>1. ASSUME NEW k, NEW path, NEW pc \in {"check", "load"},
               gwCalls' = [gwCalls EXCEPT ![d] =
                 [NoRequest EXCEPT !.pc = pc, !.token = k, !.path = path]]
        PROVE  FALSE
    BY <1>1, <2>1 DEF NoRequest
  <2>2. ~serveSession(d)
    BY <2>1 DEF serveSession
  <2>3. ~serve(d)
    <3>1. SUFFICES ASSUME NEW path, NEW k,
            gwCalls' = [gwCalls EXCEPT ![d] =
              [NoRequest EXCEPT !.pc = IF k = NoToken THEN "check" ELSE "load",
                                !.token = k, !.path = path]]
          PROVE FALSE
      BY DEF serve
    <3>2. CASE k = NoToken
      BY <2>1, <3>1, <3>2
    <3>3. CASE k # NoToken
      BY <2>1, <3>1, <3>3
    <3> QED BY <3>2, <3>3
  <2> QED BY <2>2, <2>3
<1>10. ~ResolveSession(d)
  <2>1. ~inject(d)
    BY <1>7, <1>8 DEF inject
  <2>2. ASSUME NEW pc \in {"check", "store"}, NEW held,
               gwCalls' = [gwCalls EXCEPT ![d].pc = pc, ![d].held = held]
        PROVE  FALSE
    BY <1>1, <2>2 DEF GatewayCall
  <2>3. ~Advance(d, "check") /\ ~Advance(d, "fetch")
    BY <1>8
  <2> QED BY <2>1, <2>2, <2>3 DEF ResolveSession
<1>11. CASE check(d)
  <2>1. Resolve(gwCalls[d].path).kind = "workspaceRemap"
        => IF gwCalls[d].path.of \in gwCalls[d].held.union THEN Advance(d, "passed") ELSE End(d)
    BY <1>11 DEF check, IsWorkspaceMember
  <2>2. Resolve(gwCalls[d].path).kind \in {"taskRuns", "stream"} => Advance(d, "task")
    BY <1>11 DEF check
  <2>3. Advance(d, "passed") \/ Advance(d, "task") \/ End(d)
    BY <1>11 DEF check
  <2>4. d = c
    BY <1>7, <1>8, <2>3
  <2>5. ~Advance(d, "task")
    BY <1>8
  <2> QED BY <1>0, <1>6, <1>7, <2>1, <2>2, <2>4, <2>5
<1>12. CASE requireTask(d)
  <2>1. PICK w \in {gwCalls[d].path.of, NoSpace} :
          IF w \in gwCalls[d].held.union THEN Advance(d, "passed") ELSE End(d)
    BY <1>12 DEF requireTask, TaskWorkspace, TaskAccessible
  <2>2. w \in gwCalls[d].held.union /\ Advance(d, "passed")
    BY <1>7, <2>1
  <2>3. d = c
    BY <1>8, <2>2
  <2>4. w # NoSpace
    BY <1>0, <1>1, <2>2, <2>3, GatewayAssumption
  <2> QED BY <2>1, <2>2, <2>3, <2>4
<1> QED BY <1>5, <1>7, <1>9, <1>10, <1>11, <1>12 DEF Passed

(* Nobody who lost a membership longer ago than a cached answer lives and  *)
(* two requests wait is let through to a workspace or to its tasks.        *)
THEOREM AccessEndsTheorem == GatewaySpec => AccessEndsSoon
<1>1. ASSUME GatewayInv, [GatewayNext]_gatewayVars
      PROVE  [\A c \in GatewayCalls : PassesForMembers(c)]_gatewayVars
  BY <1>1, PassingIsChecked, HeldIsRecent DEF PassesForMembers, Guarded
<1> QED BY <1>1, GatewayInvariance, PTL DEF GatewaySpec, AccessEndsSoon

=============================================================================
