--------------------------- MODULE ServicesProofs ---------------------------
(***************************************************************************)
(* Proofs about the start of a replica and the pages of the Gateway, and   *)
(* that every component of module MCServices keeps to its types, for any   *)
(* value of any constant.                                                  *)
(***************************************************************************)
EXTENDS MCServices, IdentityProofs, GatewayProofs, ExecutionProofs, CatalogProofs

-----------------------------------------------------------------------------
(* The start of a replica.                                                *)

(* What is recorded is what is committed, a replica never looks at a file  *)
(* beyond the next one, and applies one of the files there are.            *)
InTurn ==
  /\ recorded = 1 .. Len(schema)
  /\ Len(schema) <= Files
  /\ \A r \in Replicas :
       /\ replicas[r].file <= Len(schema) + 1
       /\ replicas[r].pc = "apply" => replicas[r].file <= Files

Replica == [pc : {"down", "pool", "check", "apply", "serving", "draining"},
            file : 1 .. Files + 1]

(* What is committed is the first files, in order and each once, whatever  *)
(* was started again; and whoever serves has found all of them recorded.   *)
SchemaIsPrefix ==
  /\ schema = [i \in 1 .. Len(schema) |-> i]
  /\ \A r \in Replicas : replicas[r].pc \in {"serving", "draining"} => Len(schema) = Files

StartInv == StartupTypeOK /\ InTurn /\ SchemaIsPrefix

-----------------------------------------------------------------------------
(* A replica that has a file to commit commits the next one.               *)
LEMMA CommitsTheNext ==
  ASSUME StartInv, NEW r \in Replicas, replicas[r].pc = "apply",
         ~Conflict(replicas[r].file), Commit(replicas[r].file)
  PROVE  /\ replicas[r].file = Len(schema) + 1
         /\ schema' \in Seq(1 .. Files)
         /\ Len(schema') = Len(schema) + 1
         /\ schema' = [i \in 1 .. Len(schema') |-> i]
         /\ recorded' = 1 .. Len(schema')
         /\ recorded' \subseteq 1 .. Files
         /\ Len(schema') <= Files
<1> DEFINE n == replicas[r].file
<1>1. n \in 1 .. Files /\ n <= Len(schema) + 1 /\ Len(schema) \in Nat /\ Files \in Nat
  BY FilesAssumption DEF StartInv, StartupTypeOK, InTurn
<1>2. n = Len(schema) + 1
  BY <1>1 DEF StartInv, InTurn, Conflict
<1>3. schema' = Append(schema, n) /\ schema' \in Seq(1 .. Files) /\ Len(schema') = Len(schema) + 1
  BY <1>1 DEF Commit, StartInv, StartupTypeOK
<1>4. schema' = [i \in 1 .. Len(schema') |-> i]
  <2>1. ASSUME NEW i \in 1 .. Len(schema) PROVE schema'[i] = i
    <3>1. schema'[i] = schema[i]
      BY <1>1, <1>3 DEF StartInv, StartupTypeOK
    <3>2. schema[i] = i
      BY DEF StartInv, SchemaIsPrefix
    <3> QED BY <3>1, <3>2
  <2>2. schema'[Len(schema) + 1] = n
    BY <1>1, <1>3 DEF StartInv, StartupTypeOK
  <2>3. \A i \in 1 .. Len(schema') : schema'[i] = i
    BY <1>1, <1>2, <1>3, <2>1, <2>2
  <2>4. schema' = [i \in 1 .. Len(schema') |-> schema'[i]]
    BY <1>3
  <2> QED BY <2>3, <2>4
<1>5. recorded' = 1 .. Len(schema')
  BY <1>1, <1>2, <1>3 DEF Commit, StartInv, InTurn
<1>6. Len(schema') <= Files /\ 1 .. Len(schema') \subseteq 1 .. Files
  BY <1>1, <1>2, <1>3
<1> QED BY <1>2, <1>3, <1>4, <1>5, <1>6

(* It holds at the start and every step keeps it.                          *)
LEMMA StartupInitHolds == StartupInit => StartInv
  BY FilesAssumption DEF StartupInit, StartInv, StartupTypeOK, InTurn, SchemaIsPrefix, Down

(* A step of any replica, a failed start among them, keeps it.             *)
LEMMA StartupStepHolds == StartInv /\ [StartupNext]_startVars => StartInv'
<1> SUFFICES ASSUME StartInv, [StartupNext]_startVars PROVE StartInv'
  OBVIOUS
<1> DEFINE Keeps == UNCHANGED <<schema, recorded>>
           Grows(r) == /\ replicas[r].pc = "apply" /\ ~Conflict(replicas[r].file)
                       /\ Commit(replicas[r].file)
           Rest(r) == \A q \in Replicas \ {r} : replicas'[q] = replicas[q]
<1>0. /\ Len(schema) \in Nat /\ Files \in Nat
      /\ replicas \in [Replicas -> Replica]
      /\ startFaults \in 0 .. MaxStartFaults
      /\ \A r \in Replicas :
           /\ replicas[r].file <= Len(schema) + 1
           /\ replicas[r].pc = "apply" => replicas[r].file <= Files
           /\ replicas[r].pc \in {"serving", "draining"} => Len(schema) = Files
  <2>1. /\ Len(schema) \in Nat /\ Files \in Nat
        /\ replicas \in [Replicas -> Replica]
        /\ startFaults \in 0 .. MaxStartFaults
    BY FilesAssumption DEF StartInv, StartupTypeOK, Replica
  <2>2. \A r \in Replicas : replicas[r].pc \in {"serving", "draining"} => Len(schema) = Files
    BY DEF StartInv, SchemaIsPrefix
  <2> QED BY <2>1, <2>2 DEF StartInv, InTurn
<1>1. ASSUME NEW r \in Replicas,
             Keeps \/ Grows(r),
             startFaults' \in 0 .. MaxStartFaults,
             replicas' \in [Replicas -> Replica],
             Rest(r),
             replicas'[r].file <= Len(schema') + 1,
             replicas'[r].pc = "apply" => replicas'[r].file <= Files,
             replicas'[r].pc \in {"serving", "draining"} => Len(schema) = Files /\ Keeps
      PROVE  StartInv'
  <2>1. CASE Keeps
    <3>1. StartupTypeOK' BY <1>1, <2>1 DEF StartInv, StartupTypeOK, Replica
    <3>2. InTurn' BY <1>1, <2>1 DEF StartInv, InTurn
    <3>3. SchemaIsPrefix' BY <1>1, <2>1 DEF StartInv, SchemaIsPrefix
    <3> QED BY <3>1, <3>2, <3>3 DEF StartInv
  <2>2. CASE Grows(r)
    <3>1. /\ replicas[r].file = Len(schema) + 1
          /\ schema' \in Seq(1 .. Files)
          /\ Len(schema') = Len(schema) + 1
          /\ schema' = [i \in 1 .. Len(schema') |-> i]
          /\ recorded' = 1 .. Len(schema')
          /\ recorded' \subseteq 1 .. Files
          /\ Len(schema') <= Files
      BY <2>2, CommitsTheNext
    <3>2. StartupTypeOK' BY <1>1, <3>1 DEF StartupTypeOK, Replica
    <3>3. \A q \in Replicas : replicas'[q].file <= Len(schema') + 1
      <4> TAKE q \in Replicas
      <4>1. CASE q = r BY <1>1, <4>1
      <4>2. CASE q # r
        <5>1. replicas'[q] = replicas[q] BY <1>1, <4>2
        <5>2. replicas[q].file \in Nat BY <1>0 DEF Replica
        <5> QED BY <1>0, <3>1, <5>1, <5>2
      <4> QED BY <4>1, <4>2
    <3>4. \A q \in Replicas : replicas'[q].pc = "apply" => replicas'[q].file <= Files
      BY <1>0, <1>1
    <3>5. InTurn' BY <3>1, <3>3, <3>4 DEF InTurn
    <3>6. Len(schema) # Files
      BY <1>0, <3>1
    <3>7. \A q \in Replicas : replicas'[q].pc \notin {"serving", "draining"}
      BY <1>0, <1>1, <3>6
    <3>8. SchemaIsPrefix' BY <3>1, <3>7 DEF SchemaIsPrefix
    <3> QED BY <3>2, <3>5, <3>8 DEF StartInv
  <2> QED BY <1>1, <2>1, <2>2
<1>2. ASSUME NEW r \in Replicas, Becomes(r, "pool") \/ Becomes(r, "check") \/ Becomes(r, "apply")
               \/ Becomes(r, "serving") \/ Becomes(r, "draining") \/ Exits(r)
      PROVE  replicas' \in [Replicas -> Replica]
  <2>1. Down \in Replica
    BY <1>0 DEF Down, Replica
  <2> QED BY <1>0, <1>2, <2>1 DEF Becomes, Exits, Replica
<1>3. ASSUME NEW r \in Replicas, Keeps, UNCHANGED startFaults,
             NEW pc \in {"pool", "check", "apply", "serving", "draining"}, Becomes(r, pc),
             pc = "apply" => replicas[r].file <= Files,
             pc \in {"serving", "draining"} => Len(schema) = Files
      PROVE  StartInv'
  <2>1. replicas'[r].pc = pc /\ replicas'[r].file = replicas[r].file /\ Rest(r)
    BY <1>0, <1>3 DEF Becomes, Replica
  <2>2. replicas' \in [Replicas -> Replica]
    BY <1>2, <1>3
  <2> QED BY <1>0, <1>1, <1>3, <2>1, <2>2
<1>4. ASSUME NEW r \in Replicas, Exits(r), Keeps \/ Grows(r), startFaults' \in 0 .. MaxStartFaults
      PROVE  StartInv'
  <2>1. replicas'[r].pc = "down" /\ replicas'[r].file = 1 /\ Rest(r)
    BY <1>0, <1>4 DEF Exits, Down
  <2>2. replicas' \in [Replicas -> Replica]
    BY <1>2, <1>4
  <2>3. Len(schema') \in Nat
    BY <1>0, <1>4, CommitsTheNext
  <2> QED BY <1>1, <1>4, <2>1, <2>2, <2>3
<1>5. CASE StartupNext
  <2>1. PICK r \in Replicas : \/ (svcRun(r) \/ Pool(r) \/ Migrate(r)) /\ UNCHANGED startFaults
                              \/ StartFails(r)
    BY <1>5 DEF StartupNext
  <2>2. CASE svcRun(r) /\ UNCHANGED startFaults
    <3>1. CASE replicas[r].pc = "down" /\ Becomes(r, "pool")
      BY <1>3, <2>2, <3>1 DEF svcRun
    <3>2. CASE replicas[r].pc = "check" /\ replicas[r].file > Files /\ Becomes(r, "serving")
      <4>1. Len(schema) = Files
        BY <1>0, <3>2 DEF Replica, StartInv, InTurn
      <4> QED BY <1>3, <2>2, <3>2, <4>1 DEF svcRun
    <3>3. CASE replicas[r].pc = "serving" /\ Becomes(r, "draining")
      BY <1>0, <1>3, <2>2, <3>3 DEF svcRun
    <3>4. CASE replicas[r].pc = "draining" /\ Exits(r)
      BY <1>0, <1>4, <2>2, <3>4 DEF svcRun
    <3> QED BY <2>2, <3>1, <3>2, <3>3, <3>4 DEF svcRun
  <2>3. CASE Pool(r) /\ UNCHANGED startFaults
    BY <1>3, <2>3 DEF Pool
  <2>4. CASE Migrate(r) /\ UNCHANGED startFaults
    <3> DEFINE n == replicas[r].file
    <3>1. CASE replicas[r].pc = "check" /\ n <= Files /\ n \in recorded /\ NextFile(r) /\ Keeps
      <4>1. replicas'[r].pc = "check" /\ replicas'[r].file = n + 1 /\ Rest(r)
        BY <1>0, <3>1 DEF NextFile
      <4>2. n \in 1 .. Files /\ n <= Len(schema)
        BY <1>0, <3>1 DEF StartInv, InTurn, Replica
      <4>3. replicas' \in [Replicas -> Replica]
        BY <1>0, <3>1, <4>2 DEF NextFile, Replica
      <4> QED BY <1>0, <1>1, <2>4, <3>1, <4>1, <4>2, <4>3
    <3>2. CASE replicas[r].pc = "check" /\ n <= Files /\ Becomes(r, "apply") /\ Keeps
      BY <1>3, <2>4, <3>2
    <3>3. CASE Grows(r) /\ NextFile(r)
      <4>1. replicas'[r].pc = "check" /\ replicas'[r].file = n + 1 /\ Rest(r)
        BY <1>0, <3>3 DEF NextFile
      <4>2. n = Len(schema) + 1 /\ Len(schema') = Len(schema) + 1
        BY <3>3, CommitsTheNext
      <4>3. n \in 1 .. Files
        BY <1>0, <3>3 DEF Replica
      <4>4. replicas' \in [Replicas -> Replica]
        BY <1>0, <3>3, <4>3 DEF NextFile, Replica
      <4> QED BY <1>0, <1>1, <2>4, <3>3, <4>1, <4>2, <4>3, <4>4
    <3>4. CASE replicas[r].pc = "apply" /\ Exits(r) /\ Keeps
      BY <1>0, <1>4, <2>4, <3>4
    <3> QED BY <2>4, <3>1, <3>2, <3>3, <3>4 DEF Migrate
  <2>5. CASE StartFails(r)
    <3>1. startFaults' \in 0 .. MaxStartFaults
      BY <1>0, <2>5, FilesAssumption DEF StartFails
    <3> QED BY <1>4, <2>5, <3>1 DEF StartFails
  <2> QED BY <2>1, <2>2, <2>3, <2>4, <2>5
<1>6. CASE UNCHANGED startVars
  BY <1>6 DEF startVars, StartInv, StartupTypeOK, InTurn, SchemaIsPrefix
<1> QED BY <1>5, <1>6

(* Files are committed in their order, what is recorded is committed, and  *)
(* no replica serves on less than the whole schema (db.go:74-108).         *)
THEOREM SchemaTheorem == StartupSpec => [](StartupTypeOK /\ SchemaBeforeService)
<1>1. StartInv => StartupTypeOK /\ SchemaBeforeService
  <2> SUFFICES ASSUME StartInv PROVE SchemaBeforeService
    BY DEF StartInv
  <2>1. /\ Len(schema) \in Nat /\ DOMAIN schema = 1 .. Len(schema)
        /\ \A i \in 1 .. Len(schema) : schema[i] = i
    BY DEF StartInv, StartupTypeOK, SchemaIsPrefix
  <2>2. CommittedFiles = 1 .. Len(schema)
    BY <2>1 DEF CommittedFiles
  <2>3. \A i \in DOMAIN schema : \A f \in 1 .. schema[i] - 1 : \E j \in 1 .. i - 1 : schema[j] = f
    BY <2>1
  <2>4. recorded \subseteq CommittedFiles
    BY <2>2 DEF StartInv, InTurn
  <2>5. \A r \in Replicas : replicas[r].pc \in {"serving", "draining"} => 1 .. Files \subseteq CommittedFiles
    BY <2>2 DEF StartInv, SchemaIsPrefix
  <2> QED BY <2>3, <2>4, <2>5 DEF SchemaBeforeService
<1> QED BY StartupInitHolds, StartupStepHolds, <1>1, PTL DEF StartupSpec

-----------------------------------------------------------------------------
(* Pages.                                                                  *)
(* A page has a probe for every upstream and one for the Gateway.          *)
LEMMA ProbesCounted == Cardinality(Probes) \in Nat
<1>1. IsFiniteSet(Probes)
  BY FanAssumption, FS_AddElement DEF Probes
<1> QED BY <1>1, FS_CardinalityType

(* No page is being composed.                                              *)
LEMMA FanTypesInit == FanInit => FanTypeOK
BY ProbesCounted DEF FanInit, FanTypeOK, Probes, NotAsked

(* A call of a page, the page itself, or an upstream.                      *)
LEMMA FanTyped ==
  ASSUME FanTypeOK, [FanNext]_fanVars
  PROVE  FanTypeOK'
<1> DEFINE Asking == [pc : {"none", "asking", "sending", "done"}, found : BOOLEAN]
<1>0. /\ up \subseteq Upstreams /\ page \in {"none", "health", "counts", "kpis"}
      /\ asks \in [Probes -> Asking] /\ slots \subseteq Probes
      /\ results \in Seq(Probes) /\ Len(results) <= Cardinality(Probes)
  BY DEF FanTypeOK
<1>1. ASSUME up' \subseteq Upstreams, page' \in {"none", "health", "counts", "kpis"},
             asks' \in [Probes -> Asking], slots' \subseteq Probes,
             results' \in Seq(Probes) /\ Len(results') <= Cardinality(Probes)
      PROVE  FanTypeOK'
  BY <1>1 DEF FanTypeOK
<1>2. ASSUME NEW kind \in {"health", "counts", "kpis"}, StartPage(kind) PROVE FanTypeOK'
  <2>1. asks' \in [Probes -> Asking]
    BY <1>2 DEF StartPage, NotAsked
  <2> QED BY <1>0, <1>1, <1>2, <2>1 DEF StartPage
<1>3. CASE serveHealth \/ serveWorkspaces \/ serveKpis
  BY <1>2, <1>3 DEF serveHealth, serveWorkspaces, serveKpis
<1>4. CASE Compose
  <2>1. {results[i] : i \in DOMAIN results} \subseteq Probes
    <3>1. \A i \in DOMAIN results : results[i] \in Probes
      BY <1>0, LenProperties, ElementOfSeq
    <3> QED BY <3>1
  <2>2. <<>> \in Seq(Probes) /\ Len(<<>>) <= Cardinality(Probes)
    BY ProbesCounted
  <2> QED BY <1>0, <1>1, <1>4, <2>1, <2>2 DEF Compose
<1>5. CASE UpstreamChanges
  BY <1>0, <1>1, <1>5 DEF UpstreamChanges
<1>6. ASSUME NEW p \in Probes, Ask(p) PROVE FanTypeOK'
  BY <1>0, <1>1, <1>6 DEF Ask
<1>7. ASSUME NEW p \in Probes, Tell(p) PROVE FanTypeOK'
  <2>1. asks' \in [Probes -> Asking] /\ slots' \subseteq Probes /\ UNCHANGED <<up, page>>
    BY <1>0, <1>7 DEF Tell
  <2>2. results' \in Seq(Probes) /\ Len(results') <= Cardinality(Probes)
    <3>1. CASE page = "health"
      <4>1. results' = Append(results, p) /\ Len(results) < Cardinality(Probes)
        BY <1>7, <3>1 DEF Tell, Capacity, Asked
      <4>2. results' \in Seq(Probes) /\ Len(results') = Len(results) + 1 /\ Len(results) \in Nat
        BY <1>0, <4>1, AppendProperties, LenProperties
      <4> QED BY <4>1, <4>2, ProbesCounted
    <3>2. CASE page # "health"
      BY <1>0, <1>7, <3>2 DEF Tell
    <3> QED BY <3>1, <3>2
  <2> QED BY <1>0, <1>1, <2>1, <2>2
<1>8. CASE UNCHANGED fanVars
  BY <1>0, <1>1, <1>8 DEF fanVars
<1> QED BY <1>3, <1>4, <1>5, <1>6, <1>7, <1>8 DEF FanNext

-----------------------------------------------------------------------------
(* All of them side by side.  Beside its types a component keeps what they  *)
(* rest on: who is about to write something down has it, what is counted   *)
(* has happened, what is published is on record.                           *)
ServicesInv ==
  /\ part \in Parts
  /\ MembersTypeOK /\ AccountsTypes /\ ProvisioningTypes /\ LoginsTypes
  /\ GatewayInv /\ StreamTypes /\ FanTypeOK /\ TablesTypes /\ RunInv /\ StartInv

(* Every component starts typed, the one that is looked at or not.         *)
LEMMA ServicesInitHolds == ServicesInit => ServicesInv
BY MembersTypesInit, AccountsTypesInit, ProvisioningTypesInit, LoginsTypesInit, GatewayInitHolds,
   StreamTypesInit, FanTypesInit, TablesTypesInit, RunInitHolds, StartupInitHolds
   DEF ServicesInit, ServicesInv

(* A step of a component leaves it typed and the others alone.             *)
LEMMA ServicesStepHolds == ServicesInv /\ [ServicesNext]_servicesVars => ServicesInv'
<1> SUFFICES ASSUME ServicesInv, [ServicesNext]_servicesVars PROVE ServicesInv'
  OBVIOUS
<1>1. UNCHANGED part
  BY DEF ServicesNext, servicesVars
<1>2. /\ [MembersNext]_memberVars /\ [AccountsNext]_accountVars
      /\ [ProvisioningNext]_provisionVars /\ [LoginsNext]_loginVars
      /\ [GatewayNext]_gatewayVars /\ [StreamNext]_streamVars /\ [FanNext]_fanVars
      /\ [AgentLoopNext]_agentLoopVars /\ [StartupNext]_startVars
  BY DEF ServicesNext, servicesVars
<1>3. \/ ResourcesNext /\ UNCHANGED agentVars
      \/ AgentsAndCatalogNext
      \/ UNCHANGED <<resVars, agentVars>>
  BY DEF ServicesNext, servicesVars
<1>4. MembersTypeOK' /\ AccountsTypes' /\ ProvisioningTypes' /\ LoginsTypes'
  BY <1>2, MembersTyped, AccountsTyped, ProvisioningTyped, LoginsTyped DEF ServicesInv
<1>5. GatewayInv' /\ StreamTypes' /\ FanTypeOK' /\ TablesTypes'
  BY <1>2, <1>3, GatewayNextHolds, StreamTyped, FanTyped, TablesTyped DEF ServicesInv
<1>6. RunInv' /\ StartInv'
  BY <1>2, RunNextHolds, StartupStepHolds DEF ServicesInv
<1> QED BY <1>1, <1>4, <1>5, <1>6 DEF ServicesInv

(* Every component keeps to its types: whatever is done, retried, lost or  *)
(* restarted, no table, cache, counter, queue or call of a service holds   *)
(* what the code could not put there.                                      *)
THEOREM ServicesTyped == ServicesSpec => []ServicesTypeOK
<1>1. ServicesInv => ServicesTypeOK
  <2>1. RunInv => AgentLoopTypeOK
    BY RunTypesHold
  <2>2. GatewayInv => GatewayTypeOK
    BY DEF GatewayInv, GatewayTypeOK
  <2> QED BY <2>1, <2>2, StreamTypesHold
          DEF ServicesInv, ServicesTypeOK, AccountsTypes, ProvisioningTypes, LoginsTypes,
              TablesTypes, StartInv
<1> QED BY ServicesInitHolds, ServicesStepHolds, <1>1, PTL DEF ServicesSpec

=============================================================================
