------------------------- MODULE PolicyBundleProofs -------------------------
(***************************************************************************)
(* Proofs about PolicyBundle, for every set of policies, bodies, shims,    *)
(* servers and callers and every bound.                                    *)
(*                                                                         *)
(* That a shim at the current version enforces the current policies is not *)
(* inductive: the version and the policies of a bundle are read in two     *)
(* statements and applied in a third step.  The invariant that is adds     *)
(* what is known of a bundle on its way (InFlight): its version is not     *)
(* ahead of the org, because the version is read FIRST, and if it is still *)
(* the org's version then its policies are still the enabled ones.  And a  *)
(* shim that starts holds version 0 and no policies, so version 0 must     *)
(* mean that no policy is enabled (NoVersionNoPolicy).                     *)
(*                                                                         *)
(* The last two parts are about servers and callers, which are read after  *)
(* the policies: what has been read at a version that is still the org's   *)
(* is still in the tables (TablesInv), and if no read fails it holds every *)
(* flagged caller that fits (FlaggedInv).                                  *)
(***************************************************************************)
EXTENDS PolicyBundle, FiniteSetTheorems, TLAPS

NeverAhead == \A s \in Shim : cache[s].ver <= orgVersion

InFlight ==
    \A s \in Shim :
        /\ hb[s].ver <= orgVersion
        /\ hb[s].stage \in {"policies", "servers", "reply"} /\ hb[s].ver = orgVersion
             => hb[s].policies = Enabled

\* A shim starts with version 0 and no policies.
NoVersionNoPolicy == orgVersion = 0 => Enabled = {}

IInv ==
    /\ TypeOK
    /\ NoVersionNoPolicy
    /\ NeverAhead
    /\ InFlight
    /\ CurrentVersionMeansCurrentPolicies

-----------------------------------------------------------------------------
(* The triggers count finitely many rows.                                  *)

(* The enabled policies are pairs of a policy and a body.                  *)
LEMMA EnabledType ==
    ASSUME TypeOK
    PROVE  Enabled \in BundlePolicies
BY DEF TypeOK, Enabled, BundlePolicies, PolicyRow

(* A trigger that runs once per deleted server row advances the version by *)
(* a natural number.                                                       *)
LEMMA NameCount ==
    ASSUME NEW S \in SUBSET Name
    PROVE  Cardinality(S) \in Nat
BY ServerAssumption, FS_Subset, FS_CardinalityType

(* So does one that runs once per inserted or aged caller.                 *)
LEMMA CallerCount ==
    ASSUME NEW S \in SUBSET Caller
    PROVE  Cardinality(S) \in Nat
BY CallerAssumption, FS_Subset, FS_CardinalityType

-----------------------------------------------------------------------------
(* Type correctness.                                                       *)

(* The bump leaves the version in its range.                               *)
LEMMA BumpType ==
    ASSUME orgVersion \in 0..MaxVersion, NEW k \in Nat, Bump(k)
    PROVE  orgVersion' \in 0..MaxVersion /\ orgVersion' >= orgVersion
BY BoundAssumption DEF Bump

(* A fault is counted within its bound.                                    *)
LEMMA FaultType ==
    ASSUME faults \in 0..MaxFaults, Fault
    PROVE  faults' \in 0..MaxFaults
BY BoundAssumption DEF Fault

(* The policy API preserves the types.                                     *)
LEMMA AdminTypes ==
    ASSUME TypeOK, Admin
    PROVE  TypeOK'
<1>1. ASSUME NEW p \in Policy, NEW b \in Body, NEW on \in BOOLEAN,
             CreatePolicy(p, b, on) \/ UpdatePolicy(p, b, on)
      PROVE  TypeOK'
  <2>1. Bump(1) /\ UNCHANGED <<servers, callers, recent, disabled, hb, cache, faults>>
    BY <1>1 DEF CreatePolicy, UpdatePolicy
  <2>2. orgVersion' \in 0..MaxVersion
    BY <2>1, BumpType DEF TypeOK
  <2>3. [body |-> b, enabled |-> on] \in PolicyRow
    BY DEF PolicyRow
  <2>4. policies' \in [Policy -> PolicyRow \cup {NoRow}]
    BY <1>1, <2>3 DEF TypeOK, CreatePolicy, UpdatePolicy
  <2>5. QED
    BY <2>1, <2>2, <2>4 DEF TypeOK
<1>2. ASSUME NEW p \in Policy, DeletePolicy(p)
      PROVE  TypeOK'
  BY <1>2, BumpType, SMT DEF TypeOK, DeletePolicy
<1>3. ASSUME NEW c \in Connection, DeleteConnection(c)
      PROVE  TypeOK'
  <2>1. Cardinality({n \in Name : servers[c][n] # NoRow}) \in Nat
    BY NameCount
  <2>2. QED
    BY <1>3, <2>1, BumpType, SMT DEF TypeOK, DeleteConnection, Source
<1>4. ASSUME NEW c \in Caller, AcknowledgeCaller(c)
      PROVE  TypeOK'
  BY <1>4, BumpType, SMT DEF TypeOK, AcknowledgeCaller, CallerRow, CallerFlags
<1>5. ASSUME NEW s \in Shim, NEW n \in Name, NEW on \in BOOLEAN,
             SetCapabilityEnabled(s, n, on)
      PROVE  TypeOK'
  BY <1>5, SMT DEF TypeOK, SetCapabilityEnabled
<1>6. QED
  BY <1>1, <1>2, <1>3, <1>4, <1>5 DEF Admin

(* So do both upserts of a server row.                                     *)
LEMMA UpsertServerTypes ==
    ASSUME TypeOK, NEW src \in Source, NEW n \in Name, NEW moved \in BOOLEAN,
           UpsertServer(src, n, moved)
    PROVE  TypeOK'
BY BumpType, ServerAssumption, SMT DEF TypeOK, UpsertServer

(* So do the discovery and the sweeps.                                     *)
LEMMA SweepTypes ==
    ASSUME TypeOK, Sweeps
    PROVE  TypeOK'
<1>1. ASSUME NEW c \in Connection, NEW n \in Name, NEW moved \in BOOLEAN,
             DiscoverServer(c, n, moved)
      PROVE  TypeOK'
  BY <1>1, UpsertServerTypes DEF DiscoverServer, Source
<1>2. ASSUME NEW src \in Source, NEW n \in Name, NEW x \in Exposure,
             SetExposure(src, n, x)
      PROVE  TypeOK'
  BY <1>2, BumpType, SMT DEF TypeOK, SetExposure
<1>3. ASSUME NEW cs \in SUBSET Caller, NEW ls \in SUBSET cs,
             CallersSeen(cs, ls)
      PROVE  TypeOK'
  <2>1. Cardinality({c \in cs : callers[c] = NoRow}) \in Nat
    BY CallerCount
  <2>2. QED
    BY <1>3, <2>1, BumpType, SMT DEF TypeOK, CallersSeen, CallerRow, CallerFlags
<1>4. ASSUME NEW cs \in SUBSET Caller, FlagAgeRollover(cs)
      PROVE  TypeOK'
  BY <1>4, BumpType, CallerCount, SMT DEF TypeOK, FlagAgeRollover, CallerRow, CallerFlags
<1>5. ASSUME NEW c \in Caller, CallerIdle(c)
      PROVE  TypeOK'
  BY <1>5, SMT DEF TypeOK, CallerIdle
<1>6. QED
  BY <1>1, <1>2, <1>3, <1>4, <1>5 DEF Sweeps

(* The rows a snapshot read returns are rows of the bundle.                *)
LEMMA RowTypes ==
    /\ ServerRows \in BundleServers
    /\ \A rows \in FirstCallers : TypeOK => rows \in BundleCallers
<1>1. ServerRows \in BundleServers
  BY DEF ServerRows, BundleServers
<1>2. ASSUME NEW rows \in FirstCallers, TypeOK
      PROVE  rows \in BundleCallers
  BY <1>2 DEF FirstCallers, CallerRows, BundleCallers, TypeOK, Flags, FlaggedNew,
              CallerRow, CallerFlags
<1>3. QED
  BY <1>1, <1>2

(* Requests and caches that the code starts from.                          *)
LEMMA EmptyTypes == NoRequest \in Request /\ EmptyCache \in PolicyCache
BY BoundAssumption, SMT
   DEF NoRequest, Request, EmptyCache, PolicyCache, Stage, BundlePolicies,
       BundleServers, BundleCallers

(* What applying a bundle leaves in the cache.                             *)
LEMMA ApplyTypes ==
    ASSUME TypeOK, NEW s \in Shim, Apply(s)
    PROVE  cache' \in [Shim -> PolicyCache]
<1>1. CASE Compiles(hb[s].policies)
  <2>1. PICK f \in ServersByName(hb[s].servers) :
          cache' = [cache EXCEPT ![s] =
                      [ver |-> hb[s].ver, progs |-> hb[s].policies,
                       servers |-> f, callers |-> hb[s].callers]]
    BY <1>1 DEF Apply
  <2>2. f \in [Name -> Exposure \cup {NoRow}]
    BY DEF ServersByName
  <2>3. [ver |-> hb[s].ver, progs |-> hb[s].policies,
         servers |-> f, callers |-> hb[s].callers] \in PolicyCache
    BY <2>2 DEF TypeOK, Request, PolicyCache
  <2>4. QED
    BY <2>1, <2>3 DEF TypeOK
<1>2. CASE ~Compiles(hb[s].policies)
  BY <1>2 DEF Apply, TypeOK
<1>3. QED
  BY <1>1, <1>2

(* A step of shim s that changes its request and cache within their types  *)
(* preserves the types.                                                    *)
LEMMA ShimStepTypes ==
    ASSUME TypeOK, dbUnchanged, NEW s \in Shim, NEW r \in Request,
           hb' = [hb EXCEPT ![s] = r],
           cache' \in [Shim -> PolicyCache],
           faults' = faults \/ Fault
    PROVE  TypeOK'
BY FaultType DEF TypeOK, dbUnchanged, tables

(* The reads of the heartbeat handler preserve the types.                  *)
LEMMA ReadTypes ==
    ASSUME TypeOK, NEW s \in Shim,
           \/ SendHeartbeat(s) \/ ListDisabledCapabilities(s) \/ ReadVersion(s)
           \/ ListEnabledForOrg(s) \/ UpToDate(s) \/ EndTick(s)
    PROVE  TypeOK'
<1>1. /\ dbUnchanged /\ UNCHANGED <<cache, faults>>
      /\ hb[s] \in Request
      /\ cache \in [Shim -> PolicyCache]
  BY DEF TypeOK, SendHeartbeat, ListDisabledCapabilities, ReadVersion,
         ListEnabledForOrg, UpToDate, EndTick
<1>2. PICK r \in Request : hb' = [hb EXCEPT ![s] = r]
  <2>1. CASE SendHeartbeat(s)
    <3>1. [hb[s] EXCEPT !.stage = "sent"] \in Request
      BY <1>1 DEF Request, Stage
    <3>2. QED
      BY <2>1, <3>1 DEF SendHeartbeat
  <2>2. CASE ListDisabledCapabilities(s)
    <3>1. [hb[s] EXCEPT !.stage = "disabled", !.disabled = disabled[s]] \in Request
      BY <1>1 DEF TypeOK, Request, Stage
    <3>2. QED
      BY <2>2, <3>1 DEF ListDisabledCapabilities, TypeOK
  <2>3. CASE ReadVersion(s)
    <3>1. [hb[s] EXCEPT !.stage = "version", !.ver = orgVersion] \in Request
      BY <1>1 DEF TypeOK, Request, Stage
    <3>2. QED
      BY <2>3, <3>1 DEF ReadVersion, TypeOK
  <2>4. CASE ListEnabledForOrg(s)
    <3>1. [hb[s] EXCEPT !.stage = "policies", !.policies = Enabled] \in Request
      BY <1>1, EnabledType DEF Request, Stage
    <3>2. QED
      BY <2>4, <3>1 DEF ListEnabledForOrg, TypeOK
  <2>5. CASE UpToDate(s)
    <3>1. [hb[s] EXCEPT !.stage = "reply"] \in Request
      BY <1>1 DEF Request, Stage
    <3>2. QED
      BY <2>5, <3>1 DEF UpToDate
  <2>6. CASE EndTick(s)
    BY <2>6, EmptyTypes DEF EndTick
  <2>7. QED
    BY <2>1, <2>2, <2>3, <2>4, <2>5, <2>6
<1>3. QED
  BY <1>1, <1>2, ShimStepTypes

(* So do the snapshot reads, the reply and what fails.                     *)
LEMMA DeliveryTypes ==
    ASSUME TypeOK, NEW s \in Shim,
           \/ ListServersForBundle(s) \/ ListCallersForBundle(s)
           \/ ReceiveReply(s) \/ HeartbeatFails(s) \/ RestartShim(s)
    PROVE  TypeOK'
<1>1. dbUnchanged /\ (faults' = faults \/ Fault)
  BY DEF ListServersForBundle, ListCallersForBundle, ReceiveReply,
         HeartbeatFails, RestartShim
<1>2. hb[s] \in Request /\ cache \in [Shim -> PolicyCache]
  BY DEF TypeOK
<1>3. cache' \in [Shim -> PolicyCache]
  <2>1. CASE ReceiveReply(s)
    BY <2>1, <1>2, ApplyTypes DEF ReceiveReply
  <2>2. CASE RestartShim(s)
    BY <2>2, <1>2, EmptyTypes DEF RestartShim
  <2>3. QED
    BY <1>2, <2>1, <2>2
       DEF ListServersForBundle, ListCallersForBundle, HeartbeatFails
<1>4. PICK r \in Request : hb' = [hb EXCEPT ![s] = r]
  <2>1. CASE ListServersForBundle(s)
    <3>1. /\ [hb[s] EXCEPT !.stage = "servers", !.servers = ServerRows] \in Request
          /\ [hb[s] EXCEPT !.stage = "servers"] \in Request
      BY <1>2, RowTypes DEF Request, Stage
    <3>2. QED
      BY <2>1, <3>1 DEF ListServersForBundle
  <2>2. CASE ListCallersForBundle(s)
    <3>1. /\ [hb[s] EXCEPT !.stage = "reply"] \in Request
          /\ \A rows \in FirstCallers :
               [hb[s] EXCEPT !.stage = "reply", !.callers = rows] \in Request
      BY <1>2, RowTypes DEF Request, Stage
    <3>2. QED
      BY <2>2, <3>1 DEF ListCallersForBundle
  <2>3. CASE ReceiveReply(s)
    <3>1. [NoRequest EXCEPT !.stage = "tick", !.disabled = hb[s].disabled] \in Request
      BY <1>2, EmptyTypes DEF Request, Stage
    <3>2. QED
      BY <2>3, <3>1 DEF ReceiveReply
  <2>4. CASE HeartbeatFails(s) \/ RestartShim(s)
    BY <2>4, EmptyTypes DEF HeartbeatFails, RestartShim
  <2>5. QED
    BY <2>1, <2>2, <2>3, <2>4
<1>5. QED
  BY <1>1, <1>3, <1>4, ShimStepTypes

(* The initial state is well typed.                                        *)
LEMMA TypeInit == Init => TypeOK
BY BoundAssumption, EmptyTypes DEF Init, TypeOK

(* Every step preserves the types.                                         *)
LEMMA TypeStep == TypeOK /\ [Next]_vars => TypeOK'
<1> SUFFICES ASSUME TypeOK, [Next]_vars PROVE TypeOK'
  OBVIOUS
<1>1. CASE Admin
  BY <1>1, AdminTypes
<1>2. CASE Sweeps
  BY <1>2, SweepTypes
<1>3. ASSUME NEW s \in Shim, Heartbeat(s)
      PROVE  TypeOK'
  BY <1>3, ReadTypes, DeliveryTypes DEF Heartbeat
<1>4. ASSUME NEW s \in Shim, NEW n \in Name, NEW moved \in BOOLEAN,
             ObserveServer(s, n, moved)
      PROVE  TypeOK'
  BY <1>4, UpsertServerTypes DEF ObserveServer, Source
<1>5. ASSUME NEW s \in Shim, HeartbeatFails(s) \/ RestartShim(s)
      PROVE  TypeOK'
  BY <1>5, DeliveryTypes
<1>6. CASE UNCHANGED vars
  BY <1>6 DEF TypeOK, vars
<1>7. QED
  BY <1>1, <1>2, <1>3, <1>4, <1>5, <1>6 DEF Next

(* Every variable keeps its type: versions stay inside the bound, bundles  *)
(* and caches hold rows of the tables they were read from.                 *)
THEOREM TypeCorrect == Spec => []TypeOK
BY TypeInit, TypeStep, PTL DEF Spec

-----------------------------------------------------------------------------
(* The safety invariant.                                                   *)

(* A step of the database touches no shim, never moves the version back,   *)
(* and moves it forward if it touches a policy: the version is a promise   *)
(* about the policies.                                                     *)
DatabaseStep ==
    /\ UNCHANGED <<hb, cache>>
    /\ \/ orgVersion' > orgVersion
       \/ orgVersion' >= orgVersion /\ policies' = policies

(* Every change made through the API is such a step.                       *)
LEMMA AdminIsDatabaseStep ==
    ASSUME TypeOK, Admin
    PROVE  DatabaseStep
<1>1. ASSUME NEW p \in Policy, NEW b \in Body, NEW on \in BOOLEAN,
             CreatePolicy(p, b, on) \/ UpdatePolicy(p, b, on)
      PROVE  DatabaseStep
  BY <1>1, BoundAssumption
     DEF TypeOK, CreatePolicy, UpdatePolicy, Bump, DatabaseStep
<1>2. ASSUME NEW p \in Policy, DeletePolicy(p)
      PROVE  DatabaseStep
  BY <1>2, BoundAssumption DEF TypeOK, DeletePolicy, Bump, DatabaseStep
<1>3. ASSUME NEW c \in Connection, DeleteConnection(c)
      PROVE  DatabaseStep
  <2>1. Cardinality({n \in Name : servers[c][n] # NoRow}) \in Nat
    BY NameCount
  <2>2. QED
    BY <1>3, <2>1, BumpType DEF TypeOK, DeleteConnection, DatabaseStep
<1>4. ASSUME NEW c \in Caller, AcknowledgeCaller(c)
      PROVE  DatabaseStep
  BY <1>4, BumpType DEF TypeOK, AcknowledgeCaller, DatabaseStep
<1>5. ASSUME NEW s \in Shim, NEW n \in Name, NEW on \in BOOLEAN,
             SetCapabilityEnabled(s, n, on)
      PROVE  DatabaseStep
  <2>1. UNCHANGED <<orgVersion, policies, hb, cache>>
    BY <1>5 DEF SetCapabilityEnabled
  <2>2. orgVersion \in Nat
    BY BoundAssumption DEF TypeOK
  <2>3. QED
    BY <2>1, <2>2 DEF DatabaseStep
<1>6. QED
  BY <1>1, <1>2, <1>3, <1>4, <1>5 DEF Admin

(* So is every upsert of a server.                                         *)
LEMMA UpsertIsDatabaseStep ==
    ASSUME TypeOK, NEW src \in Source, NEW n \in Name, NEW moved \in BOOLEAN,
           UpsertServer(src, n, moved)
    PROVE  DatabaseStep
BY BumpType DEF TypeOK, UpsertServer, DatabaseStep

(* So is every step of a sweep.                                            *)
LEMMA SweepIsDatabaseStep ==
    ASSUME TypeOK, Sweeps
    PROVE  DatabaseStep
<1>1. ASSUME NEW c \in Connection, NEW n \in Name, NEW moved \in BOOLEAN,
             DiscoverServer(c, n, moved)
      PROVE  DatabaseStep
  BY <1>1, UpsertIsDatabaseStep DEF DiscoverServer, Source
<1>2. ASSUME NEW src \in Source, NEW n \in Name, NEW x \in Exposure,
             SetExposure(src, n, x)
      PROVE  DatabaseStep
  BY <1>2, BumpType DEF TypeOK, SetExposure, DatabaseStep
<1>3. ASSUME NEW cs \in SUBSET Caller, NEW ls \in SUBSET cs,
             CallersSeen(cs, ls)
      PROVE  DatabaseStep
  <2>1. Cardinality({c \in cs : callers[c] = NoRow}) \in Nat
    BY CallerCount
  <2>2. QED
    BY <1>3, <2>1, BumpType DEF TypeOK, CallersSeen, DatabaseStep
<1>4. ASSUME NEW cs \in SUBSET Caller, FlagAgeRollover(cs)
      PROVE  DatabaseStep
  BY <1>4, BumpType, CallerCount DEF TypeOK, FlagAgeRollover, DatabaseStep
<1>5. ASSUME NEW c \in Caller, CallerIdle(c)
      PROVE  DatabaseStep
  BY <1>5, BoundAssumption DEF TypeOK, CallerIdle, DatabaseStep
<1>6. QED
  BY <1>1, <1>2, <1>3, <1>4, <1>5 DEF Sweeps

(* What a step of a shim may do to that shim's request and cache, given    *)
(* the invariant: the two ways a version gets anywhere.                    *)
GoodRequest(r) ==
    /\ r.ver <= orgVersion
    /\ r.stage \in {"policies", "servers", "reply"} /\ r.ver = orgVersion
         => r.policies = Enabled

GoodCache(c) ==
    /\ c.ver <= orgVersion
    /\ c.ver = orgVersion => c.progs = Enabled

(* A step of the database keeps every request and cache good.              *)
LEMMA DatabaseStepInv ==
    ASSUME IInv, TypeOK', DatabaseStep
    PROVE  (NeverAhead /\ InFlight /\ CurrentVersionMeansCurrentPolicies)'
<1>1. \A s \in Shim : hb[s].ver \in Nat /\ cache[s].ver \in Nat
  BY BoundAssumption DEF IInv, TypeOK, Request, PolicyCache
<1>0. orgVersion \in Nat /\ orgVersion' \in Nat
  BY BoundAssumption DEF IInv, TypeOK
<1>2. CASE orgVersion' > orgVersion
  <2>1. \A s \in Shim : hb'[s].ver < orgVersion' /\ cache'[s].ver < orgVersion'
    BY <1>1, <1>0, <1>2 DEF IInv, NeverAhead, InFlight, DatabaseStep
  <2>2. QED
    <3>1. \A s \in Shim : /\ hb'[s].ver <= orgVersion' /\ hb'[s].ver # orgVersion'
                         /\ cache'[s].ver <= orgVersion' /\ cache'[s].ver # orgVersion'
      BY <2>1, <1>1, <1>0 DEF DatabaseStep
    <3>2. QED
      BY <3>1
       DEF NeverAhead, InFlight, CurrentVersionMeansCurrentPolicies, DatabaseStep
<1>3. CASE orgVersion' = orgVersion /\ policies' = policies
  BY <1>3 DEF IInv, NeverAhead, InFlight, CurrentVersionMeansCurrentPolicies,
              DatabaseStep, Enabled
<1>4. CASE orgVersion' # orgVersion /\ orgVersion' >= orgVersion
  <2>1. orgVersion' > orgVersion
    BY <1>4, <1>0
  <2>2. QED
    BY <2>1, <1>2
<1>5. QED
  BY <1>2, <1>3, <1>4 DEF DatabaseStep

(* A step of shim s that leaves it a good request and a good cache keeps   *)
(* the invariant.                                                          *)
LEMMA ShimStepInv ==
    ASSUME IInv, dbUnchanged, NEW s \in Shim, NEW r, NEW c,
           hb' = [hb EXCEPT ![s] = r], GoodRequest(r),
           cache' = [cache EXCEPT ![s] = c], GoodCache(c)
    PROVE  (NeverAhead /\ InFlight /\ CurrentVersionMeansCurrentPolicies)'
<1>1. orgVersion' = orgVersion /\ Enabled' = Enabled
  BY DEF dbUnchanged, tables, Enabled
<1>2. \A t \in Shim : /\ hb'[t] = IF t = s THEN r ELSE hb[t]
                      /\ cache'[t] = IF t = s THEN c ELSE cache[t]
  BY DEF IInv, TypeOK
<1>3. QED
  BY <1>1, <1>2
     DEF IInv, NeverAhead, InFlight, CurrentVersionMeansCurrentPolicies,
         GoodRequest, GoodCache

(* What the invariant says of the request and the cache of one shim.       *)
LEMMA InvIsGood ==
    ASSUME IInv, NEW s \in Shim
    PROVE  /\ GoodRequest(hb[s]) /\ GoodCache(cache[s])
           /\ GoodRequest(NoRequest)
           /\ hb[s] \in Request /\ cache[s] \in PolicyCache
           /\ orgVersion \in Nat
           /\ cache = [cache EXCEPT ![s] = cache[s]]
<1>1. GoodRequest(NoRequest)
  BY BoundAssumption DEF GoodRequest, NoRequest, IInv, TypeOK
<1>2. QED
  BY <1>1, BoundAssumption
     DEF IInv, TypeOK, NeverAhead, InFlight, CurrentVersionMeansCurrentPolicies,
         GoodRequest, GoodCache

(* The reads keep the invariant: the version is read from the org, the     *)
(* policies are read after it.                                             *)
LEMMA ReadInv ==
    ASSUME IInv, NEW s \in Shim,
           \/ SendHeartbeat(s) \/ ListDisabledCapabilities(s) \/ ReadVersion(s)
           \/ ListEnabledForOrg(s) \/ UpToDate(s) \/ EndTick(s)
           \/ ListServersForBundle(s) \/ ListCallersForBundle(s)
    PROVE  (NeverAhead /\ InFlight /\ CurrentVersionMeansCurrentPolicies)'
<1>1. dbUnchanged /\ cache' = cache
  BY DEF SendHeartbeat, ListDisabledCapabilities, ReadVersion, UpToDate,
         ListEnabledForOrg, EndTick, ListServersForBundle, ListCallersForBundle
<1>2. PICK r : hb' = [hb EXCEPT ![s] = r] /\ GoodRequest(r)
  <2> USE InvIsGood DEF GoodRequest, Request
  <2>1. CASE SendHeartbeat(s)
    <3>1. GoodRequest([hb[s] EXCEPT !.stage = "sent"])
      OBVIOUS
    <3>2. QED
      BY <2>1, <3>1 DEF SendHeartbeat
  <2>2. CASE ListDisabledCapabilities(s)
    <3>1. GoodRequest([hb[s] EXCEPT !.stage = "disabled", !.disabled = disabled[s]])
      OBVIOUS
    <3>2. QED
      BY <2>2, <3>1 DEF ListDisabledCapabilities, IInv, TypeOK
  <2>3. CASE ReadVersion(s)
    <3>1. GoodRequest([hb[s] EXCEPT !.stage = "version", !.ver = orgVersion])
      OBVIOUS
    <3>2. QED
      BY <2>3, <3>1 DEF ReadVersion, IInv, TypeOK
  <2>4. CASE ListEnabledForOrg(s)
    <3>1. GoodRequest([hb[s] EXCEPT !.stage = "policies", !.policies = Enabled])
      OBVIOUS
    <3>2. QED
      BY <2>4, <3>1 DEF ListEnabledForOrg, IInv, TypeOK
  <2>5. CASE UpToDate(s)
    <3>1. GoodRequest([hb[s] EXCEPT !.stage = "reply"])
      BY <2>5 DEF UpToDate
    <3>2. QED
      BY <2>5, <3>1 DEF UpToDate
  <2>6. CASE EndTick(s)
    BY <2>6 DEF EndTick
  <2>7. CASE ListServersForBundle(s)
    <3>1. /\ GoodRequest([hb[s] EXCEPT !.stage = "servers", !.servers = ServerRows])
          /\ GoodRequest([hb[s] EXCEPT !.stage = "servers"])
      BY <2>7 DEF ListServersForBundle
    <3>2. QED
      BY <2>7, <3>1 DEF ListServersForBundle, IInv, TypeOK
  <2>8. CASE ListCallersForBundle(s)
    <3>1. CASE hb' = [hb EXCEPT ![s] = [@ EXCEPT !.stage = "reply"]]
      <4>1. GoodRequest([hb[s] EXCEPT !.stage = "reply"])
        BY <2>8 DEF ListCallersForBundle
      <4>2. QED
        BY <2>8, <3>1, <4>1 DEF ListCallersForBundle, IInv, TypeOK
    <3>2. ASSUME NEW rows \in FirstCallers,
                 hb' = [hb EXCEPT ![s] = [@ EXCEPT !.stage = "reply", !.callers = rows]]
          PROVE  \E r : hb' = [hb EXCEPT ![s] = r] /\ GoodRequest(r)
      <4>1. GoodRequest([hb[s] EXCEPT !.stage = "reply", !.callers = rows])
        BY <2>8 DEF ListCallersForBundle
      <4>2. QED
        BY <2>8, <3>2, <4>1 DEF ListCallersForBundle, IInv, TypeOK
    <3>3. QED
      BY <2>8, <3>1, <3>2 DEF ListCallersForBundle
  <2>9. QED
    BY <2>1, <2>2, <2>3, <2>4, <2>5, <2>6, <2>7, <2>8
<1>3. cache' = [cache EXCEPT ![s] = cache[s]] /\ GoodCache(cache[s])
  BY <1>1, InvIsGood
<1>4. QED
  BY <1>1, <1>2, <1>3, ShimStepInv

(* So does the reply, whose bundle is applied as a whole or not at all.    *)
LEMMA ReplyInv ==
    ASSUME IInv, NEW s \in Shim, ReceiveReply(s)
    PROVE  (NeverAhead /\ InFlight /\ CurrentVersionMeansCurrentPolicies)'
<1> DEFINE r == [NoRequest EXCEPT !.stage = "tick", !.disabled = hb[s].disabled]
<1>1. dbUnchanged /\ hb' = [hb EXCEPT ![s] = r]
  BY DEF ReceiveReply
<1>2. GoodRequest(r)
  BY InvIsGood DEF GoodRequest, NoRequest
<1>3. PICK c : cache' = [cache EXCEPT ![s] = c] /\ GoodCache(c)
  <2>1. CASE ShipsBundle(s) /\ Compiles(hb[s].policies)
    <3>1. PICK f : cache' = [cache EXCEPT ![s] =
                     [ver |-> hb[s].ver, progs |-> hb[s].policies,
                      servers |-> f, callers |-> hb[s].callers]]
      BY <2>1 DEF ReceiveReply, Apply
    <3>2. GoodCache([ver |-> hb[s].ver, progs |-> hb[s].policies,
                     servers |-> f, callers |-> hb[s].callers])
      BY InvIsGood DEF GoodCache, GoodRequest, ReceiveReply
    <3>3. QED
      BY <3>1, <3>2
  <2>2. CASE ~(ShipsBundle(s) /\ Compiles(hb[s].policies))
    <3>1. cache' = cache
      BY <2>2 DEF ReceiveReply, Apply
    <3>2. QED
      BY <3>1, InvIsGood
  <2>3. QED
    BY <2>1, <2>2
<1>4. QED
  BY <1>1, <1>2, <1>3, ShimStepInv

(* A lost heartbeat changes nothing the invariant speaks of.               *)
LEMMA FailInv ==
    ASSUME IInv, NEW s \in Shim, HeartbeatFails(s)
    PROVE  (NeverAhead /\ InFlight /\ CurrentVersionMeansCurrentPolicies)'
<1>1. /\ dbUnchanged
      /\ hb' = [hb EXCEPT ![s] = NoRequest]
      /\ cache' = [cache EXCEPT ![s] = cache[s]]
  BY InvIsGood DEF HeartbeatFails
<1>2. QED
  BY <1>1, InvIsGood, ShimStepInv

(* A restarted shim has version 0 and no policies, which is good because   *)
(* the version left 0 with the first policy.                               *)
LEMMA RestartInv ==
    ASSUME IInv, NEW s \in Shim, RestartShim(s)
    PROVE  (NeverAhead /\ InFlight /\ CurrentVersionMeansCurrentPolicies)'
<1>1. GoodCache(EmptyCache)
  BY InvIsGood DEF IInv, GoodCache, EmptyCache, NoVersionNoPolicy
<1>2. QED
  BY <1>1, InvIsGood, ShimStepInv DEF RestartShim

(* A step is a step of the database, a step of one shim, or a stutter.     *)
LEMMA StepCases ==
    ASSUME TypeOK, Next
    PROVE  \/ DatabaseStep
           \/ \E s \in Shim : Heartbeat(s) \/ HeartbeatFails(s) \/ RestartShim(s)
<1>1. ASSUME NEW s \in Shim, NEW n \in Name, NEW moved \in BOOLEAN,
             ObserveServer(s, n, moved)
      PROVE  DatabaseStep
  BY <1>1, UpsertIsDatabaseStep DEF ObserveServer, Source
<1>2. QED
  BY <1>1, AdminIsDatabaseStep, SweepIsDatabaseStep DEF Next

(* The invariant holds initially.                                          *)
LEMMA InvInit == Init => IInv
BY TypeInit, BoundAssumption
   DEF Init, IInv, NoVersionNoPolicy, NeverAhead, InFlight, NoRequest,
       EmptyCache, Enabled, CurrentVersionMeansCurrentPolicies

(* Every step preserves the invariant.                                     *)
LEMMA InvStep == IInv /\ [Next]_vars => IInv'
<1> SUFFICES ASSUME IInv, [Next]_vars PROVE IInv'
  OBVIOUS
<1>1. TypeOK'
  BY TypeStep DEF IInv
<1>2. orgVersion \in Nat /\ orgVersion' \in Nat
  BY <1>1, BoundAssumption DEF IInv, TypeOK
<1>3. CASE DatabaseStep
  <2>1. NoVersionNoPolicy'
    BY <1>2, <1>3 DEF IInv, NoVersionNoPolicy, DatabaseStep, Enabled
  <2>2. QED
    BY <1>1, <1>3, <2>1, DatabaseStepInv DEF IInv
<1>4. ASSUME NEW s \in Shim, Heartbeat(s) \/ HeartbeatFails(s) \/ RestartShim(s)
      PROVE  IInv'
  <2>1. NoVersionNoPolicy'
    <3>1. dbUnchanged
      BY <1>4 DEF Heartbeat, SendHeartbeat, ListDisabledCapabilities,
                  ReadVersion, ListEnabledForOrg, UpToDate, EndTick,
                  ListServersForBundle, ListCallersForBundle, ReceiveReply,
                  HeartbeatFails, RestartShim
    <3>2. QED
      BY <3>1 DEF IInv, NoVersionNoPolicy, dbUnchanged, tables, Enabled
  <2>2. (NeverAhead /\ InFlight /\ CurrentVersionMeansCurrentPolicies)'
    BY <1>4, ReadInv, ReplyInv, FailInv, RestartInv DEF Heartbeat
  <2>3. QED
    BY <1>1, <2>1, <2>2 DEF IInv
<1>5. CASE UNCHANGED vars
  BY <1>1, <1>5
     DEF vars, IInv, NoVersionNoPolicy, NeverAhead, InFlight, Enabled,
         CurrentVersionMeansCurrentPolicies
<1>6. QED
  BY <1>3, <1>4, <1>5, StepCases DEF IInv

(* The inductive invariant is one.                                         *)
THEOREM Invariance == Spec => []IInv
BY InvInit, InvStep, PTL DEF Spec

(* A shim whose cached version is the org's version enforces exactly the   *)
(* enabled policies.                                                       *)
THEOREM CurrentVersion == Spec => []CurrentVersionMeansCurrentPolicies
<1>1. IInv => CurrentVersionMeansCurrentPolicies
  BY DEF IInv
<1>2. QED
  BY <1>1, Invariance, PTL

-----------------------------------------------------------------------------
(* The refinement: heartbeats are linearizable rounds of SnapshotDelivery. *)

(* The empty database is the empty publisher.                              *)
LEMMA DeliveryInit == Init => Delivery!Init
BY DEF Init, Delivery!Init, Enabled, deliveryRound, deliveryAnswer,
       NoRequest, EmptyCache

(* A change of the database is a publication, or nothing, to the readers.  *)
LEMMA DatabasePublishes ==
    ASSUME TypeOK', DatabaseStep
    PROVE  Delivery!Publish
<1>1. Enabled' \in SUBSET (Policy \X Body)
  BY DEF TypeOK, Enabled, PolicyRow
<1>2. \A s \in Shim : /\ deliveryRound(s)' = deliveryRound(s)
                      /\ deliveryAnswer(s)' = deliveryAnswer(s)
                      /\ cache'[s].progs = cache[s].progs
  BY DEF DatabaseStep, deliveryRound, deliveryAnswer, ShipsBundle
<1>3. QED
  BY <1>1, <1>2 DEF Delivery!Publish

(* What the readers of the abstract specification see.                     *)
Held   == [s \in Shim |-> cache[s].progs]
Round  == [s \in Shim |-> deliveryRound(s)]
Answer == [s \in Shim |-> deliveryAnswer(s)]

(* A step of one shim changes the round of that reader only.               *)
LEMMA OneReader ==
    ASSUME TypeOK, dbUnchanged, NEW s \in Shim, NEW r, NEW c,
           hb' = [hb EXCEPT ![s] = r], cache' = [cache EXCEPT ![s] = c]
    PROVE  /\ Enabled' = Enabled
           /\ hb'[s] = r /\ cache'[s] = c
           /\ Held' = [Held EXCEPT ![s] = c.progs]
           /\ Round' = [Round EXCEPT ![s] = deliveryRound(s)']
           /\ Answer' = [Answer EXCEPT ![s] = deliveryAnswer(s)']
<1>1. Enabled' = Enabled
  BY DEF dbUnchanged, tables, Enabled
<1>2. hb'[s] = r /\ cache'[s] = c
  BY DEF TypeOK
<1>3. \A t \in Shim \ {s} : hb'[t] = hb[t] /\ cache'[t] = cache[t]
  BY DEF TypeOK
<1>4. \A t \in Shim \ {s} : /\ deliveryRound(t)' = deliveryRound(t)
                            /\ deliveryAnswer(t)' = deliveryAnswer(t)
  BY <1>3 DEF deliveryRound, deliveryAnswer, ShipsBundle
<1>5. Held' = [Held EXCEPT ![s] = c.progs]
  <2>1. \A t \in Shim : cache'[t].progs = IF t = s THEN c.progs ELSE Held[t]
    BY <1>2, <1>3 DEF Held
  <2>2. Held' = [t \in Shim |-> cache'[t].progs]
    BY DEF Held
  <2>3. QED
    BY <2>1, <2>2, Zenon DEF Held
<1>6. Round' = [Round EXCEPT ![s] = deliveryRound(s)']
  BY <1>4 DEF Round
<1>7. Answer' = [Answer EXCEPT ![s] = deliveryAnswer(s)']
  BY <1>4 DEF Answer
<1>8. QED
  BY <1>1, <1>2, <1>5, <1>6, <1>7

(* The request and the cache a step of a shim leaves behind.               *)
LEMMA ShimStepShape ==
    ASSUME TypeOK, NEW s \in Shim,
           Heartbeat(s) \/ HeartbeatFails(s) \/ RestartShim(s)
    PROVE  /\ dbUnchanged
           /\ \E r, c : /\ hb' = [hb EXCEPT ![s] = r]
                        /\ cache' = [cache EXCEPT ![s] = c]
<1>1. dbUnchanged
  BY DEF Heartbeat, SendHeartbeat, ListDisabledCapabilities,
         ReadVersion, ListEnabledForOrg, UpToDate, EndTick,
         ListServersForBundle, ListCallersForBundle, ReceiveReply,
         HeartbeatFails, RestartShim
<1>2. \E r : hb' = [hb EXCEPT ![s] = r]
  <2>1. CASE SendHeartbeat(s) \/ UpToDate(s) \/ EndTick(s) \/ ReceiveReply(s)
    BY <2>1 DEF SendHeartbeat, UpToDate, EndTick, ReceiveReply, TypeOK
  <2>2. CASE ListDisabledCapabilities(s) \/ ReadVersion(s) \/ ListEnabledForOrg(s)
    BY <2>2 DEF ListDisabledCapabilities, ReadVersion, ListEnabledForOrg, TypeOK
  <2>3. CASE ListServersForBundle(s) \/ ListCallersForBundle(s)
    BY <2>3 DEF ListServersForBundle, ListCallersForBundle, TypeOK
  <2>4. CASE HeartbeatFails(s) \/ RestartShim(s)
    BY <2>4 DEF HeartbeatFails, RestartShim
  <2>5. QED
    BY <2>1, <2>2, <2>3, <2>4 DEF Heartbeat
<1>3. \E c : cache' = [cache EXCEPT ![s] = c]
  <2>1. cache = [cache EXCEPT ![s] = cache[s]]
    BY DEF TypeOK
  <2>2. CASE ReceiveReply(s)
    BY <2>1, <2>2 DEF ReceiveReply, Apply
  <2>3. CASE RestartShim(s)
    BY <2>3 DEF RestartShim
  <2>4. CASE cache' = cache
    BY <2>1, <2>4
  <2>5. QED
    BY <2>2, <2>3, <2>4
       DEF Heartbeat, SendHeartbeat, ListDisabledCapabilities, ReadVersion,
           ListEnabledForOrg, UpToDate, EndTick, ListServersForBundle,
           ListCallersForBundle, HeartbeatFails
<1>4. QED
  BY <1>1, <1>2, <1>3

(* A heartbeat in progress: sent, read, answered, given up.                *)
LEMMA RoundSteps ==
    ASSUME IInv, NEW s \in Shim, Heartbeat(s) \/ HeartbeatFails(s) \/ RestartShim(s)
    PROVE  \/ UNCHANGED <<cache[s].progs, deliveryRound(s), deliveryAnswer(s)>>
           \/ /\ deliveryRound(s) = "closed" /\ deliveryRound(s)' = "open"
              /\ UNCHANGED <<cache[s].progs, deliveryAnswer(s)>>
           \/ /\ deliveryRound(s) = "open" /\ deliveryRound(s)' = "answered"
              /\ deliveryAnswer(s)' = Enabled
              /\ UNCHANGED cache[s].progs
           \/ /\ deliveryRound(s) = "answered" /\ deliveryRound(s)' = "closed"
              /\ cache'[s].progs = deliveryAnswer(s)
              /\ deliveryAnswer(s)' = {}
           \/ /\ deliveryRound(s) # "closed" /\ deliveryRound(s)' = "closed"
              /\ deliveryAnswer(s)' = {}
              /\ UNCHANGED cache[s].progs
           \/ /\ deliveryRound(s)' = "closed"
              /\ deliveryAnswer(s)' = {} /\ cache'[s].progs = {}
<1>1. /\ hb \in [Shim -> Request] /\ cache \in [Shim -> PolicyCache]
      /\ orgVersion \in Nat
      /\ hb[s].ver \in Nat /\ cache[s].ver \in Nat
  BY BoundAssumption DEF IInv, TypeOK, Request, PolicyCache
<1>2. CASE SendHeartbeat(s)
  <2>1. hb[s].stage = "idle" /\ hb'[s].stage = "sent" /\ cache' = cache
    BY <1>1, <1>2 DEF SendHeartbeat, Request
  <2>2. QED
    BY <2>1 DEF deliveryRound, deliveryAnswer
<1>3. CASE ListDisabledCapabilities(s)
  <2>1. hb[s].stage = "sent" /\ hb'[s].stage = "disabled" /\ cache' = cache
    BY <1>1, <1>3 DEF ListDisabledCapabilities, Request
  <2>2. QED
    BY <2>1 DEF deliveryRound, deliveryAnswer
<1>4. CASE ReadVersion(s)
  <2>1. /\ hb[s].stage = "disabled" /\ hb'[s].stage = "version"
        /\ hb'[s].ver = orgVersion /\ cache' = cache
    BY <1>1, <1>4 DEF ReadVersion, Request
  <2>2. CASE cache[s].ver < orgVersion
    BY <2>1, <2>2 DEF deliveryRound, deliveryAnswer, ShipsBundle
  <2>3. CASE ~(cache[s].ver < orgVersion)
    <3>1. cache[s].progs = Enabled
      BY <1>1, <2>3 DEF IInv, NeverAhead, CurrentVersionMeansCurrentPolicies
    <3>2. QED
      BY <2>1, <2>3, <3>1 DEF deliveryRound, deliveryAnswer, ShipsBundle
  <2>4. QED
    BY <2>2, <2>3
<1>5. CASE ListEnabledForOrg(s)
  <2>1. /\ hb[s].stage = "version" /\ hb'[s].stage = "policies"
        /\ hb'[s].ver = hb[s].ver /\ hb'[s].policies = Enabled
        /\ cache' = cache
    BY <1>1, <1>5 DEF ListEnabledForOrg, Request
  <2>2. QED
    BY <2>1 DEF deliveryRound, deliveryAnswer, ShipsBundle
<1>6. CASE UpToDate(s)
  <2>1. /\ hb[s].stage = "policies" /\ hb'[s].stage = "reply"
        /\ hb'[s].ver = hb[s].ver /\ hb'[s].policies = hb[s].policies
        /\ cache' = cache
    BY <1>1, <1>6 DEF UpToDate, Request
  <2>2. QED
    BY <2>1 DEF deliveryRound, deliveryAnswer, ShipsBundle
<1>7. CASE ListServersForBundle(s)
  <2>1. /\ hb[s].stage = "policies" /\ hb'[s].stage = "servers"
        /\ hb'[s].ver = hb[s].ver /\ hb'[s].policies = hb[s].policies
        /\ cache' = cache
    <3>1. CASE hb' = [hb EXCEPT ![s] = [@ EXCEPT !.stage = "servers"]]
      BY <1>1, <1>7, <3>1 DEF ListServersForBundle, Request
    <3>2. ASSUME NEW rows,
                 hb' = [hb EXCEPT ![s] = [@ EXCEPT !.stage = "servers", !.servers = rows]]
          PROVE  /\ hb[s].stage = "policies" /\ hb'[s].stage = "servers"
                 /\ hb'[s].ver = hb[s].ver /\ hb'[s].policies = hb[s].policies
                 /\ cache' = cache
      BY <1>1, <1>7, <3>2 DEF ListServersForBundle, Request
    <3>3. QED
      BY <1>7, <3>1, <3>2 DEF ListServersForBundle
  <2>2. QED
    BY <2>1 DEF deliveryRound, deliveryAnswer, ShipsBundle
<1>8. CASE ListCallersForBundle(s)
  <2>1. /\ hb[s].stage = "servers" /\ hb'[s].stage = "reply"
        /\ hb'[s].ver = hb[s].ver /\ hb'[s].policies = hb[s].policies
        /\ cache' = cache
    <3>1. CASE hb' = [hb EXCEPT ![s] = [@ EXCEPT !.stage = "reply"]]
      BY <1>1, <1>8, <3>1 DEF ListCallersForBundle, Request
    <3>2. ASSUME NEW rows,
                 hb' = [hb EXCEPT ![s] = [@ EXCEPT !.stage = "reply", !.callers = rows]]
          PROVE  /\ hb[s].stage = "servers" /\ hb'[s].stage = "reply"
                 /\ hb'[s].ver = hb[s].ver /\ hb'[s].policies = hb[s].policies
                 /\ cache' = cache
      BY <1>1, <1>8, <3>2 DEF ListCallersForBundle, Request
    <3>3. QED
      BY <1>8, <3>1, <3>2 DEF ListCallersForBundle
  <2>2. QED
    BY <2>1 DEF deliveryRound, deliveryAnswer, ShipsBundle
<1>9. CASE ReceiveReply(s)
  <2>1. hb[s].stage = "reply" /\ hb'[s].stage = "tick"
    BY <1>1, <1>9 DEF ReceiveReply, NoRequest
  <2>2. CASE ShipsBundle(s) /\ Compiles(hb[s].policies)
    <3>1. cache'[s].progs = hb[s].policies
      BY <1>1, <1>9, <2>2 DEF ReceiveReply, Apply
    <3>2. QED
      BY <2>1, <2>2, <3>1 DEF deliveryRound, deliveryAnswer
  <2>3. CASE ~(ShipsBundle(s) /\ Compiles(hb[s].policies))
    <3>1. cache' = cache
      BY <1>9, <2>3 DEF ReceiveReply, Apply
    <3>2. QED
      BY <2>1, <3>1 DEF deliveryRound, deliveryAnswer
  <2>4. QED
    BY <2>2, <2>3
<1>10. CASE EndTick(s)
  <2>1. hb[s].stage = "tick" /\ hb'[s].stage = "idle" /\ cache' = cache
    BY <1>1, <1>10 DEF EndTick, NoRequest
  <2>2. QED
    BY <2>1 DEF deliveryRound, deliveryAnswer
<1>11. CASE HeartbeatFails(s)
  <2>1. /\ hb[s].stage \notin {"idle", "tick"} /\ hb'[s].stage = "idle"
        /\ cache' = cache
    BY <1>1, <1>11 DEF HeartbeatFails, NoRequest
  <2>2. QED
    BY <2>1 DEF deliveryRound, deliveryAnswer
<1>12. CASE RestartShim(s)
  <2>1. hb'[s].stage = "idle" /\ cache'[s].progs = {}
    BY <1>1, <1>12 DEF RestartShim, NoRequest, EmptyCache
  <2>2. QED
    BY <2>1 DEF deliveryRound, deliveryAnswer
<1>13. QED
  BY <1>2, <1>3, <1>4, <1>5, <1>6, <1>7, <1>8, <1>9, <1>10, <1>11, <1>12
     DEF Heartbeat

(* A step of a shim is a step of its reader, or nothing to it.             *)
LEMMA ShimRefines ==
    ASSUME IInv, NEW s \in Shim, Heartbeat(s) \/ HeartbeatFails(s) \/ RestartShim(s)
    PROVE  [Delivery!Next]_(Delivery!vars)
<1>1. PICK r, c : /\ dbUnchanged
                  /\ hb' = [hb EXCEPT ![s] = r]
                  /\ cache' = [cache EXCEPT ![s] = c]
  BY ShimStepShape DEF IInv
<1>2. /\ Enabled' = Enabled
      /\ cache'[s] = c
      /\ Held' = [Held EXCEPT ![s] = c.progs]
      /\ Round' = [Round EXCEPT ![s] = deliveryRound(s)']
      /\ Answer' = [Answer EXCEPT ![s] = deliveryAnswer(s)']
  BY <1>1, OneReader DEF IInv
<1>3. /\ Held[s] = cache[s].progs
      /\ Round[s] = deliveryRound(s)
      /\ Answer[s] = deliveryAnswer(s)
      /\ Held = [Held EXCEPT ![s] = Held[s]]
      /\ Round = [Round EXCEPT ![s] = Round[s]]
      /\ Answer = [Answer EXCEPT ![s] = Answer[s]]
  BY DEF Held, Round, Answer
<1>4. CASE UNCHANGED <<cache[s].progs, deliveryRound(s), deliveryAnswer(s)>>
  BY <1>2, <1>3, <1>4 DEF Delivery!vars, Held, Round, Answer
<1>5. CASE /\ deliveryRound(s) = "closed" /\ deliveryRound(s)' = "open"
           /\ UNCHANGED <<cache[s].progs, deliveryAnswer(s)>>
  <2>1. Delivery!Open(s)
    BY <1>2, <1>3, <1>5 DEF Delivery!Open, Held, Round, Answer
  <2>2. QED
    BY <2>1 DEF Delivery!Next
<1>6. CASE /\ deliveryRound(s) = "open" /\ deliveryRound(s)' = "answered"
           /\ deliveryAnswer(s)' = Enabled
           /\ UNCHANGED cache[s].progs
  <2>1. Delivery!Answer(s)
    BY <1>2, <1>3, <1>6 DEF Delivery!Answer, Held, Round, Answer
  <2>2. QED
    BY <2>1 DEF Delivery!Next
<1>7. CASE /\ deliveryRound(s) = "answered" /\ deliveryRound(s)' = "closed"
           /\ cache'[s].progs = deliveryAnswer(s)
           /\ deliveryAnswer(s)' = {}
  <2>1. Delivery!Close(s)
    BY <1>2, <1>3, <1>7 DEF Delivery!Close, Held, Round, Answer
  <2>2. QED
    BY <2>1 DEF Delivery!Next
<1>8. CASE /\ deliveryRound(s) # "closed" /\ deliveryRound(s)' = "closed"
           /\ deliveryAnswer(s)' = {}
           /\ UNCHANGED cache[s].progs
  <2>1. Delivery!Fail(s)
    BY <1>2, <1>3, <1>8 DEF Delivery!Fail, Held, Round, Answer
  <2>2. QED
    BY <2>1 DEF Delivery!Next
<1>9. CASE /\ deliveryRound(s)' = "closed"
           /\ deliveryAnswer(s)' = {} /\ cache'[s].progs = {}
  <2>1. Delivery!Restart(s)
    BY <1>2, <1>3, <1>9 DEF Delivery!Restart, Held, Round, Answer
  <2>2. QED
    BY <2>1 DEF Delivery!Next
<1>10. QED
  BY <1>4, <1>5, <1>6, <1>7, <1>8, <1>9, RoundSteps

(* Every step maps to a step of SnapshotDelivery or a stutter.             *)
LEMMA DeliveryStep == IInv /\ IInv' /\ [Next]_vars => [Delivery!Next]_(Delivery!vars)
<1> SUFFICES ASSUME IInv, IInv', [Next]_vars
             PROVE  [Delivery!Next]_(Delivery!vars)
  OBVIOUS
<1>1. CASE DatabaseStep
  BY <1>1, DatabasePublishes DEF IInv, Delivery!Next
<1>2. ASSUME NEW s \in Shim, Heartbeat(s) \/ HeartbeatFails(s) \/ RestartShim(s)
      PROVE  [Delivery!Next]_(Delivery!vars)
  BY <1>2, ShimRefines
<1>3. CASE UNCHANGED vars
  BY <1>3 DEF vars, Delivery!vars, Enabled, deliveryRound, deliveryAnswer,
              ShipsBundle
<1>4. QED
  BY <1>1, <1>2, <1>3, StepCases DEF IInv

(* The five reads of a heartbeat and the apply of its reply deliver, in    *)
(* every round that succeeds, the policies of one instant of that round.   *)
THEOREM DeliveryRefinement == Spec => DeliversSnapshots
<1>1. Init => Delivery!Init
  BY DeliveryInit
<1>2. QED
  BY <1>1, DeliveryStep, Invariance, PTL DEF Spec, DeliversSnapshots, Delivery!Spec

-----------------------------------------------------------------------------
(* Servers and callers: the same argument for the reads after the policies.*)

(* A request holds no rows before it has read them, and rows that it read  *)
(* at the org's version are still those of the tables.                     *)
GoodRows(r) ==
    /\ r.stage \notin {"servers", "reply"} => r.servers = {}
    /\ r.stage # "reply" => r.callers = {}
    /\ r.ver = orgVersion =>
         /\ \A row \in r.servers : servers[row[1]][row[2]] = row[3]
         /\ \A row \in r.callers : Flags(callers[row[1]]) = row[2]

(* The two properties of a cache, for one cache.                           *)
GoodTables(c) ==
    c.ver = orgVersion =>
        /\ \A n \in Name : c.servers[n] # NoRow =>
             \E src \in Source : servers[src][n] = c.servers[n]
        /\ \A row \in c.callers : Flags(callers[row[1]]) = row[2]

TablesInv == \A s \in Shim : GoodRows(hb[s]) /\ GoodTables(cache[s])

(* The version is a promise about servers and callers, too: a step of the  *)
(* database that leaves it as it was leaves both tables as they were.      *)
TablesStep ==
    /\ UNCHANGED <<hb, cache>>
    /\ \/ orgVersion' > orgVersion
       \/ UNCHANGED <<orgVersion, servers, callers>>

(* A bump by a positive number moves the version forward.                  *)
LEMMA BumpMoves ==
    ASSUME TypeOK, NEW k \in Nat, Bump(k)
    PROVE  IF k = 0 THEN orgVersion' = orgVersion ELSE orgVersion' > orgVersion
BY BoundAssumption DEF TypeOK, Bump

(* An empty count is the count of no rows.                                 *)
LEMMA NoRowsCounted ==
    /\ \A S \in SUBSET Name : Cardinality(S) = 0 => S = {}
    /\ \A S \in SUBSET Caller : Cardinality(S) = 0 => S = {}
BY ServerAssumption, CallerAssumption, FS_Subset, FS_EmptySet

(* Every change made through the API is such a step.                       *)
LEMMA AdminIsTablesStep ==
    ASSUME TypeOK, Admin
    PROVE  TablesStep
<1>1. ASSUME NEW p \in Policy, NEW b \in Body, NEW on \in BOOLEAN,
             CreatePolicy(p, b, on) \/ UpdatePolicy(p, b, on)
      PROVE  TablesStep
  <2>1. Bump(1) /\ UNCHANGED <<hb, cache>>
    BY <1>1 DEF CreatePolicy, UpdatePolicy
  <2>2. QED
    BY <2>1, BumpMoves DEF TablesStep
<1>2. ASSUME NEW p \in Policy, DeletePolicy(p)
      PROVE  TablesStep
  <2>1. Bump(1) /\ UNCHANGED <<hb, cache>>
    BY <1>2 DEF DeletePolicy
  <2>2. QED
    BY <2>1, BumpMoves DEF TablesStep
<1>3. ASSUME NEW c \in Connection, DeleteConnection(c)
      PROVE  TablesStep
  <2> DEFINE rows == {n \in Name : servers[c][n] # NoRow}
  <2>1. /\ Cardinality(rows) \in Nat
        /\ Bump(Cardinality(rows))
        /\ UNCHANGED <<callers, hb, cache>>
    BY <1>3, NameCount DEF DeleteConnection
  <2>2. CASE Cardinality(rows) = 0
    <3>1. rows = {}
      BY <2>2, NoRowsCounted
    <3>2. \A n \in Name : servers[c][n] = NoRow
      BY <3>1
    <3>3. servers[c] = [n \in Name |-> NoRow]
      BY <3>2 DEF TypeOK, Source
    <3>4. servers' = servers
      BY <1>3, <3>3 DEF DeleteConnection, TypeOK, Source
    <3>5. QED
      BY <2>1, <2>2, <3>4, BumpMoves DEF TablesStep
  <2>3. CASE Cardinality(rows) # 0
    BY <2>1, <2>3, BumpMoves DEF TablesStep
  <2>4. QED
    BY <2>2, <2>3
<1>4. ASSUME NEW c \in Caller, AcknowledgeCaller(c)
      PROVE  TablesStep
  <2>1. CASE callers[c] = "acked"
    <3>1. callers' = callers /\ Bump(0) /\ UNCHANGED <<servers, hb, cache>>
      BY <1>4, <2>1 DEF AcknowledgeCaller, TypeOK
    <3>2. QED
      BY <3>1, BumpMoves DEF TablesStep
  <2>2. CASE callers[c] # "acked"
    <3>1. Bump(1) /\ UNCHANGED <<hb, cache>>
      BY <1>4, <2>2 DEF AcknowledgeCaller
    <3>2. QED
      BY <3>1, BumpMoves DEF TablesStep
  <2>3. QED
    BY <2>1, <2>2
<1>5. ASSUME NEW s \in Shim, NEW n \in Name, NEW on \in BOOLEAN,
             SetCapabilityEnabled(s, n, on)
      PROVE  TablesStep
  BY <1>5 DEF SetCapabilityEnabled, TablesStep
<1>6. QED
  BY <1>1, <1>2, <1>3, <1>4, <1>5 DEF Admin

(* So is every upsert of a server.                                         *)
LEMMA UpsertIsTablesStep ==
    ASSUME TypeOK, NEW src \in Source, NEW n \in Name, NEW moved \in BOOLEAN,
           UpsertServer(src, n, moved)
    PROVE  TablesStep
<1>1. Bump(1) /\ UNCHANGED <<hb, cache>>
  BY DEF UpsertServer
<1>2. QED
  BY <1>1, BumpMoves DEF TablesStep

(* So is every step of a sweep.                                            *)
LEMMA SweepIsTablesStep ==
    ASSUME TypeOK, Sweeps
    PROVE  TablesStep
<1>1. ASSUME NEW c \in Connection, NEW n \in Name, NEW moved \in BOOLEAN,
             DiscoverServer(c, n, moved)
      PROVE  TablesStep
  BY <1>1, UpsertIsTablesStep DEF DiscoverServer, Source
<1>2. ASSUME NEW src \in Source, NEW n \in Name, NEW x \in Exposure,
             SetExposure(src, n, x)
      PROVE  TablesStep
  <2>1. CASE servers[src][n] = x
    <3>1. servers' = servers /\ Bump(0) /\ UNCHANGED <<callers, hb, cache>>
      BY <1>2, <2>1 DEF SetExposure, TypeOK
    <3>2. QED
      BY <3>1, BumpMoves DEF TablesStep
  <2>2. CASE servers[src][n] # x
    <3>1. Bump(1) /\ UNCHANGED <<hb, cache>>
      BY <1>2, <2>2 DEF SetExposure
    <3>2. QED
      BY <3>1, BumpMoves DEF TablesStep
  <2>3. QED
    BY <2>1, <2>2
<1>3. ASSUME NEW cs \in SUBSET Caller, NEW ls \in SUBSET cs,
             CallersSeen(cs, ls)
      PROVE  TablesStep
  <2> DEFINE new == {c \in cs : callers[c] = NoRow}
  <2>1. /\ new \in SUBSET Caller /\ Cardinality(new) \in Nat
        /\ Bump(Cardinality(new))
        /\ callers' = [c \in Caller |-> IF c \notin new THEN callers[c]
                                        ELSE IF c \in ls THEN "flagged" ELSE "overdue"]
        /\ UNCHANGED <<servers, hb, cache>>
    BY <1>3, CallerCount DEF CallersSeen
  <2>2. CASE Cardinality(new) = 0
    <3>1. new = {}
      BY <2>1, <2>2, NoRowsCounted
    <3>2. callers' = callers
      BY <2>1, <3>1 DEF TypeOK
    <3>3. QED
      BY <2>1, <2>2, <3>2, BumpMoves DEF TablesStep
  <2>3. CASE Cardinality(new) # 0
    BY <2>1, <2>3, BumpMoves DEF TablesStep
  <2>4. QED
    BY <2>2, <2>3
<1>4. ASSUME NEW cs \in SUBSET Caller, FlagAgeRollover(cs)
      PROVE  TablesStep
  <2>1. /\ Cardinality(cs) \in Nat
        /\ Bump(Cardinality(cs))
        /\ callers' = [c \in Caller |-> IF c \in cs THEN "aged" ELSE callers[c]]
        /\ UNCHANGED <<servers, hb, cache>>
    BY <1>4, CallerCount DEF FlagAgeRollover
  <2>2. CASE Cardinality(cs) = 0
    <3>1. cs = {}
      BY <2>2, NoRowsCounted
    <3>2. callers' = callers
      BY <2>1, <3>1 DEF TypeOK
    <3>3. QED
      BY <2>1, <2>2, <3>2, BumpMoves DEF TablesStep
  <2>3. CASE Cardinality(cs) # 0
    BY <2>1, <2>3, BumpMoves DEF TablesStep
  <2>4. QED
    BY <2>2, <2>3
<1>5. ASSUME NEW c \in Caller, CallerIdle(c)
      PROVE  TablesStep
  BY <1>5 DEF CallerIdle, TablesStep
<1>6. QED
  BY <1>1, <1>2, <1>3, <1>4, <1>5 DEF Sweeps

(* A step of the database keeps the rows of every request and cache good:  *)
(* it leaves the tables alone or every version behind.                     *)
LEMMA TablesStepInv ==
    ASSUME IInv, TypeOK', TablesInv, TablesStep
    PROVE  TablesInv'
<1>1. CASE UNCHANGED <<orgVersion, servers, callers>>
  BY <1>1 DEF TablesInv, TablesStep, GoodRows, GoodTables
<1>2. CASE orgVersion' > orgVersion
  <2>1. \A s \in Shim : hb[s].ver # orgVersion' /\ cache[s].ver # orgVersion'
    <3>1. /\ orgVersion \in Nat /\ orgVersion' \in Nat
          /\ \A s \in Shim : hb[s].ver \in Nat /\ cache[s].ver \in Nat
      BY BoundAssumption DEF IInv, TypeOK, Request, PolicyCache
    <3>2. QED
      BY <1>2, <3>1 DEF IInv, NeverAhead, InFlight
  <2>2. QED
    BY <2>1 DEF TablesInv, TablesStep, GoodRows, GoodTables
<1>3. QED
  BY <1>1, <1>2 DEF TablesStep

(* A step of shim s that leaves it good rows keeps the invariant.          *)
LEMMA ShimTablesInv ==
    ASSUME IInv, TablesInv, dbUnchanged, NEW s \in Shim, NEW r, NEW c,
           hb' = [hb EXCEPT ![s] = r], GoodRows(r),
           cache' = [cache EXCEPT ![s] = c], GoodTables(c)
    PROVE  TablesInv'
<1>1. UNCHANGED <<orgVersion, servers, callers>>
  BY DEF dbUnchanged, tables
<1>2. \A t \in Shim : /\ hb'[t] = IF t = s THEN r ELSE hb[t]
                      /\ cache'[t] = IF t = s THEN c ELSE cache[t]
  BY DEF IInv, TypeOK
<1>3. QED
  BY <1>1, <1>2 DEF TablesInv, GoodRows, GoodTables

(* The rows that a snapshot read returns are rows of the tables.           *)
LEMMA RowsAreCurrent ==
    /\ \A row \in ServerRows : servers[row[1]][row[2]] = row[3]
    /\ \A rows \in FirstCallers : \A row \in rows : Flags(callers[row[1]]) = row[2]
BY DEF ServerRows, FirstCallers, CallerRows

(* The reads keep the rows of a request good.                              *)
LEMMA ReadTables ==
    ASSUME IInv, TablesInv, NEW s \in Shim,
           \/ SendHeartbeat(s) \/ ListDisabledCapabilities(s) \/ ReadVersion(s)
           \/ ListEnabledForOrg(s) \/ UpToDate(s) \/ EndTick(s)
           \/ ListServersForBundle(s) \/ ListCallersForBundle(s)
    PROVE  TablesInv'
<1>1. /\ dbUnchanged /\ cache' = [cache EXCEPT ![s] = cache[s]]
      /\ GoodTables(cache[s]) /\ GoodRows(hb[s]) /\ hb[s] \in Request
  BY InvIsGood DEF TablesInv, SendHeartbeat, ListDisabledCapabilities,
     ReadVersion, UpToDate, ListEnabledForOrg, EndTick, ListServersForBundle,
     ListCallersForBundle
<1>2. PICK r : hb' = [hb EXCEPT ![s] = r] /\ GoodRows(r)
  <2> USE <1>1 DEF GoodRows, Request
  <2>1. CASE SendHeartbeat(s)
    <3>1. GoodRows([hb[s] EXCEPT !.stage = "sent"])
      BY <2>1 DEF SendHeartbeat
    <3>2. QED
      BY <2>1, <3>1 DEF SendHeartbeat
  <2>2. CASE ListDisabledCapabilities(s)
    <3>1. GoodRows([hb[s] EXCEPT !.stage = "disabled", !.disabled = disabled[s]])
      BY <2>2 DEF ListDisabledCapabilities
    <3>2. QED
      BY <2>2, <3>1 DEF ListDisabledCapabilities, IInv, TypeOK
  <2>3. CASE ReadVersion(s)
    <3>1. GoodRows([hb[s] EXCEPT !.stage = "version", !.ver = orgVersion])
      BY <2>3 DEF ReadVersion
    <3>2. QED
      BY <2>3, <3>1 DEF ReadVersion, IInv, TypeOK
  <2>4. CASE ListEnabledForOrg(s)
    <3>1. GoodRows([hb[s] EXCEPT !.stage = "policies", !.policies = Enabled])
      BY <2>4 DEF ListEnabledForOrg
    <3>2. QED
      BY <2>4, <3>1 DEF ListEnabledForOrg, IInv, TypeOK
  <2>5. CASE UpToDate(s)
    <3>1. GoodRows([hb[s] EXCEPT !.stage = "reply"])
      BY <2>5 DEF UpToDate
    <3>2. QED
      BY <2>5, <3>1 DEF UpToDate
  <2>6. CASE EndTick(s)
    <3>1. GoodRows(NoRequest)
      BY DEF NoRequest
    <3>2. QED
      BY <2>6, <3>1 DEF EndTick
  <2>7. CASE ListServersForBundle(s)
    <3>1. /\ GoodRows([hb[s] EXCEPT !.stage = "servers", !.servers = ServerRows])
          /\ GoodRows([hb[s] EXCEPT !.stage = "servers"])
      BY <2>7, RowsAreCurrent DEF ListServersForBundle
    <3>2. QED
      BY <2>7, <3>1 DEF ListServersForBundle, IInv, TypeOK
  <2>8. CASE ListCallersForBundle(s)
    <3>1. CASE hb' = [hb EXCEPT ![s] = [@ EXCEPT !.stage = "reply"]]
      <4>1. GoodRows([hb[s] EXCEPT !.stage = "reply"])
        BY <2>8 DEF ListCallersForBundle
      <4>2. QED
        BY <3>1, <4>1 DEF IInv, TypeOK
    <3>2. ASSUME NEW rows \in FirstCallers,
                 hb' = [hb EXCEPT ![s] = [@ EXCEPT !.stage = "reply", !.callers = rows]]
          PROVE  \E r : hb' = [hb EXCEPT ![s] = r] /\ GoodRows(r)
      <4>1. GoodRows([hb[s] EXCEPT !.stage = "reply", !.callers = rows])
        BY <2>8, RowsAreCurrent DEF ListCallersForBundle
      <4>2. QED
        BY <3>2, <4>1 DEF IInv, TypeOK
    <3>3. QED
      BY <2>8, <3>1, <3>2 DEF ListCallersForBundle
  <2>9. QED
    BY <2>1, <2>2, <2>3, <2>4, <2>5, <2>6, <2>7, <2>8
<1>3. QED
  BY <1>1, <1>2, ShimTablesInv

(* So does the reply: of several rows with one name, the one that is kept  *)
(* is a row of the bundle.                                                 *)
LEMMA ReplyTables ==
    ASSUME IInv, TablesInv, NEW s \in Shim, ReceiveReply(s)
    PROVE  TablesInv'
<1> DEFINE r == [NoRequest EXCEPT !.stage = "tick", !.disabled = hb[s].disabled]
<1>1. dbUnchanged /\ hb' = [hb EXCEPT ![s] = r]
  BY DEF ReceiveReply
<1>2. GoodRows(r)
  BY DEF GoodRows, NoRequest
<1>3. PICK c : cache' = [cache EXCEPT ![s] = c] /\ GoodTables(c)
  <2>1. CASE ShipsBundle(s) /\ Compiles(hb[s].policies)
    <3>1. PICK f \in ServersByName(hb[s].servers) :
            cache' = [cache EXCEPT ![s] =
                        [ver |-> hb[s].ver, progs |-> hb[s].policies,
                         servers |-> f, callers |-> hb[s].callers]]
      BY <2>1 DEF ReceiveReply, Apply
    <3> DEFINE c == [ver |-> hb[s].ver, progs |-> hb[s].policies,
                     servers |-> f, callers |-> hb[s].callers]
    <3>2. GoodRows(hb[s]) /\ hb[s].servers \in BundleServers
      BY DEF TablesInv, IInv, TypeOK, Request
    <3>3. ASSUME NEW n \in Name, f[n] # NoRow, hb[s].ver = orgVersion
          PROVE  \E src \in Source : servers[src][n] = f[n]
      <4> DEFINE found == {q[3] : q \in {x \in hb[s].servers : x[2] = n}}
      <4>1. f[n] \in (IF found = {} THEN {NoRow} ELSE found)
        BY DEF ServersByName
      <4>2. PICK row \in hb[s].servers : row[2] = n /\ row[3] = f[n]
        BY <3>3, <4>1
      <4>3. servers[row[1]][n] = f[n] /\ row[1] \in Source
        BY <3>2, <3>3, <4>2 DEF GoodRows, BundleServers
      <4>4. QED
        BY <4>3
    <3>4. GoodTables(c)
      BY <3>2, <3>3 DEF GoodTables, GoodRows
    <3>5. QED
      BY <3>1, <3>4
  <2>2. CASE ~(ShipsBundle(s) /\ Compiles(hb[s].policies))
    <3>1. cache' = cache
      BY <2>2 DEF ReceiveReply, Apply
    <3>2. QED
      BY <3>1, InvIsGood DEF TablesInv
  <2>3. QED
    BY <2>1, <2>2
<1>4. QED
  BY <1>1, <1>2, <1>3, ShimTablesInv

(* So does what fails: it leaves nothing in the request or in the cache.   *)
LEMMA FailTables ==
    ASSUME IInv, TablesInv, NEW s \in Shim, HeartbeatFails(s) \/ RestartShim(s)
    PROVE  TablesInv'
<1>1. dbUnchanged /\ hb' = [hb EXCEPT ![s] = NoRequest]
  BY DEF HeartbeatFails, RestartShim
<1>2. GoodRows(NoRequest) /\ GoodTables(EmptyCache) /\ GoodTables(cache[s])
  BY DEF GoodRows, GoodTables, NoRequest, EmptyCache, TablesInv
<1>3. \E c : cache' = [cache EXCEPT ![s] = c] /\ GoodTables(c)
  BY <1>2, InvIsGood DEF HeartbeatFails, RestartShim
<1>4. QED
  BY <1>1, <1>2, <1>3, ShimTablesInv

(* Every step of the database is a step that keeps its promise about the   *)
(* tables, and every other one is a step of a shim.                        *)
LEMMA TablesCases ==
    ASSUME TypeOK, Next
    PROVE  \/ TablesStep
           \/ \E s \in Shim : Heartbeat(s) \/ HeartbeatFails(s) \/ RestartShim(s)
<1>1. ASSUME NEW s \in Shim, NEW n \in Name, NEW moved \in BOOLEAN,
             ObserveServer(s, n, moved)
      PROVE  TablesStep
  BY <1>1, UpsertIsTablesStep DEF ObserveServer, Source
<1>2. QED
  BY <1>1, AdminIsTablesStep, SweepIsTablesStep DEF Next

(* Nothing is cached at first.                                             *)
LEMMA TablesInit == Init => TablesInv
BY DEF Init, TablesInv, GoodRows, GoodTables, NoRequest, EmptyCache

(* Every step preserves the invariant of the tables.                       *)
LEMMA TablesInductive == IInv /\ IInv' /\ TablesInv /\ [Next]_vars => TablesInv'
<1> SUFFICES ASSUME IInv, IInv', TablesInv, [Next]_vars PROVE TablesInv'
  OBVIOUS
<1>1. CASE TablesStep
  BY <1>1, TablesStepInv DEF IInv
<1>2. ASSUME NEW s \in Shim, Heartbeat(s) \/ HeartbeatFails(s) \/ RestartShim(s)
      PROVE  TablesInv'
  BY <1>2, ReadTables, ReplyTables, FailTables DEF Heartbeat
<1>3. CASE UNCHANGED vars
  BY <1>3 DEF vars, TablesInv, GoodRows, GoodTables
<1>4. QED
  BY <1>1, <1>2, <1>3, TablesCases DEF IInv

(* What a shim holds of servers and callers at the org's version is what   *)
(* the tables hold, although they are read after the version, by two more  *)
(* statements, either of which may fail.                                   *)
THEOREM CurrentTables == Spec => []CachedTablesCurrent
<1>1. TablesInv => CachedTablesCurrent
  BY DEF TablesInv, GoodTables, CachedTablesCurrent, CachedExposureCurrent,
         CachedCallersCurrent
<1>2. Spec => []TablesInv
  BY TablesInit, TablesInductive, Invariance, PTL DEF Spec
<1>3. QED
  BY <1>1, <1>2, PTL

-----------------------------------------------------------------------------
(* The flagged callers.  Only here does it matter that no read fails, so   *)
(* the theorem is about MaxFaults = 0; a shim does not restart then either.*)

Flagged == {c \in Caller : FlaggedNew(callers[c])}
InTime  == {c \in Caller : callers[c] = "flagged"}

(* A caller flagged in time has been seen lately, and nobody is flagged    *)
(* before the first bump.                                                  *)
FlaggedSeen ==
    /\ InTime \subseteq recent
    /\ orgVersion = 0 => Flagged = {}

(* Rows that hold every caller flagged in time, if the flagged ones fit.   *)
HoldsFlagged(rows) ==
    Cardinality(Flagged) <= MaxCallers =>
        \A c \in InTime : <<c, "flagged">> \in rows

(* A bundle on its way at the org's version and a cache at that version    *)
(* hold the flagged callers; a reply without a bundle holds nothing.       *)
FlaggedOnTheWay ==
    \A s \in Shim :
        /\ hb[s].stage = "reply" /\ ShipsBundle(s) /\ hb[s].ver = orgVersion
             => HoldsFlagged(hb[s].callers)
        /\ cache[s].ver = orgVersion => HoldsFlagged(cache[s].callers)

FlaggedInv == FlaggedSeen /\ FlaggedOnTheWay

(* The query fills the bundle with flagged callers first: one is left out  *)
(* only for MaxCallers others.                                             *)
LEMMA FirstAreFlagged ==
    ASSUME TypeOK, FlaggedSeen, NEW rows \in FirstCallers
    PROVE  HoldsFlagged(rows)
<1> SUFFICES ASSUME Cardinality(Flagged) <= MaxCallers, NEW c \in InTime,
                    <<c, "flagged">> \notin rows
             PROVE  FALSE
  BY DEF HoldsFlagged
<1>1. <<c, "flagged">> \in CallerRows
  BY CallerAssumption DEF CallerRows, Flags, FlaggedNew, InTime, FlaggedSeen
<1>2. /\ rows \subseteq CallerRows
      /\ Cardinality(rows) = MaxCallers
      /\ \A r \in rows : r[2] = "flagged"
  BY <1>1 DEF FirstCallers
<1>3. \A r \in rows : r[1] \in Flagged \ {c} /\ r = <<r[1], "flagged">>
  BY <1>2 DEF CallerRows, Flagged, InTime, Flags, FlaggedNew, TypeOK
<1> DEFINE f == [r \in rows |-> r[1]]
<1>4. f \in Injection(rows, Flagged \ {c})
  BY <1>3 DEF Injection, IsInjective
<1>5. IsFiniteSet(Flagged) /\ Cardinality(Flagged) \in Nat
  BY CallerAssumption, FS_Subset, FS_CardinalityType DEF Flagged
<1> HIDE DEF f
<1>6. /\ c \in Flagged
      /\ IsFiniteSet(Flagged \ {c})
      /\ Cardinality(Flagged \ {c}) = Cardinality(Flagged) - 1
  BY <1>5, FS_RemoveElement DEF Flagged, InTime, FlaggedNew
<1>7. Cardinality(rows) <= Cardinality(Flagged \ {c})
  BY <1>4, <1>6, FS_Injection
<1>8. QED
  BY <1>2, <1>5, <1>6, <1>7, BoundAssumption

(* Only an insertion flags a caller in time, and it is recent then; no     *)
(* caller goes idle while it is flagged.                                   *)
LEMMA FlaggedStaySeen ==
    ASSUME TypeOK, FlaggedSeen, Next
    PROVE  InTime' \subseteq recent'
<1>1. CASE Admin
  <2>1. ASSUME NEW c \in Caller, AcknowledgeCaller(c)
        PROVE  InTime' \subseteq recent'
    BY <2>1 DEF AcknowledgeCaller, InTime, FlaggedSeen, TypeOK
  <2>2. CASE UNCHANGED <<callers, recent>>
    BY <2>2 DEF InTime, FlaggedSeen
  <2>3. QED
    BY <1>1, <2>1, <2>2
       DEF Admin, CreatePolicy, UpdatePolicy, DeletePolicy, DeleteConnection,
           SetCapabilityEnabled
<1>2. CASE Sweeps
  <2>1. ASSUME NEW cs \in SUBSET Caller, NEW ls \in SUBSET cs,
             CallersSeen(cs, ls)
        PROVE  InTime' \subseteq recent'
    BY <2>1 DEF CallersSeen, InTime, FlaggedSeen
  <2>2. ASSUME NEW cs \in SUBSET Caller, FlagAgeRollover(cs)
        PROVE  InTime' \subseteq recent'
    BY <2>2 DEF FlagAgeRollover, FlaggedNew, InTime, FlaggedSeen
  <2>3. ASSUME NEW c \in Caller, CallerIdle(c)
        PROVE  InTime' \subseteq recent'
    BY <2>3 DEF CallerIdle, FlaggedNew, InTime, FlaggedSeen
  <2>4. CASE UNCHANGED <<callers, recent>>
    BY <2>4 DEF InTime, FlaggedSeen
  <2>5. QED
    BY <1>2, <2>1, <2>2, <2>3, <2>4
       DEF Sweeps, DiscoverServer, UpsertServer, SetExposure
<1>3. ASSUME NEW s \in Shim, Heartbeat(s) \/ HeartbeatFails(s) \/ RestartShim(s)
      PROVE  InTime' \subseteq recent'
  <2>1. dbUnchanged
    BY <1>3, ShimStepShape
  <2>2. QED
    BY <2>1 DEF dbUnchanged, tables, InTime, FlaggedSeen
<1>4. ASSUME NEW s \in Shim, NEW n \in Name, NEW moved \in BOOLEAN,
             ObserveServer(s, n, moved)
      PROVE  InTime' \subseteq recent'
  BY <1>4 DEF ObserveServer, UpsertServer, InTime, FlaggedSeen
<1>5. QED
  BY <1>1, <1>2, <1>3, <1>4 DEF Next

(* A step of the database that flags a caller leaves every version behind. *)
LEMMA TablesStepFlagged ==
    ASSUME IInv, TypeOK', FlaggedInv, TablesStep
    PROVE  FlaggedOnTheWay' /\ (orgVersion' = 0 => Flagged' = {})
<1>1. CASE UNCHANGED <<orgVersion, servers, callers>>
  BY <1>1 DEF FlaggedInv, FlaggedSeen, FlaggedOnTheWay, TablesStep,
              HoldsFlagged, Flagged, InTime, ShipsBundle
<1>2. CASE orgVersion' > orgVersion
  <2>1. /\ orgVersion \in Nat /\ orgVersion' \in Nat
        /\ \A s \in Shim : hb[s].ver \in Nat /\ cache[s].ver \in Nat
    BY BoundAssumption DEF IInv, TypeOK, Request, PolicyCache
  <2>2. \A s \in Shim : hb[s].ver # orgVersion' /\ cache[s].ver # orgVersion'
    BY <1>2, <2>1 DEF IInv, NeverAhead, InFlight
  <2>3. orgVersion' # 0
    BY <1>2, <2>1
  <2>4. QED
    BY <2>2, <2>3 DEF FlaggedOnTheWay, TablesStep
<1>3. QED
  BY <1>1, <1>2 DEF TablesStep

(* What one shim has, and what the invariant asks of it.                   *)
GoodFlags(r, c) ==
    /\ r.stage = "reply" /\ c.ver < r.ver /\ r.ver = orgVersion
         => HoldsFlagged(r.callers)
    /\ c.ver = orgVersion => HoldsFlagged(c.callers)

(* A step of shim s that leaves it good flags keeps the invariant.         *)
LEMMA ShimFlagged ==
    ASSUME IInv, FlaggedInv, dbUnchanged, NEW s \in Shim, NEW r, NEW c,
           hb' = [hb EXCEPT ![s] = r], cache' = [cache EXCEPT ![s] = c],
           GoodFlags(r, c)
    PROVE  FlaggedOnTheWay' /\ (orgVersion' = 0 => Flagged' = {})
<1>1. UNCHANGED <<orgVersion, callers>> /\ Flagged' = Flagged /\ InTime' = InTime
  BY DEF dbUnchanged, tables, Flagged, InTime
<1>2. \A t \in Shim : /\ hb'[t] = IF t = s THEN r ELSE hb[t]
                      /\ cache'[t] = IF t = s THEN c ELSE cache[t]
  BY DEF IInv, TypeOK
<1>3. QED
  BY <1>1, <1>2 DEF FlaggedInv, FlaggedSeen, FlaggedOnTheWay, HoldsFlagged,
                    GoodFlags, ShipsBundle

(* The steps of a heartbeat that does not fail keep the invariant.         *)
LEMMA HeartbeatFlagged ==
    ASSUME MaxFaults = 0, IInv, FlaggedInv, NEW s \in Shim, Heartbeat(s)
    PROVE  FlaggedOnTheWay' /\ (orgVersion' = 0 => Flagged' = {})
<1>1. /\ dbUnchanged
      /\ hb[s] \in Request /\ cache[s] \in PolicyCache
      /\ cache = [cache EXCEPT ![s] = cache[s]]
      /\ orgVersion \in Nat /\ hb[s].ver \in Nat /\ cache[s].ver \in Nat
  BY ShimStepShape, InvIsGood, BoundAssumption DEF IInv, Request, PolicyCache
<1>2. cache[s].ver = orgVersion => HoldsFlagged(cache[s].callers)
  BY DEF FlaggedInv, FlaggedOnTheWay
<1>3. ~Fault
  BY DEF Fault, IInv, TypeOK
<1>4. CASE ListCallersForBundle(s)
  <2>1. PICK rows \in FirstCallers :
          hb' = [hb EXCEPT ![s] = [@ EXCEPT !.stage = "reply", !.callers = rows]]
    BY <1>3, <1>4 DEF ListCallersForBundle
  <2> DEFINE r == [hb[s] EXCEPT !.stage = "reply", !.callers = rows]
  <2>2. hb' = [hb EXCEPT ![s] = r] /\ cache' = [cache EXCEPT ![s] = cache[s]]
    BY <1>1, <1>4, <2>1 DEF ListCallersForBundle, IInv, TypeOK
  <2>3. HoldsFlagged(rows)
    BY FirstAreFlagged DEF IInv, FlaggedInv
  <2>4. GoodFlags(r, cache[s])
    BY <1>1, <1>2, <2>3 DEF GoodFlags, Request
  <2>5. QED
    BY <1>1, <2>2, <2>4, ShimFlagged
<1>5. CASE UpToDate(s)
  <2> DEFINE r == [hb[s] EXCEPT !.stage = "reply"]
  <2>1. hb' = [hb EXCEPT ![s] = r] /\ cache' = [cache EXCEPT ![s] = cache[s]]
    BY <1>1, <1>5 DEF UpToDate
  <2>2. GoodFlags(r, cache[s])
    BY <1>1, <1>2, <1>5 DEF GoodFlags, Request, UpToDate, ShipsBundle
  <2>3. QED
    BY <1>1, <2>1, <2>2, ShimFlagged
<1>6. CASE ReceiveReply(s)
  <2> DEFINE r == [NoRequest EXCEPT !.stage = "tick", !.disabled = hb[s].disabled]
  <2>1. hb' = [hb EXCEPT ![s] = r] /\ r.stage # "reply"
    BY <1>6 DEF ReceiveReply, NoRequest
  <2>2. CASE ShipsBundle(s) /\ Compiles(hb[s].policies)
    <3>1. PICK f : cache' = [cache EXCEPT ![s] =
                     [ver |-> hb[s].ver, progs |-> hb[s].policies,
                      servers |-> f, callers |-> hb[s].callers]]
      BY <1>6, <2>2 DEF ReceiveReply, Apply
    <3> DEFINE c == [ver |-> hb[s].ver, progs |-> hb[s].policies,
                     servers |-> f, callers |-> hb[s].callers]
    <3>2. hb[s].ver = orgVersion => HoldsFlagged(hb[s].callers)
      BY <1>6, <2>2 DEF ReceiveReply, FlaggedInv, FlaggedOnTheWay
    <3>3. GoodFlags(r, c)
      BY <2>1, <3>2 DEF GoodFlags
    <3>4. QED
      BY <1>1, <2>1, <3>1, <3>3, ShimFlagged
  <2>3. CASE ~(ShipsBundle(s) /\ Compiles(hb[s].policies))
    <3>1. cache' = [cache EXCEPT ![s] = cache[s]]
      BY <1>1, <1>6, <2>3 DEF ReceiveReply, Apply
    <3>2. GoodFlags(r, cache[s])
      BY <1>2, <2>1 DEF GoodFlags
    <3>3. QED
      BY <1>1, <2>1, <3>1, <3>2, ShimFlagged
  <2>4. QED
    BY <2>2, <2>3
<1>7. ASSUME NEW r, hb' = [hb EXCEPT ![s] = r], cache' = cache, r.stage # "reply"
      PROVE  FlaggedOnTheWay' /\ (orgVersion' = 0 => Flagged' = {})
  <2>1. GoodFlags(r, cache[s])
    BY <1>2, <1>7 DEF GoodFlags
  <2>2. QED
    BY <1>1, <1>7, <2>1, ShimFlagged
<1>8. CASE SendHeartbeat(s) \/ EndTick(s)
  <2>1. [hb[s] EXCEPT !.stage = "sent"].stage # "reply" /\ NoRequest.stage # "reply"
    BY <1>1 DEF Request, NoRequest
  <2>2. QED
    BY <1>7, <1>8, <2>1 DEF SendHeartbeat, EndTick
<1>9. CASE ListDisabledCapabilities(s) \/ ReadVersion(s) \/ ListEnabledForOrg(s)
           \/ ListServersForBundle(s)
  <2>1. PICK r \in Request : hb' = [hb EXCEPT ![s] = r] /\ r.stage # "reply"
    <3>1. CASE ListDisabledCapabilities(s)
      <4>1. [hb[s] EXCEPT !.stage = "disabled", !.disabled = disabled[s]] \in Request
        BY <1>1 DEF IInv, TypeOK, Request, Stage
      <4>2. QED
        BY <1>1, <3>1, <4>1 DEF ListDisabledCapabilities, Request, IInv, TypeOK
    <3>2. CASE ReadVersion(s)
      <4>1. [hb[s] EXCEPT !.stage = "version", !.ver = orgVersion] \in Request
        BY <1>1 DEF IInv, TypeOK, Request, Stage
      <4>2. QED
        BY <1>1, <3>2, <4>1 DEF ReadVersion, Request, IInv, TypeOK
    <3>3. CASE ListEnabledForOrg(s)
      <4>1. [hb[s] EXCEPT !.stage = "policies", !.policies = Enabled] \in Request
        BY <1>1, EnabledType DEF IInv, Request, Stage
      <4>2. QED
        BY <1>1, <3>3, <4>1 DEF ListEnabledForOrg, Request, IInv, TypeOK
    <3>4. CASE ListServersForBundle(s)
      <4>1. [hb[s] EXCEPT !.stage = "servers", !.servers = ServerRows] \in Request
        BY <1>1, RowTypes DEF Request, Stage
      <4>2. QED
        BY <1>1, <1>3, <3>4, <4>1 DEF ListServersForBundle, Request, IInv, TypeOK
    <3>5. QED
      BY <1>9, <3>1, <3>2, <3>3, <3>4
  <2>2. cache' = cache
    BY <1>9 DEF ListDisabledCapabilities, ReadVersion, ListEnabledForOrg,
                ListServersForBundle
  <2>3. QED
    BY <1>7, <2>1, <2>2
<1>10. QED
  BY <1>4, <1>5, <1>6, <1>8, <1>9 DEF Heartbeat

(* Nobody is flagged at first.                                             *)
LEMMA FlaggedInit == Init => FlaggedInv
<1> SUFFICES ASSUME Init PROVE FlaggedInv
  OBVIOUS
<1>1. Flagged = {} /\ InTime = {}
  BY CallerAssumption DEF Init, Flagged, InTime, FlaggedNew
<1>2. QED
  BY <1>1
     DEF Init, FlaggedInv, FlaggedSeen, FlaggedOnTheWay, HoldsFlagged, NoRequest

(* Every step preserves the invariant of the flagged callers.              *)
LEMMA FlaggedInductive ==
    ASSUME MaxFaults = 0
    PROVE  IInv /\ IInv' /\ FlaggedInv /\ [Next]_vars => FlaggedInv'
<1> SUFFICES ASSUME IInv, IInv', FlaggedInv, [Next]_vars PROVE FlaggedInv'
  OBVIOUS
<1>1. CASE UNCHANGED vars
  BY <1>1 DEF vars, FlaggedInv, FlaggedSeen, FlaggedOnTheWay, HoldsFlagged,
              Flagged, InTime, ShipsBundle
<1>2. CASE Next
  <2>1. InTime' \subseteq recent'
    BY <1>2, FlaggedStaySeen DEF IInv, FlaggedInv
  <2>2. CASE TablesStep
    BY <2>1, <2>2, TablesStepFlagged DEF IInv, FlaggedInv, FlaggedSeen
  <2>3. ASSUME NEW s \in Shim, Heartbeat(s)
        PROVE  FlaggedInv'
    BY <2>1, <2>3, HeartbeatFlagged DEF FlaggedInv, FlaggedSeen
  <2>4. \A s \in Shim : ~HeartbeatFails(s) /\ ~RestartShim(s)
    BY DEF HeartbeatFails, RestartShim, Fault, IInv, TypeOK
  <2>5. QED
    BY <1>2, <2>2, <2>3, <2>4, TablesCases DEF IInv
<1>3. QED
  BY <1>1, <1>2

(* As long as no read fails, a shim at the org's version knows all callers *)
(* flagged in time if the flagged ones fit the cap of a bundle, whatever   *)
(* else competes for it.                                                   *)
THEOREM FlaggedDelivered ==
    ASSUME MaxFaults = 0
    PROVE  Spec => []FlaggedCallersDelivered
<1>1. FlaggedInv => FlaggedCallersDelivered
  BY DEF FlaggedInv, FlaggedOnTheWay, HoldsFlagged, Flagged, InTime,
         FlaggedCallersDelivered
<1>2. IInv /\ IInv' /\ FlaggedInv /\ [Next]_vars => FlaggedInv'
  BY FlaggedInductive
<1>3. QED
  BY <1>1, <1>2, FlaggedInit, Invariance, PTL DEF Spec

=============================================================================
