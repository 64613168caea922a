---------------------------- MODULE PolicyBundle ----------------------------
(***************************************************************************)
(* How an org's policies, server exposures and caller flags reach the      *)
(* shims that enforce them.                                                *)
(*                                                                         *)
(* The database keeps the rows and orgs.policy_bundle_version, which row   *)
(* triggers advance in the transaction that changes a row.  A shim holds a *)
(* cache (policyCache) in memory and runs one loop: heartbeat, apply the   *)
(* bundle of the reply if there is one, evaluate invocations, post them.   *)
(* The heartbeat handler makes FIVE separate reads, each its own statement *)
(* outside any transaction; every read is an action here, so any row may   *)
(* change between two of them.                                             *)
(*                                                                         *)
(* One org.  Shim is its gateways, one shim each; Connection its direct    *)
(* connections, which own server rows too.  A policy's expression and      *)
(* action are one Body; ShimCompiles are the bodies the shim's own CEL     *)
(* environment accepts (an older shim image knows fewer variables than the *)
(* control plane).  MaxVersion bounds the changes, MaxFaults the requests  *)
(* that fail, the snapshot reads that fail and the restarts.               *)
(***************************************************************************)
EXTENDS Integers, FiniteSets

CONSTANTS
    Policy, Body, ShimCompiles,
    Shim, Connection, Name, Exposure, Unknown,
    Caller, MaxCallers,
    MaxVersion, MaxFaults,
    NoRow

Source == Shim \cup Connection

ASSUME BodyAssumption == ShimCompiles \subseteq Body /\ NoRow \notin Body
ASSUME ServerAssumption ==
    /\ Unknown \in Exposure
    /\ NoRow \notin Exposure
    /\ IsFiniteSet(Name)
    /\ IsFiniteSet(Source)
    /\ Shim \cap Connection = {}
ASSUME CallerAssumption ==
    IsFiniteSet(Caller) /\ NoRow \notin {"flagged", "overdue", "aged", "acked"}
ASSUME BoundAssumption ==
    MaxCallers \in Nat /\ MaxVersion \in Nat /\ MaxFaults \in Nat

VARIABLES
    orgVersion,     \* orgs.policy_bundle_version
    policies,       \* the policies table
    servers,        \* mcp_servers.exposure_state, by source and name
    callers,        \* org_callers: flagged_new and acknowledged_at
    recent,         \* callers whose last_seen_at is inside bundleCallerWindow
    disabled,       \* mcp_capabilities.enabled = false, by gateway
    hb,             \* the heartbeat each shim has in progress
    cache,          \* each shim's policyCache
    faults          \* faults so far

vars == <<orgVersion, policies, servers, callers, recent, disabled,
          hb, cache, faults>>

tables == <<policies, servers, callers, recent, disabled>>

PolicyRow == [body: Body, enabled: BOOLEAN]

(* flagged_new and acknowledged_at take three combinations: "flagged" is   *)
(* (true, null), "aged" (false, null), "acked" (false, not null).  A caller*)
(* whose first invocation was older than bundleCallerWindow when the sweep *)
(* inserted it is "overdue" in place of "flagged".                         *)
CallerFlags == {"flagged", "aged", "acked"}
CallerRow   == CallerFlags \cup {"overdue"}

FlaggedNew(row) == row \in {"flagged", "overdue"}

\* What a bundle says of a caller.
Flags(row) == IF FlaggedNew(row) THEN "flagged" ELSE row

\* ListEnabledForOrg: the enabled policies, as (id, body) pairs.
Enabled ==
    {<<p, policies[p].body>> :
        p \in {q \in Policy : policies[q] # NoRow /\ policies[q].enabled}}

\* What a bundle of policies, servers and callers holds.
BundlePolicies == SUBSET (Policy \X Body)
BundleServers  == SUBSET (Source \X Name \X Exposure)
BundleCallers  == SUBSET (Caller \X CallerFlags)

NoRequest == [stage |-> "idle", disabled |-> {}, ver |-> 0,
              policies |-> {}, servers |-> {}, callers |-> {}]
\* Mutant: "never fetched" is -1.
CacheNeverFetched == [ver |-> -1, progs |-> {},
                      servers |-> [n \in Name |-> NoRow], callers |-> {}]
EmptyCache == [ver |-> 0, progs |-> {},
               servers |-> [n \in Name |-> NoRow], callers |-> {}]

Stage == {"idle", "sent", "disabled", "version", "policies", "servers",
          "reply", "tick"}

\* A heartbeat in progress and a policyCache.
Request == [stage: Stage, disabled: SUBSET Name, ver: 0..MaxVersion,
            policies: BundlePolicies, servers: BundleServers,
            callers: BundleCallers]
PolicyCache == [ver: 0..MaxVersion, progs: BundlePolicies,
                servers: [Name -> Exposure \cup {NoRow}],
                callers: BundleCallers]

(* The types of the rows, of the heartbeats under way and of the caches.   *)
TypeOK ==
    /\ orgVersion \in 0..MaxVersion
    /\ policies \in [Policy -> PolicyRow \cup {NoRow}]
    /\ servers \in [Source -> [Name -> Exposure \cup {NoRow}]]
    /\ callers \in [Caller -> CallerRow \cup {NoRow}]
    /\ recent \subseteq Caller
    /\ disabled \in [Shim -> SUBSET Name]
    /\ hb \in [Shim -> Request]
    /\ cache \in [Shim -> PolicyCache]
    /\ faults \in 0..MaxFaults

Init ==
    /\ orgVersion = 0
    /\ policies = [p \in Policy |-> NoRow]
    /\ servers = [src \in Source |-> [n \in Name |-> NoRow]]
    /\ callers = [c \in Caller |-> NoRow]
    /\ recent = {}
    /\ disabled = [s \in Shim |-> {}]
    /\ hb = [s \in Shim |-> NoRequest]
    /\ cache = [s \in Shim |-> EmptyCache]
    /\ faults = 0

\* The triggers run once per row, in the transaction that changes the rows.
Bump(k) ==
    /\ orgVersion + k <= MaxVersion
    /\ orgVersion' = orgVersion + k

Fault ==
    /\ faults < MaxFaults
    /\ faults' = faults + 1

-----------------------------------------------------------------------------
(* The policy API.  Every insert, update and delete advances the version,  *)
(* an update that changes nothing included.                                *)

CreatePolicy(p, b, on) ==
    /\ policies[p] = NoRow
    /\ policies' = [policies EXCEPT ![p] = [body |-> b, enabled |-> on]]
    /\ Bump(1)
    /\ UNCHANGED <<servers, callers, recent, disabled, hb, cache, faults>>

UpdatePolicy(p, b, on) ==
    /\ policies[p] # NoRow
    /\ policies' = [policies EXCEPT ![p] = [body |-> b, enabled |-> on]]
    /\ Bump(1)
    /\ UNCHANGED <<servers, callers, recent, disabled, hb, cache, faults>>

DeletePolicy(p) ==
    /\ policies[p] # NoRow
    /\ policies' = [policies EXCEPT ![p] = NoRow]
    /\ Bump(1)
    /\ UNCHANGED <<servers, callers, recent, disabled, hb, cache, faults>>

(* Server rows.  The trigger looks at exposure_state, name and address.    *)

\* Both upserts of a server row.  A new row is 'unknown'; a row that exists
\* keeps its exposure_state and, moved, takes another address.
UpsertServer(src, n, moved) ==
    /\ servers[src][n] # NoRow => moved
    /\ servers' = IF servers[src][n] = NoRow
                  THEN [servers EXCEPT ![src][n] = Unknown]
                  ELSE servers
    /\ Bump(1)
    /\ UNCHANGED <<policies, callers, recent, disabled, hb, cache, faults>>

\* The discovery scheduler, for a direct connection.
DiscoverServer(c, n, moved) == UpsertServer(c, n, moved)

\* The observations a shim posts during its tick.
ObserveServer(s, n, moved) == hb[s].stage = "tick" /\ UpsertServer(s, n, moved)

\* Mutant: the trigger forgets exposure_state.
SetExposureSilently(src, n, x) ==
    /\ servers[src][n] # NoRow
    /\ servers' = [servers EXCEPT ![src][n] = x]
    /\ UNCHANGED <<orgVersion, policies, callers, recent, disabled, hb, cache,
                   faults>>

SetExposure(src, n, x) ==
    /\ servers[src][n] # NoRow
    /\ servers' = [servers EXCEPT ![src][n] = x]
    /\ Bump(IF servers[src][n] = x THEN 0 ELSE 1)
    /\ UNCHANGED <<policies, callers, recent, disabled, hb, cache, faults>>

\* Deleting a connection deletes its server rows; the trigger runs for each.
DeleteConnection(c) ==
    /\ servers' = [servers EXCEPT ![c] = [n \in Name |-> NoRow]]
    /\ Bump(Cardinality({n \in Name : servers[c][n] # NoRow}))
    /\ UNCHANGED <<policies, callers, recent, disabled, hb, cache, faults>>

(* Caller rows.  The trigger looks at inserts, flagged_new and             *)
(* acknowledged_at, not at last_seen_at or label.                          *)

\* One transaction of MarkSeenBatch.  last_seen_at is the greatest time of the
\* caller's invocations: inside bundleCallerWindow for those seen lately, while
\* an invocation that is older, of a first sweep, leaves it what it was.
CallersSeen(seen, lately) ==
    LET new == {c \in seen : callers[c] = NoRow} IN
    /\ callers' = [c \in Caller |-> IF c \notin new THEN callers[c]
                                    ELSE IF c \in lately THEN "flagged" ELSE "overdue"]
    /\ recent' = recent \cup lately
    /\ Bump(Cardinality(new))
    /\ UNCHANGED <<policies, servers, disabled, hb, cache, faults>>

\* One statement clears flagged_new on every caller that is old enough.
FlagAgeRollover(old) ==
    /\ \A c \in old : FlaggedNew(callers[c])
    /\ callers' = [c \in Caller |-> IF c \in old THEN "aged" ELSE callers[c]]
    /\ Bump(Cardinality(old))
    /\ UNCHANGED <<policies, servers, recent, disabled, hb, cache, faults>>

AcknowledgeCaller(c) ==
    /\ callers[c] # NoRow
    /\ callers' = [callers EXCEPT ![c] = "acked"]
    /\ Bump(IF callers[c] = "acked" THEN 0 ELSE 1)
    /\ UNCHANGED <<policies, servers, recent, disabled, hb, cache, faults>>

\* bundleCallerWindow (30 days) passes without an invocation of c, long after
\* callerFlagAge (7 days) has ended its time as a flagged caller.
CallerIdle(c) ==
    /\ c \in recent
    /\ ~FlaggedNew(callers[c])
    /\ recent' = recent \ {c}
    /\ UNCHANGED <<orgVersion, policies, servers, callers, disabled, hb,
                   cache, faults>>

\* The capability toggle.  It is not part of the bundle: no trigger.
SetCapabilityEnabled(s, n, on) ==
    /\ servers[s][n] # NoRow
    /\ disabled' = [disabled EXCEPT ![s] = IF on THEN @ \ {n} ELSE @ \cup {n}]
    /\ UNCHANGED <<orgVersion, policies, servers, callers, recent, hb, cache,
                   faults>>

-----------------------------------------------------------------------------
(* The heartbeat of shim s.                                                *)

dbUnchanged == UNCHANGED <<orgVersion, tables>>

\* emit calls heartbeat with the cached version.
SendHeartbeat(s) ==
    /\ hb[s].stage = "idle"
    /\ hb' = [hb EXCEPT ![s] = [@ EXCEPT !.stage = "sent"]]
    /\ UNCHANGED <<cache, faults>> /\ dbUnchanged

ListDisabledCapabilities(s) ==
    /\ hb[s].stage = "sent"
    /\ hb' = [hb EXCEPT ![s] =
            [@ EXCEPT !.stage = "disabled", !.disabled = disabled[s]]]
    /\ UNCHANGED <<cache, faults>> /\ dbUnchanged

\* BundleFor, first statement.
ReadVersion(s) ==
    /\ hb[s].stage = "disabled"
    /\ hb' = [hb EXCEPT ![s] = [@ EXCEPT !.stage = "version", !.ver = orgVersion]]
    /\ UNCHANGED <<cache, faults>> /\ dbUnchanged

\* BundleFor, second statement.
ListEnabledForOrg(s) ==
    /\ hb[s].stage = "version"
    /\ hb' = [hb EXCEPT ![s] =
            [@ EXCEPT !.stage = "policies", !.policies = Enabled]]
    /\ UNCHANGED <<cache, faults>> /\ dbUnchanged

\* Mutant: off by one, the handler skips a shim that is one version behind.
ShipsOlderBundle(s) == cache[s].ver + 1 < hb[s].ver

\* The version the shim sent is the version its cache still has.
ShipsBundle(s) == cache[s].ver < hb[s].ver

UpToDate(s) ==
    /\ hb[s].stage = "policies"
    /\ ~ShipsBundle(s)
    /\ hb' = [hb EXCEPT ![s] = [@ EXCEPT !.stage = "reply"]]
    /\ UNCHANGED <<cache, faults>> /\ dbUnchanged

ServerRows ==
    {r \in Source \X Name \X Exposure : servers[r[1]][r[2]] = r[3]}

\* A failing snapshot read is logged and leaves that part of the bundle empty.
ListServersForBundle(s) ==
    /\ hb[s].stage = "policies"
    /\ ShipsBundle(s)
    /\ \/ /\ hb' = [hb EXCEPT ![s] =
            [@ EXCEPT !.stage = "servers", !.servers = ServerRows]]
          /\ UNCHANGED faults
       \/ /\ hb' = [hb EXCEPT ![s] = [@ EXCEPT !.stage = "servers"]]
          /\ Fault
    /\ UNCHANGED cache /\ dbUnchanged

CallerRows == {<<c, Flags(callers[c])>> : c \in {d \in recent : callers[d] # NoRow}}

\* Mutant: the query orders by last_seen_at alone.
LatestCallers ==
    {rows \in SUBSET CallerRows :
       /\ Cardinality(rows) <= MaxCallers
       /\ rows = CallerRows \/ Cardinality(rows) = MaxCallers}

\* order by flagged_new desc, last_seen_at desc limit bundleMaxCallers: which
\* of several equally flagged callers were seen last is left open.
FirstCallers ==
    {rows \in SUBSET CallerRows :
       /\ Cardinality(rows) <= MaxCallers
       /\ rows = CallerRows \/ Cardinality(rows) = MaxCallers
       /\ \A in \in rows, out \in CallerRows \ rows :
            out[2] = "flagged" => in[2] = "flagged"}

ListCallersForBundle(s) ==
    /\ hb[s].stage = "servers"
    /\ \/ /\ \E rows \in FirstCallers :
               hb' = [hb EXCEPT ![s] =
                       [@ EXCEPT !.stage = "reply", !.callers = rows]]
          /\ UNCHANGED faults
       \/ /\ hb' = [hb EXCEPT ![s] = [@ EXCEPT !.stage = "reply"]]
          /\ Fault
    /\ UNCHANGED cache /\ dbUnchanged

\* policyCache.apply keys servers by name alone: of several rows with one
\* name the last of the list stays, in an order the query leaves open.
ServersByName(rows) ==
    {f \in [Name -> Exposure \cup {NoRow}] :
       \A n \in Name :
         LET found == {r[3] : r \in {q \in rows : q[2] = n}} IN
         f[n] \in (IF found = {} THEN {NoRow} ELSE found)}

Compiles(ps) == \A p \in ps : p[2] \in ShimCompiles

\* Mutant: the version is recorded before the policies compile.
ApplyVersionFirst(s) ==
    \E f \in ServersByName(hb[s].servers) :
        cache' = [cache EXCEPT ![s] =
                    IF Compiles(hb[s].policies)
                    THEN [ver |-> hb[s].ver, progs |-> hb[s].policies,
                          servers |-> f, callers |-> hb[s].callers]
                    ELSE [@ EXCEPT !.ver = hb[s].ver]]

\* Mutant: a policy that does not compile is skipped, the others are applied.
ApplyWhatCompiles(s) ==
    \E f \in ServersByName(hb[s].servers) :
        cache' = [cache EXCEPT ![s] =
                    [ver |-> hb[s].ver,
                     progs |-> {p \in hb[s].policies : p[2] \in ShimCompiles},
                     servers |-> f, callers |-> hb[s].callers]]

\* policyCache.apply: all of the bundle or, if one policy does not compile,
\* nothing of it, the version included.
Apply(s) ==
    IF Compiles(hb[s].policies)
    THEN \E f \in ServersByName(hb[s].servers) :
           cache' = [cache EXCEPT ![s] =
                       [ver |-> hb[s].ver, progs |-> hb[s].policies,
                        servers |-> f, callers |-> hb[s].callers]]
    ELSE UNCHANGED cache

\* The reply arrives: the denylist of this tick always, the bundle if any.
ReceiveReply(s) ==
    /\ hb[s].stage = "reply"
    /\ IF ShipsBundle(s) THEN Apply(s) ELSE UNCHANGED cache
    /\ hb' = [hb EXCEPT ![s] = [NoRequest EXCEPT !.stage = "tick",
                                                 !.disabled = hb[s].disabled]]
    /\ UNCHANGED faults /\ dbUnchanged

\* The evaluations and the post of this tick are over, well or not.
EndTick(s) ==
    /\ hb[s].stage = "tick"
    /\ hb' = [hb EXCEPT ![s] = NoRequest]
    /\ UNCHANGED <<cache, faults>> /\ dbUnchanged

\* The request or its reply is lost, or the handler answers with an error:
\* emit returns before it evaluates anything.
HeartbeatFails(s) ==
    /\ hb[s].stage \notin {"idle", "tick"}
    /\ hb' = [hb EXCEPT ![s] = NoRequest]
    /\ Fault
    /\ UNCHANGED cache /\ dbUnchanged

\* The cache lives in the process.
RestartShim(s) ==
    /\ hb' = [hb EXCEPT ![s] = NoRequest]
    /\ cache' = [cache EXCEPT ![s] = EmptyCache]
    /\ Fault
    /\ dbUnchanged

-----------------------------------------------------------------------------
Admin ==
    \/ \E p \in Policy, b \in Body, on \in BOOLEAN :
         CreatePolicy(p, b, on) \/ UpdatePolicy(p, b, on)
    \/ \E p \in Policy : DeletePolicy(p)
    \/ \E c \in Connection : DeleteConnection(c)
    \/ \E c \in Caller : AcknowledgeCaller(c)
    \/ \E s \in Shim, n \in Name, on \in BOOLEAN : SetCapabilityEnabled(s, n, on)

Sweeps ==
    \/ \E c \in Connection, n \in Name, moved \in BOOLEAN :
         DiscoverServer(c, n, moved)
    \/ \E src \in Source, n \in Name, x \in Exposure : SetExposure(src, n, x)
    \/ \E cs \in SUBSET Caller \ {{}} : \/ FlagAgeRollover(cs)
                                        \/ \E lately \in SUBSET cs : CallersSeen(cs, lately)
    \/ \E c \in Caller : CallerIdle(c)

\* What a shim and the handler of its heartbeat do when nothing fails.
Heartbeat(s) ==
    \/ SendHeartbeat(s)
    \/ ListDisabledCapabilities(s)
    \/ ReadVersion(s)
    \/ ListEnabledForOrg(s)
    \/ UpToDate(s)
    \/ ListServersForBundle(s)
    \/ ListCallersForBundle(s)
    \/ ReceiveReply(s)
    \/ EndTick(s)

Next ==
    \/ Admin
    \/ Sweeps
    \/ \E s \in Shim :
         \/ Heartbeat(s)
         \/ \E n \in Name, moved \in BOOLEAN : ObserveServer(s, n, moved)
         \/ HeartbeatFails(s)
         \/ RestartShim(s)

Spec == Init /\ [][Next]_vars

(* The ticker starts a heartbeat every 30 seconds and the handler answers  *)
(* it: weak fairness of each shim's loop.  Nobody owes the org a change.   *)
FairSpec == Spec /\ \A s \in Shim : WF_vars(Heartbeat(s))

-----------------------------------------------------------------------------
(* Correctness.                                                            *)

(* A shim whose cached version is the org's current version enforces       *)
(* exactly the policies that are enabled now, although the handler reads   *)
(* the version and the policies in two statements and a bundle that does   *)
(* not compile is dropped.                                                 *)
CurrentVersionMeansCurrentPolicies ==
    \A s \in Shim : cache[s].ver = orgVersion => cache[s].progs = Enabled

(* A server exposure cached at the current version is the exposure some    *)
(* server of that name has now: reclassification, deletion and insertion   *)
(* all invalidate the cache.                                               *)
CachedExposureCurrent ==
    \A s \in Shim, n \in Name :
        cache[s].ver = orgVersion /\ cache[s].servers[n] # NoRow
          => \E src \in Source : servers[src][n] = cache[s].servers[n]

(* The caller flags cached at the current version are the flags the        *)
(* database has now: acknowledging and ageing invalidate the cache.        *)
CachedCallersCurrent ==
    \A s \in Shim :
        cache[s].ver = orgVersion
          => \A r \in cache[s].callers : Flags(callers[r[1]]) = r[2]

(* What a shim holds of servers and callers at the current version is      *)
(* current: every change of what a bundle ships advances the version, and  *)
(* reading the version first makes up for the three reads after it.        *)
CachedTablesCurrent == CachedExposureCurrent /\ CachedCallersCurrent

(* As long as the flagged callers fit the cap, a shim at the current       *)
(* version knows them all, however many other callers compete for the cap: *)
(* all but those inserted from invocations older than the window, which no *)
(* bump announces when they come back into it.  Holds while no snapshot    *)
(* read fails.                                                             *)
FlaggedCallersDelivered ==
    LET flagged == {c \in Caller : FlaggedNew(callers[c])} IN
    \A s \in Shim :
        cache[s].ver = orgVersion /\ Cardinality(flagged) <= MaxCallers
          => \A c \in Caller :
                callers[c] = "flagged" => <<c, "flagged">> \in cache[s].callers

(* Once the org stops changing, with every enabled policy accepted by the  *)
(* shim's CEL environment, each shim comes to enforce the enabled policies *)
(* for good.                                                               *)
PoliciesConverge ==
    <>[]Compiles(Enabled) =>
        \A s \in Shim : <>[](cache[s].progs = Enabled)

(* A capability that stays disabled is in the denylist of every tick from  *)
(* some tick on, although the toggle does not advance the bundle version   *)
(* and most replies carry no bundle.                                       *)
DenylistConverges ==
    \A s \in Shim, n \in Name :
        <>[](n \in disabled[s]) =>
            <>[](hb[s].stage = "tick" => n \in hb[s].disabled)

(* Whatever fails, a shim comes to enforce the policies and the denylist   *)
(* of an organisation that stops changing.                                 *)
ShimConverges == PoliciesConverge /\ DenylistConverges

(* What the shim enforces is delivered in linearizable rounds: see         *)
(* SnapshotDelivery.  The round takes effect when the version is read, if  *)
(* that shows the shim is up to date, else when the policies are.          *)
deliveryRound(s) ==
    CASE hb[s].stage \in {"idle", "tick"} -> "closed"
      [] hb[s].stage \in {"sent", "disabled"} -> "open"
      [] hb[s].stage = "version" ->
           (IF ShipsBundle(s) THEN "open" ELSE "answered")
      [] OTHER -> "answered"

deliveryAnswer(s) ==
    IF deliveryRound(s) # "answered" THEN {}
    ELSE IF ShipsBundle(s) THEN hb[s].policies ELSE cache[s].progs

Delivery == INSTANCE SnapshotDelivery WITH
    Reader  <- Shim,
    Content <- SUBSET (Policy \X Body),
    Nothing <- {},
    current <- Enabled,
    held    <- [s \in Shim |-> cache[s].progs],
    round   <- [s \in Shim |-> deliveryRound(s)],
    answer  <- [s \in Shim |-> deliveryAnswer(s)]

DeliversSnapshots == Delivery!Spec

=============================================================================
