---------------------------- MODULE PolicySweep ----------------------------
(***************************************************************************)
(* How the control plane evaluates the invocations that no shim has        *)
(* evaluated: the policy sweep and the backfills, for one org.             *)
(*                                                                         *)
(* A row of mcp_invocations carries the time its shim gives it and may     *)
(* come with the shim's own decisions.  A tick of the sweep reads the      *)
(* policies, then the watermark, then a batch of rows above the watermark  *)
(* that have no decision; it records the matches in one insert and then    *)
(* advances the watermark.  Each of these is a statement of its own: any   *)
(* row may change, and the process may stop, between two of them.          *)
(* Creating a policy, or changing the expression of an enabled one, starts *)
(* a backfill, which evaluates that policy alone on the newest rows.       *)
(*                                                                         *)
(* A Body is an expression, taken as the set of the invocations it matches *)
(* (and the action that goes with it).  Sweeper is the replicas whose      *)
(* ticks may overlap, Fill the backfills that may run at the same time.    *)
(* BatchSize, FillSize and MaxRows are the limits of the code: the         *)
(* invocations of one sweep, those of one backfill, and the rows that the  *)
(* parameters of one insert suffice for.  The window of a backfill (24     *)
(* hours) is longer than any behaviour.  MaxChanges and MaxFaults bound    *)
(* the edits of policies and the statements that fail.                     *)
(***************************************************************************)
EXTENDS Integers, FiniteSets

CONSTANTS
    Invocation, MaxTime, Policy, Body, Sweeper, Fill,
    BatchSize, FillSize, MaxRows, MaxChanges, MaxFaults

ASSUME SizeAssumption ==
    /\ MaxTime \in Nat /\ MaxChanges \in Nat /\ MaxFaults \in Nat
    /\ BatchSize \in Nat \ {0} /\ FillSize \in Nat /\ MaxRows \in Nat
ASSUME BodyAssumption == Body \subseteq SUBSET Invocation
ASSUME InvocationAssumption == IsFiniteSet(Invocation)

VARIABLES
    policies,   \* the policies table; ids are never used again
    at,         \* mcp_invocations.at, 0 while there is no row
    shipped,    \* history: the rows that came with decisions of their shim
    decisions,  \* mcp_invocation_decisions: all rows there are have matched
    watermark,  \* policy_sweep_state.watermark
    sweeps,     \* the tick of each sweeper
    fills,      \* the backfills
    excused,    \* history: the pairs a sweep is not responsible for
    changes, faults

vars == <<policies, at, shipped, decisions, watermark, sweeps, fills, excused,
          changes, faults>>

PolicyRow == [state: {"unborn", "enabled", "disabled", "deleted"},
              body: Body \cup {{}}]
SweepState == [stage: {"idle", "policies", "watermark", "listed", "recorded"},
               progs: SUBSET (Policy \X (Body \cup {{}})), water: 0..MaxTime,
               batch: SUBSET Invocation, maxAt: 0..MaxTime]
FillState == [stage: {"idle", "started", "listed"},
              prog: SUBSET (Policy \X Body), batch: SUBSET Invocation]

NoSweep == [stage |-> "idle", progs |-> {}, water |-> 0, batch |-> {}, maxAt |-> 0]
NoFill == [stage |-> "idle", prog |-> {}, batch |-> {}]

(* The types of the rows, of the sweeps and of the backfills under way.    *)
TypeOK ==
    /\ policies \in [Policy -> PolicyRow]
    /\ at \in [Invocation -> 0..MaxTime]
    /\ shipped \subseteq Invocation
    /\ decisions \subseteq Invocation \X Policy
    /\ watermark \in 0..MaxTime
    /\ sweeps \in [Sweeper -> SweepState]
    /\ fills \in [Fill -> FillState]
    /\ excused \subseteq Invocation \X Policy
    /\ changes \in 0..MaxChanges
    /\ faults \in 0..MaxFaults

Init ==
    /\ policies = [p \in Policy |-> [state |-> "unborn", body |-> {}]]
    /\ at = [i \in Invocation |-> 0]
    /\ shipped = {}
    /\ decisions = {}
    /\ watermark = 0
    /\ sweeps = [s \in Sweeper |-> NoSweep]
    /\ fills = [f \in Fill |-> NoFill]
    /\ excused = {}
    /\ changes = 0
    /\ faults = 0

Stored(i) == at[i] # 0
Live(p) == policies[p].state \in {"enabled", "disabled"}
Enabled(p) == policies[p].state = "enabled"
Decided(i) == \E p \in Policy : <<i, p>> \in decisions
Matches(progs, i) == {p \in Policy : \E b \in Body : <<p, b>> \in progs /\ i \in b}

\* A sweep has read, or is about to have passed, the rows up to t.
Covered(t) == t <= watermark \/ \E s \in Sweeper : t <= sweeps[s].maxAt

Fault ==
    /\ faults < MaxFaults
    /\ faults' = faults + 1

-----------------------------------------------------------------------------
(* The policy API.                                                         *)

Edit ==
    /\ changes < MaxChanges
    /\ changes' = changes + 1

\* One goroutine per request that needs a backfill.
StartFill(p, b) ==
    \E f \in Fill :
        /\ fills[f].stage = "idle"
        /\ fills' = [fills EXCEPT ![f] = [stage |-> "started",
                                          prog |-> {<<p, b>>}, batch |-> {}]]

\* The rows a sweep has passed are not the business of a policy that comes
\* (or comes back, or changes) after it: its backfill, if any, sees to them.
Excuse(p) ==
    excused' = excused \cup {i \in Invocation : Stored(i) /\ Covered(at[i])} \X {p}

CreatePolicy(p, b, on) ==
    /\ Edit
    /\ policies[p].state = "unborn"
    /\ policies' = [policies EXCEPT ![p] =
         [state |-> IF on THEN "enabled" ELSE "disabled", body |-> b]]
    /\ Excuse(p)
    /\ IF on THEN StartFill(p, b) ELSE UNCHANGED fills
    /\ UNCHANGED <<at, shipped, decisions, watermark, sweeps, faults>>

\* Enabling a policy again starts no backfill.
UpdatePolicy(p, b, on) ==
    /\ Edit
    /\ Live(p)
    /\ policies' = [policies EXCEPT ![p] =
         [state |-> IF on THEN "enabled" ELSE "disabled", body |-> b]]
    /\ IF on /\ Enabled(p) /\ b = policies[p].body
       THEN UNCHANGED excused ELSE Excuse(p)
    /\ IF on /\ b # policies[p].body THEN StartFill(p, b) ELSE UNCHANGED fills
    /\ UNCHANGED <<at, shipped, decisions, watermark, sweeps, faults>>

\* The policy's decisions go with it.
DeletePolicy(p) ==
    /\ Edit
    /\ Live(p)
    /\ policies' = [policies EXCEPT ![p].state = "deleted"]
    /\ decisions' = {d \in decisions : d[2] # p}
    /\ UNCHANGED <<at, shipped, watermark, sweeps, fills, excused, faults>>

-----------------------------------------------------------------------------
(* Observations.                                                           *)

\* InsertInvocation: the row and the decisions of the shim, in one
\* transaction, at the time the shim's clock showed, which the sweep may have
\* passed already.  A shim that still knows a deleted policy gets an error
\* (the foreign key) and the row is lost: no step.
InsertInvocation(i, t, ps) ==
    /\ ~Stored(i)
    /\ \A p \in ps : Live(p) /\ \E b \in Body : i \in b
    /\ at' = [at EXCEPT ![i] = t]
    /\ shipped' = IF ps = {} THEN shipped ELSE shipped \cup {i}
    /\ decisions' = decisions \cup {i} \X ps
    /\ excused' = IF Covered(t) THEN excused \cup {i} \X Policy ELSE excused
    /\ UNCHANGED <<policies, watermark, sweeps, fills, changes, faults>>

-----------------------------------------------------------------------------
(* A tick of the sweep: sweepOrg.                                          *)

EnabledPolicies == {<<p, policies[p].body>> : p \in {q \in Policy : Enabled(q)}}

\* A tick whose org has no enabled policy ends here.
ListPolicies(s) ==
    /\ sweeps[s].stage = "idle"
    /\ \E p \in Policy : Enabled(p)
    /\ sweeps' = [sweeps EXCEPT ![s] =
         [@ EXCEPT !.stage = "policies", !.progs = EnabledPolicies]]
    /\ UNCHANGED <<policies, at, shipped, decisions, watermark, fills, excused,
                   changes, faults>>

SweepWatermark(s) ==
    /\ sweeps[s].stage = "policies"
    /\ sweeps' = [sweeps EXCEPT ![s] =
         [@ EXCEPT !.stage = "watermark", !.water = watermark]]
    /\ UNCHANGED <<policies, at, shipped, decisions, watermark, fills, excused,
                   changes, faults>>

\* where at > watermark and there is no decision
Due(s) == {i \in Invocation : at[i] > sweeps[s].water /\ ~Decided(i)}

\* Mutant: the query has no order.
AnyRows(rows) ==
    {first \in SUBSET rows :
       /\ Cardinality(first) <= BatchSize
       /\ first = rows \/ Cardinality(first) = BatchSize}

\* order by at asc limit BatchSize: of rows with the same time, any may come
\* first.
FirstRows(rows) ==
    {first \in SUBSET rows :
       /\ Cardinality(first) <= BatchSize
       /\ first = rows \/ Cardinality(first) = BatchSize
       /\ \A i \in first, j \in rows \ first : at[i] <= at[j]}

LastTime(rows, t) == t \in {at[i] : i \in rows} /\ \A i \in rows : at[i] <= t

\* What the sweep will pass without evaluating: the rows that have decisions
\* already (taken as evaluated by their shim), those of the last time of the
\* batch that the limit cuts off, and every row for the policies that changed
\* since they were read.
Skips(batch, progs, t) ==
    {d \in Invocation \X Policy :
       /\ Stored(d[1]) /\ at[d[1]] <= t
       /\ \/ Decided(d[1])
          \/ d[1] \notin batch /\ at[d[1]] = t
          \/ <<d[2], policies[d[2]].body>> \notin progs}

ListInvocationsForSweep(s) ==
    /\ sweeps[s].stage = "watermark"
    /\ \E batch \in FirstRows(Due(s)) :
         IF batch = {}
         THEN /\ sweeps' = [sweeps EXCEPT ![s] = NoSweep]
              /\ UNCHANGED excused
         ELSE \E t \in 1..MaxTime :
                /\ LastTime(batch, t)
                /\ sweeps' = [sweeps EXCEPT ![s] =
                     [@ EXCEPT !.stage = "listed", !.batch = batch, !.maxAt = t]]
                /\ excused' = excused \cup Skips(batch, sweeps[s].progs, t)
    /\ UNCHANGED <<policies, at, shipped, decisions, watermark, fills, changes,
                   faults>>

Verdicts(batch, progs) == {d \in batch \X Policy : d[2] \in Matches(progs, d[1])}

\* One insert: all rows or, if one names a deleted policy or there are more
\* than an insert can hold, none.  An error ends the tick.
RecordDecisions(s) ==
    LET rows == Verdicts(sweeps[s].batch, sweeps[s].progs) IN
    /\ sweeps[s].stage = "listed"
    /\ IF Cardinality(rows) <= MaxRows /\ \A d \in rows : Live(d[2])
       THEN /\ decisions' = decisions \cup rows
            /\ sweeps' = [sweeps EXCEPT ![s].stage = "recorded"]
       ELSE /\ sweeps' = [sweeps EXCEPT ![s] = NoSweep]
            /\ UNCHANGED decisions
    /\ UNCHANGED <<policies, at, shipped, watermark, fills, excused, changes,
                   faults>>

\* Mutant: one past the last row.
SetSweepWatermarkPast(s) ==
    /\ sweeps[s].stage = "recorded"
    /\ watermark' = IF sweeps[s].maxAt + 1 > watermark
                    THEN sweeps[s].maxAt + 1 ELSE watermark
    /\ sweeps' = [sweeps EXCEPT ![s] = NoSweep]
    /\ UNCHANGED <<policies, at, shipped, decisions, fills, excused, changes,
                   faults>>

\* Mutant: a batch without a match does not move the watermark.
SetSweepWatermarkIfMatched(s) ==
    /\ sweeps[s].stage = "recorded"
    /\ watermark' = IF /\ sweeps[s].maxAt > watermark
                       /\ Verdicts(sweeps[s].batch, sweeps[s].progs) # {}
                    THEN sweeps[s].maxAt ELSE watermark
    /\ sweeps' = [sweeps EXCEPT ![s] = NoSweep]
    /\ UNCHANGED <<policies, at, shipped, decisions, fills, excused, changes,
                   faults>>

\* Never backwards: another sweeper may have advanced it further.
SetSweepWatermark(s) ==
    /\ sweeps[s].stage = "recorded"
    /\ watermark' = IF sweeps[s].maxAt > watermark THEN sweeps[s].maxAt
                                                   ELSE watermark
    /\ sweeps' = [sweeps EXCEPT ![s] = NoSweep]
    /\ UNCHANGED <<policies, at, shipped, decisions, fills, excused, changes,
                   faults>>

\* A statement fails or the replica stops.
SweepFails(s) ==
    /\ sweeps[s].stage # "idle"
    /\ Fault
    /\ sweeps' = [sweeps EXCEPT ![s] = NoSweep]
    /\ UNCHANGED <<policies, at, shipped, decisions, watermark, fills, excused,
                   changes>>

-----------------------------------------------------------------------------
(* A backfill: BackfillPolicy.                                             *)

\* order by at desc limit FillSize
LastRows(rows) ==
    {last \in SUBSET rows :
       /\ Cardinality(last) <= FillSize
       /\ last = rows \/ Cardinality(last) = FillSize
       /\ \A i \in last, j \in rows \ last : at[i] >= at[j]}

ListInvocationsInWindow(f) ==
    /\ fills[f].stage = "started"
    /\ \E batch \in LastRows({i \in Invocation : Stored(i)}) :
         fills' = [fills EXCEPT ![f] =
           [@ EXCEPT !.stage = "listed", !.batch = batch]]
    /\ UNCHANGED <<policies, at, shipped, decisions, watermark, sweeps, excused,
                   changes, faults>>

RecordBackfill(f) ==
    LET rows == Verdicts(fills[f].batch, fills[f].prog) IN
    /\ fills[f].stage = "listed"
    /\ IF Cardinality(rows) <= MaxRows /\ \A d \in rows : Live(d[2])
       THEN decisions' = decisions \cup rows
       ELSE UNCHANGED decisions
    /\ fills' = [fills EXCEPT ![f] = NoFill]
    /\ UNCHANGED <<policies, at, shipped, watermark, sweeps, excused, changes,
                   faults>>

\* Errors are logged, and nobody starts a backfill again.
BackfillFails(f) ==
    /\ fills[f].stage # "idle"
    /\ Fault
    /\ fills' = [fills EXCEPT ![f] = NoFill]
    /\ UNCHANGED <<policies, at, shipped, decisions, watermark, sweeps, excused,
                   changes>>

-----------------------------------------------------------------------------
PolicyApi ==
    \/ \E p \in Policy, b \in Body, on \in BOOLEAN :
         CreatePolicy(p, b, on) \/ UpdatePolicy(p, b, on)
    \/ \E p \in Policy : DeletePolicy(p)

Observations ==
    \E i \in Invocation, t \in 1..MaxTime, ps \in SUBSET Policy :
        InsertInvocation(i, t, ps)

SweepOrg(s) ==
    \/ ListPolicies(s)
    \/ SweepWatermark(s)
    \/ ListInvocationsForSweep(s)
    \/ RecordDecisions(s)
    \/ SetSweepWatermark(s)

BackfillPolicy(f) == ListInvocationsInWindow(f) \/ RecordBackfill(f)

Next ==
    \/ PolicyApi
    \/ Observations
    \/ \E s \in Sweeper : SweepOrg(s) \/ SweepFails(s)
    \/ \E f \in Fill : BackfillPolicy(f) \/ BackfillFails(f)

Spec == Init /\ [][Next]_vars

(* Every tick runs to its end unless it fails, the ticker (30 seconds)     *)
(* starts the next one, and a backfill runs on its own.                    *)
FairSpec ==
    /\ Spec
    /\ \A s \in Sweeper : WF_vars(SweepOrg(s))
    /\ \A f \in Fill : WF_vars(BackfillPolicy(f))

-----------------------------------------------------------------------------
(* Correctness.                                                            *)

(* A match of an enabled policy with a row at or below the watermark is    *)
(* recorded, or it is one of those that no sweep answers for: the row came *)
(* after a sweep had covered its time, or had a decision when a sweep      *)
(* listed it, or shares the last time of a batch it did not fit in, or the *)
(* policy was enabled or changed after a sweep had read it or covered the  *)
(* row.  Whatever crashes, overlaps or fails, there is no other way to     *)
(* miss one.                                                               *)
MissedOnlyIfExcused ==
    \A i \in Invocation, p \in Policy :
        /\ Stored(i) /\ at[i] <= watermark
        /\ Enabled(p) /\ i \in policies[p].body
        => <<i, p>> \in decisions \cup excused

\* What the sweep is about to record takes more rows than an insert can hold.
Overfull(s) ==
    /\ sweeps[s].stage = "listed"
    /\ Cardinality(Verdicts(sweeps[s].batch, sweeps[s].progs)) > MaxRows

(* While some policy is enabled the sweep gets past every row: none waits  *)
(* above the watermark for ever without a decision, whether its batch has  *)
(* matches or not and whatever else fails, unless batches come again and   *)
(* again whose matches do not fit in one insert.  Such a batch fails at    *)
(* every tick, and no row after it is ever listed.                         *)
SweepGetsPast ==
    (<>[]\E p \in Policy : Enabled(p)) /\ (<>[]\A s \in Sweeper : ~Overfull(s)) =>
        \A i \in Invocation : <>[](Stored(i) => at[i] <= watermark \/ Decided(i))

=============================================================================
