-------------------------- MODULE PolicySweepProofs --------------------------
(***************************************************************************)
(* Proofs about PolicySweep, for every set of rows, policies, expressions, *)
(* sweepers and backfills and every limit.                                 *)
(* Those about SweepScheduling, which says who sweeps, come at the end.    *)
(*                                                                         *)
(* MissedOnlyIfExcused speaks of the rows below the watermark.  A sweep    *)
(* moves the watermark two statements after it has read a batch, so the    *)
(* inductive invariant says the same of what a sweep under way is about to *)
(* pass (InHand): every match up to the last time of its batch is recorded *)
(* or excused, or it will be recorded because the batch has the row and    *)
(* the programs have the policy as it still is.                            *)
(***************************************************************************)
EXTENDS PolicySweep, SweepScheduling, FiniteSetTheorems, TLAPS

\* Policy p, as it is now, matches row i.
Match(i, p) == Stored(i) /\ Enabled(p) /\ i \in policies[p].body

Answered(i, p) == <<i, p>> \in decisions \cup excused

WillRecord(s, i, p) ==
    /\ sweeps[s].stage = "listed"
    /\ i \in sweeps[s].batch
    /\ <<p, policies[p].body>> \in sweeps[s].progs

ReadsBehind == \A s \in Sweeper : sweeps[s].water <= watermark

InHand ==
    \A s \in Sweeper, i \in Invocation, p \in Policy :
        /\ sweeps[s].stage \in {"listed", "recorded"}
        /\ Match(i, p) /\ at[i] <= sweeps[s].maxAt
        => Answered(i, p) \/ WillRecord(s, i, p)

Passed ==
    \A i \in Invocation, p \in Policy :
        Match(i, p) /\ at[i] <= watermark => Answered(i, p)

IInv == TypeOK /\ ReadsBehind /\ Passed /\ InHand

(* Passed is the property in the words of the proof.                       *)
LEMMA PassedIsProperty == Passed <=> MissedOnlyIfExcused
BY DEF Passed, MissedOnlyIfExcused, Match, Answered

-----------------------------------------------------------------------------
(* Type correctness.                                                       *)

(* The initial state has the types.                                        *)
LEMMA InitTypes ==
    ASSUME Init
    PROVE  TypeOK
BY SizeAssumption DEF Init, TypeOK, PolicyRow, SweepState, FillState, NoSweep, NoFill

(* A backfill that starts is one of its policy.                            *)
LEMMA StartFillTypes ==
    ASSUME TypeOK, NEW p \in Policy, NEW b \in Body, StartFill(p, b)
    PROVE  fills' \in [Fill -> FillState]
<1>1. [stage |-> "started", prog |-> {<<p, b>>}, batch |-> {}] \in FillState
  BY DEF FillState
<1>2. QED
  BY <1>1 DEF TypeOK, StartFill

(* The policy API preserves the types.                                     *)
LEMMA PolicyApiTypes ==
    ASSUME TypeOK, PolicyApi
    PROVE  TypeOK'
<1>1. ASSUME NEW p \in Policy, NEW b \in Body, NEW on \in BOOLEAN,
             CreatePolicy(p, b, on) \/ UpdatePolicy(p, b, on)
      PROVE  TypeOK'
  <2>1. fills' \in [Fill -> FillState]
    BY <1>1, StartFillTypes DEF TypeOK, CreatePolicy, UpdatePolicy
  <2>2. [state |-> IF on THEN "enabled" ELSE "disabled", body |-> b] \in PolicyRow
    BY DEF PolicyRow
  <2>3. policies' \in [Policy -> PolicyRow]
    BY <1>1, <2>2 DEF TypeOK, CreatePolicy, UpdatePolicy
  <2>4. excused' \subseteq Invocation \X Policy
    BY <1>1 DEF TypeOK, CreatePolicy, UpdatePolicy, Excuse
  <2>5. changes' \in 0..MaxChanges
    BY <1>1, SizeAssumption DEF TypeOK, CreatePolicy, UpdatePolicy, Edit
  <2>6. UNCHANGED <<at, shipped, decisions, watermark, sweeps, faults>>
    BY <1>1 DEF CreatePolicy, UpdatePolicy
  <2>7. QED
    BY <2>1, <2>3, <2>4, <2>5, <2>6 DEF TypeOK
<1>2. ASSUME NEW p \in Policy, DeletePolicy(p)
      PROVE  TypeOK'
  <2>1. policies' \in [Policy -> PolicyRow]
    BY <1>2 DEF TypeOK, DeletePolicy, PolicyRow
  <2>2. decisions' \subseteq Invocation \X Policy
    BY <1>2 DEF TypeOK, DeletePolicy
  <2>3. changes' \in 0..MaxChanges
    BY <1>2, SizeAssumption DEF TypeOK, DeletePolicy, Edit
  <2>4. QED
    BY <1>2, <2>1, <2>2, <2>3 DEF TypeOK, DeletePolicy
<1>3. QED
  BY <1>1, <1>2 DEF PolicyApi

(* So do the observations.                                                 *)
LEMMA ObservationsTypes ==
    ASSUME TypeOK, Observations
    PROVE  TypeOK'
<1> SUFFICES ASSUME NEW i \in Invocation, NEW t \in 1..MaxTime,
                    NEW ps \in SUBSET Policy, InsertInvocation(i, t, ps)
             PROVE  TypeOK'
  BY DEF Observations
<1>1. at' \in [Invocation -> 0..MaxTime]
  BY SizeAssumption DEF TypeOK, InsertInvocation
<1>2. shipped' \subseteq Invocation
  BY DEF TypeOK, InsertInvocation
<1>3. decisions' \subseteq Invocation \X Policy /\ excused' \subseteq Invocation \X Policy
  BY DEF TypeOK, InsertInvocation
<1>4. QED
  BY <1>1, <1>2, <1>3 DEF TypeOK, InsertInvocation

(* The matches of a batch are pairs of a row and a policy.                 *)
LEMMA VerdictsType ==
    ASSUME NEW batch \in SUBSET Invocation, NEW progs
    PROVE  Verdicts(batch, progs) \subseteq Invocation \X Policy
BY DEF Verdicts

(* A sweep that has listed a batch is in a state of its type.              *)
LEMMA ListedState ==
    ASSUME NEW old \in SweepState, NEW batch \in SUBSET Invocation,
           NEW t \in 1..MaxTime, NEW new,
           new = [old EXCEPT !.stage = "listed", !.batch = batch, !.maxAt = t]
    PROVE  new \in SweepState
<1>1. t \in 0..MaxTime
  BY SizeAssumption
<1>2. new = [stage |-> "listed", progs |-> old.progs, water |-> old.water,
             batch |-> batch, maxAt |-> t]
  BY DEF SweepState
<1>3. /\ old.progs \in SUBSET (Policy \X (Body \cup {{}}))
      /\ old.water \in 0..MaxTime
  BY DEF SweepState
<1>4. QED
  BY <1>1, <1>2, <1>3 DEF SweepState

(* Every step of a sweep preserves the types.                              *)
LEMMA SweepTypes ==
    ASSUME TypeOK, NEW s \in Sweeper, SweepOrg(s) \/ SweepFails(s)
    PROVE  TypeOK'
<1> USE SizeAssumption
<1>0. NoSweep \in SweepState
  BY DEF NoSweep, SweepState
<1>1. CASE ListPolicies(s)
  <2>1. EnabledPolicies \in SUBSET (Policy \X (Body \cup {{}}))
    BY DEF TypeOK, PolicyRow, EnabledPolicies
  <2>2. [sweeps[s] EXCEPT !.stage = "policies", !.progs = EnabledPolicies] \in SweepState
    BY <2>1 DEF TypeOK, SweepState
  <2>3. QED
    BY <1>1, <2>2 DEF TypeOK, ListPolicies
<1>2. CASE SweepWatermark(s)
  <2>1. [sweeps[s] EXCEPT !.stage = "watermark", !.water = watermark] \in SweepState
    BY DEF TypeOK, SweepState
  <2>2. QED
    BY <1>2, <2>1 DEF TypeOK, SweepWatermark
<1>3. CASE ListInvocationsForSweep(s)
  <2>1. PICK batch \in FirstRows(Due(s)) :
          IF batch = {}
          THEN /\ sweeps' = [sweeps EXCEPT ![s] = NoSweep]
               /\ UNCHANGED excused
          ELSE \E t \in 1..MaxTime :
                 /\ LastTime(batch, t)
                 /\ sweeps' = [sweeps EXCEPT ![s] =
                      [@ EXCEPT !.stage = "listed", !.batch = batch, !.maxAt = t]]
                 /\ excused' = excused \cup Skips(batch, sweeps[s].progs, t)
    BY <1>3 DEF ListInvocationsForSweep
  <2>2. batch \in SUBSET Invocation
    BY DEF FirstRows, Due
  <2>3. sweeps' \in [Sweeper -> SweepState] /\ excused' \subseteq Invocation \X Policy
    <3>1. CASE batch = {}
      BY <2>1, <3>1, <1>0 DEF TypeOK
    <3>2. CASE batch # {}
      <4>1. PICK t \in 1..MaxTime :
              /\ sweeps' = [sweeps EXCEPT ![s] =
                   [@ EXCEPT !.stage = "listed", !.batch = batch, !.maxAt = t]]
              /\ excused' = excused \cup Skips(batch, sweeps[s].progs, t)
        BY <2>1, <3>2
      <4>2. Skips(batch, sweeps[s].progs, t) \subseteq Invocation \X Policy
        BY DEF Skips
      <4>3. [sweeps[s] EXCEPT !.stage = "listed", !.batch = batch, !.maxAt = t]
              \in SweepState
        BY <2>2, ListedState DEF TypeOK
      <4>4. sweeps' \in [Sweeper -> SweepState]
        BY <4>1, <4>3 DEF TypeOK
      <4>5. excused' \subseteq Invocation \X Policy
        BY <4>1, <4>2 DEF TypeOK
      <4>6. QED
        BY <4>4, <4>5
    <3>3. QED
      BY <3>1, <3>2
  <2>4. QED
    BY <1>3, <2>3 DEF TypeOK, ListInvocationsForSweep
<1>4. CASE RecordDecisions(s)
  <2>1. sweeps[s].batch \in SUBSET Invocation
    BY DEF TypeOK, SweepState
  <2>2. Verdicts(sweeps[s].batch, sweeps[s].progs) \subseteq Invocation \X Policy
    BY <2>1, VerdictsType
  <2>3. decisions' \subseteq Invocation \X Policy
    BY <1>4, <2>2 DEF TypeOK, RecordDecisions
  <2>4. sweeps' \in [Sweeper -> SweepState]
    BY <1>4, <1>0 DEF TypeOK, RecordDecisions, SweepState
  <2>5. QED
    BY <1>4, <2>3, <2>4 DEF TypeOK, RecordDecisions
<1>5. CASE SetSweepWatermark(s)
  <2>1. watermark' \in 0..MaxTime
    BY <1>5 DEF TypeOK, SetSweepWatermark, SweepState
  <2>2. QED
    BY <1>5, <1>0, <2>1 DEF TypeOK, SetSweepWatermark
<1>6. CASE SweepFails(s)
  BY <1>6, <1>0 DEF TypeOK, SweepFails, Fault
<1>7. QED
  BY <1>1, <1>2, <1>3, <1>4, <1>5, <1>6 DEF SweepOrg

(* Every step of a backfill preserves the types.                           *)
LEMMA FillTypes ==
    ASSUME TypeOK, NEW f \in Fill, BackfillPolicy(f) \/ BackfillFails(f)
    PROVE  TypeOK'
<1>0. NoFill \in FillState
  BY DEF NoFill, FillState
<1>1. CASE ListInvocationsInWindow(f)
  <2>1. PICK batch \in LastRows({i \in Invocation : Stored(i)}) :
          fills' = [fills EXCEPT ![f] =
            [@ EXCEPT !.stage = "listed", !.batch = batch]]
    BY <1>1 DEF ListInvocationsInWindow
  <2>2. batch \in SUBSET Invocation
    BY DEF LastRows
  <2>3. fills' \in [Fill -> FillState]
    <3>1. [fills[f] EXCEPT !.stage = "listed", !.batch = batch] \in FillState
      BY <2>2 DEF TypeOK, FillState
    <3>2. QED
      BY <2>1, <3>1 DEF TypeOK
  <2>4. QED
    BY <1>1, <2>3 DEF TypeOK, ListInvocationsInWindow
<1>2. CASE RecordBackfill(f)
  <2>1. fills[f].batch \in SUBSET Invocation
    BY DEF TypeOK, FillState
  <2>2. Verdicts(fills[f].batch, fills[f].prog) \subseteq Invocation \X Policy
    BY <2>1, VerdictsType
  <2>3. decisions' \subseteq Invocation \X Policy
    BY <1>2, <2>2 DEF TypeOK, RecordBackfill
  <2>4. QED
    BY <1>2, <1>0, <2>3 DEF TypeOK, RecordBackfill
<1>3. CASE BackfillFails(f)
  BY <1>3, <1>0, SizeAssumption DEF TypeOK, BackfillFails, Fault
<1>4. QED
  BY <1>1, <1>2, <1>3 DEF BackfillPolicy

(* Every state has its types.                                              *)
THEOREM TypeCorrect == Spec => []TypeOK
<1>1. Init => TypeOK
  BY InitTypes
<1>2. TypeOK /\ [Next]_vars => TypeOK'
  <2> SUFFICES ASSUME TypeOK, [Next]_vars PROVE TypeOK'
    OBVIOUS
  <2>1. CASE Next
    BY <2>1, PolicyApiTypes, ObservationsTypes, SweepTypes, FillTypes DEF Next
  <2>2. CASE UNCHANGED vars
    BY <2>2 DEF vars, TypeOK
  <2>3. QED
    BY <2>1, <2>2
<1>3. QED
  BY <1>1, <1>2, PTL DEF Spec

-----------------------------------------------------------------------------
(* The invariant.                                                          *)

(* Nothing has happened yet.                                               *)
LEMMA InitInvariant ==
    ASSUME Init
    PROVE  IInv
<1>1. TypeOK
  BY InitTypes
<1>2. ReadsBehind
  BY DEF Init, ReadsBehind, NoSweep
<1>3. Passed /\ InHand
  BY DEF Init, Passed, InHand, Match, Stored, NoSweep
<1>4. QED
  BY <1>1, <1>2, <1>3 DEF IInv

(* A step that leaves the watermark and the sweeps alone, answers for      *)
(* every match that is new on a covered row, and takes back no answer,     *)
(* preserves the invariant.                                                *)
LEMMA QuietStep ==
    ASSUME IInv, TypeOK', UNCHANGED <<watermark, sweeps>>,
           \A i \in Invocation, p \in Policy :
             Match(i, p)' =>
               \/ Answered(i, p)'
               \/ ~Covered(at'[i])
               \/ /\ Match(i, p) /\ at'[i] = at[i]
                  /\ policies'[p].body = policies[p].body
                  /\ Answered(i, p) => Answered(i, p)'
    PROVE  IInv'
<1>1. ReadsBehind'
  BY DEF IInv, ReadsBehind
<1>2. Passed'
  <2> SUFFICES ASSUME NEW i \in Invocation, NEW p \in Policy,
                      Match(i, p)', at'[i] <= watermark'
               PROVE  Answered(i, p)'
    BY DEF Passed
  <2>1. Covered(at'[i])
    BY DEF Covered
  <2>2. QED
    BY <2>1 DEF IInv, Passed
<1>3. InHand'
  <2> SUFFICES ASSUME NEW s \in Sweeper, NEW i \in Invocation, NEW p \in Policy,
                      sweeps[s].stage \in {"listed", "recorded"},
                      Match(i, p)', at'[i] <= sweeps[s].maxAt
               PROVE  Answered(i, p)' \/ WillRecord(s, i, p)'
    BY DEF InHand
  <2>1. Covered(at'[i])
    BY DEF Covered
  <2>2. CASE /\ Match(i, p) /\ at'[i] = at[i]
             /\ policies'[p].body = policies[p].body
             /\ Answered(i, p) => Answered(i, p)'
    <3>1. Answered(i, p) \/ WillRecord(s, i, p)
      BY <2>2 DEF IInv, InHand
    <3>2. QED
      BY <2>2, <3>1 DEF WillRecord
  <2>3. QED
    BY <2>1, <2>2
<1>4. QED
  BY <1>1, <1>2, <1>3 DEF IInv

(* A created or changed policy is excused from the rows that are covered.  *)
LEMMA PolicyApiInvariant ==
    ASSUME IInv, PolicyApi
    PROVE  IInv'
<1>0. TypeOK'
  BY PolicyApiTypes DEF IInv
<1>1. ASSUME NEW q \in Policy, NEW b \in Body, NEW on \in BOOLEAN,
             CreatePolicy(q, b, on) \/ UpdatePolicy(q, b, on)
      PROVE  IInv'
  <2>1. UNCHANGED <<at, decisions, watermark, sweeps>> /\ excused \subseteq excused'
    BY <1>1 DEF CreatePolicy, UpdatePolicy, Excuse
  <2>2. ASSUME NEW i \in Invocation, NEW p \in Policy, Match(i, p)', p # q
        PROVE  Match(i, p) /\ policies'[p].body = policies[p].body
    BY <1>1, <2>1, <2>2 DEF IInv, TypeOK, CreatePolicy, UpdatePolicy, Match,
                            Stored, Enabled
  <2>3. ASSUME NEW i \in Invocation, Match(i, q)', Covered(at[i])
        PROVE  \/ Answered(i, q)'
               \/ Match(i, q) /\ policies'[q].body = policies[q].body
    <3>1. CASE Excuse(q)
      BY <2>1, <2>3, <3>1 DEF Excuse, Match, Stored, Answered
    <3>2. CASE UpdatePolicy(q, b, on) /\ on /\ Enabled(q) /\ b = policies[q].body
      BY <2>1, <2>3, <3>2 DEF IInv, TypeOK, UpdatePolicy, Match, Stored
    <3>3. QED
      BY <1>1, <3>1, <3>2 DEF CreatePolicy, UpdatePolicy
  <2>4. ASSUME NEW i \in Invocation, NEW p \in Policy
        PROVE  Answered(i, p) => Answered(i, p)'
    BY <2>1 DEF Answered
  <2>5. QED
    BY <1>0, <2>1, <2>2, <2>3, <2>4, QuietStep
<1>2. ASSUME NEW q \in Policy, DeletePolicy(q)
      PROVE  IInv'
  <2>1. UNCHANGED <<at, excused, watermark, sweeps>>
    BY <1>2 DEF DeletePolicy
  <2>2. ASSUME NEW i \in Invocation, NEW p \in Policy, Match(i, p)'
        PROVE  /\ Match(i, p) /\ policies'[p].body = policies[p].body
               /\ Answered(i, p) => Answered(i, p)'
    <3>1. p # q
      BY <1>2, <2>2 DEF IInv, TypeOK, DeletePolicy, Match, Enabled, PolicyRow
    <3>2. policies'[p] = policies[p]
      BY <1>2, <3>1 DEF IInv, TypeOK, DeletePolicy
    <3>3. Match(i, p)
      BY <2>1, <2>2, <3>2 DEF Match, Stored, Enabled
    <3>4. Answered(i, p) => Answered(i, p)'
      BY <1>2, <2>1, <3>1 DEF DeletePolicy, Answered
    <3>5. QED
      BY <3>2, <3>3, <3>4
  <2>3. QED
    BY <1>0, <2>1, <2>2, QuietStep
<1>3. QED
  BY <1>1, <1>2 DEF PolicyApi

(* A row that arrives too late is excused, and no other row is covered.    *)
LEMMA ObservationsInvariant ==
    ASSUME IInv, Observations
    PROVE  IInv'
<1>0. TypeOK'
  BY ObservationsTypes DEF IInv
<1> SUFFICES ASSUME NEW j \in Invocation, NEW t \in 1..MaxTime,
                    NEW ps \in SUBSET Policy, InsertInvocation(j, t, ps)
             PROVE  IInv'
  BY DEF Observations
<1>1. /\ UNCHANGED <<policies, watermark, sweeps>>
      /\ decisions \subseteq decisions' /\ excused \subseteq excused'
      /\ at' = [at EXCEPT ![j] = t]
      /\ Covered(t) => {j} \X Policy \subseteq excused'
  BY DEF InsertInvocation
<1>2. ASSUME NEW i \in Invocation, NEW p \in Policy
      PROVE  Answered(i, p) => Answered(i, p)'
  BY <1>1 DEF Answered
<1>3. ASSUME NEW i \in Invocation, NEW p \in Policy, Match(i, p)', i # j
      PROVE  /\ Match(i, p) /\ at'[i] = at[i]
             /\ policies'[p].body = policies[p].body
  BY <1>1, <1>3 DEF IInv, TypeOK, Match, Stored, Enabled
<1>4. ASSUME NEW p \in Policy
      PROVE  Answered(j, p)' \/ ~Covered(at'[j])
  BY <1>1 DEF IInv, TypeOK, Answered
<1>5. QED
  BY <1>0, <1>1, <1>2, <1>3, <1>4, QuietStep

(* A backfill only adds decisions.                                         *)
LEMMA FillInvariant ==
    ASSUME IInv, NEW f \in Fill, BackfillPolicy(f) \/ BackfillFails(f)
    PROVE  IInv'
<1>0. TypeOK'
  BY FillTypes DEF IInv
<1>1. /\ UNCHANGED <<policies, at, excused, watermark, sweeps>>
      /\ decisions \subseteq decisions'
  BY DEF BackfillPolicy, ListInvocationsInWindow, RecordBackfill, BackfillFails
<1>2. ASSUME NEW i \in Invocation, NEW p \in Policy, Match(i, p)'
      PROVE  /\ Match(i, p) /\ at'[i] = at[i]
             /\ policies'[p].body = policies[p].body
             /\ Answered(i, p) => Answered(i, p)'
  BY <1>1, <1>2 DEF Match, Stored, Enabled, Answered
<1>3. QED
  BY <1>0, <1>1, <1>2, QuietStep

(* A step of sweep s that leaves the rows, the policies and the watermark  *)
(* alone and takes back no answer preserves the invariant if it leaves s   *)
(* with nothing in hand that is not answered for.                          *)
LEMMA SweepStep ==
    ASSUME IInv, TypeOK', NEW s \in Sweeper, NEW new \in SweepState,
           sweeps' = [sweeps EXCEPT ![s] = new],
           new.water <= watermark',
           watermark <= watermark',
           UNCHANGED <<policies, at>>,
           decisions \subseteq decisions', excused \subseteq excused',
           Passed',
           \A i \in Invocation, p \in Policy :
             new.stage \in {"listed", "recorded"} /\ Match(i, p) /\ at[i] <= new.maxAt
               => Answered(i, p)' \/ WillRecord(s, i, p)'
    PROVE  IInv'
<1>1. ReadsBehind'
  BY DEF IInv, TypeOK, SweepState, ReadsBehind
<1>2. InHand'
  <2> SUFFICES ASSUME NEW r \in Sweeper, NEW i \in Invocation, NEW p \in Policy,
                      sweeps'[r].stage \in {"listed", "recorded"},
                      Match(i, p)', at'[i] <= sweeps'[r].maxAt
               PROVE  Answered(i, p)' \/ WillRecord(r, i, p)'
    BY DEF InHand
  <2>1. Match(i, p) /\ at'[i] = at[i]
    BY DEF Match, Stored, Enabled
  <2>2. CASE r = s
    BY <2>1, <2>2 DEF IInv, TypeOK
  <2>3. CASE r # s
    <3>1. sweeps'[r] = sweeps[r]
      BY <2>3 DEF IInv, TypeOK
    <3>2. Answered(i, p) \/ WillRecord(r, i, p)
      BY <2>1, <3>1 DEF IInv, InHand
    <3>3. QED
      BY <3>1, <3>2 DEF Answered, WillRecord
  <2>4. QED
    BY <2>2, <2>3
<1>3. QED
  BY <1>1, <1>2 DEF IInv

(* While the watermark stays, what it has passed stays answered for.       *)
LEMMA PassedStays ==
    ASSUME Passed, UNCHANGED <<policies, at, watermark>>,
           decisions \subseteq decisions', excused \subseteq excused'
    PROVE  Passed'
BY DEF Passed, Match, Stored, Enabled, Answered

(* The reads of a sweep, and its failures, put nothing in hand.            *)
LEMMA ReadInvariant ==
    ASSUME IInv, NEW s \in Sweeper,
           ListPolicies(s) \/ SweepWatermark(s) \/ SweepFails(s)
    PROVE  IInv'
<1>0. TypeOK'
  BY SweepTypes DEF IInv, SweepOrg
<1>1. UNCHANGED <<policies, at, decisions, watermark, excused>>
  BY DEF ListPolicies, SweepWatermark, SweepFails
<1>2. Passed'
  BY <1>1, PassedStays DEF IInv
<1>3. sweeps' \in [Sweeper -> SweepState]
  BY <1>0 DEF TypeOK
<1>4. sweeps' = [sweeps EXCEPT ![s] = sweeps'[s]]
  BY <1>3 DEF IInv, TypeOK, ListPolicies, SweepWatermark, SweepFails
<1>5. sweeps'[s].stage \notin {"listed", "recorded"} /\ sweeps'[s].water <= watermark
  <2>1. CASE ListPolicies(s)
    BY <2>1 DEF IInv, TypeOK, SweepState, ReadsBehind, ListPolicies
  <2>2. CASE SweepWatermark(s)
    BY <2>2, SizeAssumption DEF IInv, TypeOK, SweepState, SweepWatermark
  <2>3. CASE SweepFails(s)
    BY <2>3, SizeAssumption DEF IInv, TypeOK, SweepFails, NoSweep
  <2>4. QED
    BY <2>1, <2>2, <2>3
<1>6. watermark <= watermark'
  BY <1>1, SizeAssumption DEF IInv, TypeOK
<1>7. QED
  BY <1>0, <1>1, <1>2, <1>3, <1>4, <1>5, <1>6, SweepStep

(* The list of a sweep misses a match up to its last time only if it is    *)
(* excused: the query is ordered by time.                                  *)
LEMMA ListAnswers ==
    ASSUME IInv, NEW s \in Sweeper, NEW batch \in FirstRows(Due(s)), batch # {},
           NEW t \in 1..MaxTime, LastTime(batch, t),
           NEW i \in Invocation, NEW p \in Policy, Match(i, p), at[i] <= t
    PROVE  \/ Answered(i, p)
           \/ <<i, p>> \in Skips(batch, sweeps[s].progs, t)
           \/ i \in batch /\ <<p, policies[p].body>> \in sweeps[s].progs
<1>1. /\ at[i] \in Nat /\ watermark \in Nat /\ sweeps[s].water \in Nat
      /\ sweeps[s].water <= watermark
  BY SizeAssumption DEF IInv, TypeOK, SweepState, ReadsBehind
<1>2. CASE at[i] <= sweeps[s].water
  BY <1>1, <1>2 DEF IInv, Passed
<1>3. CASE Decided(i)
  BY <1>3 DEF Skips, Match
<1>4. CASE at[i] > sweeps[s].water /\ ~Decided(i)
  <2>1. i \in Due(s)
    BY <1>4 DEF Due
  <2>2. CASE i \in batch
    BY <2>2 DEF Skips, Match
  <2>3. CASE i \notin batch
    <3>1. \A j \in batch : at[j] <= at[i]
      BY <2>1, <2>3 DEF FirstRows
    <3>2. PICK j \in batch : at[j] = t
      BY DEF LastTime
    <3>3. t <= at[i]
      BY <3>1, <3>2
    <3>4. at[i] = t
      BY <1>1, <3>3
    <3>5. QED
      BY <2>3, <3>4 DEF Skips, Match
  <2>4. QED
    BY <2>2, <2>3
<1>5. QED
  BY <1>1, <1>2, <1>3, <1>4

(* What a list puts in hand is answered for or will be recorded.           *)
LEMMA ListInvariant ==
    ASSUME IInv, NEW s \in Sweeper, ListInvocationsForSweep(s)
    PROVE  IInv'
<1>0. TypeOK'
  BY SweepTypes DEF IInv, SweepOrg
<1>1. UNCHANGED <<policies, at, decisions, watermark>>
  BY DEF ListInvocationsForSweep
<1>2. watermark <= watermark' /\ sweeps[s].water <= watermark' /\ 0 <= watermark'
  BY <1>1, SizeAssumption DEF IInv, TypeOK, ReadsBehind
<1>3. PICK batch \in FirstRows(Due(s)) :
        IF batch = {}
        THEN /\ sweeps' = [sweeps EXCEPT ![s] = NoSweep]
             /\ UNCHANGED excused
        ELSE \E t \in 1..MaxTime :
               /\ LastTime(batch, t)
               /\ sweeps' = [sweeps EXCEPT ![s] =
                    [@ EXCEPT !.stage = "listed", !.batch = batch, !.maxAt = t]]
               /\ excused' = excused \cup Skips(batch, sweeps[s].progs, t)
  BY DEF ListInvocationsForSweep
<1>4. batch \in SUBSET Invocation
  BY DEF FirstRows, Due
<1>5. CASE batch = {}
  <2>1. NoSweep \in SweepState /\ NoSweep.water = 0 /\ NoSweep.stage = "idle"
    BY SizeAssumption DEF NoSweep, SweepState
  <2>2. Passed'
    BY <1>1, <1>3, <1>5, PassedStays DEF IInv
  <2>3. QED
    BY <1>0, <1>1, <1>2, <1>3, <1>5, <2>1, <2>2, SweepStep
<1>6. CASE batch # {}
  <2>1. PICK t \in 1..MaxTime :
          /\ LastTime(batch, t)
          /\ sweeps' = [sweeps EXCEPT ![s] =
               [@ EXCEPT !.stage = "listed", !.batch = batch, !.maxAt = t]]
          /\ excused' = excused \cup Skips(batch, sweeps[s].progs, t)
    BY <1>3, <1>6
  <2>2. PICK new :
          new = [sweeps[s] EXCEPT !.stage = "listed", !.batch = batch, !.maxAt = t]
    OBVIOUS
  <2>3. sweeps' = [sweeps EXCEPT ![s] = new] /\ sweeps'[s] = new
    BY <2>1, <2>2 DEF IInv, TypeOK
  <2>4. /\ new \in SweepState /\ new.stage = "listed" /\ new.batch = batch
        /\ new.maxAt = t /\ new.progs = sweeps[s].progs
        /\ new.water = sweeps[s].water
    <3>1. sweeps[s] \in SweepState
      BY DEF IInv, TypeOK
    <3>2. new = [stage |-> "listed", progs |-> sweeps[s].progs,
                 water |-> sweeps[s].water, batch |-> batch, maxAt |-> t]
      BY <2>2, <3>1 DEF SweepState
    <3>3. new \in SweepState
      <4>1. t \in 0..MaxTime
        BY SizeAssumption
      <4>2. /\ sweeps[s].progs \in SUBSET (Policy \X (Body \cup {{}}))
            /\ sweeps[s].water \in 0..MaxTime
        BY <3>1 DEF SweepState
      <4>3. QED
        BY <1>4, <3>2, <4>1, <4>2 DEF SweepState
    <3>4. QED
      BY <3>2, <3>3
  <2>5. Passed'
    BY <1>1, <2>1, PassedStays DEF IInv
  <2>6. ASSUME NEW i \in Invocation, NEW p \in Policy, Match(i, p), at[i] <= t
        PROVE  Answered(i, p)' \/ WillRecord(s, i, p)'
    <3>1. \/ Answered(i, p)
          \/ <<i, p>> \in Skips(batch, sweeps[s].progs, t)
          \/ i \in batch /\ <<p, policies[p].body>> \in sweeps[s].progs
      BY <1>6, <2>1, <2>6, ListAnswers
    <3>2. QED
      BY <1>1, <2>1, <2>3, <2>4, <3>1 DEF Answered, WillRecord
  <2>7. QED
    BY <1>0, <1>1, <1>2, <2>1, <2>3, <2>4, <2>5, <2>6, SweepStep
<1>7. QED
  BY <1>5, <1>6

(* The insert records what is in hand, all of it or nothing.               *)
LEMMA RecordInvariant ==
    ASSUME IInv, NEW s \in Sweeper, RecordDecisions(s)
    PROVE  IInv'
<1> DEFINE rows == Verdicts(sweeps[s].batch, sweeps[s].progs)
<1>0. TypeOK'
  BY SweepTypes DEF IInv, SweepOrg
<1>1. /\ UNCHANGED <<policies, at, watermark, excused>>
      /\ decisions \subseteq decisions'
      /\ sweeps[s].stage = "listed"
  BY DEF RecordDecisions
<1>2. watermark <= watermark' /\ sweeps[s].water <= watermark' /\ 0 <= watermark'
  BY <1>1, SizeAssumption DEF IInv, TypeOK, ReadsBehind
<1>3. Passed'
  BY <1>1, PassedStays DEF IInv
<1>4. CASE sweeps' = [sweeps EXCEPT ![s] = NoSweep]
  <2>1. NoSweep \in SweepState /\ NoSweep.water = 0 /\ NoSweep.stage = "idle"
    BY SizeAssumption DEF NoSweep, SweepState
  <2>2. QED
    BY <1>0, <1>1, <1>2, <1>3, <1>4, <2>1, SweepStep
<1>5. CASE /\ decisions' = decisions \cup rows
           /\ sweeps' = [sweeps EXCEPT ![s].stage = "recorded"]
  <2> DEFINE new == [sweeps[s] EXCEPT !.stage = "recorded"]
  <2>1. /\ new \in SweepState /\ new.maxAt = sweeps[s].maxAt
        /\ new.water = sweeps[s].water
    BY DEF IInv, TypeOK, SweepState
  <2>2. sweeps' = [sweeps EXCEPT ![s] = new]
    BY <1>5 DEF IInv, TypeOK
  <2> HIDE DEF new
  <2>3. ASSUME NEW i \in Invocation, NEW p \in Policy, Match(i, p),
               at[i] <= sweeps[s].maxAt
        PROVE  Answered(i, p)'
    <3>1. Answered(i, p) \/ WillRecord(s, i, p)
      BY <1>1, <2>3 DEF IInv, InHand
    <3>2. CASE Answered(i, p)
      BY <1>1, <3>2 DEF Answered
    <3>3. CASE WillRecord(s, i, p)
      <4>1. policies[p].body \in Body
        BY <2>3 DEF IInv, TypeOK, PolicyRow, Match
      <4>2. p \in Matches(sweeps[s].progs, i)
        BY <2>3, <3>3, <4>1 DEF Matches, WillRecord, Match
      <4>3. <<i, p>> \in rows
        BY <3>3, <4>2 DEF Verdicts, WillRecord
      <4>4. QED
        BY <1>5, <4>3 DEF Answered
    <3>4. QED
      BY <3>1, <3>2, <3>3
  <2>4. QED
    BY <1>0, <1>1, <1>2, <1>3, <2>1, <2>2, <2>3, SweepStep
<1>6. QED
  BY <1>4, <1>5 DEF RecordDecisions

(* The watermark passes only what is answered for.                         *)
LEMMA WatermarkInvariant ==
    ASSUME IInv, NEW s \in Sweeper, SetSweepWatermark(s)
    PROVE  IInv'
<1>0. TypeOK'
  BY SweepTypes DEF IInv, SweepOrg
<1>1. /\ UNCHANGED <<policies, at, decisions, excused>>
      /\ sweeps[s].stage = "recorded"
      /\ sweeps' = [sweeps EXCEPT ![s] = NoSweep]
  BY DEF SetSweepWatermark
<1>2. /\ watermark \in Nat /\ watermark' \in {watermark, sweeps[s].maxAt}
      /\ watermark <= watermark' /\ 0 <= watermark'
  BY SizeAssumption DEF IInv, TypeOK, SweepState, SetSweepWatermark
<1>3. Passed'
  <2> SUFFICES ASSUME NEW i \in Invocation, NEW p \in Policy,
                      Match(i, p)', at'[i] <= watermark'
               PROVE  Answered(i, p)'
    BY DEF Passed
  <2>1. Match(i, p) /\ at[i] <= watermark'
    BY <1>1 DEF Match, Stored, Enabled
  <2>2. CASE watermark' = watermark
    BY <1>1, <2>1, <2>2 DEF IInv, Passed, Answered
  <2>3. CASE watermark' = sweeps[s].maxAt
    BY <1>1, <2>1, <2>3 DEF IInv, InHand, WillRecord, Answered
  <2>4. QED
    BY <1>2, <2>2, <2>3
<1>4. NoSweep \in SweepState /\ NoSweep.water = 0 /\ NoSweep.stage = "idle"
  BY SizeAssumption DEF NoSweep, SweepState
<1>5. QED
  BY <1>0, <1>1, <1>2, <1>3, <1>4, SweepStep

(* The invariant holds in every state.                                     *)
THEOREM Invariance == Spec => []IInv
<1>1. Init => IInv
  BY InitInvariant
<1>2. IInv /\ [Next]_vars => IInv'
  <2> SUFFICES ASSUME IInv, [Next]_vars PROVE IInv'
    OBVIOUS
  <2>1. ASSUME NEW s \in Sweeper, SweepOrg(s) \/ SweepFails(s)
        PROVE  IInv'
    BY <2>1, ReadInvariant, ListInvariant, RecordInvariant, WatermarkInvariant
       DEF SweepOrg
  <2>2. ASSUME NEW f \in Fill, BackfillPolicy(f) \/ BackfillFails(f)
        PROVE  IInv'
    BY <2>2, FillInvariant
  <2>3. CASE Next
    BY <2>1, <2>2, <2>3, PolicyApiInvariant, ObservationsInvariant DEF Next
  <2>4. CASE UNCHANGED vars
    BY <2>4 DEF vars, IInv, TypeOK, ReadsBehind, Passed, InHand, Match, Stored,
                Enabled, Answered, WillRecord
  <2>5. QED
    BY <2>3, <2>4
<1>3. QED
  BY <1>1, <1>2, PTL DEF Spec

(* A match that the watermark has passed is recorded unless it came too    *)
(* late, was shadowed by another decision, was cut off by the limit at the *)
(* last time of a batch, or belongs to a policy that changed meanwhile.    *)
THEOREM NothingElseMissed == Spec => []MissedOnlyIfExcused
<1>1. IInv => MissedOnlyIfExcused
  BY PassedIsProperty DEF IInv
<1>2. QED
  BY <1>1, Invariance, PTL
-----------------------------------------------------------------------------
(* Which replica runs the sweep: SweepScheduling keeps its types, and two  *)
(* replicas overlap only when one has lost its session, for any number of  *)
(* replicas and sessions.                                                  *)

(* A replica in a tick took the lock through a session of its own pool,    *)
(* and that session holds the lock as long as it has not ended.            *)
LeaderHolds(r) ==
    Leads(r) => /\ tick[r].session \in PoolOf(r)
                /\ ~ tick[r].lost => holder = tick[r].session

SchedulingInv == TicksTypeOK /\ \A r \in Replica : LeaderHolds(r)

(* A replica between its ticks is typed.                                   *)
LEMMA IdleTickTyped == IdleTick \in Tick
BY DEF IdleTick, Tick

(* The inductive invariant holds at first.                                 *)
LEMMA SchedulingInit == TicksInit => SchedulingInv
<1> SUFFICES ASSUME TicksInit PROVE SchedulingInv
    OBVIOUS
<1>1. TicksTypeOK
    BY IdleTickTyped, BoundAssumption DEF TicksInit, TicksTypeOK
<1>2. \A r \in Replica : LeaderHolds(r)
    BY DEF TicksInit, LeaderHolds, Leads, IdleTick
<1> QED
    BY <1>1, <1>2 DEF SchedulingInv

(* Every step keeps the types.                                             *)
LEMMA SchedulingTypeStep == TicksTypeOK /\ [TicksNext]_ticksVars => TicksTypeOK'
<1> USE DEF TicksTypeOK
<1> SUFFICES ASSUME TicksTypeOK, [TicksNext]_ticksVars PROVE TicksTypeOK'
    OBVIOUS
<1>1. ASSUME NEW o \in Org, EditPolicies(o) PROVE TicksTypeOK'
    BY <1>1, BoundAssumption DEF EditPolicies
<1>2. ASSUME NEW r \in Replica, NEW s \in PoolOf(r), TryAdvisoryLock(r, s)
      PROVE TicksTypeOK'
    <2>1. s \in Session
        BY <1>2 DEF PoolOf, Session
    <2>2. [stage |-> "locked", session |-> s, lost |-> FALSE, todo |-> {}] \in Tick
        BY <2>1 DEF Tick
    <2>3. (sessions \subseteq Session /\ holder \in sessions \cup {None})'
        BY <1>2, <2>1 DEF TryAdvisoryLock
    <2>4. (tick \in [Replica -> Tick])'
        BY <1>2, <2>2 DEF TryAdvisoryLock
    <2> QED
        BY <1>2, <2>3, <2>4 DEF TryAdvisoryLock
<1>3. ASSUME NEW r \in Replica, ListOrgsWithDuePolicies(r) PROVE TicksTypeOK'
    <2> DEFINE t == [tick[r] EXCEPT !.stage = "sweeping", !.todo = FirstByID(due)]
    <2>1. t \in Tick
        BY DEF Tick, FirstByID
    <2>2. tick' = [tick EXCEPT ![r] = t]
        BY <1>3 DEF ListOrgsWithDuePolicies
    <2> QED
        BY <1>3, <2>1, <2>2 DEF ListOrgsWithDuePolicies
<1>4. ASSUME NEW r \in Replica, NEW o \in Org, SweepOneOrg(r, o) PROVE TicksTypeOK'
    <2> DEFINE t == [tick[r] EXCEPT !.todo = tick[r].todo \ {o}]
    <2>1. t \in Tick
        BY DEF Tick
    <2>2. tick' = [tick EXCEPT ![r] = t]
        BY <1>4 DEF SweepOneOrg
    <2> HIDE DEF t
    <2> QED
        BY <1>4, <2>1, <2>2 DEF SweepOneOrg
<1>5. ASSUME NEW r \in Replica, EndTick(r) PROVE TicksTypeOK'
    BY <1>5, IdleTickTyped DEF EndTick
<1>6. ASSUME NEW r \in Replica, ListFails(r) PROVE TicksTypeOK'
    BY <1>6, IdleTickTyped, BoundAssumption DEF ListFails
<1>7. ASSUME NEW r \in Replica, StopReplica(r) PROVE TicksTypeOK'
    <2>1. (sessions \subseteq Session /\ holder \in sessions \cup {None})'
        BY <1>7 DEF StopReplica, Released
    <2> QED
        BY <1>7, <2>1, IdleTickTyped, BoundAssumption DEF StopReplica
<1>8. ASSUME NEW s \in Session, CloseSession(s) PROVE TicksTypeOK'
    <2>1. (sessions \subseteq Session /\ holder \in sessions \cup {None})'
        BY <1>8 DEF CloseSession, Released
    <2>2. \A r \in Replica : [tick[r] EXCEPT !.lost = TRUE] \in Tick
        BY DEF Tick
    <2>3. (tick \in [Replica -> Tick])'
        BY <1>8, <2>2 DEF CloseSession
    <2> QED
        BY <1>8, <2>1, <2>3 DEF CloseSession
<1>9. CASE UNCHANGED ticksVars
    BY <1>9 DEF ticksVars
<1> QED
    BY <1>1, <1>2, <1>3, <1>4, <1>5, <1>6, <1>7, <1>8, <1>9 DEF TicksNext

(* Every step keeps what is known of a replica that leads.                 *)
LEMMA HolderStep ==
    ASSUME SchedulingInv, [TicksNext]_ticksVars, NEW q \in Replica
    PROVE  LeaderHolds(q)'
<1> USE DEF SchedulingInv, LeaderHolds, Leads
<1>typed. tick \in [Replica -> Tick]
    BY DEF TicksTypeOK
<1>1. ASSUME NEW o \in Org, EditPolicies(o) PROVE LeaderHolds(q)'
    BY <1>1 DEF EditPolicies
\* The new leader holds the lock; another leader that held it has lost it.
<1>2. ASSUME NEW r \in Replica, NEW s \in PoolOf(r), TryAdvisoryLock(r, s)
      PROVE LeaderHolds(q)'
    <2>1. CASE ~ Free(s)
        BY <1>2, <2>1 DEF TryAdvisoryLock
    <2>2. CASE Free(s) /\ q = r
        BY <1>2, <2>2, <1>typed DEF TryAdvisoryLock
    <2>3. CASE Free(s) /\ q # r
        <3>1. tick'[q] = tick[q] /\ holder' = s
            BY <1>2, <2>3, <1>typed DEF TryAdvisoryLock
        <3>2. s \notin PoolOf(q) /\ None \notin PoolOf(q)
            BY <2>3, <1>2, NoneAssumption DEF PoolOf, Session
        <3>3. Leads(q) => tick[q].lost
            BY <2>3, <3>2 DEF Free
        <3> QED
            BY <3>1, <3>3
    <2> QED
        BY <2>1, <2>2, <2>3
<1>3. ASSUME NEW r \in Replica, ListOrgsWithDuePolicies(r) PROVE LeaderHolds(q)'
    BY <1>3, <1>typed DEF ListOrgsWithDuePolicies, Tick
<1>4. ASSUME NEW r \in Replica, NEW o \in Org, SweepOneOrg(r, o) PROVE LeaderHolds(q)'
    BY <1>4, <1>typed DEF SweepOneOrg, Tick
<1>5. ASSUME NEW r \in Replica, EndTick(r) PROVE LeaderHolds(q)'
    BY <1>5, <1>typed DEF EndTick, IdleTick
<1>6. ASSUME NEW r \in Replica, ListFails(r) PROVE LeaderHolds(q)'
    BY <1>6, <1>typed DEF ListFails, IdleTick
\* Another replica's sessions are not in the pool that is gone.
<1>7. ASSUME NEW r \in Replica, StopReplica(r) PROVE LeaderHolds(q)'
    <2>1. CASE q = r
        BY <1>7, <2>1, <1>typed DEF StopReplica, IdleTick
    <2>2. CASE q # r
        <3>1. PoolOf(q) \cap PoolOf(r) = {}
            BY <2>2 DEF PoolOf
        <3> QED
            BY <1>7, <2>2, <3>1, <1>typed DEF StopReplica, Released
    <2> QED
        BY <2>1, <2>2
<1>8. ASSUME NEW s \in Session, CloseSession(s) PROVE LeaderHolds(q)'
    <2>1. CASE Leads(q) /\ tick[q].session = s
        <3>1. tick'[q] = [tick[q] EXCEPT !.lost = TRUE]
            BY <1>8, <2>1 DEF CloseSession
        <3>2. tick'[q].lost /\ tick'[q].session = tick[q].session
            BY <3>1, <1>typed DEF Tick
        <3> QED
            BY <2>1, <3>2 DEF PoolOf
    <2>2. CASE ~ (Leads(q) /\ tick[q].session = s)
        BY <1>8, <2>2 DEF CloseSession, Released
    <2> QED
        BY <2>1, <2>2
<1>9. CASE UNCHANGED ticksVars
    BY <1>9 DEF ticksVars
<1> QED
    BY <1>1, <1>2, <1>3, <1>4, <1>5, <1>6, <1>7, <1>8, <1>9 DEF TicksNext

(* Every reachable state of the scheduling has its types and its leaders   *)
(* hold the lock until their session ends.                                 *)
THEOREM SchedulingInvariance == TicksSpec => []SchedulingInv
<1>1. SchedulingInv /\ [TicksNext]_ticksVars => SchedulingInv'
    BY SchedulingTypeStep, HolderStep DEF SchedulingInv
<1> QED
    BY SchedulingInit, <1>1, PTL DEF TicksSpec

(* Every reachable state has its types.                                    *)
THEOREM SchedulingTypes == TicksSpec => []TicksTypeOK
<1>1. SchedulingInv => TicksTypeOK
    BY DEF SchedulingInv
<1> QED
    BY SchedulingInvariance, <1>1, PTL

(* Two ticks overlap only when the session of one of them has ended: the   *)
(* pools are disjoint, so the lock cannot be in two of them.               *)
THEOREM Overlap == TicksSpec => []OverlapOnlyIfSessionEnded
<1>1. SchedulingInv => OverlapOnlyIfSessionEnded
    BY DEF SchedulingInv, LeaderHolds, OverlapOnlyIfSessionEnded, PoolOf
<1> QED
    BY SchedulingInvariance, <1>1, PTL
=============================================================================
