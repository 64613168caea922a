--------------------------- MODULE ActivityProofs ---------------------------
(***************************************************************************)
(* What Activity promises of the counts holds for any number of reports,   *)
(* callers, sweeps and replicas, any buffer and any number of days.        *)
(***************************************************************************)
EXTENDS Activity, WellFoundedInduction, TLAPS

-----------------------------------------------------------------------------
(* The largest and the smallest member of a set of numbers.                 *)

(* The order of the natural numbers, as a relation, is well founded.        *)
LEMMA LessIsWellFounded == IsWellFoundedOn({p \in Nat \X Nat : p[1] < p[2]}, Nat)
<1>1. OpToRel(<, Nat) = {p \in Nat \X Nat : p[1] < p[2]}
  BY DEF OpToRel
<1> QED
  BY <1>1, NatLessThanWellFounded

(* A set of natural numbers that is not empty has a smallest member.        *)
LEMMA MinMember ==
    ASSUME NEW S \in SUBSET Nat, S # {}
    PROVE  Min(S) \in S /\ \A y \in S : Min(S) <= y
<1> DEFINE R == {p \in Nat \X Nat : p[1] < p[2]}
<1>1. PICK x \in S : \A y \in S : <<y, x>> \notin R
  <2>1. IsWellFoundedOn(R, Nat)
    BY LessIsWellFounded
  <2> HIDE DEF R
  <2> QED
    BY <2>1, WFMin
<1>2. ASSUME NEW y \in S PROVE x <= y
  <2>1. ~(y < x)
    BY <1>1
  <2> QED
    BY <2>1
<1> QED
  BY <1>2 DEF Min

(* One that is bounded as well has a largest.                               *)
LEMMA MaxMember ==
    ASSUME NEW n \in Nat, NEW S \in SUBSET (0..n), S # {}
    PROVE  Max(S) \in S /\ \A y \in S : Max(S) >= y
<1> DEFINE T == {n - x : x \in S}
<1>1. T \in SUBSET Nat
  <2> SUFFICES ASSUME NEW x \in S PROVE n - x \in Nat
    OBVIOUS
  <2>1. x \in 0..n
    OBVIOUS
  <2> QED
    BY <2>1
<1>2. PICK m \in T : \A y \in T : m <= y
  <2>1. T # {}
    OBVIOUS
  <2> HIDE DEF T
  <2> QED
    BY <1>1, <2>1, MinMember
<1>3. PICK x \in S : m = n - x
  OBVIOUS
<1>4. ASSUME NEW y \in S PROVE x >= y
  <2>1. x \in 0..n /\ y \in 0..n
    OBVIOUS
  <2>2. n - x <= n - y
    BY <1>2, <1>3
  <2> QED
    BY <2>1, <2>2
<1> QED
  BY <1>4 DEF Max

-----------------------------------------------------------------------------
(* The inductive invariant.                                                 *)

(* Types of what concerns the callers, and what a sweep has read is stored. *)
CallerTypes ==
    /\ invocations \in [Invocations -> Invocation \cup {NotStored}]
    /\ late \subseteq Invocations
    /\ callers \in [Callers -> CallerRow]
    /\ sweep \in [Sweepers -> Sweep]
    /\ \A c \in Callers : callers[c].counted \subseteq OfCaller(c, Stored)
    /\ \A s \in Sweepers : sweep[s].batch \subseteq Stored

(* A rollup under way: what it has read is stored, before it writes its own *)
(* day that is of its day, and one that fills has a day to fill.            *)
TickTyped(t) ==
    /\ t \in Tick
    /\ t.counted \subseteq Stored
    /\ t.pc = "upsert" => t.counted \subseteq OfDay(t.day)
    /\ t.pc \in {"buckets", "fill"} => t.missing # {}

(* Types of what concerns the metrics.                                      *)
FlagsTyped ==
    /\ today \in Days /\ rolled \in BOOLEAN
    /\ running \in [Replicas -> BOOLEAN] /\ backfilled \in [Replicas -> BOOLEAN]
    /\ lock \in Replicas \cup {None}
    /\ overlapped \in BOOLEAN /\ gaps \subseteq Days
    /\ faults \in 0..MaxFaults

MetricsTypes ==
    /\ FlagsTyped
    /\ rows \in [Days -> DailyRow] /\ \A d \in Days : rows[d].counted \subseteq OfDay(d)
    /\ tick \in [Replicas -> Tick] /\ \A r \in Replicas : TickTyped(tick[r])

TypeInv == CallerTypes /\ MetricsTypes

(* A watermark that was read is not ahead of the callers.  A batch holds,   *)
(* for every invocation in it, all those that lie a buffer before that one  *)
(* and after the start of the batch: who was stored later is late.          *)
BatchComplete(s) ==
    /\ sweep[s].pc # "idle" => sweep[s].since <= Watermark
    /\ sweep[s].pc = "mark" =>
         \A j \in sweep[s].batch, i \in Stored \ late :
             /\ invocations[i].at + Buffer <= invocations[j].at
             /\ invocations[i].at + Buffer > sweep[s].since
             => i \in sweep[s].batch

(* What a caller has last is the time of an invocation.                     *)
LastIsStored ==
    \A c \in Callers : callers[c].last = 0 \/ \E j \in Stored : invocations[j].at = callers[c].last

CountInv ==
    /\ UncountedCameLate
    /\ LastIsStored
    /\ \A s \in Sweepers : BatchComplete(s)

(* A day has its row, its gap, or a rollup that will give it one of them.   *)
Settled(d) ==
    \/ rows[d].present
    \/ d \in gaps
    \/ \E q \in Replicas : tick[q].pc # "idle" /\ tick[q].day = d

(* The past days that the chart of a day shows.                             *)
Window(day) == {d \in Days : d < day /\ d + BackfillDays >= day}

(* A rollup is of today or yesterday, in a replica that runs.  The days     *)
(* before it are settled when it has come to its own day, and until then    *)
(* they are settled or among those it has still to fill.                    *)
TickInv(r) ==
    /\ backfilled[r] => running[r] /\ \A d \in Window(today) : Settled(d)
    /\ tick[r].pc # "idle" => running[r] /\ tick[r].day <= today /\ today <= tick[r].day + 1
    /\ tick[r].pc \in {"buckets", "fill"} =>
         \A d \in Window(tick[r].day) : Settled(d) \/ d \in tick[r].missing
    /\ tick[r].pc \in {"count", "upsert"} => \A d \in Window(tick[r].day) : Settled(d)

GapInv == (rolled => Settled(today)) /\ \A r \in Replicas : TickInv(r)

(* As long as no rollup has lost the lock, the only one is that of the      *)
(* replica that holds it: what it has read is still what the rows hold.     *)
AloneInv(r) ==
    tick[r].pc # "idle" /\ ~overlapped =>
      /\ lock = r
      /\ tick[r].pc \in {"buckets", "fill"} => \A d \in tick[r].missing : rows[d].counted = {}
      /\ tick[r].pc = "upsert" => rows[tick[r].day].counted \subseteq tick[r].counted

RowInv ==
    /\ \A d \in Days : ~rows[d].present => rows[d].counted = {}
    /\ \A r \in Replicas : AloneInv(r)

IInv == TypeInv /\ CountInv /\ GapInv /\ RowInv

-----------------------------------------------------------------------------
(* Steps that concern the callers, and steps that concern the metrics.      *)

CallerStep ==
    \/ \E i \in Invocations, c \in Callers, at \in Times : InsertInvocation(i, c, at)
    \/ \E s \in Sweepers : SweepStep(s)

MetricsStep ==
    \/ \E r \in Replicas : RollupStep(r) \/ Start(r) \/ Stop(r)
    \/ LockLost \/ Midnight

(* What the two have in common is the invocations, which only reports add.  *)
LEMMA CallerFrame == CallerStep => UNCHANGED <<today, rollup, faults>>
BY DEF CallerStep, InsertInvocation, SweepStep, ReadWatermark, ReadInvocations, MarkSeenBatch,
       SweepFails

(* Nor do rollups, processes and days change what the callers are swept     *)
(* from.                                                                    *)
LEMMA MetricsFrame == MetricsStep => UNCHANGED <<invocations, callerVars, late>>
<1>1. ASSUME NEW r \in Replicas, RollupStep(r) PROVE UNCHANGED <<invocations, callerVars, late>>
  BY <1>1 DEF RollupStep, BeginTick, ListOrgsFails, MissingDays, BackfillBuckets, BackfillDay,
              BackfillFails, CountInvocations, RollupToday, RollupFails
<1>2. ASSUME NEW r \in Replicas, Start(r) \/ Stop(r)
      PROVE  UNCHANGED <<invocations, callerVars, late>>
  BY <1>2 DEF Start, Stop
<1>3. ASSUME LockLost \/ Midnight PROVE UNCHANGED <<invocations, callerVars, late>>
  BY <1>3 DEF LockLost, Midnight
<1> QED
  BY <1>1, <1>2, <1>3 DEF MetricsStep

(* Every step is one of the two.                                            *)
LEMMA Steps == Next <=> CallerStep \/ MetricsStep
BY DEF Next, CallerStep, MetricsStep

(* An invocation that is stored stays as it is.                             *)
LEMMA StoredStays ==
    ASSUME invocations \in [Invocations -> Invocation \cup {NotStored}],
           CallerStep \/ MetricsStep \/ UNCHANGED vars
    PROVE  /\ Stored \subseteq Stored'
           /\ \A j \in Stored : invocations'[j] = invocations[j]
           /\ \A d \in Days : OfDay(d) \subseteq OfDay(d)'
<1>1. \A j \in Stored : invocations'[j] = invocations[j]
  <2>1. CASE MetricsStep \/ UNCHANGED vars
    BY <2>1, MetricsFrame DEF vars
  <2>2. ASSUME NEW s \in Sweepers, SweepStep(s) PROVE invocations' = invocations
    BY <2>2 DEF SweepStep, ReadWatermark, ReadInvocations, MarkSeenBatch, SweepFails
  <2>3. ASSUME NEW i \in Invocations, NEW c \in Callers, NEW at \in Times,
               InsertInvocation(i, c, at), NEW j \in Stored
        PROVE  invocations'[j] = invocations[j]
    BY <2>3 DEF InsertInvocation, Stored
  <2> QED
    BY <2>1, <2>2, <2>3 DEF CallerStep
<1> QED
  BY <1>1 DEF Stored, OfDay

-----------------------------------------------------------------------------
(* Types.                                                                   *)

(* The times and the days are natural numbers.                              *)
LEMMA DaysAreNatural == 0 \in Days /\ Days \subseteq Nat /\ Times \cup {0} = 0..MaxTime
<1>1. MaxTime \div DayLength \in Nat
  BY BoundsAreNatural
<1> QED
  BY <1>1, BoundsAreNatural DEF Days, DayOf, Times

(* The latest time of the callers is the time of one of them.               *)
LEMMA LatestMember ==
    ASSUME NEW f \in [Callers -> CallerRow], Callers # {}, NEW w, w = Max({f[c].last : c \in Callers})
    PROVE  /\ w \in 0..MaxTime
           /\ \E c \in Callers : w = f[c].last
           /\ \A c \in Callers : f[c].last <= w
<1> DEFINE S == {f[c].last : c \in Callers}
<1>1. S \in SUBSET (0..MaxTime) /\ S # {}
  BY DaysAreNatural DEF CallerRow
<1>2. MaxTime \in Nat
  BY BoundsAreNatural
<1>3. Max(S) \in S /\ \A y \in S : Max(S) >= y
  <2> HIDE DEF S
  <2> QED
    BY <1>1, <1>2, MaxMember
<1>4. \A c \in Callers : f[c].last \in 0..MaxTime
  BY <1>1
<1> QED
  BY <1>1, <1>3, <1>4, BoundsAreNatural

(* The watermark is the time of a caller, and none is ahead of it.          *)
LEMMA WatermarkMember ==
    ASSUME CallerTypes, Callers # {}
    PROVE  /\ Watermark \in 0..MaxTime
           /\ \E c \in Callers : Watermark = callers[c].last
           /\ \A c \in Callers : callers[c].last <= Watermark
BY LatestMember DEF CallerTypes, Watermark

(* The same after a step.                                                   *)
LEMMA WatermarkMemberAfter ==
    ASSUME CallerTypes', Callers # {}
    PROVE  /\ Watermark' \in 0..MaxTime
           /\ \E c \in Callers : Watermark' = callers'[c].last
           /\ \A c \in Callers : callers'[c].last <= Watermark'
BY LatestMember DEF CallerTypes, Watermark

(* A stored invocation has a caller and a time.                             *)
LEMMA StoredTyped ==
    ASSUME CallerTypes
    PROVE  /\ Stored \subseteq Invocations
           /\ \A i \in Stored : /\ invocations[i].at \in Times
                                /\ invocations[i].caller \in Callers
BY DEF CallerTypes, Stored, Invocation, NotStored

(* What a caller has last after a batch: what it had, or the time of an     *)
(* invocation of the batch, and nothing of the two is later.                *)
LEMMA MarkedLast ==
    ASSUME CallerTypes, NEW s \in Sweepers, MarkSeenBatch(s), NEW c \in Callers
    PROVE  /\ callers'[c].last \in 0..MaxTime
           /\ callers'[c].last >= callers[c].last
           /\ \A i \in OfCaller(c, sweep[s].batch) : callers'[c].last >= invocations[i].at
           /\ \/ callers'[c].last = callers[c].last
              \/ \E i \in OfCaller(c, sweep[s].batch) : callers'[c].last = invocations[i].at
           /\ callers'[c].counted = callers[c].counted \cup OfCaller(c, sweep[s].batch)
<1> DEFINE B == OfCaller(c, sweep[s].batch)
           S == {callers[c].last} \cup {invocations[i].at : i \in B}
<1>1. callers'[c].last = Max(S) /\ callers'[c].counted = callers[c].counted \cup B
  BY DEF MarkSeenBatch
<1>2. callers[c].last \in 0..MaxTime /\ \A i \in B : invocations[i].at \in 0..MaxTime
  <2>1. B \subseteq Stored
    BY DEF CallerTypes, OfCaller
  <2>2. \A i \in Stored : invocations[i].at \in 0..MaxTime
    BY StoredTyped, DaysAreNatural
  <2>3. callers[c].last \in 0..MaxTime
    BY DaysAreNatural DEF CallerTypes, CallerRow
  <2> QED
    BY <2>1, <2>2, <2>3
<1>3. S \in SUBSET (0..MaxTime) /\ S # {}
  BY <1>2
<1>4. Max(S) \in S /\ \A y \in S : Max(S) >= y
  <2> HIDE DEF S
  <2>1. MaxTime \in Nat
    BY BoundsAreNatural
  <2> QED
    BY <1>3, <2>1, MaxMember
<1> QED
  BY <1>1, <1>2, <1>3, <1>4

(* The sweeps that the steps make.                                          *)
LEMMA SweepBegun ==
    ASSUME NEW w \in 0..MaxTime
    PROVE  LET t == [IdleSweep EXCEPT !.pc = "read", !.since = w]
           IN  t \in Sweep /\ t.pc = "read" /\ t.since = w /\ t.batch = {}
<1>1. IdleSweep \in Sweep /\ IdleSweep.batch = {}
  BY DEF IdleSweep, Sweep
<1> QED
  BY <1>1, DaysAreNatural DEF Sweep

(* The fields of a sweep that has read its batch.                           *)
LEMMA SweepRead ==
    ASSUME NEW t \in Sweep, NEW batch \in SUBSET Invocations
    PROVE  LET u == [t EXCEPT !.pc = "mark", !.batch = batch]
           IN  u \in Sweep /\ u.pc = "mark" /\ u.since = t.since /\ u.batch = batch
BY DEF Sweep

(* Every step keeps the types of what concerns the callers.                 *)
LEMMA CallerTypesInit == Init => CallerTypes
BY DEF Init, CallerTypes, NotStored, CallerRow, Sweep, IdleSweep, Stored, OfCaller

(* Reports and sweeps keep the types of the callers, and what a sweep holds *)
(* is stored.                                                               *)
LEMMA CallerTypesStep ==
    ASSUME CallerTypes, CallerStep \/ MetricsStep \/ UNCHANGED vars
    PROVE  CallerTypes'
<1>stays. Stored \subseteq Stored' /\ \A j \in Stored : invocations'[j] = invocations[j]
  BY StoredStays DEF CallerTypes
<1>callers. \A c \in Callers : OfCaller(c, Stored) \subseteq OfCaller(c, Stored)'
  BY <1>stays DEF OfCaller
<1>1. CASE MetricsStep \/ UNCHANGED vars
  BY <1>1, MetricsFrame DEF vars, callerVars, CallerTypes, Stored, OfCaller
<1>2. ASSUME NEW i \in Invocations, NEW c \in Callers, NEW at \in Times, InsertInvocation(i, c, at)
      PROVE  CallerTypes'
  <2>1. (invocations \in [Invocations -> Invocation \cup {NotStored}])'
    <3>1. [at |-> at, caller |-> c] \in Invocation
      BY DEF Invocation
    <3> QED
      BY <1>2, <3>1 DEF InsertInvocation, CallerTypes
  <2>2. late' \subseteq Invocations
    BY <1>2 DEF InsertInvocation, CallerTypes
  <2>3. UNCHANGED <<callers, sweep>>
    BY <1>2 DEF InsertInvocation, callerVars
  <2> QED
    BY <2>1, <2>2, <2>3, <1>stays, <1>callers DEF CallerTypes
<1>3. ASSUME NEW s \in Sweepers, SweepStep(s) PROVE CallerTypes'
  <2>same. UNCHANGED <<invocations, late>> /\ Stored' = Stored
    BY <1>3 DEF SweepStep, ReadWatermark, ReadInvocations, MarkSeenBatch, SweepFails, Stored
  <2>1. CASE ReadWatermark(s)
    <3>1. Watermark \in 0..MaxTime
      <4>1. Callers # {}
        BY <2>1, StoredTyped DEF ReadWatermark
      <4> QED
        BY <4>1, WatermarkMember
    <3> DEFINE t == [IdleSweep EXCEPT !.pc = "read", !.since = Watermark]
    <3>2. sweep' = [sweep EXCEPT ![s] = t]
      BY <2>1 DEF ReadWatermark
    <3>3. t \in Sweep /\ t.batch = {}
      BY <3>1, SweepBegun
    <3> HIDE DEF t
    <3>4. (sweep \in [Sweepers -> Sweep])' /\ \A q \in Sweepers : sweep'[q].batch \subseteq Stored
      BY <3>2, <3>3 DEF CallerTypes
    <3> QED
      BY <2>1, <3>4, <2>same DEF ReadWatermark, CallerTypes, OfCaller
  <2>2. CASE ReadInvocations(s)
    <3>1. Since(sweep[s].since) \subseteq Stored /\ Stored \subseteq Invocations
      BY DEF Since, Stored
    <3> DEFINE t == [sweep[s] EXCEPT !.pc = "mark", !.batch = Since(sweep[s].since)]
    <3>2. sweep' = [sweep EXCEPT ![s] = t]
      BY <2>2 DEF ReadInvocations
    <3>3. t \in Sweep /\ t.batch \subseteq Stored
      <4>1. sweep[s] \in Sweep
        BY DEF CallerTypes
      <4> DEFINE batch == Since(sweep[s].since)
      <4>2. batch \in SUBSET Invocations
        BY <3>1
      <4> HIDE DEF batch
      <4>3. t \in Sweep /\ t.batch = batch
        BY <4>1, <4>2, SweepRead DEF batch
      <4> QED
        BY <4>3, <3>1 DEF batch
    <3> HIDE DEF t
    <3>4. (sweep \in [Sweepers -> Sweep])' /\ \A q \in Sweepers : sweep'[q].batch \subseteq Stored
      BY <3>2, <3>3 DEF CallerTypes
    <3> QED
      BY <2>2, <3>4, <2>same DEF ReadInvocations, CallerTypes, OfCaller
  <2>3. CASE MarkSeenBatch(s)
    <3>1. \A c \in Callers : callers'[c].last \in 0..MaxTime
      BY <2>3, MarkedLast
    <3>2. \A c \in Callers : callers'[c].counted \subseteq OfCaller(c, Stored)
      BY <2>3, MarkedLast DEF CallerTypes, OfCaller
    <3>3. callers' \in [Callers -> CallerRow]
      <4>1. callers' = [c \in Callers |-> [last |-> callers'[c].last, counted |-> callers'[c].counted]]
        BY <2>3 DEF MarkSeenBatch
      <4>2. \A c \in Callers : [last |-> callers'[c].last, counted |-> callers'[c].counted] \in CallerRow
        BY <3>1, <3>2, DaysAreNatural DEF CallerRow, OfCaller, Stored
      <4> QED
        BY <4>1, <4>2
    <3>4. IdleSweep \in Sweep /\ IdleSweep.batch = {}
      BY DEF IdleSweep, Sweep
    <3>5. (sweep \in [Sweepers -> Sweep])' /\ \A q \in Sweepers : sweep'[q].batch \subseteq Stored
      BY <2>3, <3>4 DEF CallerTypes, MarkSeenBatch
    <3> QED
      BY <3>2, <3>3, <3>5, <2>same DEF CallerTypes, OfCaller
  <2>4. CASE SweepFails(s)
    <3>1. IdleSweep \in Sweep /\ IdleSweep.batch = {}
      BY DEF IdleSweep, Sweep
    <3> QED
      BY <2>4, <3>1, <2>same DEF SweepFails, CallerTypes, OfCaller
  <2> QED
    BY <1>3, <2>1, <2>2, <2>3, <2>4 DEF SweepStep
<1> QED
  BY <1>1, <1>2, <1>3 DEF CallerStep

-----------------------------------------------------------------------------
(* What each step makes of the tick of its replica.                         *)

(* The tick of r becomes t, and no other changes.                           *)
Becomes(r, t) ==
    /\ tick' \in [Replicas -> Tick]
    /\ tick'[r] = t /\ t \in Tick
    /\ \A q \in Replicas \ {r} : tick'[q] = tick[q]

(* An update of one entry of tick is such a change.                         *)
LEMMA BecomesThat ==
    ASSUME MetricsTypes, NEW r \in Replicas, NEW t \in Tick, tick' = [tick EXCEPT ![r] = t]
    PROVE  Becomes(r, t)
BY DEF MetricsTypes, Becomes

(* The fields of a replica without a rollup.                                *)
LEMMA IdleTyped ==
    /\ IdleTick \in Tick /\ IdleTick.pc = "idle" /\ IdleTick.counted = {}
    /\ IdleTick.day = 0 /\ IdleTick.missing = {}
BY DaysAreNatural DEF IdleTick, Tick

(* What the types say of the tick of one replica.                           *)
LEMMA OwnTick ==
    ASSUME MetricsTypes, NEW r \in Replicas
    PROVE  /\ TickTyped(tick[r]) /\ tick[r] \in Tick /\ tick[r].day \in Days
           /\ tick[r].missing \subseteq Days
           /\ tick[r].counted \subseteq Invocations
BY DEF MetricsTypes, Tick

(* A rollup that ends.                                                      *)
LEMMA Ended == ASSUME MetricsTypes, NEW r \in Replicas, EndTick(r)
               PROVE  Becomes(r, IdleTick)
BY IdleTyped, BecomesThat DEF EndTick

(* A rollup that begins.                                                    *)
LEMMA Begun ==
    ASSUME MetricsTypes, NEW r \in Replicas, BeginTick(r)
    PROVE  \E t : /\ Becomes(r, t)
                  /\ t.pc = (IF backfilled[r] THEN "count" ELSE "missing")
                  /\ t.day = today /\ t.missing = {} /\ t.counted = {}
<1> DEFINE pc == IF backfilled[r] THEN "count" ELSE "missing"
           t  == [IdleTick EXCEPT !.pc = pc, !.day = today]
<1>1. pc \in {"count", "missing"}
  OBVIOUS
<1>2. tick' = [tick EXCEPT ![r] = t]
  BY DEF BeginTick
<1>3. today \in Days
  BY DEF MetricsTypes, FlagsTyped
<1> HIDE DEF pc
<1>4. t \in Tick /\ t.pc = pc /\ t.day = today /\ t.missing = {} /\ t.counted = {}
  BY <1>1, <1>3, IdleTyped DEF Tick
<1> HIDE DEF t
<1>5. Becomes(r, t)
  BY <1>2, <1>4, BecomesThat
<1> QED
  BY <1>4, <1>5 DEF pc

(* A rollup that has looked for the missing days.                           *)
LEMMA MissingRead ==
    ASSUME MetricsTypes, NEW r \in Replicas, MissingDays(r)
    PROVE  \E t : /\ Becomes(r, t)
                  /\ t.pc = (IF Missing(tick[r].day) = {} THEN "count" ELSE "buckets")
                  /\ t.day = tick[r].day /\ t.missing = Missing(tick[r].day)
                  /\ t.counted = tick[r].counted
<1> DEFINE missing == Missing(tick[r].day)
           pc == IF missing = {} THEN "count" ELSE "buckets"
           t  == [tick[r] EXCEPT !.pc = pc, !.missing = missing]
<1>1. pc \in {"count", "buckets"} /\ missing \in SUBSET Days
  BY DEF Missing
<1>2. tick' = [tick EXCEPT ![r] = t]
  BY DEF MissingDays
<1> HIDE DEF pc, missing
<1>4. t \in Tick /\ t.pc = pc /\ t.day = tick[r].day /\ t.missing = missing
      /\ t.counted = tick[r].counted
  BY <1>1, OwnTick DEF Tick
<1> HIDE DEF t
<1>5. Becomes(r, t)
  BY <1>2, <1>4, BecomesThat
<1> QED
  BY <1>4, <1>5 DEF pc, missing

(* A rollup that has counted the invocations of the days before its own.    *)
LEMMA BucketsRead ==
    ASSUME MetricsTypes, NEW r \in Replicas, BackfillBuckets(r)
    PROVE  \E t : /\ Becomes(r, t)
                  /\ t.pc = "fill" /\ t.day = tick[r].day /\ t.missing = tick[r].missing
                  /\ t.counted = {i \in Stored : DayOf(invocations[i].at) < tick[r].day}
<1> DEFINE counted == {i \in Stored : DayOf(invocations[i].at) < tick[r].day}
           t == [tick[r] EXCEPT !.pc = "fill", !.counted = counted]
<1>1. counted \in SUBSET Invocations
  BY DEF Stored
<1>2. tick' = [tick EXCEPT ![r] = t]
  BY DEF BackfillBuckets
<1> HIDE DEF counted
<1>4. t \in Tick /\ t.pc = "fill" /\ t.day = tick[r].day /\ t.missing = tick[r].missing
      /\ t.counted = counted
  BY <1>1, OwnTick DEF Tick
<1> HIDE DEF t
<1>5. Becomes(r, t)
  BY <1>2, <1>4, BecomesThat
<1> QED
  BY <1>4, <1>5 DEF counted

(* A rollup that has filled the first of the missing days.                  *)
LEMMA DayFilled ==
    ASSUME MetricsTypes, NEW r \in Replicas, BackfillDay(r)
    PROVE  \E t, d :
             /\ Becomes(r, t)
             /\ d \in tick[r].missing /\ d \in Days
             /\ t.missing = tick[r].missing \ {d}
             /\ t.pc = (IF t.missing = {} THEN "count" ELSE "fill") /\ t.day = tick[r].day
             /\ t.counted \subseteq tick[r].counted
             /\ rows' = [rows EXCEPT ![d] = [present |-> TRUE, counted |-> Bucket(r, d)]]
<1> DEFINE d == Min(tick[r].missing)
           rest == tick[r].missing \ {d}
           pc == IF rest = {} THEN "count" ELSE "fill"
           counted == IF rest = {} THEN {} ELSE tick[r].counted
           t == [tick[r] EXCEPT !.missing = rest, !.pc = pc, !.counted = counted]
<1>own. tick[r].missing # {} /\ tick[r].missing \in SUBSET Days
        /\ tick[r].counted \in SUBSET Invocations /\ tick[r] \in Tick
  BY OwnTick DEF BackfillDay, TickTyped
<1>1. d \in tick[r].missing /\ d \in Days
  BY <1>own, MinMember, DaysAreNatural
<1>2. tick' = [tick EXCEPT ![r] = t]
      /\ rows' = [rows EXCEPT ![d] = [present |-> TRUE, counted |-> Bucket(r, d)]]
  BY DEF BackfillDay, UpsertDaily
<1>3. rest \in SUBSET Days /\ pc \in {"count", "fill"} /\ counted \in SUBSET Invocations
      /\ counted \subseteq tick[r].counted
  BY <1>own
<1>def. pc = (IF rest = {} THEN "count" ELSE "fill") /\ rest = tick[r].missing \ {d}
  OBVIOUS
<1> HIDE DEF d, rest, pc, counted
<1>4. t \in Tick /\ t.pc = pc /\ t.day = tick[r].day /\ t.missing = rest /\ t.counted = counted
  BY <1>3, <1>own DEF Tick
<1> HIDE DEF t
<1>5. Becomes(r, t)
  BY <1>2, <1>4, BecomesThat
<1> QED
  BY <1>1, <1>2, <1>3, <1>def, <1>4, <1>5

(* A rollup whose backfill has failed.                                      *)
LEMMA BackfillGivenUp ==
    ASSUME MetricsTypes, NEW r \in Replicas, BackfillFails(r)
    PROVE  \E t : /\ Becomes(r, t)
                  /\ t.pc = "count" /\ t.day = tick[r].day /\ t.missing = {} /\ t.counted = {}
<1> DEFINE t == [IdleTick EXCEPT !.pc = "count", !.day = tick[r].day]
<1>2. tick' = [tick EXCEPT ![r] = t]
  BY DEF BackfillFails
<1>3. tick[r].day \in Days
  BY OwnTick
<1>4. t \in Tick /\ t.pc = "count" /\ t.day = tick[r].day /\ t.missing = {} /\ t.counted = {}
  BY <1>3, IdleTyped DEF Tick
<1> HIDE DEF t
<1>5. Becomes(r, t)
  BY <1>2, <1>4, BecomesThat
<1> QED
  BY <1>4, <1>5

(* A rollup that has counted the invocations of its day.                    *)
LEMMA Counted ==
    ASSUME MetricsTypes, NEW r \in Replicas, CountInvocations(r)
    PROVE  \E t : /\ Becomes(r, t)
                  /\ t.pc = "upsert" /\ t.day = tick[r].day
                  /\ t.counted = OfDay(tick[r].day)
<1> DEFINE counted == OfDay(tick[r].day)
           t == [tick[r] EXCEPT !.pc = "upsert", !.counted = counted]
<1>1. counted \in SUBSET Invocations
  BY DEF OfDay, Stored
<1>2. tick' = [tick EXCEPT ![r] = t]
  BY DEF CountInvocations
<1> HIDE DEF counted
<1>4. t \in Tick /\ t.pc = "upsert" /\ t.day = tick[r].day /\ t.counted = counted
  BY <1>1, OwnTick DEF Tick
<1> HIDE DEF t
<1>5. Becomes(r, t)
  BY <1>2, <1>4, BecomesThat
<1> QED
  BY <1>4, <1>5 DEF counted

-----------------------------------------------------------------------------
(* Initially no replica runs and no day has a row.                          *)
LEMMA MetricsTypesInit == Init => MetricsTypes
<1> SUFFICES ASSUME Init PROVE MetricsTypes
  OBVIOUS
<1>1. TickTyped(IdleTick)
  BY IdleTyped DEF TickTyped
<1>2. tick = [r \in Replicas |-> IdleTick] /\ today = 0 /\ rolled = FALSE
      /\ rows = [d \in Days |-> NoRow]
      /\ running = [r \in Replicas |-> FALSE] /\ backfilled = [r \in Replicas |-> FALSE]
      /\ lock = None /\ overlapped = FALSE /\ gaps = {} /\ faults = 0
  BY DEF Init
<1>3. NoRow \in DailyRow /\ NoRow.counted = {}
  BY DEF NoRow, DailyRow
<1>4. \A r \in Replicas : TickTyped(tick[r]) /\ tick[r] \in Tick
  BY <1>1, <1>2, IdleTyped
<1>5. \A d \in Days : rows[d] \in DailyRow /\ rows[d].counted \subseteq OfDay(d)
  BY <1>2, <1>3
<1>6. tick \in [Replicas -> Tick] /\ rows \in [Days -> DailyRow]
  BY <1>2, <1>3, IdleTyped
<1>7. running \in [Replicas -> BOOLEAN] /\ backfilled \in [Replicas -> BOOLEAN]
  BY <1>2
<1>8. rolled \in BOOLEAN /\ overlapped \in BOOLEAN
  BY DEF Init
<1>9. today \in Days /\ lock \in Replicas \cup {None} /\ gaps \subseteq Days
      /\ faults \in 0..MaxFaults
  BY DaysAreNatural, BoundsAreNatural DEF Init
<1>10. FlagsTyped
  BY <1>7, <1>8, <1>9 DEF FlagsTyped
<1> QED
  BY <1>4, <1>5, <1>6, <1>10 DEF MetricsTypes

(* A step of the metrics keeps the types if it keeps those of its tick.     *)
LEMMA TicksTyped ==
    ASSUME MetricsTypes, UNCHANGED invocations, NEW r \in Replicas, NEW t, Becomes(r, t), TickTyped(t)
    PROVE  (tick \in [Replicas -> Tick])' /\ (\A q \in Replicas : TickTyped(tick[q]))'
BY DEF MetricsTypes, TickTyped, Becomes, Stored, OfDay

(* What a rollup reads is stored and, before the upsert, of its day.        *)
LEMMA TickTypedStep ==
    ASSUME MetricsTypes, UNCHANGED invocations, NEW r \in Replicas, RollupStep(r)
    PROVE  (tick \in [Replicas -> Tick])' /\ (\A q \in Replicas : TickTyped(tick[q]))'
<1> DEFINE G == (tick \in [Replicas -> Tick])' /\ (\A q \in Replicas : TickTyped(tick[q]))'
<1>own. TickTyped(tick[r])
  BY OwnTick
<1>1. CASE BeginTick(r)
  <2>1. PICK t : /\ Becomes(r, t) /\ t.pc = (IF backfilled[r] THEN "count" ELSE "missing")
                 /\ t.counted = {}
    BY <1>1, Begun
  <2>2. TickTyped(t)
    BY <2>1 DEF TickTyped, Becomes
  <2> QED
    BY <2>1, <2>2, TicksTyped
<1>2. CASE ListOrgsFails(r)
  BY <1>2 DEF ListOrgsFails, MetricsTypes, TickTyped, Stored, OfDay
<1>3. CASE MissingDays(r)
  <2>1. PICK t : /\ Becomes(r, t)
                 /\ t.pc = (IF Missing(tick[r].day) = {} THEN "count" ELSE "buckets")
                 /\ t.missing = Missing(tick[r].day) /\ t.counted = tick[r].counted
    BY <1>3, MissingRead
  <2>2. TickTyped(t)
    BY <2>1, <1>own DEF TickTyped, Becomes
  <2> QED
    BY <2>1, <2>2, TicksTyped
<1>4. CASE BackfillBuckets(r)
  <2>1. PICK t : /\ Becomes(r, t) /\ t.pc = "fill" /\ t.missing = tick[r].missing
                 /\ t.counted = {i \in Stored : DayOf(invocations[i].at) < tick[r].day}
    BY <1>4, BucketsRead
  <2>2. TickTyped(t)
    BY <2>1, <1>4, <1>own DEF TickTyped, Becomes, BackfillBuckets
  <2> QED
    BY <2>1, <2>2, TicksTyped
<1>5. CASE BackfillDay(r)
  <2>1. PICK t : /\ Becomes(r, t) /\ t.pc = (IF t.missing = {} THEN "count" ELSE "fill")
                 /\ t.counted \subseteq tick[r].counted
    BY <1>5, DayFilled
  <2>2. TickTyped(t)
    BY <2>1, <1>own DEF TickTyped, Becomes
  <2> QED
    BY <2>1, <2>2, TicksTyped
<1>6. CASE BackfillFails(r)
  <2>1. PICK t : Becomes(r, t) /\ t.pc = "count" /\ t.counted = {}
    BY <1>6, BackfillGivenUp
  <2>2. TickTyped(t)
    BY <2>1 DEF TickTyped, Becomes
  <2> QED
    BY <2>1, <2>2, TicksTyped
<1>7. CASE CountInvocations(r)
  <2>1. PICK t : /\ Becomes(r, t) /\ t.pc = "upsert" /\ t.day = tick[r].day
                 /\ t.counted = OfDay(tick[r].day)
    BY <1>7, Counted
  <2>2. TickTyped(t)
    BY <2>1 DEF TickTyped, Becomes, OfDay
  <2> QED
    BY <2>1, <2>2, TicksTyped
<1>8. CASE RollupToday(r) \/ RollupFails(r)
  <2>1. TickTyped(IdleTick) /\ Becomes(r, IdleTick)
    BY <1>8, Ended, IdleTyped DEF TickTyped, RollupToday, RollupFails
  <2> QED
    BY <2>1, TicksTyped
<1> QED
  BY <1>1, <1>2, <1>3, <1>4, <1>5, <1>6, <1>7, <1>8 DEF RollupStep

(* A row that a rollup writes counts invocations of its day.                *)
LEMMA RowsTypedStep ==
    ASSUME MetricsTypes, UNCHANGED invocations, NEW r \in Replicas, RollupStep(r)
    PROVE  rows' \in [Days -> DailyRow] /\ (\A d \in Days : rows[d].counted \subseteq OfDay(d))'
<1>1. CASE BackfillDay(r)
  <2>1. PICK d : /\ d \in Days
                 /\ rows' = [rows EXCEPT ![d] = [present |-> TRUE, counted |-> Bucket(r, d)]]
    BY <1>1, DayFilled
  <2>2. Bucket(r, d) \subseteq OfDay(d) /\ Bucket(r, d) \subseteq Invocations
    BY OwnTick DEF Bucket, OfDay, TickTyped
  <2> QED
    BY <2>1, <2>2 DEF MetricsTypes, DailyRow, OfDay, Stored
<1>2. CASE RollupToday(r)
  <2>1. rows' = [rows EXCEPT ![tick[r].day] = [present |-> TRUE, counted |-> tick[r].counted]]
    BY <1>2 DEF RollupToday, UpsertDaily
  <2>2. tick[r].counted \subseteq OfDay(tick[r].day) /\ tick[r].counted \subseteq Invocations
        /\ tick[r].day \in Days
    BY <1>2, OwnTick DEF RollupToday, TickTyped
  <2> QED
    BY <2>1, <2>2 DEF MetricsTypes, DailyRow, OfDay, Stored
<1>3. CASE ~(BackfillDay(r) \/ RollupToday(r))
  <2>1. rows' = rows
    BY <1>3 DEF RollupStep, BeginTick, ListOrgsFails, MissingDays, BackfillBuckets, BackfillFails,
                CountInvocations, RollupFails
  <2> QED
    BY <2>1 DEF MetricsTypes, OfDay, Stored
<1> QED
  BY <1>1, <1>2, <1>3

(* The other fields.                                                        *)
LEMMA FlagsTypedStep ==
    ASSUME MetricsTypes, MetricsStep
    PROVE  FlagsTyped'
<1> USE DEF MetricsTypes, FlagsTyped
<1>fault. ASSUME Fault PROVE faults' \in 0..MaxFaults
  BY <1>fault, BoundsAreNatural DEF Fault
<1>1. ASSUME NEW r \in Replicas, BeginTick(r) \/ ListOrgsFails(r) PROVE FlagsTyped'
  BY <1>1, <1>fault DEF BeginTick, ListOrgsFails, TryLock
<1>2. ASSUME NEW r \in Replicas,
             MissingDays(r) \/ BackfillBuckets(r) \/ BackfillDay(r) \/ CountInvocations(r) PROVE FlagsTyped'
  BY <1>2 DEF MissingDays, BackfillBuckets, BackfillDay, CountInvocations
<1>3. ASSUME NEW r \in Replicas, BackfillFails(r) \/ RollupToday(r) \/ RollupFails(r) PROVE FlagsTyped'
  BY <1>3, <1>fault, OwnTick
     DEF BackfillFails, RollupToday, RollupFails, EndTick, Missing
<1>4. ASSUME NEW r \in Replicas, Start(r) \/ Stop(r) PROVE FlagsTyped'
  BY <1>4, <1>fault, OwnTick DEF Start, Stop
<1>5. ASSUME LockLost \/ Midnight PROVE FlagsTyped'
  BY <1>5 DEF LockLost, Midnight
<1> QED
  BY <1>1, <1>2, <1>3, <1>4, <1>5 DEF MetricsStep, RollupStep

(* Every step keeps the types of the metrics.                               *)
LEMMA MetricsTypesStep ==
    ASSUME CallerTypes, MetricsTypes, CallerStep \/ MetricsStep \/ UNCHANGED vars
    PROVE  MetricsTypes'
<1>1. CASE CallerStep
  <2>1. UNCHANGED <<today, rollup, faults>>
    BY <1>1, CallerFrame
  <2>2. \A d \in Days : rows[d].counted \subseteq OfDay(d)'
    BY <1>1, StoredStays DEF MetricsTypes, CallerTypes
  <2>3. \A r \in Replicas : TickTyped(tick[r])'
    <3> SUFFICES ASSUME NEW r \in Replicas PROVE TickTyped(tick[r])'
      OBVIOUS
    <3>1. Stored \subseteq Stored' /\ OfDay(tick[r].day) \subseteq OfDay(tick[r].day)'
      <4>1. tick[r].day \in Days
        BY OwnTick
      <4>2. Stored \subseteq Stored' /\ \A d \in Days : OfDay(d) \subseteq OfDay(d)'
        BY <1>1, StoredStays DEF CallerTypes
      <4>3. tick' = tick
        BY <2>1 DEF rollup
      <4> QED
        BY <4>1, <4>2, <4>3
    <3>2. TickTyped(tick[r]) /\ tick' = tick
      BY <2>1, OwnTick DEF rollup
    <3> QED
      BY <3>1, <3>2 DEF TickTyped
  <2> QED
    BY <2>1, <2>2, <2>3 DEF MetricsTypes, FlagsTyped, rollup
<1>2. CASE MetricsStep
  <2>same. UNCHANGED invocations
    BY <1>2, MetricsFrame
  <2>flags. FlagsTyped'
    BY <1>2, FlagsTypedStep
  <2>1. ASSUME NEW r \in Replicas, RollupStep(r) PROVE MetricsTypes'
    BY <2>1, <2>same, <2>flags, TickTypedStep, RowsTypedStep DEF MetricsTypes
  <2>2. ASSUME NEW r \in Replicas, Start(r) PROVE MetricsTypes'
    <3>1. UNCHANGED <<rows, tick>>
      BY <2>2 DEF Start
    <3> QED
      BY <3>1, <2>same, <2>flags DEF MetricsTypes, TickTyped, Stored, OfDay
  <2>3. ASSUME NEW r \in Replicas, Stop(r) PROVE MetricsTypes'
    <3>1. rows' = rows /\ tick' = [tick EXCEPT ![r] = IdleTick]
      BY <2>3 DEF Stop
    <3>2. Becomes(r, IdleTick) /\ TickTyped(IdleTick)
      BY <3>1, IdleTyped, BecomesThat DEF TickTyped
    <3>3. (tick \in [Replicas -> Tick])' /\ (\A q \in Replicas : TickTyped(tick[q]))'
      BY <3>2, <2>same, TicksTyped
    <3> QED
      BY <3>1, <3>3, <2>same, <2>flags DEF MetricsTypes, Stored, OfDay
  <2>4. ASSUME LockLost \/ Midnight PROVE MetricsTypes'
    <3>1. UNCHANGED <<rows, tick>>
      BY <2>4 DEF LockLost, Midnight
    <3> QED
      BY <3>1, <2>same, <2>flags DEF MetricsTypes, TickTyped, Stored, OfDay
  <2> QED
    BY <1>2, <2>1, <2>2, <2>3, <2>4 DEF MetricsStep
<1>3. CASE UNCHANGED vars
  BY <1>3 DEF vars, rollup, MetricsTypes, FlagsTyped, TickTyped, Stored, OfDay
<1> QED
  BY <1>1, <1>2, <1>3

(* Every reachable state has its types, and a number counts invocations of  *)
(* its own day or caller.                                                   *)
LEMMA TypeInvariance == Spec => []TypeInv
<1>1. Init => TypeInv
  BY CallerTypesInit, MetricsTypesInit DEF TypeInv
<1>2. TypeInv /\ [Next]_vars => TypeInv'
  BY Steps, CallerTypesStep, MetricsTypesStep DEF TypeInv
<1> QED
  BY <1>1, <1>2, PTL DEF Spec

(* Every reachable state has its types, and a number counts invocations of  *)
(* its own day or caller, each of them stored.                              *)
THEOREM TypeCorrect == Spec => []TypeOK
<1>1. TypeInv => TypeOK
  BY DEF TypeInv, CallerTypes, MetricsTypes, FlagsTyped, TypeOK
<1> QED
  BY <1>1, TypeInvariance, PTL

-----------------------------------------------------------------------------
(* What is counted for the callers.                                         *)

(* Initially there is nothing to count.                                     *)
LEMMA CountInit == Init => CountInv
<1> SUFFICES ASSUME Init PROVE CountInv
  OBVIOUS
<1>1. Stored = {}
  BY DEF Init, Stored, NotStored
<1>2. \A s \in Sweepers : sweep[s].pc = "idle"
  BY DEF Init, IdleSweep
<1>3. \A c \in Callers : callers[c].last = 0
  BY DEF Init
<1> QED
  BY <1>1, <1>2, <1>3 DEF CountInv, UncountedCameLate, LastIsStored, BatchComplete

(* Nothing of it changes with the metrics.                                  *)
LEMMA CountFrame ==
    ASSUME CountInv, UNCHANGED <<invocations, callers, sweep, late>>
    PROVE  CountInv'
BY DEF CountInv, UncountedCameLate, LastIsStored, BatchComplete, Stored, Watermark

(* One that is stored when the watermark is a buffer or more ahead of it is *)
(* late, and so is one that a batch would have had to hold.                 *)
LEMMA CountInsert ==
    ASSUME CallerTypes, CountInv, NEW i \in Invocations, NEW c \in Callers, NEW at \in Times,
           InsertInvocation(i, c, at)
    PROVE  CountInv'
<1>same. callers' = callers /\ sweep' = sweep /\ Watermark' = Watermark
  BY DEF InsertInvocation, callerVars, Watermark
<1>stays. /\ Stored \subseteq Stored' /\ Stored' = Stored \cup {i} /\ i \notin Stored
          /\ \A j \in Stored : invocations'[j] = invocations[j]
          /\ invocations'[i].at = at
          /\ late \subseteq late'
  <2>1. i \notin Stored /\ invocations' = [invocations EXCEPT ![i] = [at |-> at, caller |-> c]]
    BY DEF InsertInvocation
  <2>2. invocations'[i].at = at /\ at # 0
    BY <2>1, BoundsAreNatural DEF CallerTypes, Times
  <2>3. \A j \in Stored : invocations'[j] = invocations[j]
    BY <2>1 DEF CallerTypes, Stored
  <2>4. \A j \in Invocations : j # i => invocations'[j] = invocations[j]
    BY <2>1 DEF CallerTypes
  <2>5. Stored' = Stored \cup {i}
    BY <2>2, <2>4 DEF Stored
  <2> QED
    BY <2>1, <2>2, <2>3, <2>5 DEF InsertInvocation
<1>late. ASSUME i \notin late', NEW j \in Stored PROVE ~(at + Buffer <= invocations[j].at)
  BY <1>late DEF InsertInvocation
<1>times. \A j \in Stored : invocations[j].at \in Nat
  BY StoredTyped, DaysAreNatural, BoundsAreNatural DEF Times
<1>1. UncountedCameLate'
  <2> SUFFICES ASSUME NEW j \in Stored', j \notin late', invocations'[j].at + Buffer <= Watermark
               PROVE  j \in callers[invocations'[j].caller].counted
    BY <1>same DEF UncountedCameLate
  <2>1. CASE j \in Stored
    BY <2>1, <1>stays DEF CountInv, UncountedCameLate
  <2>2. CASE j = i
    <3>1. PICK b \in Callers : Watermark = callers[b].last
      BY WatermarkMember
    <3>2. Watermark # 0
      BY <2>2, <1>stays, BoundsAreNatural DEF Times
    <3>3. PICK k \in Stored : invocations[k].at = Watermark
      BY <3>1, <3>2 DEF CountInv, LastIsStored
    <3> QED
      BY <3>3, <2>2, <1>stays, <1>late
  <2> QED
    BY <2>1, <2>2, <1>stays
<1>2. LastIsStored'
  BY <1>same, <1>stays DEF CountInv, LastIsStored
<1>3. ASSUME NEW s \in Sweepers PROVE BatchComplete(s)'
  <2>1. sweep[s].batch \subseteq Stored
    BY DEF CallerTypes
  <2>2. BatchComplete(s)
    BY DEF CountInv
  <2>3. ASSUME sweep[s].pc = "mark", NEW j \in sweep[s].batch, NEW k \in Stored' \ late',
               invocations'[k].at + Buffer <= invocations'[j].at,
               invocations'[k].at + Buffer > sweep[s].since
        PROVE  k \in sweep[s].batch
    <3>1. invocations'[j] = invocations[j] /\ j \in Stored
      BY <2>1, <1>stays
    <3>2. CASE k \in Stored
      BY <3>1, <3>2, <2>2, <2>3, <1>stays DEF BatchComplete
    <3>3. CASE k = i
      BY <3>1, <3>3, <2>3, <1>late, <1>stays
    <3> QED
      BY <3>2, <3>3, <1>stays
  <2> QED
    BY <2>2, <2>3, <1>same DEF BatchComplete
<1> QED
  BY <1>1, <1>2, <1>3 DEF CountInv

(* A sweep that begins or reads has what its batch has to hold.             *)
LEMMA CountRead ==
    ASSUME CallerTypes, CountInv, NEW s \in Sweepers,
           ReadWatermark(s) \/ ReadInvocations(s) \/ SweepFails(s)
    PROVE  CountInv'
<1>same. /\ UNCHANGED <<invocations, callers, late>>
         /\ Stored' = Stored /\ Watermark' = Watermark
  BY DEF ReadWatermark, ReadInvocations, SweepFails, Stored, Watermark
<1>others. \A q \in Sweepers \ {s} : sweep'[q] = sweep[q]
  BY DEF CallerTypes, ReadWatermark, ReadInvocations, SweepFails
<1>1. BatchComplete(s)'
  <2>1. CASE ReadWatermark(s)
    <3>1. Callers # {}
      BY <2>1, StoredTyped DEF ReadWatermark
    <3>2. Watermark \in 0..MaxTime
      BY <3>1, WatermarkMember
    <3> DEFINE t == [IdleSweep EXCEPT !.pc = "read", !.since = Watermark]
    <3>3. sweep'[s] = t
      BY <2>1 DEF ReadWatermark, CallerTypes
    <3>4. t.pc = "read" /\ t.since = Watermark
      BY <3>2, SweepBegun
    <3> QED
      BY <3>2, <3>3, <3>4, <1>same, BoundsAreNatural DEF BatchComplete
  <2>2. CASE ReadInvocations(s)
    <3> DEFINE batch == Since(sweep[s].since)
               t == [sweep[s] EXCEPT !.pc = "mark", !.batch = batch]
    <3>1. sweep'[s] = t
      BY <2>2 DEF ReadInvocations, CallerTypes
    <3>2. sweep[s] \in Sweep /\ batch \in SUBSET Invocations
      BY DEF CallerTypes, Since, Stored
    <3> HIDE DEF batch
    <3>3. t.pc = "mark" /\ t.since = sweep[s].since /\ t.batch = batch
      BY <3>2, SweepRead
    <3>4. sweep[s].since <= Watermark
      BY <2>2 DEF ReadInvocations, CountInv, BatchComplete
    <3> HIDE DEF t
    <3>5. \A k \in Stored : invocations[k].at + Buffer > sweep[s].since => k \in batch
      BY DEF batch, Since
    <3> QED
      BY <3>1, <3>3, <3>4, <3>5, <1>same DEF BatchComplete
  <2>3. CASE SweepFails(s)
    <3>1. sweep'[s].pc = "idle"
      BY <2>3 DEF SweepFails, CallerTypes, IdleSweep
    <3> QED
      BY <3>1 DEF BatchComplete
  <2> QED
    BY <2>1, <2>2, <2>3
<1>2. \A q \in Sweepers \ {s} : BatchComplete(q)'
  BY <1>same, <1>others DEF CountInv, BatchComplete
<1> QED
  BY <1>1, <1>2, <1>same DEF CountInv, UncountedCameLate, LastIsStored

(* The watermark advances to an invocation of the batch, and all that lies  *)
(* a buffer before that one is in the batch or was counted before.          *)
LEMMA CountMark ==
    ASSUME CallerTypes, CountInv, NEW s \in Sweepers, MarkSeenBatch(s)
    PROVE  CountInv'
<1> DEFINE batch == sweep[s].batch
<1>pc. sweep[s].pc = "mark"
  BY DEF MarkSeenBatch
<1>same. UNCHANGED <<invocations, late>> /\ Stored' = Stored
  BY DEF MarkSeenBatch, Stored
<1>sweep. /\ \A q \in Sweepers \ {s} : sweep'[q] = sweep[q]
          /\ sweep'[s].pc = "idle"
  BY DEF MarkSeenBatch, CallerTypes, IdleSweep
<1>after. CallerTypes'
  BY CallerTypesStep DEF CallerStep, SweepStep
<1>batch. batch \subseteq Stored
  BY DEF CallerTypes
<1>times. \A j \in Stored : invocations[j].at \in Nat /\ invocations[j].caller \in Callers
  BY StoredTyped, DaysAreNatural, BoundsAreNatural DEF Times
<1>marked. \A c \in Callers :
      /\ callers[c].last <= callers'[c].last
      /\ \/ callers'[c].last = callers[c].last
         \/ \E i \in OfCaller(c, batch) : callers'[c].last = invocations[i].at
      /\ callers'[c].counted = callers[c].counted \cup OfCaller(c, batch)
  <2> SUFFICES ASSUME NEW c \in Callers
               PROVE  /\ callers[c].last <= callers'[c].last
                      /\ \/ callers'[c].last = callers[c].last
                         \/ \E i \in OfCaller(c, batch) : callers'[c].last = invocations[i].at
                      /\ callers'[c].counted = callers[c].counted \cup OfCaller(c, batch)
    OBVIOUS
  <2>1. callers'[c].last \in 0..MaxTime /\ callers'[c].last >= callers[c].last
    BY MarkedLast
  <2>2. callers[c].last \in 0..MaxTime
    BY DaysAreNatural DEF CallerTypes, CallerRow
  <2>3. callers[c].last <= callers'[c].last
    BY <2>1, <2>2, BoundsAreNatural
  <2> QED
    BY <2>3, MarkedLast
<1>grows. Callers # {} => Watermark <= Watermark' /\ Watermark \in Nat /\ Watermark' \in Nat
  <2> SUFFICES ASSUME Callers # {} PROVE Watermark <= Watermark' /\ Watermark \in Nat /\ Watermark' \in Nat
    OBVIOUS
  <2>1. PICK c \in Callers : Watermark = callers[c].last
    BY WatermarkMember
  <2>2. Watermark \in 0..MaxTime
    BY WatermarkMember
  <2>3. Watermark' \in 0..MaxTime /\ \A b \in Callers : callers'[b].last <= Watermark'
    BY <1>after, WatermarkMemberAfter
  <2>4. callers[c].last <= callers'[c].last /\ callers'[c].last <= Watermark'
    BY <2>3, <1>marked
  <2>5. callers'[c].last \in 0..MaxTime
    BY MarkedLast
  <2> QED
    BY <2>1, <2>2, <2>3, <2>4, <2>5, BoundsAreNatural
<1>1. UncountedCameLate'
  <2> SUFFICES ASSUME NEW i \in Stored \ late, invocations[i].at + Buffer <= Watermark'
               PROVE  i \in callers'[invocations[i].caller].counted
    BY <1>same DEF UncountedCameLate
  <2>c. invocations[i].caller \in Callers /\ Callers # {}
    BY <1>times
  <2>1. CASE invocations[i].at + Buffer <= Watermark
    <3>1. i \in callers[invocations[i].caller].counted
      BY <2>1 DEF CountInv, UncountedCameLate
    <3> QED
      BY <3>1, <2>c, <1>marked
  <2>2. CASE ~(invocations[i].at + Buffer <= Watermark)
    <3>1. PICK c \in Callers : Watermark' = callers'[c].last
      BY <2>c, <1>after, WatermarkMemberAfter
    <3>2. callers[c].last <= Watermark
      BY <2>c, WatermarkMember
    <3>3. PICK j \in batch : Watermark' = invocations[j].at
      <4>1. callers'[c].last # callers[c].last
        BY <2>2, <2>c, <3>1, <3>2, <1>times, <1>grows, BoundsAreNatural
      <4> QED
        BY <4>1, <3>1, <1>marked DEF OfCaller
    <3>4. sweep[s].since <= Watermark
      BY <1>pc DEF CountInv, BatchComplete
    <3>5. sweep[s].since \in Nat
      BY DaysAreNatural DEF CallerTypes, Sweep
    <3>6. invocations[i].at + Buffer > sweep[s].since
      BY <2>2, <2>c, <3>4, <3>5, <1>times, <1>grows, BoundsAreNatural
    <3>7. i \in batch
      BY <3>3, <3>6, <1>pc DEF CountInv, BatchComplete
    <3>8. i \in OfCaller(invocations[i].caller, batch)
      BY <3>7 DEF OfCaller
    <3> QED
      BY <3>8, <2>c, <1>marked
  <2> QED
    BY <2>1, <2>2
<1>2. LastIsStored'
  BY <1>same, <1>marked, <1>batch DEF CountInv, LastIsStored, OfCaller
<1>3. ASSUME NEW q \in Sweepers PROVE BatchComplete(q)'
  <2>1. CASE q = s
    BY <2>1, <1>sweep DEF BatchComplete
  <2>2. CASE q # s /\ sweep[q].pc # "idle"
    <3>1. sweep[q].since <= Watermark /\ sweep[q].since \in Nat
      BY <2>2, DaysAreNatural DEF CountInv, BatchComplete, CallerTypes, Sweep
    <3>2. sweep[q].since <= Watermark'
      <4>1. CASE Callers = {}
        BY <3>1, <4>1 DEF Watermark
      <4>2. CASE Callers # {}
        BY <3>1, <4>2, <1>grows
      <4> QED
        BY <4>1, <4>2
    <3> QED
      BY <2>2, <3>2, <1>same, <1>sweep DEF CountInv, BatchComplete
  <2>3. CASE q # s /\ sweep[q].pc = "idle"
    BY <2>3, <1>sweep DEF BatchComplete
  <2> QED
    BY <2>1, <2>2, <2>3
<1> QED
  BY <1>1, <1>2, <1>3 DEF CountInv

(* Every step keeps what is known of the counting.                          *)
LEMMA CountStep ==
    ASSUME TypeInv, CountInv, [Next]_vars
    PROVE  CountInv'
<1> USE DEF TypeInv
<1>1. CASE MetricsStep \/ UNCHANGED vars
  BY <1>1, MetricsFrame, CountFrame DEF vars, callerVars
<1>2. CASE CallerStep
  BY <1>2, CountInsert, CountRead, CountMark DEF CallerStep, SweepStep
<1> QED
  BY <1>1, <1>2, Steps

(* An invocation that is not counted for its caller, a buffer behind the    *)
(* watermark or more, came late: for any number of sweeps that overlap.     *)
THEOREM OnlyLateUncounted == Spec => []UncountedCameLate
<1>1. CountInv => UncountedCameLate
  BY DEF CountInv
<1> QED
  BY <1>1, TypeInvariance, CountInit, CountStep, PTL DEF Spec

-----------------------------------------------------------------------------
(* The days of the chart.                                                   *)

(* Initially no backfill is done and no rollup is under way.                *)
LEMMA GapInit == Init => GapInv
BY IdleTyped DEF Init, GapInv, TickInv

(* A day that is settled stays so.                                          *)
LEMMA SettledStays ==
    ASSUME MetricsTypes, MetricsStep, NEW d \in Days, Settled(d)
    PROVE  Settled(d)'
<1>frame. ASSUME gaps \subseteq gaps', rows[d].present => rows'[d].present,
                 NEW r \in Replicas, \A q \in Replicas \ {r} : tick'[q] = tick[q],
                 \/ tick[r].pc = "idle" \/ tick[r].day # d
                 \/ tick'[r].pc # "idle" /\ tick'[r].day = d
                 \/ rows'[d].present \/ d \in gaps'
          PROVE  Settled(d)'
  BY <1>frame DEF Settled
<1>1. ASSUME NEW r \in Replicas, BeginTick(r) \/ ListOrgsFails(r) PROVE Settled(d)'
  <2>1. tick[r].pc = "idle" /\ gaps \subseteq gaps' /\ rows' = rows
    BY <1>1 DEF BeginTick, ListOrgsFails, TryLock
  <2>2. \A q \in Replicas \ {r} : tick'[q] = tick[q]
    BY <1>1, Begun DEF ListOrgsFails, Becomes
  <2> QED
    BY <2>1, <2>2, <1>frame
<1>2. ASSUME NEW r \in Replicas, MissingDays(r) \/ BackfillBuckets(r) \/ CountInvocations(r)
      PROVE  Settled(d)'
  <2>1. rows' = rows /\ gaps' = gaps
    BY <1>2 DEF MissingDays, BackfillBuckets, CountInvocations
  <2>2. \E t : Becomes(r, t) /\ t.day = tick[r].day /\ t.pc # "idle"
    BY <1>2, MissingRead, BucketsRead, Counted
  <2> QED
    BY <2>1, <2>2, <1>frame DEF Becomes
<1>3. ASSUME NEW r \in Replicas, BackfillDay(r) PROVE Settled(d)'
  <2>1. PICK t, e : /\ Becomes(r, t) /\ t.pc # "idle" /\ t.day = tick[r].day
                    /\ rows' = [rows EXCEPT ![e] = [present |-> TRUE, counted |-> Bucket(r, e)]]
    BY <1>3, DayFilled
  <2>2. rows[d].present => rows'[d].present
    BY <2>1 DEF MetricsTypes, DailyRow
  <2>3. gaps' = gaps
    BY <1>3 DEF BackfillDay
  <2> QED
    BY <2>1, <2>2, <2>3, <1>frame DEF Becomes
<1>4. ASSUME NEW r \in Replicas, BackfillFails(r) PROVE Settled(d)'
  <2>1. PICK t : Becomes(r, t) /\ t.pc # "idle" /\ t.day = tick[r].day
    BY <1>4, BackfillGivenUp
  <2>2. gaps \subseteq gaps' /\ rows' = rows
    BY <1>4 DEF BackfillFails
  <2> QED
    BY <2>1, <2>2, <1>frame DEF Becomes
<1>5. ASSUME NEW r \in Replicas, RollupToday(r) PROVE Settled(d)'
  <2>1. Becomes(r, IdleTick) /\ gaps' = gaps
        /\ rows' = [rows EXCEPT ![tick[r].day] = [present |-> TRUE, counted |-> tick[r].counted]]
    BY <1>5, Ended DEF RollupToday, UpsertDaily
  <2>2. (rows[d].present => rows'[d].present) /\ (tick[r].day = d => rows'[d].present)
    BY <2>1 DEF MetricsTypes, DailyRow
  <2> QED
    BY <2>1, <2>2, <1>frame DEF Becomes
<1>6. ASSUME NEW r \in Replicas, RollupFails(r) PROVE Settled(d)'
  <2>1. Becomes(r, IdleTick) /\ rows' = rows /\ gaps' = gaps \cup {tick[r].day}
    BY <1>6, Ended DEF RollupFails
  <2> QED
    BY <2>1, <1>frame DEF Becomes
<1>7. ASSUME NEW r \in Replicas, Stop(r) PROVE Settled(d)'
  <2>1. Becomes(r, IdleTick)
    BY <1>7, IdleTyped, BecomesThat DEF Stop
  <2>2. /\ rows' = rows /\ gaps \subseteq gaps'
        /\ tick[r].pc # "idle" => tick[r].day \in gaps'
    BY <1>7 DEF Stop
  <2> QED
    BY <2>1, <2>2, <1>frame DEF Becomes
<1>8. ASSUME NEW r \in Replicas, Start(r) PROVE Settled(d)'
  BY <1>8 DEF Start, Settled
<1>9. ASSUME LockLost \/ Midnight PROVE Settled(d)'
  BY <1>9 DEF LockLost, Midnight, Settled
<1> QED
  BY <1>1, <1>2, <1>3, <1>4, <1>5, <1>6, <1>7, <1>8, <1>9 DEF MetricsStep, RollupStep

(* What is known of a replica stays known while others act.                 *)
LEMMA OthersTick ==
    ASSUME MetricsTypes, MetricsStep, NEW q \in Replicas, TickInv(q),
           tick'[q] = tick[q], running'[q] = running[q], backfilled'[q] = backfilled[q],
           today' = today
    PROVE  TickInv(q)'
<1>1. \A d \in Days : Settled(d) => Settled(d)'
  BY SettledStays
<1> QED
  BY <1>1 DEF TickInv, Window

(* A rollup that goes on with its day.                                      *)
LEMMA SameTick ==
    ASSUME MetricsTypes, MetricsStep, NEW r \in Replicas, TickInv(r), NEW t, Becomes(r, t),
           tick[r].pc # "idle", t.pc # "idle", t.day = tick[r].day,
           UNCHANGED <<running, backfilled, today>>,
           t.pc \in {"buckets", "fill"} =>
               \A d \in Window(tick[r].day) : Settled(d)' \/ d \in t.missing,
           t.pc \in {"count", "upsert"} => \A d \in Window(tick[r].day) : Settled(d)'
    PROVE  TickInv(r)'
<1>1. \A d \in Days : Settled(d) => Settled(d)'
  BY SettledStays
<1> QED
  BY <1>1 DEF TickInv, Window, Becomes

(* A rollup that ends leaves its own day settled, and the ones before.      *)
LEMMA TickEnds ==
    ASSUME MetricsTypes, MetricsStep, NEW r \in Replicas, TickInv(r), Becomes(r, IdleTick),
           tick[r].pc \in {"count", "upsert"},
           NEW day, day = tick[r].day, Settled(day)',
           UNCHANGED <<running, today>>
    PROVE  TickInv(r)'
<1>1. \A d \in Days : Settled(d) => Settled(d)'
  BY SettledStays
<1>2. tick[r].day <= today /\ today <= tick[r].day + 1 /\ running[r]
  BY DEF TickInv
<1>3. tick[r].day \in Nat /\ today \in Nat /\ Days \subseteq Nat
  BY OwnTick, DaysAreNatural DEF MetricsTypes, FlagsTyped
<1>4. ASSUME NEW d \in Window(today) PROVE Settled(d)'
  <2>1. CASE d = day
    BY <2>1
  <2>2. CASE d # day
    <3>1. d \in Days /\ d \in Nat /\ d < today /\ d + BackfillDays >= today
      BY <1>3 DEF Window
    <3>2. d < tick[r].day /\ d + BackfillDays >= tick[r].day
      BY <3>1, <2>2, <1>2, <1>3, BoundsAreNatural
    <3>3. d \in Window(tick[r].day)
      BY <3>1, <3>2 DEF Window
    <3> QED
      BY <3>1, <3>3, <1>1 DEF TickInv
  <2> QED
    BY <2>1, <2>2
<1> QED
  BY <1>2, <1>4, IdleTyped DEF TickInv, Becomes, Window

(* What is known of a replica stays known while its own rollup goes on.     *)
LEMMA TickInvStep ==
    ASSUME MetricsTypes, GapInv, NEW r \in Replicas, RollupStep(r)
    PROVE  TickInv(r)'
<1>step. MetricsStep
  BY DEF MetricsStep
<1>inv. TickInv(r)
  BY DEF GapInv
<1>stays. \A d \in Days : Settled(d) => Settled(d)'
  BY <1>step, SettledStays
<1>days. tick[r].day \in Nat /\ today \in Nat /\ Days \subseteq Nat /\ tick[r].day \in Days
  BY OwnTick, DaysAreNatural DEF MetricsTypes, FlagsTyped
<1>window. \A day : Window(day) \subseteq Days
  BY DEF Window
<1>1. CASE BeginTick(r)
  <2>1. PICK t : /\ Becomes(r, t) /\ t.pc = (IF backfilled[r] THEN "count" ELSE "missing")
                 /\ t.day = today
    BY <1>1, Begun
  <2>2. running[r] /\ UNCHANGED <<running, backfilled, today>>
    BY <1>1 DEF BeginTick, TryLock
  <2>3. backfilled[r] => \A d \in Window(today) : Settled(d)'
    BY <1>inv, <1>stays, <1>window DEF TickInv
  <2>4. tick'[r].day = today /\ tick'[r].pc = t.pc
    BY <2>1 DEF Becomes
  <2>5. \A day : Window(day)' = Window(day)
    BY DEF Window
  <2> QED
    BY <2>1, <2>2, <2>3, <2>4, <2>5, <1>days DEF TickInv
<1>2. CASE ListOrgsFails(r)
  <2>1. UNCHANGED <<running, backfilled, tick, today>>
    BY <1>2 DEF ListOrgsFails
  <2> QED
    BY <2>1, <1>inv, <1>step, OthersTick
<1>3. CASE MissingDays(r)
  <2>1. PICK t : /\ Becomes(r, t)
                 /\ t.pc = (IF Missing(tick[r].day) = {} THEN "count" ELSE "buckets")
                 /\ t.day = tick[r].day /\ t.missing = Missing(tick[r].day)
    BY <1>3, MissingRead
  <2>2. UNCHANGED <<running, backfilled, today>> /\ tick[r].pc # "idle"
    BY <1>3 DEF MissingDays
  <2>3. \A d \in Window(tick[r].day) : Settled(d)' \/ d \in Missing(tick[r].day)
    BY <1>stays DEF Window, Missing, Settled
  <2> QED
    BY <2>1, <2>2, <2>3, <1>inv, <1>step, SameTick
<1>4. CASE BackfillBuckets(r) \/ CountInvocations(r)
  <2>1. PICK t : /\ Becomes(r, t) /\ t.day = tick[r].day
                 /\ \/ t.pc = "fill" /\ t.missing = tick[r].missing /\ tick[r].pc = "buckets"
                    \/ t.pc = "upsert" /\ tick[r].pc = "count"
    BY <1>4, BucketsRead, Counted DEF BackfillBuckets, CountInvocations
  <2>2. UNCHANGED <<running, backfilled, today>>
    BY <1>4 DEF BackfillBuckets, CountInvocations
  <2>3. /\ t.pc = "fill" => \A d \in Window(tick[r].day) : Settled(d)' \/ d \in t.missing
        /\ t.pc = "upsert" => \A d \in Window(tick[r].day) : Settled(d)'
    BY <2>1, <1>inv, <1>stays, <1>window DEF TickInv
  <2> QED
    BY <2>1, <2>2, <2>3, <1>inv, <1>step, SameTick
<1>5. CASE BackfillDay(r)
  <2>1. PICK t, d : /\ Becomes(r, t) /\ d \in Days
                    /\ t.missing = tick[r].missing \ {d}
                    /\ t.pc = (IF t.missing = {} THEN "count" ELSE "fill") /\ t.day = tick[r].day
                    /\ rows' = [rows EXCEPT ![d] = [present |-> TRUE, counted |-> Bucket(r, d)]]
    BY <1>5, DayFilled
  <2>2. UNCHANGED <<running, backfilled, today>> /\ tick[r].pc = "fill"
    BY <1>5 DEF BackfillDay
  <2>3. Settled(d)'
    BY <2>1 DEF Settled, MetricsTypes, DailyRow
  <2>4. \A e \in Window(tick[r].day) : Settled(e)' \/ e \in t.missing
    BY <2>1, <2>2, <2>3, <1>inv, <1>stays, <1>window DEF TickInv
  <2> QED
    BY <2>1, <2>2, <2>4, <1>inv, <1>step, SameTick
<1>6. CASE BackfillFails(r)
  <2>1. PICK t : Becomes(r, t) /\ t.pc = "count" /\ t.day = tick[r].day
    BY <1>6, BackfillGivenUp
  <2>2. /\ UNCHANGED <<running, backfilled, today, rows>> /\ tick[r].pc # "idle"
        /\ gaps' = gaps \cup Missing(tick[r].day)
    BY <1>6 DEF BackfillFails
  <2>3. \A d \in Window(tick[r].day) : Settled(d)'
    BY <2>2 DEF Window, Missing, Settled
  <2> QED
    BY <2>1, <2>2, <2>3, <1>inv, <1>step, SameTick
<1>7. CASE RollupToday(r)
  <2> PICK day \in Days : day = tick[r].day
    BY <1>days
  <2>1. Becomes(r, IdleTick) /\ UNCHANGED <<running, today>> /\ tick[r].pc = "upsert"
        /\ rows' = [rows EXCEPT ![day] = [present |-> TRUE, counted |-> tick[r].counted]]
    BY <1>7, Ended DEF RollupToday, UpsertDaily
  <2>2. Settled(day)'
    BY <2>1 DEF Settled, MetricsTypes, DailyRow
  <2> QED
    BY <2>1, <2>2, <1>inv, <1>step, TickEnds
<1>8. CASE RollupFails(r)
  <2> PICK day \in Days : day = tick[r].day
    BY <1>days
  <2>1. Becomes(r, IdleTick) /\ UNCHANGED <<running, today>> /\ tick[r].pc \in {"count", "upsert"}
        /\ gaps' = gaps \cup {day}
    BY <1>8, Ended DEF RollupFails
  <2>2. Settled(day)'
    BY <2>1 DEF Settled
  <2> QED
    BY <2>1, <2>2, <1>inv, <1>step, TickEnds
<1> QED
  BY <1>1, <1>2, <1>3, <1>4, <1>5, <1>6, <1>7, <1>8 DEF RollupStep


(* The steps of the processes and of the day.                               *)
LEMMA ProcessInvStep ==
    ASSUME MetricsTypes, GapInv, NEW r \in Replicas, Start(r) \/ Stop(r)
    PROVE  \A q \in Replicas : TickInv(q)'
<1>step. MetricsStep
  BY DEF MetricsStep
<1>stays. \A d \in Days : Settled(d) => Settled(d)'
  BY <1>step, SettledStays
<1>1. CASE Start(r)
  <2>1. /\ UNCHANGED <<today, backfilled, tick>>
        /\ \A q \in Replicas : running[q] => running'[q]
    BY <1>1 DEF Start, MetricsTypes, FlagsTyped
  <2> QED
    BY <2>1, <1>stays DEF GapInv, TickInv, Window
<1>2. CASE Stop(r)
  <2>1. Becomes(r, IdleTick) /\ today' = today
    BY <1>2, IdleTyped, BecomesThat DEF Stop
  <2>2. /\ backfilled'[r] = FALSE
        /\ \A q \in Replicas \ {r} : running'[q] = running[q] /\ backfilled'[q] = backfilled[q]
    BY <1>2 DEF Stop, MetricsTypes, FlagsTyped
  <2>3. TickInv(r)'
    BY <2>1, <2>2, IdleTyped DEF TickInv, Becomes
  <2>4. \A q \in Replicas \ {r} : TickInv(q)'
    BY <2>1, <2>2, <1>step, OthersTick DEF Becomes, GapInv
  <2> QED
    BY <2>3, <2>4
<1> QED
  BY <1>1, <1>2

(* At midnight the day that ends joins the window: a process that has done  *)
(* its backfill runs, so that a rollup has begun on that day.               *)
LEMMA MidnightInvStep ==
    ASSUME MetricsTypes, GapInv, Midnight
    PROVE  GapInv'
<1>step. MetricsStep
  BY DEF MetricsStep
<1>stays. \A d \in Days : Settled(d) => Settled(d)'
  BY <1>step, SettledStays
<1>1. /\ today' = today + 1 /\ rolled' = FALSE
      /\ UNCHANGED <<running, backfilled, tick>>
      /\ rolled \/ \A q \in Replicas : ~running[q]
      /\ \A q \in Replicas : tick[q].pc = "idle" \/ tick[q].day = today
  BY DEF Midnight
<1>2. today \in Nat /\ today \in Days /\ Days \subseteq Nat
  BY DaysAreNatural DEF MetricsTypes, FlagsTyped
<1>3. ASSUME NEW q \in Replicas PROVE TickInv(q)'
  <2>inv. TickInv(q)
    BY DEF GapInv
  <2>1. ASSUME backfilled[q], NEW d \in Days, d < today + 1, d + BackfillDays >= today + 1
        PROVE  Settled(d)
    <3>1. CASE d = today
      BY <3>1, <2>1, <2>inv, <1>1 DEF TickInv, GapInv
    <3>2. CASE d # today
      <4>1. d \in Window(today)
        BY <2>1, <3>2, <1>2, BoundsAreNatural DEF Window
      <4> QED
        BY <4>1, <2>1, <2>inv DEF TickInv
    <3> QED
      BY <3>1, <3>2
  <2>2. (backfilled[q] => running[q] /\ \A d \in Window(today) : Settled(d))'
    BY <2>1, <2>inv, <1>1, <1>stays DEF TickInv, Window
  <2>3. tick[q].pc # "idle" => running[q] /\ tick[q].day <= today + 1 /\ today + 1 <= tick[q].day + 1
    BY <2>inv, <1>1, <1>2 DEF TickInv
  <2>4. \A day : Window(day)' = Window(day) /\ Window(day) \subseteq Days
    BY DEF Window
  <2> QED
    BY <2>2, <2>3, <2>4, <2>inv, <1>1, <1>stays DEF TickInv
<1> QED
  BY <1>1, <1>3 DEF GapInv

(* Every step keeps what is known of the days.                              *)
LEMMA GapStep ==
    ASSUME TypeInv, GapInv, [Next]_vars
    PROVE  GapInv'
<1> USE DEF TypeInv
<1>1. CASE CallerStep \/ UNCHANGED vars
  <2>1. UNCHANGED <<today, rollup>>
    BY <1>1, CallerFrame DEF vars
  <2> QED
    BY <2>1 DEF rollup, GapInv, TickInv, Settled, Window
<1>2. CASE MetricsStep
  <2>stays. \A d \in Days : Settled(d) => Settled(d)'
    BY <1>2, SettledStays
  <2>today. today \in Days
    BY DEF MetricsTypes, FlagsTyped
  <2>1. ASSUME NEW r \in Replicas, RollupStep(r) PROVE GapInv'
    <3>frame. /\ today' = today
              /\ \A q \in Replicas \ {r} : /\ tick'[q] = tick[q] /\ running'[q] = running[q]
                                           /\ backfilled'[q] = backfilled[q]
      <4>1. CASE BeginTick(r)
        BY <4>1, Begun DEF Becomes, BeginTick
      <4>2. CASE ListOrgsFails(r)
        BY <4>2 DEF ListOrgsFails
      <4>3. CASE MissingDays(r) \/ BackfillBuckets(r) \/ BackfillDay(r) \/ CountInvocations(r)
        BY <4>3 DEF MetricsTypes, MissingDays, BackfillBuckets, BackfillDay, CountInvocations
      <4>4. CASE BackfillFails(r)
        BY <4>4, BackfillGivenUp DEF Becomes, BackfillFails
      <4>5. CASE RollupToday(r) \/ RollupFails(r)
        BY <4>5, Ended DEF Becomes, RollupToday, RollupFails, EndTick, MetricsTypes, FlagsTyped
      <4> QED
        BY <2>1, <4>1, <4>2, <4>3, <4>4, <4>5 DEF RollupStep
    <3>1. \A q \in Replicas : TickInv(q)'
      BY <2>1, <3>frame, <1>2, TickInvStep, OthersTick DEF GapInv
    <3>2. rolled' => Settled(today)'
      <4>1. CASE BeginTick(r)
        <5>1. tick'[r].pc # "idle" /\ tick'[r].day = today
          BY <4>1, Begun DEF Becomes
        <5> QED
          BY <5>1, <3>frame DEF Settled
      <4>2. CASE ListOrgsFails(r)
        BY <4>2, <3>frame DEF ListOrgsFails, Settled
      <4>3. CASE ~(BeginTick(r) \/ ListOrgsFails(r))
        <5>1. rolled' = rolled
          BY <4>3, <2>1 DEF RollupStep, MissingDays, BackfillBuckets, BackfillDay, BackfillFails,
                            CountInvocations, RollupToday, RollupFails
        <5> QED
          BY <5>1, <2>stays, <2>today, <3>frame DEF GapInv
      <4> QED
        BY <4>1, <4>2, <4>3
    <3> QED
      BY <3>1, <3>2 DEF GapInv
  <2>2. ASSUME NEW r \in Replicas, Start(r) \/ Stop(r) PROVE GapInv'
    <3>1. UNCHANGED <<rolled, today>>
      BY <2>2 DEF Start, Stop
    <3> QED
      BY <3>1, <2>2, <2>stays, <2>today, ProcessInvStep DEF GapInv
  <2>3. CASE LockLost
    <3>1. UNCHANGED <<today, running, backfilled, tick, rolled>>
      BY <2>3 DEF LockLost
    <3> QED
      BY <3>1, <2>stays, <2>today, <1>2, OthersTick DEF GapInv
  <2> QED
    BY <1>2, <2>1, <2>2, <2>3, MidnightInvStep DEF MetricsStep
<1> QED
  BY <1>1, <1>2, Steps

(* The chart of a process that has done its backfill has no hole that no    *)
(* failure explains: for any window, whoever rolls up and whenever.         *)
THEOREM NoUnexplainedGap == Spec => []GapsAreExplained
<1>1. GapInv => GapsAreExplained
  BY DEF GapInv, TickInv, GapsAreExplained, Window, Settled
<1> QED
  BY <1>1, TypeInvariance, GapInit, GapStep, PTL DEF Spec

-----------------------------------------------------------------------------
(* The rows and the lock of the rollup.                                     *)

(* Initially no day has a row and no replica a rollup.                      *)
LEMMA RowInit == Init => RowInv
BY IdleTyped DEF Init, RowInv, AloneInv, NoRow

(* Another replica that has a rollup under way has the lock, unless it was  *)
(* lost: it stays alone as long as the one that acts writes nothing.        *)
LEMMA OthersAlone ==
    ASSUME RowInv, NEW r \in Replicas, NEW q \in Replicas, q # r,
           tick'[q] = tick[q], overlapped => overlapped',
           lock = q => lock' = q /\ rows' = rows
    PROVE  AloneInv(q)'
BY DEF RowInv, AloneInv

(* A replica that gets the lock is the only one with a rollup under way.    *)
LEMMA LockedAlone ==
    ASSUME RowInv, NEW r \in Replicas, TryLock(r)
    PROVE  \A q \in Replicas \ {r} : lock # q
BY NoneIsNoReplica DEF TryLock, MayLock

(* A rollup writes a row only while it is alone, unless a lock was lost:    *)
(* what the row holds is then part of what it has read.                     *)
LEMMA RollupRowStep ==
    ASSUME MetricsTypes, RowInv, NEW r \in Replicas, RollupStep(r)
    PROVE  RowInv'
<1>types. rows \in [Days -> DailyRow] /\ \A d \in Days : rows[d].counted \subseteq OfDay(d)
  BY DEF MetricsTypes
<1>own. AloneInv(r) /\ tick[r].day \in Days /\ tick[r].missing \subseteq Days
  BY OwnTick DEF RowInv
<1>empty. \A d \in Days : ~rows[d].present => rows[d].counted = {}
  BY DEF RowInv
<1>alone. ASSUME tick[r].pc # "idle", ~overlapped, NEW q \in Replicas, q # r
          PROVE  lock # q
  BY <1>alone, <1>own DEF AloneInv
<1>1. CASE BeginTick(r) \/ ListOrgsFails(r)
  <2>1. TryLock(r) /\ lock' = r /\ UNCHANGED <<rows, overlapped>>
    BY <1>1 DEF BeginTick, ListOrgsFails, TryLock
  <2>2. /\ \A q \in Replicas \ {r} : tick'[q] = tick[q]
        /\ tick'[r].pc \in {"idle", "missing", "count"}
    <3>1. CASE BeginTick(r)
      BY <3>1, Begun DEF Becomes
    <3>2. CASE ListOrgsFails(r)
      BY <3>2 DEF ListOrgsFails, TryLock
    <3> QED
      BY <1>1, <3>1, <3>2
  <2>3. AloneInv(r)'
    BY <2>1, <2>2 DEF AloneInv
  <2>4. \A q \in Replicas \ {r} : AloneInv(q)'
    BY <2>1, <2>2, LockedAlone, OthersAlone
  <2> QED
    BY <2>1, <2>3, <2>4, <1>empty DEF RowInv
<1>frame. ASSUME ~(BeginTick(r) \/ ListOrgsFails(r)), NEW t, Becomes(r, t),
                 /\ t.pc \in {"buckets", "fill"} /\ ~overlapped =>
                      \A d \in t.missing : rows'[d].counted = {}
                 /\ t.pc = "upsert" /\ ~overlapped => rows'[t.day].counted \subseteq t.counted,
                 \A d \in Days : ~rows'[d].present => rows'[d].counted = {}
          PROVE  RowInv'
  <2>1. tick[r].pc # "idle" /\ UNCHANGED <<lock, overlapped>>
    BY <1>frame DEF RollupStep, MissingDays, BackfillBuckets, BackfillDay, BackfillFails,
                    CountInvocations, RollupToday, RollupFails
  <2>2. AloneInv(r)'
    BY <2>1, <1>frame, <1>own DEF AloneInv, Becomes
  <2>3. ASSUME NEW q \in Replicas \ {r} PROVE AloneInv(q)'
    BY <2>1, <1>frame, <1>alone DEF AloneInv, RowInv, Becomes
  <2> QED
    BY <2>2, <2>3, <1>frame DEF RowInv
<1>2. CASE MissingDays(r)
  <2>1. PICK t : /\ Becomes(r, t) /\ t.missing = Missing(tick[r].day)
                 /\ t.pc \in {"count", "buckets"}
    BY <1>2, MissingRead
  <2>2. rows' = rows /\ tick[r].pc # "idle"
    BY <1>2 DEF MissingDays
  <2>3. \A d \in t.missing : rows'[d].counted = {}
    BY <2>1, <2>2, <1>empty DEF Missing
  <2> QED
    BY <2>1, <2>2, <2>3, <1>2, <1>empty, <1>frame DEF BeginTick, ListOrgsFails, TryLock
<1>3. CASE BackfillBuckets(r)
  <2>1. PICK t : Becomes(r, t) /\ t.pc = "fill" /\ t.missing = tick[r].missing
    BY <1>3, BucketsRead
  <2>2. rows' = rows /\ tick[r].pc = "buckets"
    BY <1>3 DEF BackfillBuckets
  <2> QED
    BY <2>1, <2>2, <1>own, <1>empty, <1>frame DEF AloneInv, BeginTick, ListOrgsFails, TryLock
<1>4. CASE BackfillDay(r)
  <2>1. PICK t, d : /\ Becomes(r, t) /\ d \in Days
                    /\ t.missing = tick[r].missing \ {d} /\ t.pc \in {"count", "fill"}
                    /\ rows' = [rows EXCEPT ![d] = [present |-> TRUE, counted |-> Bucket(r, d)]]
    BY <1>4, DayFilled
  <2>2. tick[r].pc = "fill"
    BY <1>4 DEF BackfillDay
  <2>3. ~overlapped => \A e \in t.missing : rows'[e].counted = {}
    BY <2>1, <2>2, <1>own, <1>types DEF AloneInv
  <2>4. \A e \in Days : ~rows'[e].present => rows'[e].counted = {}
    BY <2>1, <1>types, <1>empty
  <2> QED
    BY <2>1, <2>2, <2>3, <2>4, <1>frame DEF BeginTick, ListOrgsFails, TryLock
<1>5. CASE BackfillFails(r)
  <2>1. PICK t : Becomes(r, t) /\ t.pc = "count"
    BY <1>5, BackfillGivenUp
  <2>2. rows' = rows /\ tick[r].pc # "idle"
    BY <1>5 DEF BackfillFails
  <2> QED
    BY <2>1, <2>2, <1>empty, <1>frame DEF BeginTick, ListOrgsFails, TryLock
<1>6. CASE CountInvocations(r)
  <2>1. PICK t : /\ Becomes(r, t) /\ t.pc = "upsert" /\ t.day = tick[r].day
                 /\ t.counted = OfDay(tick[r].day)
    BY <1>6, Counted
  <2>2. rows' = rows /\ tick[r].pc # "idle"
    BY <1>6 DEF CountInvocations
  <2>3. rows'[t.day].counted \subseteq t.counted
    BY <2>1, <2>2, <1>own, <1>types
  <2> QED
    BY <2>1, <2>2, <2>3, <1>empty, <1>frame DEF BeginTick, ListOrgsFails, TryLock
<1>7. CASE RollupToday(r)
  <2>1. /\ Becomes(r, IdleTick) /\ tick[r].pc = "upsert"
        /\ rows' = [rows EXCEPT ![tick[r].day] = [present |-> TRUE, counted |-> tick[r].counted]]
    BY <1>7, Ended DEF RollupToday, UpsertDaily
  <2>2. \A e \in Days : ~rows'[e].present => rows'[e].counted = {}
    BY <2>1, <1>types, <1>empty
  <2> QED
    BY <2>1, <2>2, <1>frame, IdleTyped DEF BeginTick, ListOrgsFails, TryLock
<1>8. CASE RollupFails(r)
  <2>1. Becomes(r, IdleTick) /\ rows' = rows /\ tick[r].pc # "idle"
    BY <1>8, Ended DEF RollupFails
  <2> QED
    BY <2>1, <1>empty, <1>frame, IdleTyped DEF BeginTick, ListOrgsFails, TryLock
<1> QED
  BY <1>1, <1>2, <1>3, <1>4, <1>5, <1>6, <1>7, <1>8 DEF RollupStep

(* Every step keeps what is known of the rows and the lock.                 *)
LEMMA RowStep ==
    ASSUME TypeInv, RowInv, [Next]_vars
    PROVE  RowInv'
<1> USE DEF TypeInv
<1>1. CASE CallerStep \/ UNCHANGED vars
  <2>1. UNCHANGED rollup
    BY <1>1, CallerFrame DEF vars
  <2> QED
    BY <2>1 DEF rollup, RowInv, AloneInv
<1>2. ASSUME NEW r \in Replicas, Start(r) \/ Stop(r) PROVE RowInv'
  <2>1. UNCHANGED <<rows, overlapped>> /\ lock' = IF Stop(r) /\ lock = r THEN None ELSE lock
    BY <1>2 DEF Start, Stop
  <2>2. /\ \A q \in Replicas \ {r} : tick'[q] = tick[q]
        /\ tick'[r].pc # "idle" => tick' = tick /\ lock' = lock
    <3>1. CASE Start(r)
      BY <3>1 DEF Start
    <3>2. CASE Stop(r)
      <4>1. Becomes(r, IdleTick)
        BY <3>2, IdleTyped, BecomesThat DEF Stop
      <4> QED
        BY <4>1, IdleTyped DEF Becomes
    <3> QED
      BY <1>2, <3>1, <3>2
  <2>3. \A q \in Replicas \ {r} : AloneInv(q)'
    BY <2>1, <2>2, OthersAlone
  <2>4. AloneInv(r)'
    BY <2>1, <2>2 DEF RowInv, AloneInv
  <2> QED
    BY <2>1, <2>3, <2>4 DEF RowInv
<1>3. CASE LockLost
  <2>1. /\ lock \in Replicas /\ UNCHANGED <<rows, tick>>
        /\ overlapped' = (overlapped \/ tick[lock].pc # "idle")
    BY <1>3 DEF LockLost, MetricsTypes, FlagsTyped
  <2>2. ASSUME NEW q \in Replicas PROVE tick'[q].pc # "idle" => overlapped'
    BY <2>1 DEF RowInv, AloneInv
  <2> QED
    BY <2>1, <2>2 DEF RowInv, AloneInv
<1>4. CASE Midnight
  BY <1>4 DEF Midnight, RowInv, AloneInv
<1> QED
  BY <1>1, <1>2, <1>3, <1>4, RollupRowStep, Steps DEF MetricsStep

(* No rollup takes from a row what another has counted, although it writes  *)
(* what it read before: for any number of replicas, unless one loses the    *)
(* lock in the middle of a rollup.                                          *)
THEOREM RowsKeepCounts == Spec => RowsNeverShrink
<1> DEFINE Grows == \A d \in Days : rows[d].counted \subseteq rows'[d].counted
<1>1. ASSUME TypeInv, RowInv, [Next]_vars PROVE overlapped' \/ Grows
  <2> USE DEF TypeInv
  <2>types. rows \in [Days -> DailyRow]
    BY <1>1 DEF MetricsTypes
  <2>1. ASSUME NEW r \in Replicas, BackfillDay(r) PROVE overlapped' \/ Grows
    <3>1. PICK d : /\ d \in Days /\ d \in tick[r].missing
                   /\ rows' = [rows EXCEPT ![d] = [present |-> TRUE, counted |-> Bucket(r, d)]]
      BY <1>1, <2>1, DayFilled
    <3>2. ~overlapped => rows[d].counted = {}
      BY <1>1, <2>1, <3>1 DEF RowInv, AloneInv, BackfillDay
    <3> QED
      BY <3>1, <3>2, <2>1, <2>types DEF BackfillDay
  <2>2. ASSUME NEW r \in Replicas, RollupToday(r) PROVE overlapped' \/ Grows
    <3>1. /\ tick[r].day \in Days
          /\ rows' = [rows EXCEPT ![tick[r].day] = [present |-> TRUE, counted |-> tick[r].counted]]
      BY <1>1, <2>2, OwnTick DEF RollupToday, UpsertDaily
    <3>2. ~overlapped => rows[tick[r].day].counted \subseteq tick[r].counted
      BY <1>1, <2>2 DEF RowInv, AloneInv, RollupToday
    <3> QED
      BY <3>1, <3>2, <2>2, <2>types DEF RollupToday
  <2>3. CASE ~\E r \in Replicas : BackfillDay(r) \/ RollupToday(r)
    <3>1. rows' = rows
      <4>1. CASE CallerStep \/ UNCHANGED vars
        BY <4>1, CallerFrame DEF vars, rollup
      <4>2. ASSUME NEW r \in Replicas, RollupStep(r) PROVE rows' = rows
        BY <2>3, <4>2 DEF RollupStep, BeginTick, ListOrgsFails, MissingDays, BackfillBuckets,
                          BackfillFails, CountInvocations, RollupFails
      <4>3. ASSUME NEW r \in Replicas, Start(r) \/ Stop(r) PROVE rows' = rows
        BY <4>3 DEF Start, Stop
      <4>4. CASE LockLost \/ Midnight
        BY <4>4 DEF LockLost, Midnight
      <4> QED
        BY <1>1, <4>1, <4>2, <4>3, <4>4, Steps DEF MetricsStep
    <3> QED
      BY <3>1
  <2> QED
    BY <2>1, <2>2, <2>3
<1>2. Spec => [](TypeInv /\ RowInv)
  <2>1. Init => RowInv
    BY RowInit
  <2>2. TypeInv /\ RowInv /\ [Next]_vars => RowInv'
    BY RowStep
  <2> QED
    BY <2>1, <2>2, TypeInvariance, PTL DEF Spec
<1>3. TypeInv /\ RowInv /\ [Next]_vars => [overlapped' \/ Grows]_vars
  BY <1>1
<1> QED
  BY <1>2, <1>3, PTL DEF Spec, RowsNeverShrink
=============================================================================
