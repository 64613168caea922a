------------------------------ MODULE Activity ------------------------------
(***************************************************************************)
(* What becomes of an invocation a gateway reports: it is stored, a sweep  *)
(* counts it for its caller, and a rollup counts it in the metrics of its  *)
(* day.  One organisation; the sweeps take the organisations in turn.      *)
(*                                                                         *)
(* Every replica of the API runs both sweeps.  The time of an invocation   *)
(* is the shim's: it may lie before or after that of the server, and       *)
(* reports arrive in any order.  The callers are swept from a watermark,   *)
(* the latest time seen so far, less a buffer.  The row of a day is        *)
(* replaced by each rollup of that day and, if there is none, filled by    *)
(* the first rollup of a process.                                          *)
(*                                                                         *)
(* Where the tables hold a number, the model holds the set of invocations  *)
(* it counts; the sweep of the callers may count one of them repeatedly.   *)
(***************************************************************************)
EXTENDS Naturals, FiniteSetsExt

CONSTANTS Invocations, Callers,
          Replicas,       \* with a rollup each
          Sweepers,       \* sweeps of the callers that may overlap
          MaxTime,        \* bound on the times
          DayLength,      \* times in a day
          Buffer,         \* callerSweepBuffer
          BackfillDays,   \* metricsBackfillDays
          MaxFaults,      \* bound on failures of the rollup
          None

ASSUME BoundsAreNatural ==
    /\ MaxTime \in Nat /\ DayLength \in Nat \ {0} /\ Buffer \in Nat
    /\ BackfillDays \in Nat /\ MaxFaults \in Nat
ASSUME NoneIsNoReplica == None \notin Replicas

VARIABLES invocations,  \* mcp_invocations
          callers,      \* org_callers: last_seen_at, and what was counted
          sweep,        \* the sweeps of the callers
          today,        \* the day of the server
          rolled,       \* whether a rollup has begun today
          rows,         \* org_daily_metrics
          running, backfilled, tick,    \* of each replica: MetricsRollup
          lock,         \* whose session holds the lock of the rollup
          late,         \* history: stored a buffer or more behind another
          overlapped,   \* history: a rollup lost the lock
          gaps,         \* history: days a rollup failed to write
          faults

callerVars == <<callers, sweep>>
rollup == <<rows, running, backfilled, tick, lock, rolled, overlapped, gaps>>
vars == <<invocations, callerVars, today, rollup, late, faults>>

-----------------------------------------------------------------------------
Times == 1..MaxTime
DayOf(t) == t \div DayLength
Days == 0..DayOf(MaxTime)

Invocation == [at : Times, caller : Callers]
NotStored  == [at |-> 0, caller |-> None]
CallerRow  == [last : Times \cup {0}, counted : SUBSET Invocations]
DailyRow   == [present : BOOLEAN, counted : SUBSET Invocations]
Sweep      == [pc : {"idle", "read", "mark"}, since : Times \cup {0}, batch : SUBSET Invocations]
Tick       == [pc : {"idle", "missing", "buckets", "fill", "count", "upsert"},
               day : Days, missing : SUBSET Days, counted : SUBSET Invocations]

IdleSweep == [pc |-> "idle", since |-> 0, batch |-> {}]
IdleTick  == [pc |-> "idle", day |-> 0, missing |-> {}, counted |-> {}]
NoRow     == [present |-> FALSE, counted |-> {}]

Init ==
    /\ invocations = [i \in Invocations |-> NotStored]
    /\ callers = [c \in Callers |-> [last |-> 0, counted |-> {}]]
    /\ sweep = [s \in Sweepers |-> IdleSweep]
    /\ today = 0 /\ rolled = FALSE
    /\ rows = [d \in Days |-> NoRow]
    /\ running = [r \in Replicas |-> FALSE]
    /\ backfilled = [r \in Replicas |-> FALSE]
    /\ tick = [r \in Replicas |-> IdleTick]
    /\ lock = None
    /\ late = {} /\ overlapped = FALSE /\ gaps = {}
    /\ faults = 0

Fault == faults < MaxFaults /\ faults' = faults + 1

Stored == {i \in Invocations : invocations[i].at # 0}
OfDay(d) == {i \in Stored : DayOf(invocations[i].at) = d}

(* handleGatewayObservations stores the invocations of a report one by one, *)
(* and nothing undoes the first ones when a later one fails.                *)
InsertInvocation(i, c, at) ==
    /\ i \notin Stored
    /\ invocations' = [invocations EXCEPT ![i] = [at |-> at, caller |-> c]]
    /\ late' = IF \E j \in Stored : at + Buffer <= invocations[j].at THEN late \cup {i} ELSE late
    /\ UNCHANGED <<callerVars, today, rollup, faults>>

-----------------------------------------------------------------------------
(* The sweep of the callers.                                                *)

Watermark == Max({callers[c].last : c \in Callers})

(* The query of the watermarks, for an organisation with an invocation.     *)
ReadWatermark(s) ==
    /\ sweep[s].pc = "idle"
    /\ Stored # {}
    /\ sweep' = [sweep EXCEPT ![s] = [IdleSweep EXCEPT !.pc = "read", !.since = Watermark]]
    /\ UNCHANGED <<invocations, callers, today, rollup, late, faults>>

(* Mutant of Since: the buffer is added to the watermark.                   *)
SinceAfter(w) == {i \in Stored : invocations[i].at > w + Buffer}

Since(w) == {i \in Stored : invocations[i].at + Buffer > w}

ReadInvocations(s) ==
    /\ sweep[s].pc = "read"
    /\ sweep' = [sweep EXCEPT ![s].pc = "mark", ![s].batch = Since(sweep[s].since)]
    /\ UNCHANGED <<invocations, callers, today, rollup, late, faults>>

OfCaller(c, batch) == {i \in batch : invocations[i].caller = c}

MarkSeenBatch(s) ==
    LET batch == sweep[s].batch
    IN /\ sweep[s].pc = "mark"
       /\ callers' = [c \in Callers |->
              [last |-> Max({callers[c].last} \cup {invocations[i].at : i \in OfCaller(c, batch)}),
               counted |-> callers[c].counted \cup OfCaller(c, batch)]]
       /\ sweep' = [sweep EXCEPT ![s] = IdleSweep]
       /\ UNCHANGED <<invocations, today, rollup, late, faults>>

(* A query or the transaction fails, or the process stops: nothing is       *)
(* written.                                                                 *)
SweepFails(s) ==
    /\ sweep[s].pc # "idle"
    /\ sweep' = [sweep EXCEPT ![s] = IdleSweep]
    /\ UNCHANGED <<invocations, callers, today, rollup, late, faults>>

-----------------------------------------------------------------------------
(* The rollup of the metrics.                                               *)

EndTick(r) ==
    /\ tick' = [tick EXCEPT ![r] = IdleTick]
    /\ backfilled' = [backfilled EXCEPT ![r] = TRUE]

(* Mutant of MayLock: the lock is not looked at.                            *)
AlwaysLock(r) == lock \in Replicas \cup {None}

(* A session that holds the lock gets it again.                             *)
MayLock(r) == lock \in {r, None}

TryLock(r) ==
    /\ running[r] /\ tick[r].pc = "idle"
    /\ MayLock(r)
    /\ lock' = r /\ rolled' = TRUE

BeginTick(r) ==
    /\ TryLock(r)
    /\ tick' = [tick EXCEPT ![r] = [IdleTick EXCEPT
           !.pc = IF backfilled[r] THEN "count" ELSE "missing", !.day = today]]
    /\ UNCHANGED <<invocations, callerVars, today, rows, running, backfilled,
                   late, overlapped, gaps, faults>>

(* ListOrgIDs fails: the tick is over, and the backfill still to come.      *)
ListOrgsFails(r) ==
    /\ TryLock(r)
    /\ Fault
    /\ gaps' = gaps \cup {today}
    /\ UNCHANGED <<invocations, callerVars, today, rows, running, backfilled, tick, late, overlapped>>

(* Mutant of Missing: yesterday is left out.                                *)
MissingBefore(day) ==
    {d \in Days : d + 1 < day /\ d + BackfillDays >= day /\ ~rows[d].present}

Missing(day) == {d \in Days : d < day /\ d + BackfillDays >= day /\ ~rows[d].present}

MissingDays(r) ==
    LET missing == Missing(tick[r].day)
    IN /\ tick[r].pc = "missing"
       /\ tick' = [tick EXCEPT ![r].pc = IF missing = {} THEN "count" ELSE "buckets",
                               ![r].missing = missing]
       /\ UNCHANGED <<invocations, callerVars, today, rows, running, backfilled, lock, rolled,
                      late, overlapped, gaps, faults>>

BackfillBuckets(r) ==
    /\ tick[r].pc = "buckets"
    /\ tick' = [tick EXCEPT ![r].pc = "fill",
                            ![r].counted = {i \in Stored : DayOf(invocations[i].at) < tick[r].day}]
    /\ UNCHANGED <<invocations, callerVars, today, rows, running, backfilled, lock, rolled,
                   late, overlapped, gaps, faults>>

(* Mutant of Bucket: not indexed by the day.                                *)
AllBuckets(r, d) == tick[r].counted

Bucket(r, d) == {i \in tick[r].counted : DayOf(invocations[i].at) = d}

UpsertDaily(d, counted) == rows' = [rows EXCEPT ![d] = [present |-> TRUE, counted |-> counted]]

BackfillDay(r) ==
    LET d == Min(tick[r].missing)
        rest == tick[r].missing \ {d}
    IN /\ tick[r].pc = "fill"
       /\ UpsertDaily(d, Bucket(r, d))
       /\ tick' = [tick EXCEPT ![r].missing = rest,
                               ![r].pc = IF rest = {} THEN "count" ELSE "fill",
                               ![r].counted = IF rest = {} THEN {} ELSE tick[r].counted]
       /\ UNCHANGED <<invocations, callerVars, today, running, backfilled, lock, rolled,
                      late, overlapped, gaps, faults>>

(* The error is logged, and the backfill counts as done.                    *)
BackfillFails(r) ==
    /\ tick[r].pc \in {"missing", "buckets", "fill"}
    /\ Fault
    /\ gaps' = gaps \cup Missing(tick[r].day)
    /\ tick' = [tick EXCEPT ![r] = [IdleTick EXCEPT !.pc = "count", !.day = tick[r].day]]
    /\ UNCHANGED <<invocations, callerVars, today, rows, running, backfilled, lock, rolled,
                   late, overlapped>>

CountInvocations(r) ==
    /\ tick[r].pc = "count"
    /\ tick' = [tick EXCEPT ![r].pc = "upsert", ![r].counted = OfDay(tick[r].day)]
    /\ UNCHANGED <<invocations, callerVars, today, rows, running, backfilled, lock, rolled,
                   late, overlapped, gaps, faults>>

RollupToday(r) ==
    /\ tick[r].pc = "upsert"
    /\ UpsertDaily(tick[r].day, tick[r].counted)
    /\ EndTick(r)
    /\ UNCHANGED <<invocations, callerVars, today, running, lock, rolled, late, overlapped, gaps, faults>>

RollupFails(r) ==
    /\ tick[r].pc \in {"count", "upsert"}
    /\ Fault
    /\ gaps' = gaps \cup {tick[r].day}
    /\ EndTick(r)
    /\ UNCHANGED <<invocations, callerVars, today, rows, running, lock, rolled, late, overlapped>>

-----------------------------------------------------------------------------
(* The processes, their sessions, and the day.                              *)

(* Both loops tick at once when they start: no day passes without a rollup  *)
(* while a replica runs.                                                    *)
Start(r) ==
    /\ ~running[r]
    /\ running' = [running EXCEPT ![r] = TRUE]
    /\ UNCHANGED <<invocations, callerVars, today, rows, backfilled, tick, lock, rolled,
                   late, overlapped, gaps, faults>>

(* What a tick had still to write is a gap.                                 *)
Stop(r) ==
    /\ running[r]
    /\ Fault
    /\ running' = [running EXCEPT ![r] = FALSE]
    /\ backfilled' = [backfilled EXCEPT ![r] = FALSE]
    /\ tick' = [tick EXCEPT ![r] = IdleTick]
    /\ gaps' = IF tick[r].pc = "idle" THEN gaps ELSE gaps \cup {tick[r].day}
    /\ lock' = IF lock = r THEN None ELSE lock
    /\ UNCHANGED <<invocations, callerVars, today, rows, rolled, late, overlapped>>

(* The pool closes the session that holds the lock, be it in mid-tick.      *)
LockLost ==
    /\ lock # None
    /\ lock' = None
    /\ overlapped' = (overlapped \/ tick[lock].pc # "idle")
    /\ UNCHANGED <<invocations, callerVars, today, rows, running, backfilled, tick, rolled,
                   late, gaps, faults>>

(* A tick takes less than a day.                                            *)
Midnight ==
    /\ today + 1 \in Days
    /\ rolled \/ \A r \in Replicas : ~running[r]
    /\ \A r \in Replicas : tick[r].pc = "idle" \/ tick[r].day = today
    /\ today' = today + 1 /\ rolled' = FALSE
    /\ UNCHANGED <<invocations, callerVars, rows, running, backfilled, tick, lock,
                   late, overlapped, gaps, faults>>

-----------------------------------------------------------------------------
SweepStep(s) == ReadWatermark(s) \/ ReadInvocations(s) \/ MarkSeenBatch(s) \/ SweepFails(s)

RollupStep(r) ==
    \/ BeginTick(r) \/ ListOrgsFails(r)
    \/ MissingDays(r) \/ BackfillBuckets(r) \/ BackfillDay(r) \/ BackfillFails(r)
    \/ CountInvocations(r) \/ RollupToday(r) \/ RollupFails(r)

Next ==
    \/ \E i \in Invocations, c \in Callers, at \in Times : InsertInvocation(i, c, at)
    \/ \E s \in Sweepers : SweepStep(s)
    \/ \E r \in Replicas : RollupStep(r) \/ Start(r) \/ Stop(r)
    \/ LockLost \/ Midnight

Spec == Init /\ [][Next]_vars

-----------------------------------------------------------------------------
(* Types, and what a number stands for: a row counts invocations of its own *)
(* day or caller only, each of them stored.                                 *)
TypeOK ==
    /\ invocations \in [Invocations -> Invocation \cup {NotStored}]
    /\ callers \in [Callers -> CallerRow]
    /\ sweep \in [Sweepers -> Sweep]
    /\ today \in Days /\ rolled \in BOOLEAN
    /\ rows \in [Days -> DailyRow]
    /\ running \in [Replicas -> BOOLEAN] /\ backfilled \in [Replicas -> BOOLEAN]
    /\ tick \in [Replicas -> Tick]
    /\ lock \in Replicas \cup {None}
    /\ late \subseteq Invocations /\ overlapped \in BOOLEAN /\ gaps \subseteq Days
    /\ faults \in 0..MaxFaults
    /\ \A c \in Callers : callers[c].counted \subseteq OfCaller(c, Stored)
    /\ \A d \in Days : rows[d].counted \subseteq OfDay(d)

(* The buffer is all that may cost an invocation its count: behind the      *)
(* watermark by the buffer or more, one is counted for its caller unless    *)
(* one that much later was there when it arrived.  Sweeps may overlap, fail *)
(* and read the watermark and the invocations at different times.           *)
UncountedCameLate ==
    \A i \in Stored \ late :
        invocations[i].at + Buffer <= Watermark => i \in callers[invocations[i].caller].counted

(* The chart of a process that has done its backfill has no hole: every     *)
(* past day of the window has its row, except one whose rollup failed or is *)
(* under way.                                                               *)
GapsAreExplained ==
    \A r \in Replicas, d \in Days :
        /\ backfilled[r] /\ d < today /\ d + BackfillDays >= today
        /\ d \notin gaps /\ \A q \in Replicas : tick[q].pc = "idle" \/ tick[q].day # d
        => rows[d].present

(* A day's row never loses what a rollup has counted, although each rollup  *)
(* replaces the row by what it read earlier: unless the lock was lost.      *)
RowsNeverShrink ==
    [][overlapped' \/ \A d \in Days : rows[d].counted \subseteq rows'[d].counted]_vars

=============================================================================
