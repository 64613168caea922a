-------------------------- MODULE SweepScheduling --------------------------
(***************************************************************************)
(* Which replica runs a sweep, and over which organisations.               *)
(*                                                                         *)
(* Every replica of the API runs the ticker loop of PolicySweeper.  A tick *)
(* tries an advisory lock, lists the organisations that have an enabled    *)
(* policy, and sweeps them one after the other (PolicySweep has the inside *)
(* of one sweep).  The lock belongs to the database session it was taken   *)
(* through: a session of the replica's pool, which the pool hands to other *)
(* queries between two statements of the tick and closes when it is an     *)
(* hour old.  Nothing ever unlocks.                                        *)
(*                                                                         *)
(* The other sweeps (discovery, exposure, callers, metrics) take locks of  *)
(* their own in the same way; this is one key.  Broken are organisations   *)
(* whose sweep fails every time.  MaxChanges bounds the edits that give an *)
(* organisation its first enabled policy or take its last, MaxFaults the   *)
(* queries that fail and the processes that stop.                          *)
(***************************************************************************)
EXTENDS Integers, FiniteSets

CONSTANTS
    Replica, Slot,      \* a session is a slot of a replica's pool
    Org, Broken,        \* organisations, by the order of their ids
    MaxOrgs,            \* MaxOrgsPerTick
    MaxEdits, MaxFailures,
    None

Session == Replica \X Slot
PoolOf(r) == {r} \X Slot

ASSUME OrgAssumption == Org \subseteq Nat /\ IsFiniteSet(Org) /\ Broken \subseteq Org
ASSUME BoundAssumption == MaxOrgs \in Nat /\ MaxEdits \in Nat /\ MaxFailures \in Nat
ASSUME NoneAssumption == None \notin Session

VARIABLES
    due,        \* organisations with an enabled policy
    sessions,   \* open sessions of all pools
    holder,     \* the session that holds the advisory lock
    tick,       \* what each replica's tick is doing
    edits, failures

ticksVars == <<due, sessions, holder, tick, edits, failures>>

(* "session" is the one the lock was taken through; "lost" (a ghost) says  *)
(* that it has ended since.                                                *)
Tick == [stage: {"idle", "locked", "sweeping"},
         session: Session \cup {None}, lost: BOOLEAN, todo: SUBSET Org]
IdleTick == [stage |-> "idle", session |-> None, lost |-> FALSE, todo |-> {}]

Leads(r) == tick[r].stage # "idle"

(* The types; a session that has ended holds no lock.                    *)
TicksTypeOK ==
    /\ due \subseteq Org
    /\ sessions \subseteq Session
    /\ holder \in sessions \cup {None}
    /\ tick \in [Replica -> Tick]
    /\ edits \in 0..MaxEdits
    /\ failures \in 0..MaxFailures

TicksInit ==
    /\ due \in SUBSET Org
    /\ sessions = {}
    /\ holder = None
    /\ tick = [r \in Replica |-> IdleTick]
    /\ edits = 0
    /\ failures = 0

\* A policy of o is created, enabled, disabled or deleted.
EditPolicies(o) ==
    /\ edits < MaxEdits
    /\ edits' = edits + 1
    /\ due' = IF o \in due THEN due \ {o} ELSE due \cup {o}
    /\ UNCHANGED <<sessions, holder, tick, failures>>

---------------------------------------------------------------------------
(* One tick of replica r.                                                  *)

\* pg_try_advisory_lock succeeds again in the session that holds the lock.
Free(s) == holder \in {None, s}

\* Mutant: the lock lasts as long as the query that takes it.
TryAdvisoryLockInQuery(r, s) ==
    /\ tick[r].stage = "idle"
    /\ sessions' = sessions \cup {s}
    /\ holder = None
    /\ tick' = [tick EXCEPT ![r] =
           [stage |-> "locked", session |-> s, lost |-> FALSE, todo |-> {}]]
    /\ UNCHANGED <<due, holder, edits, failures>>

\* TryAdvisoryLock, through any session of the pool (opened if need be).
TryAdvisoryLock(r, s) ==
    /\ tick[r].stage = "idle"
    /\ sessions' = sessions \cup {s}
    /\ IF Free(s)
       THEN /\ holder' = s
            /\ tick' = [tick EXCEPT ![r] =
                   [stage |-> "locked", session |-> s, lost |-> FALSE, todo |-> {}]]
       ELSE UNCHANGED <<holder, tick>>
    /\ UNCHANGED <<due, edits, failures>>

\* Organisations are taken by id, from the first one at every tick.
FirstByID(orgs) == {o \in orgs : Cardinality({p \in orgs : p < o}) < MaxOrgs}

ListOrgsWithDuePolicies(r) ==
    /\ tick[r].stage = "locked"
    /\ tick' = [tick EXCEPT ![r] =
           [@ EXCEPT !.stage = "sweeping", !.todo = FirstByID(due)]]
    /\ UNCHANGED <<due, sessions, holder, edits, failures>>

First(r) == {o \in tick[r].todo : \A p \in tick[r].todo : o <= p}

\* Mutant: an error ends the loop.
SweepOrgOrReturn(r, o) ==
    /\ o \in First(r)
    /\ tick' = [tick EXCEPT ![r] =
           [@ EXCEPT !.todo = IF o \in Broken THEN {} ELSE tick[r].todo \ {o}]]
    /\ UNCHANGED <<due, sessions, holder, edits, failures>>

(* sweepOrg, whether it succeeds or not: the loop logs an error and goes   *)
(* on with the next organisation.                                          *)
SweepOneOrg(r, o) ==
    /\ o \in First(r)
    /\ tick' = [tick EXCEPT ![r] = [@ EXCEPT !.todo = tick[r].todo \ {o}]]
    /\ UNCHANGED <<due, sessions, holder, edits, failures>>

\* The tick returns.  The lock stays with the session.
EndTick(r) ==
    /\ tick[r].stage = "sweeping"
    /\ tick[r].todo = {}
    /\ tick' = [tick EXCEPT ![r] = IdleTick]
    /\ UNCHANGED <<due, sessions, holder, edits, failures>>

\* The list of organisations cannot be read: the tick returns.
ListFails(r) ==
    /\ failures < MaxFailures
    /\ failures' = failures + 1
    /\ tick[r].stage = "locked"
    /\ tick' = [tick EXCEPT ![r] = IdleTick]
    /\ UNCHANGED <<due, sessions, holder, edits>>

---------------------------------------------------------------------------
(* Sessions end, between statements or with their process.                 *)

\* Mutant: a session that ends leaves its lock behind.
NeverReleased(closed) == holder

\* The lock goes when its session does.
Released(closed) == IF holder \in closed THEN None ELSE holder

\* The pool's lifetime limit, or a connection that breaks.
CloseSession(s) ==
    /\ s \in sessions
    /\ sessions' = sessions \ {s}
    /\ holder' = Released({s})
    /\ tick' = [r \in Replica |->
           IF Leads(r) /\ tick[r].session = s
           THEN [tick[r] EXCEPT !.lost = TRUE] ELSE tick[r]]
    /\ UNCHANGED <<due, edits, failures>>

\* The process stops; another one takes its place with an empty pool.
StopReplica(r) ==
    /\ failures < MaxFailures
    /\ failures' = failures + 1
    /\ sessions' = sessions \ PoolOf(r)
    /\ holder' = Released(PoolOf(r))
    /\ tick' = [tick EXCEPT ![r] = IdleTick]
    /\ UNCHANGED <<due, edits>>

---------------------------------------------------------------------------
TicksNext ==
    \/ \E o \in Org : EditPolicies(o)
    \/ \E r \in Replica :
           \/ \E s \in PoolOf(r) : TryAdvisoryLock(r, s)
           \/ ListOrgsWithDuePolicies(r)
           \/ \E o \in Org : SweepOneOrg(r, o)
           \/ EndTick(r)
           \/ ListFails(r)
           \/ StopReplica(r)
    \/ \E s \in Session : CloseSession(s)

TicksSpec == TicksInit /\ [][TicksNext]_ticksVars

(* The ticker fires for ever and a tick under way goes on: a replica has   *)
(* one goroutine per sweep.  Which session a query gets is the pool's      *)
(* choice, so nothing is assumed of it.  MaxConnLifetime ends every        *)
(* session some time.                                                      *)
TicksFairness ==
    /\ \A r \in Replica :
           /\ WF_ticksVars(\E s \in PoolOf(r) : TryAdvisoryLock(r, s))
           /\ WF_ticksVars(ListOrgsWithDuePolicies(r))
           /\ WF_ticksVars(\E o \in Org : SweepOneOrg(r, o))
           /\ WF_ticksVars(EndTick(r))
    /\ \A s \in Session : WF_ticksVars(CloseSession(s))

FairTicksSpec == TicksSpec /\ TicksFairness

---------------------------------------------------------------------------
(* Two replicas work through a tick at the same time only when one of them *)
(* has lost the session it took the lock through, which no code looks at.  *)
OverlapOnlyIfSessionEnded ==
    \A r, q \in Replica :
        r # q /\ Leads(r) /\ Leads(q) => tick[r].lost \/ tick[q].lost

(* An organisation that stays among the first MaxOrgs of those with an     *)
(* enabled policy is swept again and again, also when the sweep of an      *)
(* organisation before it fails every time: the loop of tick goes on after *)
(* an error.  One beyond the limit may never be: every tick lists the same *)
(* first organisations.                                                    *)
EveryOrgSwept ==
    \A o \in Org :
        <>[](o \in FirstByID(due))
          => []<><<\E r \in Replica : SweepOneOrg(r, o)>>_ticksVars
=============================================================================
