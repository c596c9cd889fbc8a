----------------------------- MODULE BriefLease -----------------------------
(***************************************************************************)
(* The lock that serializes the renders of one brief: a lease row claimed  *)
(* by polling, extended by a heartbeat, released by its token and taken    *)
(* over once it expires, with the lock of the process as a fallback when   *)
(* the first claim fails.                                                  *)
(*                                                                         *)
(* Time is counted in heartbeat intervals.  A call to the database is one  *)
(* step: it commits or not, and answers or not, within an interval.        *)
(***************************************************************************)
EXTENDS Naturals, FiniteSets

CONSTANTS
  Acquires,    \* the calls of acquire(brief_id), each with a token of its own
  Processes,   \* worker processes
  ProcessOf,   \* the process a call runs in
  Free,        \* owner of the lease when there is no row
  Ttl,         \* life of a lease, in heartbeat intervals: four in the code
  MaxErrors,   \* bound on failed calls
  MaxCrashes   \* bound on crashes

ASSUME AcquiresAssumption == IsFiniteSet(Acquires) /\ Free \notin Acquires
ASSUME ProcessAssumption  == ProcessOf \in [Acquires -> Processes]
ASSUME TtlAssumption      == Ttl \in Nat \ {0, 1}
ASSUME BoundsAssumption   == MaxErrors \in Nat /\ MaxCrashes \in Nat

VARIABLES
  lease,    \* owner of the lease row and the intervals it has left
  at,       \* where each call is
  due,      \* whether the heartbeat of a call is due in this interval
  missed,   \* heartbeats in a row that failed while the call owned the lease
  depth,    \* depth[p]: the counter of calls in process p
  object,   \* object[p]: the lock object the dictionary of process p holds
  bound,    \* the lock object a call waits for or holds
  errors, crashes

lockVars  == <<depth, object, bound>>
leaseVars == <<lease, at, due, missed, lockVars, errors, crashes>>

Places == {"idle", "asking", "polling", "leased", "waiting", "locked", "over"}
Active == {"asking", "polling", "leased", "waiting", "locked"}

ActiveIn(p) == {a \in Acquires : ProcessOf[a] = p /\ at[a] \in Active}
Inside(a)   == at[a] \in {"leased", "locked"}

Lease   == [owner: Acquires \cup {Free}, left: 0..Ttl]
NoLease == [owner |-> Free, left |-> 0]

LeaseTypeOK ==
  /\ lease \in Lease
  /\ at \in [Acquires -> Places]
  /\ due \in [Acquires -> BOOLEAN]
  /\ missed \in [Acquires -> Nat]
  /\ depth \in [Processes -> Nat]
  /\ object \in [Processes -> Nat]
  /\ bound \in [Acquires -> Nat]
  /\ errors \in 0..MaxErrors
  /\ crashes \in 0..MaxCrashes

LeaseInit ==
  /\ lease = NoLease
  /\ at = [a \in Acquires |-> "idle"]
  /\ due = [a \in Acquires |-> FALSE]
  /\ missed = [a \in Acquires |-> 0]
  /\ depth = [p \in Processes |-> 0]
  /\ object = [p \in Processes |-> 0]
  /\ bound = [a \in Acquires |-> 0]
  /\ errors = 0
  /\ crashes = 0

Error == errors < MaxErrors /\ errors' = errors + 1
Ok    == errors' = errors

Go(a, place) == at' = [at EXCEPT ![a] = place]

-----------------------------------------------------------------------------
(* The functions of the database.                                          *)

\* Mutants: a lease is never taken over; one lives for a single interval.
NeverTakenOver == lease.owner = Free

TakeShortLease(a) == lease' = [owner |-> a, left |-> 1]

\* There is no row, or an expired one.
Claimable == lease.owner = Free \/ lease.left = 0

\* try_claim_brief_lock, when it finds the lease claimable.
TakeLease(a) == lease' = [owner |-> a, left |-> Ttl]

\* A call that fails may have committed: the row then has no one behind it.
ClaimUnheard(a) ==
  /\ Error
  /\ \/ Claimable /\ TakeLease(a)
     \/ UNCHANGED lease

-----------------------------------------------------------------------------
(* acquire().                                                              *)

Acquire(a) ==
  /\ at[a] = "idle"
  /\ Go(a, "asking")
  /\ depth' = [depth EXCEPT ![ProcessOf[a]] = @ + 1]
  /\ UNCHANGED <<lease, due, missed, object, bound, errors, crashes>>

Enter(a) ==
  /\ Claimable
  /\ TakeLease(a)
  /\ Go(a, "leased")
  /\ due' = [due EXCEPT ![a] = FALSE]
  /\ missed' = [missed EXCEPT ![a] = 0]
  /\ Ok
  /\ UNCHANGED <<lockVars, crashes>>

\* The first claim: granted, refused, or failed, which degrades to the lock
\* the process keeps for the brief.
FirstClaim(a) ==
  /\ at[a] = "asking"
  /\ \/ Enter(a)
     \/ /\ ~Claimable
        /\ Go(a, "polling")
        /\ Ok
        /\ UNCHANGED <<lease, due, missed, lockVars, crashes>>
     \/ /\ ClaimUnheard(a)
        /\ Go(a, "waiting")
        /\ bound' = [bound EXCEPT ![a] = object[ProcessOf[a]]]
        /\ UNCHANGED <<due, missed, depth, object, crashes>>

\* Mutant: the lock object is dropped by every call that leaves.
LeaveDroppingLock(a) ==
  /\ Go(a, "over")
  /\ depth' = [depth EXCEPT ![ProcessOf[a]] = @ - 1]
  /\ object' = [object EXCEPT ![ProcessOf[a]] = @ + 1]
  /\ UNCHANGED <<bound, crashes>>

\* The finally of acquire(): the last call of the process drops the lock object.
Leave(a) ==
  LET p == ProcessOf[a]
  IN  /\ Go(a, "over")
      /\ depth' = [depth EXCEPT ![p] = @ - 1]
      /\ object' = [object EXCEPT ![p] = IF depth[p] = 1 THEN @ + 1 ELSE @]
      /\ UNCHANGED <<bound, crashes>>

\* A later claim that finds the lease taken changes nothing.  One that fails
\* raises out of acquire().
Poll(a) == at[a] = "polling" /\ Enter(a)

PollFails(a) ==
  /\ at[a] = "polling"
  /\ ClaimUnheard(a)
  /\ Leave(a)
  /\ UNCHANGED <<due, missed>>

\* The asyncio lock: held by at most one of the calls bound to the object.
EnterLocked(a) ==
  /\ at[a] = "waiting"
  /\ \A b \in Acquires :
       at[b] = "locked" /\ ProcessOf[b] = ProcessOf[a] => bound[b] # bound[a]
  /\ Go(a, "locked")
  /\ UNCHANGED <<lease, due, missed, lockVars, errors, crashes>>

LeaveLocked(a) ==
  /\ at[a] = "locked"
  /\ Leave(a)
  /\ UNCHANGED <<lease, due, missed, errors>>

\* The section exits: the heartbeat is stopped and the row deleted by token.
\* A release that fails leaves the row to expire.
Release(a) ==
  /\ at[a] = "leased"
  /\ Leave(a)
  /\ \/ /\ lease' = IF lease.owner = a THEN NoLease ELSE lease
        /\ Ok
     \/ UNCHANGED lease /\ Error
  /\ UNCHANGED <<due, missed>>

-----------------------------------------------------------------------------
(* Heartbeats, time and crashes.                                           *)

\* The heartbeat extends the lease of its token, expired or not.  Its result
\* is not looked at: a call whose lease was taken over goes on.
LeaseHeartbeat(a) ==
  /\ at[a] = "leased"
  /\ due[a]
  /\ due' = [due EXCEPT ![a] = FALSE]
  /\ \/ /\ lease.owner = a
        /\ lease' = [lease EXCEPT !.left = Ttl]
        /\ missed' = [missed EXCEPT ![a] = 0]
        /\ Ok
     \/ lease.owner # a /\ Ok /\ UNCHANGED <<lease, missed>>
     \/ /\ Error
        /\ missed' = [missed EXCEPT ![a] = @ + 1]
        /\ UNCHANGED lease
  /\ UNCHANGED <<at, lockVars, crashes>>

\* An interval passes once every heartbeat of it was sent.
Tick ==
  /\ \A a \in Acquires : ~due[a] \/ at[a] # "leased"
  /\ lease' = [lease EXCEPT !.left = IF @ = 0 THEN 0 ELSE @ - 1]
  /\ due' = [a \in Acquires |-> at[a] = "leased"]
  /\ UNCHANGED <<at, missed, lockVars, errors, crashes>>

\* A process dies: its rows stay, its locks and counters are gone.
Crash(p) ==
  /\ crashes < MaxCrashes
  /\ crashes' = crashes + 1
  /\ at' = [a \in Acquires |-> IF a \in ActiveIn(p) THEN "over" ELSE at[a]]
  /\ depth' = [depth EXCEPT ![p] = 0]
  /\ object' = [object EXCEPT ![p] = @ + 1]
  /\ UNCHANGED <<lease, due, missed, bound, errors>>

-----------------------------------------------------------------------------

Step(a) ==
  \/ Acquire(a)
  \/ FirstClaim(a)
  \/ Poll(a)
  \/ PollFails(a)
  \/ EnterLocked(a)
  \/ LeaveLocked(a)
  \/ Release(a)
  \/ LeaseHeartbeat(a)

LeaseNext == (\E a \in Acquires : Step(a)) \/ Tick \/ \E p \in Processes : Crash(p)

LeaseSpec == LeaseInit /\ [][LeaseNext]_leaseVars

\* A call that began goes on, its section ends, and time passes.
LeaseFairness ==
  /\ \A a \in Acquires : /\ WF_leaseVars(FirstClaim(a))
                         /\ WF_leaseVars(Poll(a))
                         /\ WF_leaseVars(EnterLocked(a))
                         /\ WF_leaseVars(LeaveLocked(a) \/ Release(a))
                         /\ WF_leaseVars(LeaseHeartbeat(a))
  /\ WF_leaseVars(Tick)

FairLeaseSpec == LeaseSpec /\ LeaseFairness

-----------------------------------------------------------------------------
(* Properties.                                                             *)

\* Two calls are inside by the lease only if one of them failed to extend it
\* for its whole life: a heartbeat loop that gets through keeps the brief.
LeaseExclusive ==
  \A a, b \in Acquires :
    (at[a] = "leased" /\ at[b] = "leased" /\ a # b) =>
      missed[a] >= Ttl - 1 \/ missed[b] >= Ttl - 1

\* Two calls of one process are never inside by its lock, although the lock
\* object is dropped and made anew.
FallbackExclusive ==
  \A a, b \in Acquires :
    (at[a] = "locked" /\ at[b] = "locked" /\ ProcessOf[a] = ProcessOf[b]) => a = b

\* The depth the health endpoint reports is the number of calls that run or
\* wait in the process, whichever way each of them left.
DepthExact == \A p \in Processes : depth[p] = Cardinality(ActiveIn(p))

\* Only the owner of a live lease, or time, ends it: a release or a claim of
\* another call never does.
LiveLeaseKept ==
  [][lease.left > 0 /\ lease'.owner # lease.owner =>
       at[lease.owner] = "leased" /\ at'[lease.owner] = "over"]_leaseVars

\* Every call gets in or is given up, although holders crash, lose their
\* release or leave a row with no one behind it.
EveryCallServed ==
  \A a \in Acquires : at[a] \in {"asking", "polling", "waiting"} ~> Inside(a) \/ at[a] = "over"

\* queue.py: only one acquirer per brief_id runs at a time.
OneAcquirerRuns == \A a, b \in Acquires : Inside(a) /\ Inside(b) => a = b
=============================================================================
