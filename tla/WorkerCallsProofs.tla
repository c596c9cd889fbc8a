-------------------------- MODULE WorkerCallsProofs -------------------------
(***************************************************************************)
(* Theorems about the calls of the worker: BriefLease, for any number of   *)
(* calls and processes and any life of a lease of at least two intervals,  *)
(* and QualityCheck, for any creatives, calls, renders and deaths.         *)
(*                                                                         *)
(* A holder of the lease is covered: either the row is still its own, and  *)
(* what the row has left makes up for the heartbeats it missed, or it      *)
(* missed them all.  A process's lock object is replaced only when the     *)
(* counter says that its last call leaves, so the counter must be exact.   *)
(***************************************************************************)
EXTENDS BriefLease, QualityCheck, FiniteSetTheorems, TLAPS

Pending(a) == IF due[a] THEN 1 ELSE 0

Covered(a) ==
  \/ lease.owner = a /\ lease.left + missed[a] + Pending(a) >= Ttl
  \/ missed[a] >= Ttl - 1

LeaseCovers == \A a \in Acquires : at[a] = "leased" => Covered(a)
NoRowNoLife == lease.owner = Free => lease.left = 0
BoundToLock ==
  \A a \in Acquires : at[a] \in {"waiting", "locked"} => bound[a] = object[ProcessOf[a]]

IInv ==
  /\ LeaseTypeOK
  /\ LeaseCovers
  /\ NoRowNoLife
  /\ DepthExact
  /\ BoundToLock
  /\ FallbackExclusive

\* What a lease record is, field by field.
LEMMA LeaseFields ==
  ASSUME NEW l \in Lease
  PROVE  /\ l.owner \in Acquires \cup {Free}
         /\ l.left \in 0..Ttl
  BY DEF Lease

\* The lease a claim leaves behind has the type of a lease.
LEMMA TakenIsLease ==
  ASSUME NEW a \in Acquires
  PROVE  /\ [owner |-> a, left |-> Ttl] \in Lease
         /\ NoLease \in Lease
  BY TtlAssumption DEF Lease, NoLease

\* The calls of a process are finitely many.
LEMMA ActiveFinite ==
  ASSUME NEW p \in Processes
  PROVE  /\ IsFiniteSet(ActiveIn(p))
         /\ Cardinality(ActiveIn(p)) \in Nat
<1>1. ActiveIn(p) \subseteq Acquires
  BY DEF ActiveIn
<1>2. IsFiniteSet(ActiveIn(p))
  BY <1>1, AcquiresAssumption, FS_Subset
<1> QED
  BY <1>2, FS_CardinalityType

\* The last call of a process has no peer there.
LEMMA LastCallAlone ==
  ASSUME NEW a \in Acquires, NEW b \in Acquires,
         at[a] \in Active, at[b] \in Active,
         ProcessOf[a] = ProcessOf[b],
         Cardinality(ActiveIn(ProcessOf[a])) = 1
  PROVE  a = b
<1>1. ProcessOf[a] \in Processes
  BY ProcessAssumption
<1>2. PICK x : ActiveIn(ProcessOf[a]) = {x}
  BY <1>1, ActiveFinite, FS_Singleton
<1>3. a \in ActiveIn(ProcessOf[a]) /\ b \in ActiveIn(ProcessOf[a])
  BY DEF ActiveIn
<1> QED
  BY <1>2, <1>3

-----------------------------------------------------------------------------
(* The counter.                                                            *)

\* A step that moves one call within the section, or not at all, leaves the
\* counters exact.
LEMMA MoveKeepsDepth ==
  ASSUME LeaseTypeOK, DepthExact, NEW a \in Acquires, NEW place \in Active,
         at[a] \in Active, Go(a, place), depth' = depth
  PROVE  DepthExact'
<1>1. \A p \in Processes : ActiveIn(p)' = ActiveIn(p)
  BY DEF ActiveIn, Go, LeaseTypeOK
<1> QED
  BY <1>1 DEF DepthExact

\* Nor does a step that moves no call.
LEMMA SameKeepsDepth ==
  ASSUME DepthExact, at' = at, depth' = depth
  PROVE  DepthExact'
<1>1. \A p \in Processes : ActiveIn(p)' = ActiveIn(p)
  BY DEF ActiveIn
<1> QED
  BY <1>1 DEF DepthExact

\* A call that begins is counted once.
LEMMA AcquireKeepsDepth ==
  ASSUME LeaseTypeOK, DepthExact, NEW a \in Acquires, Acquire(a)
  PROVE  DepthExact'
<1> DEFINE q == ProcessOf[a]
<1>1. q \in Processes
  BY ProcessAssumption
<1>2. ActiveIn(q)' = ActiveIn(q) \cup {a} /\ a \notin ActiveIn(q)
  BY DEF ActiveIn, Acquire, Go, LeaseTypeOK, Active
<1>3. \A p \in Processes \ {q} : ActiveIn(p)' = ActiveIn(p)
  BY DEF ActiveIn, Acquire, Go, LeaseTypeOK, Active
<1>4. Cardinality(ActiveIn(q)') = Cardinality(ActiveIn(q)) + 1
  BY <1>1, <1>2, ActiveFinite, FS_AddElement
<1>5. depth'[q] = depth[q] + 1 /\ \A p \in Processes \ {q} : depth'[p] = depth[p]
  BY <1>1 DEF Acquire, LeaseTypeOK
<1> QED
  BY <1>1, <1>3, <1>4, <1>5 DEF DepthExact

\* A call that leaves is uncounted once.
LEMMA LeaveKeepsDepth ==
  ASSUME LeaseTypeOK, DepthExact, NEW a \in Acquires, at[a] \in Active, Leave(a)
  PROVE  DepthExact'
<1> DEFINE q == ProcessOf[a]
<1>1. q \in Processes
  BY ProcessAssumption
<1>2. ActiveIn(q)' = ActiveIn(q) \ {a} /\ a \in ActiveIn(q)
  BY DEF ActiveIn, Leave, Go, LeaseTypeOK, Active
<1>3. \A p \in Processes \ {q} : ActiveIn(p)' = ActiveIn(p)
  BY DEF ActiveIn, Leave, Go, LeaseTypeOK, Active
<1>4. Cardinality(ActiveIn(q)') = Cardinality(ActiveIn(q)) - 1
  BY <1>1, <1>2, ActiveFinite, FS_RemoveElement
<1>5. depth'[q] = depth[q] - 1 /\ \A p \in Processes \ {q} : depth'[p] = depth[p]
  BY <1>1 DEF Leave, LeaseTypeOK
<1> QED
  BY <1>1, <1>3, <1>4, <1>5 DEF DepthExact

\* A crash ends every call of its process.
LEMMA CrashKeepsDepth ==
  ASSUME LeaseTypeOK, DepthExact, NEW q \in Processes, Crash(q)
  PROVE  DepthExact'
<1>1. ActiveIn(q)' = {}
  BY DEF ActiveIn, Crash, LeaseTypeOK, Active
<1>2. \A p \in Processes \ {q} : ActiveIn(p)' = ActiveIn(p)
  BY DEF ActiveIn, Crash, LeaseTypeOK, Active
<1>3. depth'[q] = 0 /\ \A p \in Processes \ {q} : depth'[p] = depth[p]
  BY DEF Crash, LeaseTypeOK
<1> QED
  BY <1>1, <1>2, <1>3, FS_EmptySet DEF DepthExact

-----------------------------------------------------------------------------
(* The type of the state.                                                  *)

\* Leaving keeps the variables of the lock and the place of the call typed.
LEMMA LeaveTyped ==
  ASSUME LeaseTypeOK, DepthExact, NEW a \in Acquires, at[a] \in Active, Leave(a)
  PROVE  /\ at' \in [Acquires -> Places]
         /\ depth' \in [Processes -> Nat]
         /\ object' \in [Processes -> Nat]
         /\ bound' \in [Acquires -> Nat]
         /\ crashes' \in 0..MaxCrashes
<1> DEFINE q == ProcessOf[a]
<1>1. q \in Processes
  BY ProcessAssumption
<1>2. a \in ActiveIn(q)
  BY DEF ActiveIn
<1>3. Cardinality(ActiveIn(q)) # 0
  BY <1>1, <1>2, ActiveFinite, FS_EmptySet
<1>4. depth[q] \in Nat \ {0}
  BY <1>1, <1>3 DEF DepthExact, LeaseTypeOK
<1>5. depth[q] - 1 \in Nat
  BY <1>4
<1> QED
  BY <1>1, <1>5 DEF Leave, Go, LeaseTypeOK, Places

\* Every step keeps the type.
LEMMA TypePreserved ==
  ASSUME LeaseTypeOK, DepthExact, [LeaseNext]_leaseVars
  PROVE  LeaseTypeOK'
<1>1. ASSUME NEW a \in Acquires, Acquire(a)
      PROVE  LeaseTypeOK'
  <2>1. at' \in [Acquires -> Places]
    BY <1>1 DEF Acquire, Go, LeaseTypeOK, Places
  <2>2. depth' \in [Processes -> Nat]
    BY <1>1, ProcessAssumption DEF Acquire, LeaseTypeOK
  <2> QED
    BY <1>1, <2>1, <2>2 DEF Acquire, LeaseTypeOK
<1>2. ASSUME NEW a \in Acquires, Enter(a)
      PROVE  LeaseTypeOK'
  BY <1>2, TakenIsLease DEF Enter, TakeLease, Go, Ok, lockVars, LeaseTypeOK, Places
<1>3. ASSUME NEW a \in Acquires, FirstClaim(a)
      PROVE  LeaseTypeOK'
  <2>1. CASE Enter(a)
    BY <2>1, <1>2
  <2>2. CASE ~Claimable /\ Go(a, "polling") /\ Ok /\ UNCHANGED <<lease, due, missed, lockVars, crashes>>
    BY <2>2 DEF Go, Ok, lockVars, LeaseTypeOK, Places
  <2>3. CASE /\ ClaimUnheard(a)
             /\ Go(a, "waiting")
             /\ bound' = [bound EXCEPT ![a] = object[ProcessOf[a]]]
             /\ UNCHANGED <<due, missed, depth, object, crashes>>
    <3>1. lease' \in Lease /\ errors' \in 0..MaxErrors
      BY <2>3, TakenIsLease, BoundsAssumption DEF ClaimUnheard, TakeLease, Error, LeaseTypeOK
    <3> QED
      BY <2>3, <3>1, ProcessAssumption DEF Go, LeaseTypeOK, Places
  <2> QED
    BY <1>3, <2>1, <2>2, <2>3 DEF FirstClaim
<1>4. ASSUME NEW a \in Acquires, Poll(a)
      PROVE  LeaseTypeOK'
  BY <1>2, <1>4 DEF Poll
<1>5. ASSUME NEW a \in Acquires, PollFails(a)
      PROVE  LeaseTypeOK'
  <2>1. lease' \in Lease /\ errors' \in 0..MaxErrors
    BY <1>5, TakenIsLease, BoundsAssumption DEF PollFails, ClaimUnheard, TakeLease, Error, LeaseTypeOK
  <2>2. at[a] \in Active /\ Leave(a)
    BY <1>5 DEF PollFails, Active
  <2> QED
    BY <1>5, <2>1, <2>2, LeaveTyped DEF PollFails, LeaseTypeOK
<1>6. ASSUME NEW a \in Acquires, EnterLocked(a)
      PROVE  LeaseTypeOK'
  BY <1>6 DEF EnterLocked, Go, lockVars, LeaseTypeOK, Places
<1>7. ASSUME NEW a \in Acquires, LeaveLocked(a)
      PROVE  LeaseTypeOK'
  <2>1. at[a] \in Active /\ Leave(a)
    BY <1>7 DEF LeaveLocked, Active
  <2> QED
    BY <1>7, <2>1, LeaveTyped DEF LeaveLocked, LeaseTypeOK
<1>8. ASSUME NEW a \in Acquires, Release(a)
      PROVE  LeaseTypeOK'
  <2>1. lease' \in Lease /\ errors' \in 0..MaxErrors
    <3>1. NoLease \in Lease /\ lease \in Lease
      BY <1>8, TakenIsLease DEF LeaseTypeOK
    <3>2. lease' \in {NoLease, lease}
      BY <1>8 DEF Release
    <3>3. errors' \in 0..MaxErrors
      BY <1>8, BoundsAssumption DEF Release, Ok, Error, LeaseTypeOK
    <3> QED
      BY <3>1, <3>2, <3>3
  <2>2. at[a] \in Active /\ Leave(a)
    BY <1>8 DEF Release, Active
  <2> QED
    BY <1>8, <2>1, <2>2, LeaveTyped DEF Release, LeaseTypeOK
<1>9. ASSUME NEW a \in Acquires, LeaseHeartbeat(a)
      PROVE  LeaseTypeOK'
  <2>1. [lease EXCEPT !.left = Ttl] \in Lease
    BY TtlAssumption DEF LeaseTypeOK, Lease
  <2>2. lease' \in Lease /\ errors' \in 0..MaxErrors /\ missed' \in [Acquires -> Nat]
    BY <1>9, <2>1, BoundsAssumption DEF LeaseHeartbeat, Ok, Error, LeaseTypeOK
  <2> QED
    BY <1>9, <2>2 DEF LeaseHeartbeat, lockVars, LeaseTypeOK
<1>10. ASSUME Tick
       PROVE  LeaseTypeOK'
  <2> DEFINE l == IF lease.left = 0 THEN 0 ELSE lease.left - 1
  <2>1. l \in 0..Ttl
    BY LeaseFields, TtlAssumption DEF LeaseTypeOK
  <2>2. [lease EXCEPT !.left = l] \in Lease
    BY <2>1 DEF LeaseTypeOK, Lease
  <2>3. lease' = [lease EXCEPT !.left = l]
    BY <1>10 DEF Tick
  <2> QED
    BY <1>10, <2>2, <2>3 DEF Tick, lockVars, LeaseTypeOK
<1>11. ASSUME NEW p \in Processes, Crash(p)
       PROVE  LeaseTypeOK'
  BY <1>11, BoundsAssumption DEF Crash, LeaseTypeOK, Places
<1>12. CASE UNCHANGED leaseVars
  BY <1>12 DEF leaseVars, lockVars, LeaseTypeOK
<1> QED
  BY <1>1, <1>3, <1>4, <1>5, <1>6, <1>7, <1>8, <1>9, <1>10, <1>11, <1>12 DEF LeaseNext, Step

-----------------------------------------------------------------------------
(* The counter and the lock of a process.                                  *)

\* Every step keeps the counters exact.
LEMMA DepthPreserved ==
  ASSUME LeaseTypeOK, DepthExact, [LeaseNext]_leaseVars
  PROVE  DepthExact'
<1>1. ASSUME NEW a \in Acquires, FirstClaim(a)
      PROVE  DepthExact'
  <2>1. depth' = depth /\ \E place \in Active : Go(a, place)
    BY <1>1 DEF FirstClaim, Enter, lockVars, Active
  <2>2. at[a] \in Active
    BY <1>1 DEF FirstClaim, Active
  <2> QED
    BY <2>1, <2>2, MoveKeepsDepth
<1>2. ASSUME NEW a \in Acquires, Poll(a)
      PROVE  DepthExact'
  <2>1. depth' = depth /\ \E place \in Active : Go(a, place)
    BY <1>2 DEF Poll, Enter, lockVars, Active
  <2>2. at[a] \in Active
    BY <1>2 DEF Poll, Active
  <2> QED
    BY <2>1, <2>2, MoveKeepsDepth
<1>3. ASSUME NEW a \in Acquires, EnterLocked(a)
      PROVE  DepthExact'
  <2>1. depth' = depth /\ \E place \in Active : Go(a, place)
    BY <1>3 DEF EnterLocked, lockVars, Active
  <2>2. at[a] \in Active
    BY <1>3 DEF EnterLocked, Active
  <2> QED
    BY <2>1, <2>2, MoveKeepsDepth
<1>4. ASSUME NEW a \in Acquires, PollFails(a) \/ LeaveLocked(a) \/ Release(a)
      PROVE  DepthExact'
  <2>1. at[a] \in Active /\ Leave(a)
    BY <1>4 DEF PollFails, LeaveLocked, Release, Active
  <2> QED
    BY <2>1, LeaveKeepsDepth
<1>5. ASSUME NEW a \in Acquires, LeaseHeartbeat(a)
      PROVE  DepthExact'
  BY <1>5, SameKeepsDepth DEF LeaseHeartbeat, lockVars
<1>6. ASSUME Tick
      PROVE  DepthExact'
  BY <1>6, SameKeepsDepth DEF Tick, lockVars
<1>7. CASE UNCHANGED leaseVars
  BY <1>7, SameKeepsDepth DEF leaseVars, lockVars
<1> QED
  BY <1>1, <1>2, <1>3, <1>4, <1>5, <1>6, <1>7, AcquireKeepsDepth, CrashKeepsDepth DEF LeaseNext, Step

\* A call leaves its peers bound to the lock object of their process.
LEMMA LeaveKeepsBound ==
  ASSUME LeaseTypeOK, DepthExact, BoundToLock,
         NEW a \in Acquires, at[a] \in Active, Leave(a)
  PROVE  BoundToLock'
<1> DEFINE q == ProcessOf[a]
<1>1. q \in Processes
  BY ProcessAssumption
<1> SUFFICES ASSUME NEW b \in Acquires, at'[b] \in {"waiting", "locked"}
             PROVE  bound'[b] = object'[ProcessOf[b]]
  BY DEF BoundToLock
<1>2. b # a /\ at[b] = at'[b] /\ bound'[b] = bound[b]
  BY DEF Leave, Go, LeaseTypeOK
<1>3. bound[b] = object[ProcessOf[b]]
  BY <1>2 DEF BoundToLock
<1>4. CASE ProcessOf[b] = q
  <2>1. depth[q] # 1
    BY <1>1, <1>2, <1>4, LastCallAlone DEF DepthExact, Active
  <2> QED
    BY <1>1, <1>2, <1>3, <1>4, <2>1 DEF Leave, LeaseTypeOK
<1>5. CASE ProcessOf[b] # q
  BY <1>1, <1>2, <1>3, <1>5, ProcessAssumption DEF Leave, LeaseTypeOK
<1> QED
  BY <1>4, <1>5

\* Every step keeps waiting calls bound to the lock object in use.
LEMMA BoundPreserved ==
  ASSUME LeaseTypeOK, DepthExact, BoundToLock, [LeaseNext]_leaseVars
  PROVE  BoundToLock'
<1>1. ASSUME NEW a \in Acquires, Acquire(a)
      PROVE  BoundToLock'
  BY <1>1 DEF Acquire, Go, BoundToLock, LeaseTypeOK
<1>2. ASSUME NEW a \in Acquires, Enter(a)
      PROVE  BoundToLock'
  BY <1>2 DEF Enter, Go, lockVars, BoundToLock, LeaseTypeOK
<1>3. ASSUME NEW a \in Acquires, FirstClaim(a)
      PROVE  BoundToLock'
  <2>1. CASE Enter(a)
    BY <2>1, <1>2
  <2>2. CASE Go(a, "polling") /\ UNCHANGED lockVars
    BY <2>2 DEF Go, lockVars, BoundToLock, LeaseTypeOK
  <2>3. CASE /\ Go(a, "waiting")
             /\ bound' = [bound EXCEPT ![a] = object[ProcessOf[a]]]
             /\ object' = object
    BY <2>3 DEF Go, BoundToLock, LeaseTypeOK
  <2> QED
    BY <1>3, <2>1, <2>2, <2>3 DEF FirstClaim, lockVars
<1>4. ASSUME NEW a \in Acquires, PollFails(a) \/ LeaveLocked(a) \/ Release(a)
      PROVE  BoundToLock'
  <2>1. at[a] \in Active /\ Leave(a)
    BY <1>4 DEF PollFails, LeaveLocked, Release, Active
  <2> QED
    BY <2>1, LeaveKeepsBound
<1>5. ASSUME NEW a \in Acquires, EnterLocked(a)
      PROVE  BoundToLock'
  BY <1>5 DEF EnterLocked, Go, lockVars, BoundToLock, LeaseTypeOK
<1>6. ASSUME NEW a \in Acquires, LeaseHeartbeat(a)
      PROVE  BoundToLock'
  BY <1>6 DEF LeaseHeartbeat, lockVars, BoundToLock
<1>7. ASSUME Tick
      PROVE  BoundToLock'
  BY <1>7 DEF Tick, lockVars, BoundToLock
<1>8. ASSUME NEW p \in Processes, Crash(p)
      PROVE  BoundToLock'
  <2> SUFFICES ASSUME NEW b \in Acquires, at'[b] \in {"waiting", "locked"}
               PROVE  bound'[b] = object'[ProcessOf[b]]
    BY DEF BoundToLock
  <2>1. ProcessOf[b] # p /\ at[b] = at'[b]
    BY <1>8 DEF Crash, ActiveIn, Active, LeaseTypeOK
  <2> QED
    BY <1>8, <2>1, ProcessAssumption DEF Crash, BoundToLock, LeaseTypeOK
<1>9. CASE UNCHANGED leaseVars
  BY <1>9 DEF leaseVars, lockVars, BoundToLock
<1> QED
  BY <1>1, <1>2, <1>3, <1>4, <1>5, <1>6, <1>7, <1>8, <1>9 DEF LeaseNext, Step, Poll

\* Only EnterLocked lets a call in by the lock, and it finds the object free.
LEMMA FallbackPreserved ==
  ASSUME LeaseTypeOK, BoundToLock, FallbackExclusive, [LeaseNext]_leaseVars
  PROVE  FallbackExclusive'
<1>1. ASSUME NEW a \in Acquires, EnterLocked(a)
      PROVE  FallbackExclusive'
  <2>1. \A b \in Acquires : at[b] = "locked" /\ ProcessOf[b] = ProcessOf[a] => bound[b] = bound[a]
    BY <1>1 DEF EnterLocked, BoundToLock
  <2>2. \A b \in Acquires : at[b] = "locked" => ProcessOf[b] # ProcessOf[a]
    BY <1>1, <2>1 DEF EnterLocked
  <2> QED
    BY <1>1, <2>2 DEF EnterLocked, Go, FallbackExclusive, LeaseTypeOK
<1>2. CASE \A b \in Acquires : at'[b] = "locked" => at[b] = "locked"
  BY <1>2 DEF FallbackExclusive
<1>3. ASSUME NEW a \in Acquires, Step(a), ~EnterLocked(a)
      PROVE  \A b \in Acquires : at'[b] = "locked" => at[b] = "locked"
  BY <1>3 DEF Step, Acquire, FirstClaim, Enter, Poll, PollFails, LeaveLocked, Leave, Release,
              LeaseHeartbeat, Go, LeaseTypeOK
<1>4. ASSUME Tick \/ \E p \in Processes : Crash(p)
      PROVE  \A b \in Acquires : at'[b] = "locked" => at[b] = "locked"
  BY <1>4 DEF Tick, Crash, LeaseTypeOK
<1>5. CASE UNCHANGED leaseVars
  BY <1>5 DEF leaseVars, FallbackExclusive
<1> QED
  BY <1>1, <1>2, <1>3, <1>4, <1>5 DEF LeaseNext

-----------------------------------------------------------------------------
(* The lease.                                                              *)

\* A claim takes the lease from no one, or from a call that missed every
\* heartbeat of it.
LEMMA ClaimKeepsCover ==
  ASSUME LeaseTypeOK, LeaseCovers, NEW a \in Acquires, at[a] # "leased",
         Claimable, TakeLease(a),
         NEW b \in Acquires, at[b] = "leased", missed'[b] = missed[b]
  PROVE  missed'[b] >= Ttl - 1
<1>1. b # a /\ b # Free
  BY AcquiresAssumption
<1>2. Covered(b)
  BY DEF LeaseCovers
<1>3. CASE missed[b] >= Ttl - 1
  BY <1>3
<1>4. CASE lease.owner = b /\ lease.left + missed[b] + Pending(b) >= Ttl
  <2>1. lease.left = 0
    BY <1>1, <1>4 DEF Claimable
  <2> QED
    BY <1>4, <2>1, TtlAssumption DEF Pending, LeaseTypeOK
<1> QED
  BY <1>2, <1>3, <1>4 DEF Covered

\* A step that moves no call into the lease and leaves the row, the heartbeats
\* and what is due alone keeps every holder covered.
LEMMA SameKeepsCover ==
  ASSUME LeaseTypeOK, LeaseCovers,
         lease' = lease, due' = due, missed' = missed,
         \A a \in Acquires : at'[a] = "leased" => at[a] = "leased"
  PROVE  LeaseCovers'
  BY DEF LeaseCovers, Covered, Pending

\* A claim that fails, committed or not.
LEMMA UnheardKeepsCover ==
  ASSUME LeaseTypeOK, LeaseCovers, NEW a \in Acquires, at[a] # "leased",
         ClaimUnheard(a), due' = due, missed' = missed,
         \A b \in Acquires : at'[b] = "leased" => at[b] = "leased"
  PROVE  LeaseCovers'
<1>1. CASE UNCHANGED lease
  BY <1>1, SameKeepsCover
<1>2. CASE Claimable /\ TakeLease(a)
  <2>1. \A b \in Acquires : at'[b] = "leased" => missed'[b] >= Ttl - 1
    BY <1>2, ClaimKeepsCover
  <2> QED
    BY <2>1 DEF LeaseCovers, Covered
<1> QED
  BY <1>1, <1>2 DEF ClaimUnheard

\* A claim that is granted: the call is covered by a full lease.
LEMMA EnterKeepsCover ==
  ASSUME LeaseTypeOK, LeaseCovers, NEW a \in Acquires, at[a] # "leased", Enter(a)
  PROVE  LeaseCovers'
<1>1. /\ lease'.owner = a
      /\ lease'.left = Ttl
      /\ missed'[a] = 0
      /\ due'[a] = FALSE
  BY DEF Enter, TakeLease, LeaseTypeOK
<1>2. Covered(a)'
  BY <1>1, TtlAssumption DEF Covered, Pending
<1>3. \A b \in Acquires \ {a} : at'[b] = at[b] /\ missed'[b] = missed[b]
  BY DEF Enter, Go, LeaseTypeOK
<1>4. \A b \in Acquires \ {a} : at'[b] = "leased" => missed'[b] >= Ttl - 1
  BY <1>3, ClaimKeepsCover DEF Enter
<1> QED
  BY <1>2, <1>4 DEF LeaseCovers, Covered

\* A heartbeat that extends the lease starts its life again; one that fails is
\* counted as missed.
LEMMA HeartbeatKeepsCover ==
  ASSUME LeaseTypeOK, LeaseCovers, NEW a \in Acquires, LeaseHeartbeat(a)
  PROVE  LeaseCovers'
<1> SUFFICES ASSUME NEW b \in Acquires, at'[b] = "leased"
             PROVE  Covered(b)'
  BY DEF LeaseCovers
<1>1. at[b] = "leased" /\ Covered(b)
  BY DEF LeaseHeartbeat, LeaseCovers
<1>2. lease'.owner = lease.owner
  BY DEF LeaseHeartbeat, LeaseTypeOK, Lease
<1>3. lease.left \in Nat /\ missed[b] \in Nat /\ due[b] \in BOOLEAN
  BY LeaseFields, TtlAssumption DEF LeaseTypeOK
<1>4. CASE b # a
  <2>1. missed'[b] = missed[b] /\ due'[b] = due[b]
    BY <1>4 DEF LeaseHeartbeat, LeaseTypeOK
  <2>2. lease.owner = b => lease'.left = lease.left
    BY <1>4 DEF LeaseHeartbeat, LeaseTypeOK, Lease
  <2> QED
    BY <1>1, <1>2, <2>1, <2>2 DEF Covered, Pending
<1>5. CASE b = a
  <2>1. due[b] /\ due'[b] = FALSE
    BY <1>5 DEF LeaseHeartbeat, LeaseTypeOK
  <2>2. CASE lease.owner = a /\ lease' = [lease EXCEPT !.left = Ttl] /\ missed' = [missed EXCEPT ![a] = 0]
    <3>1. lease'.left = Ttl /\ missed'[b] = 0
      BY <1>5, <2>2 DEF LeaseTypeOK, Lease
    <3> QED
      BY <1>2, <1>5, <2>1, <2>2, <3>1, TtlAssumption DEF Covered, Pending
  <2>3. CASE lease.owner # a /\ missed' = missed
    BY <1>1, <1>5, <2>3 DEF Covered
  <2>4. CASE missed' = [missed EXCEPT ![a] = @ + 1] /\ lease' = lease
    <3>1. missed'[b] = missed[b] + 1
      BY <1>5, <2>4 DEF LeaseTypeOK
    <3>2. Pending(b) = 1 /\ Pending(b)' = 0
      BY <2>1 DEF Pending
    <3> QED
      BY <1>1, <1>3, <2>4, <3>1, <3>2, TtlAssumption DEF Covered
  <2> QED
    BY <2>2, <2>3, <2>4 DEF LeaseHeartbeat
<1> QED
  BY <1>4, <1>5

\* An interval takes one from the row and makes one heartbeat due.
LEMMA TickKeepsCover ==
  ASSUME LeaseTypeOK, LeaseCovers, Tick
  PROVE  LeaseCovers'
<1> SUFFICES ASSUME NEW b \in Acquires, at'[b] = "leased"
             PROVE  Covered(b)'
  BY DEF LeaseCovers
<1>1. at[b] = "leased" /\ Covered(b) /\ missed'[b] = missed[b]
  BY DEF Tick, LeaseCovers
<1>2. Pending(b) = 0 /\ Pending(b)' = 1
  BY <1>1 DEF Tick, Pending
<1>3. lease'.owner = lease.owner /\ lease'.left = IF lease.left = 0 THEN 0 ELSE lease.left - 1
  BY DEF Tick, LeaseTypeOK, Lease
<1>4. lease.left \in Nat /\ missed[b] \in Nat
  BY LeaseFields, TtlAssumption DEF LeaseTypeOK
<1> QED
  BY <1>1, <1>2, <1>3, <1>4, TtlAssumption DEF Covered

\* A call that leaves takes its own row with it, if any.
LEMMA ReleaseKeepsCover ==
  ASSUME LeaseTypeOK, LeaseCovers, NEW a \in Acquires, Release(a)
  PROVE  LeaseCovers'
<1> SUFFICES ASSUME NEW b \in Acquires, at'[b] = "leased"
             PROVE  Covered(b)'
  BY DEF LeaseCovers
<1>1. b # a /\ at[b] = "leased" /\ due'[b] = due[b] /\ missed'[b] = missed[b]
  BY DEF Release, Leave, Go, LeaseTypeOK
<1>2. Covered(b)
  BY <1>1 DEF LeaseCovers
<1>3. lease.owner = b => lease' = lease
  BY <1>1 DEF Release
<1> QED
  BY <1>1, <1>2, <1>3 DEF Covered, Pending

\* Every step keeps every holder of the lease covered.
LEMMA CoverPreserved ==
  ASSUME LeaseTypeOK, LeaseCovers, [LeaseNext]_leaseVars
  PROVE  LeaseCovers'
<1>1. ASSUME NEW a \in Acquires, Acquire(a) \/ EnterLocked(a) \/ LeaveLocked(a)
      PROVE  LeaseCovers'
  <2>1. \A b \in Acquires : at'[b] = "leased" => at[b] = "leased"
    BY <1>1 DEF Acquire, EnterLocked, LeaveLocked, Leave, Go, LeaseTypeOK
  <2> QED
    BY <1>1, <2>1, SameKeepsCover DEF Acquire, EnterLocked, LeaveLocked
<1>2. ASSUME NEW a \in Acquires, FirstClaim(a)
      PROVE  LeaseCovers'
  <2>1. at[a] # "leased"
    BY <1>2 DEF FirstClaim
  <2>2. CASE Enter(a)
    BY <2>1, <2>2, EnterKeepsCover
  <2>3. CASE Go(a, "polling") /\ UNCHANGED <<lease, due, missed>>
    <3>1. \A b \in Acquires : at'[b] = "leased" => at[b] = "leased"
      BY <2>3 DEF Go, LeaseTypeOK
    <3> QED
      BY <2>3, <3>1, SameKeepsCover
  <2>4. CASE ClaimUnheard(a) /\ Go(a, "waiting") /\ UNCHANGED <<due, missed>>
    <3>1. \A b \in Acquires : at'[b] = "leased" => at[b] = "leased"
      BY <2>4 DEF Go, LeaseTypeOK
    <3> QED
      BY <2>1, <2>4, <3>1, UnheardKeepsCover
  <2> QED
    BY <1>2, <2>2, <2>3, <2>4 DEF FirstClaim
<1>3. ASSUME NEW a \in Acquires, Poll(a)
      PROVE  LeaseCovers'
  BY <1>3, EnterKeepsCover DEF Poll
<1>4. ASSUME NEW a \in Acquires, PollFails(a)
      PROVE  LeaseCovers'
  <2>1. \A b \in Acquires : at'[b] = "leased" => at[b] = "leased"
    BY <1>4 DEF PollFails, Leave, Go, LeaseTypeOK
  <2> QED
    BY <1>4, <2>1, UnheardKeepsCover DEF PollFails
<1>5. ASSUME NEW p \in Processes, Crash(p)
      PROVE  LeaseCovers'
  <2>1. \A b \in Acquires : at'[b] = "leased" => at[b] = "leased"
    BY <1>5 DEF Crash, LeaseTypeOK
  <2> QED
    BY <1>5, <2>1, SameKeepsCover DEF Crash
<1>6. CASE UNCHANGED leaseVars
  BY <1>6, SameKeepsCover DEF leaseVars
<1> QED
  BY <1>1, <1>2, <1>3, <1>4, <1>5, <1>6, ReleaseKeepsCover, HeartbeatKeepsCover,
     TickKeepsCover DEF LeaseNext, Step

\* A row that is gone has no life left.
LEMMA NoRowPreserved ==
  ASSUME LeaseTypeOK, NoRowNoLife, [LeaseNext]_leaseVars
  PROVE  NoRowNoLife'
<1>1. ASSUME NEW a \in Acquires, Step(a)
      PROVE  NoRowNoLife'
  <2>1. CASE UNCHANGED lease
    BY <2>1 DEF NoRowNoLife
  <2>2. CASE TakeLease(a)
    BY <2>2, AcquiresAssumption DEF TakeLease, NoRowNoLife
  <2>3. CASE lease' = NoLease
    BY <2>3 DEF NoLease, NoRowNoLife
  <2>4. CASE lease.owner = a /\ lease' = [lease EXCEPT !.left = Ttl]
    BY <2>4, AcquiresAssumption DEF NoRowNoLife, LeaseTypeOK, Lease
  <2> QED
    BY <1>1, <2>1, <2>2, <2>3, <2>4
    DEF Step, Acquire, FirstClaim, Enter, ClaimUnheard, Poll, PollFails, EnterLocked,
        LeaveLocked, Release, LeaseHeartbeat
<1>2. ASSUME Tick
      PROVE  NoRowNoLife'
  BY <1>2 DEF Tick, NoRowNoLife, LeaseTypeOK, Lease
<1>3. ASSUME (\E p \in Processes : Crash(p)) \/ UNCHANGED leaseVars
      PROVE  NoRowNoLife'
  BY <1>3 DEF Crash, leaseVars, NoRowNoLife
<1> QED
  BY <1>1, <1>2, <1>3 DEF LeaseNext

-----------------------------------------------------------------------------
(* The theorems.                                                           *)

\* The invariant holds at the start.
LEMMA InitEstablishes == LeaseInit => IInv
<1> SUFFICES ASSUME LeaseInit
             PROVE  IInv
  OBVIOUS
<1>1. LeaseTypeOK
  <2>1. lease \in Lease
    BY TtlAssumption DEF LeaseInit, NoLease, Lease
  <2>2. errors \in 0..MaxErrors /\ crashes \in 0..MaxCrashes
    BY BoundsAssumption DEF LeaseInit
  <2> QED
    BY <2>1, <2>2 DEF LeaseInit, LeaseTypeOK, Places
<1>2. \A p \in Processes : ActiveIn(p) = {}
  BY DEF LeaseInit, ActiveIn, Active
<1>3. DepthExact
  BY <1>2, FS_EmptySet DEF LeaseInit, DepthExact
<1> QED
  BY <1>1, <1>3 DEF LeaseInit, NoLease, IInv, LeaseCovers, NoRowNoLife, BoundToLock, FallbackExclusive

\* Every step keeps it.
LEMMA NextPreserves == IInv /\ [LeaseNext]_leaseVars => IInv'
  BY TypePreserved, CoverPreserved, NoRowPreserved, DepthPreserved, BoundPreserved,
     FallbackPreserved DEF IInv

\* The inductive invariant of the lock.
THEOREM LeaseInductive == LeaseSpec => []IInv
  BY InitEstablishes, NextPreserves, PTL DEF LeaseSpec

\* Type correctness: the lock of queue.py never leaves its states.
THEOREM LeaseTypeCorrect == LeaseSpec => []LeaseTypeOK
<1>1. IInv => LeaseTypeOK
  BY DEF IInv
<1> QED
  BY <1>1, LeaseInductive, PTL

\* Two calls are inside by the lease of migration 0038 only after one of them
\* missed every heartbeat of a lease's life.
THEOREM LeaseExclusiveHolds == LeaseSpec => []LeaseExclusive
<1>1. IInv => LeaseExclusive
  BY DEF IInv, LeaseCovers, Covered, LeaseExclusive
<1> QED
  BY <1>1, LeaseInductive, PTL

\* The in-memory lock of one process is exclusive, although acquire() drops
\* its object when the counter reaches zero.
THEOREM FallbackExclusiveHolds == LeaseSpec => []FallbackExclusive
<1>1. IInv => FallbackExclusive
  BY DEF IInv
<1> QED
  BY <1>1, LeaseInductive, PTL

\* depth() is the number of calls that run or wait, whichever way they leave.
THEOREM DepthExactHolds == LeaseSpec => []DepthExact
<1>1. IInv => DepthExact
  BY DEF IInv
<1> QED
  BY <1>1, LeaseInductive, PTL

\* A live lease is ended by its owner or by time, never by another call.
THEOREM LiveLeaseKeptHolds == LeaseSpec => LiveLeaseKept
<1>1. ASSUME IInv, [LeaseNext]_leaseVars, lease.left > 0, lease'.owner # lease.owner
      PROVE  at[lease.owner] = "leased" /\ at'[lease.owner] = "over"
  <2>1. ~Claimable
    BY <1>1, LeaseFields, TtlAssumption DEF Claimable, IInv, NoRowNoLife, LeaseTypeOK
  <2>2. ASSUME NEW a \in Acquires, Step(a)
        PROVE  Release(a) /\ lease.owner = a
    <3>1. CASE Release(a)
      BY <1>1, <3>1 DEF Release
    <3>2. CASE LeaseHeartbeat(a)
      BY <1>1, <3>2 DEF LeaseHeartbeat, IInv, LeaseTypeOK, Lease
    <3>3. CASE UNCHANGED lease
      BY <1>1, <3>3
    <3> QED
      BY <2>1, <2>2, <3>1, <3>2, <3>3
      DEF Step, Acquire, FirstClaim, Enter, ClaimUnheard, Poll, PollFails, EnterLocked, LeaveLocked
  <2>3. ASSUME NEW a \in Acquires, Step(a)
        PROVE  at[lease.owner] = "leased" /\ at'[lease.owner] = "over"
    BY <2>2, <2>3, <1>1 DEF Release, Leave, Go, IInv, LeaseTypeOK
  <2>4. ~Tick
    BY <1>1 DEF Tick, IInv, LeaseTypeOK, Lease
  <2>5. ~(UNCHANGED leaseVars) /\ ~\E p \in Processes : Crash(p)
    BY <1>1 DEF leaseVars, Crash
  <2> QED
    BY <1>1, <2>3, <2>4, <2>5 DEF LeaseNext
<1>2. IInv /\ [LeaseNext]_leaseVars => [lease.left > 0 /\ lease'.owner # lease.owner =>
                                at[lease.owner] = "leased" /\ at'[lease.owner] = "over"]_leaseVars
  BY <1>1
<1> QED
  BY <1>2, LeaseInductive, PTL DEF LeaseSpec, LiveLeaseKept

-----------------------------------------------------------------------------
(* The quality check.                                                      *)

\* The calls that have judged a creative and have not written its row.
InHand == {"counting", "adding", "looking", "writing"}

Holds(r, c) == call[r].at \in InHand /\ Item(r) = c

HasSaid(c, v) == \E n \in DOMAIN log[c] : log[c][n] = v

QualityTypes ==
  /\ seeded \subseteq Creatives
  /\ gate \in [Creatives -> States]
  /\ log \in [Creatives -> Seq(Verdicts)]
  /\ call = [r \in Runs |-> call[r]]

\* Nothing is judged before generation closes.
NothingBefore ==
  seeded = {} => (\A r \in Runs : call[r] = New) /\ \A c \in Creatives : log[c] = <<>>

\* A seeded row is never skipped, and a row that passed was judged so.
PassedWasSaid ==
  \A c \in Creatives : /\ c \in seeded => gate[c] \notin {"none", "skipped"}
                       /\ gate[c] = "passed" => HasSaid(c, "pass")

\* The verdict a call will write is an attempt in the evidence.
WrittenWasSaid ==
  \A r \in Runs :
    /\ call[r].at \in InHand => call[r].verdict \in Verdicts
    /\ call[r].at \in {"looking", "writing"} /\ Item(r) \in Creatives =>
         HasSaid(Item(r), call[r].verdict)

\* A creative that no two calls had in hand: the one call that has it adds the next
\* attempt, and writes the row of the last one.
OneInHand ==
  \A c \in Creatives \ raced, r \in Runs : Holds(r, c) =>
    /\ \A q \in Runs : Holds(q, c) => q = r
    /\ call[r].at = "adding" => call[r].number = Len(log[c]) + 1
    /\ call[r].at \in {"looking", "writing"} =>
         log[c] # <<>> /\ log[c][Len(log[c])] = call[r].verdict
    /\ call[r].at = "writing" => (call[r].found \/ gate[c] = "none")

\* LatestAttemptDrives, by Holds.
RestDrives ==
  \A c \in Creatives \ raced :
    log[c] # <<>> /\ (\A r \in Runs : ~Holds(r, c)) => gate[c] = StateOf[log[c][Len(log[c])]]

QualityInv ==
  /\ QualityTypes
  /\ NothingBefore
  /\ PassedWasSaid
  /\ WrittenWasSaid
  /\ OneInHand
  /\ RestDrives

LEMMA StateOfVerdict ==
  ASSUME NEW v \in Verdicts
  PROVE  /\ StateOf[v] \in {"passed", "failed", "pending"}
         /\ StateOf[v] = "passed" => v = "pass"
BY DEF Verdicts, StateOf

LEMMA BusyIsHolds ==
  ASSUME NEW c
  PROVE  Busy(c) = {} <=> \A r \in Runs : ~Holds(r, c)
<1>1. \A x : x \in Working \ {"judging"} <=> x \in InHand
  BY DEF Working, InHand
<1> QED BY <1>1 DEF Busy, Holds

LEMMA QualityInitInv == QualityInit => QualityInv
<1> SUFFICES ASSUME QualityInit
             PROVE  QualityInv
    OBVIOUS
<1>1. QualityTypes
  BY DEF QualityInit, QualityTypes, States
<1>2. \A r \in Runs : \A c : ~Holds(r, c)
  BY DEF QualityInit, Holds, InHand, New
<1>3. NothingBefore /\ PassedWasSaid /\ OneInHand /\ RestDrives
  BY <1>2 DEF QualityInit, NothingBefore, PassedWasSaid, OneInHand, RestDrives
<1>4. WrittenWasSaid
  BY DEF QualityInit, WrittenWasSaid, InHand, New
<1> QED BY <1>1, <1>3, <1>4 DEF QualityInv

\* A step of one call leaves the others as they are.
LEMMA OtherCalls ==
  ASSUME QualityTypes, NEW r \in Runs, NEW k, call' = [call EXCEPT ![r] = k]
  PROVE  /\ call'[r] = k /\ Item(r)' = Head(k.items)
         /\ \A q \in Runs : q # r => call'[q] = call[q] /\ Item(q)' = Item(q)
         /\ \A q \in Runs : \A c : q # r => Holds(q, c)' = Holds(q, c)
         /\ call' = [q \in Runs |-> call'[q]]
<1>1. call'[r] = k /\ \A q \in Runs : q # r => call'[q] = call[q]
  BY DEF QualityTypes
<1>2. call' = [q \in Runs |-> call'[q]]
  BY DEF QualityTypes
<1> QED BY <1>1, <1>2 DEF Item, Holds

\* A call is at work only once generation has closed.
LEMMA StartedAfterClose ==
  ASSUME QualityInv, NEW r \in Runs, call[r].at # "new"
  PROVE  seeded # {}
BY DEF QualityInv, NothingBefore, New

\* A call begins, goes on choosing, or gives up: the creative it had in hand is raced.
LEMMA EmptyHandKeeps ==
  ASSUME QualityInv, NEW r \in Runs, NEW k, call' = [call EXCEPT ![r] = k],
         k.at \notin InHand, UNCHANGED <<gate, log, seeded>>, seeded # {},
         raced \subseteq raced',
         call[r].at \in InHand /\ Item(r) \in Creatives => Item(r) \in raced'
  PROVE  QualityInv'
<1>0. QualityTypes
  BY DEF QualityInv
<1>1. /\ call'[r] = k
      /\ \A q \in Runs : q # r => call'[q] = call[q] /\ Item(q)' = Item(q)
      /\ \A q \in Runs : \A c : q # r => Holds(q, c)' = Holds(q, c)
      /\ call' = [q \in Runs |-> call'[q]]
  BY <1>0, OtherCalls
<1>2. \A c : ~Holds(r, c)'
  BY <1>1 DEF Holds
<1>3. QualityTypes'
  BY <1>0, <1>1 DEF QualityTypes
<1>4. NothingBefore' /\ PassedWasSaid'
  BY DEF QualityInv, NothingBefore, PassedWasSaid, HasSaid
<1>5. WrittenWasSaid'
  BY <1>1 DEF QualityInv, WrittenWasSaid, HasSaid, InHand
<1>6. OneInHand'
  BY <1>1, <1>2 DEF QualityInv, OneInHand
<1>7. RestDrives'
  <2> SUFFICES ASSUME NEW c \in Creatives \ raced', log[c] # <<>>,
                      \A q \in Runs : ~Holds(q, c)'
               PROVE  gate[c] = StateOf[log[c][Len(log[c])]]
      BY DEF RestDrives
  <2>1. \A q \in Runs : ~Holds(q, c)
    BY <1>1 DEF Holds
  <2> QED BY <2>1 DEF QualityInv, RestDrives
<1> QED BY <1>3, <1>4, <1>5, <1>6, <1>7 DEF QualityInv

LEMMA StartKeeps ==
  ASSUME QualityInv, NEW r \in Runs, HandlerStart(r) \/ OtherStart(r) \/ HandlerChoose(r)
  PROVE  QualityInv'
<1>1. CASE HandlerStart(r)
  <2> DEFINE k == [at |-> "choosing", unread |-> SelectSeq(Order, InScope), items |-> <<>>]
  <2>1. /\ call' = [call EXCEPT ![r] = k] /\ call[r] = New /\ seeded # {}
        /\ UNCHANGED <<gate, log, seeded, raced>>
    BY <1>1 DEF HandlerStart, finalVars
  <2>2. k.at \notin InHand /\ call[r].at \notin InHand
    BY <2>1 DEF InHand, New
  <2> HIDE DEF k
  <2> QED BY <2>1, <2>2, EmptyHandKeeps
<1>2. CASE OtherStart(r)
  <2>1. PICK S \in SUBSET Creatives :
          call' = [call EXCEPT
            ![r] = [at |-> "judging", items |-> SelectSeq(Order, LAMBDA c : c \in S)]]
    BY <1>2 DEF OtherStart
  <2> DEFINE k == [at |-> "judging", items |-> SelectSeq(Order, LAMBDA c : c \in S)]
  <2>2. call[r] = New /\ seeded # {} /\ UNCHANGED <<gate, log, seeded, raced>>
    BY <1>2 DEF OtherStart, finalVars
  <2>3. k.at \notin InHand /\ call[r].at \notin InHand /\ call' = [call EXCEPT ![r] = k]
    BY <2>1, <2>2 DEF InHand, New
  <2> HIDE DEF k
  <2> QED BY <2>2, <2>3, EmptyHandKeeps
<1>3. CASE HandlerChoose(r)
  <2> DEFINE k == call'[r]
  <2>1. call[r].at = "choosing" /\ UNCHANGED <<gate, log, seeded, raced>>
    BY <1>3 DEF HandlerChoose, finalVars
  <2>2. PICK j : /\ call' = [call EXCEPT ![r] = j]
                 /\ j.at \in {"choosing", "judging", "closing", "over"}
    <3> DEFINE c == Head(call[r].unread)
               undone == IF Done(gate[c]) THEN call[r].items ELSE Append(call[r].items, c)
               on == [at |-> "choosing", unread |-> Tail(call[r].unread), items |-> undone]
               go == [at |-> "judging", items |-> call[r].items]
               end == Ended(r, <<>>, FALSE)
               j == IF call[r].unread # <<>> THEN on ELSE IF call[r].items # <<>> THEN go ELSE end
    <3>1. call' = [call EXCEPT ![r] = j]
      BY <1>3 DEF HandlerChoose, QualityInv, QualityTypes
    <3>2. j.at \in {"choosing", "judging", "closing", "over"}
      BY DEF Ended
    <3> HIDE DEF j
    <3> QED BY <3>1, <3>2
  <2>3. j.at \notin InHand /\ call[r].at \notin InHand /\ seeded # {}
    BY <2>1, <2>2, StartedAfterClose DEF InHand
  <2> QED BY <2>1, <2>2, <2>3, EmptyHandKeeps
<1> QED BY <1>1, <1>2, <1>3

LEMMA RaiseIsStep ==
  ASSUME QualityInv, NEW r \in Runs, Raise(r)
  PROVE  \E k : call' = [call EXCEPT ![r] = k] /\ k.at \notin InHand
<1> DEFINE k == Ended(r, call[r].items, TRUE)
<1>1. call' = [call EXCEPT ![r] = k]
  BY DEF Raise, QualityInv, QualityTypes
<1>2. k.at \notin InHand
  BY DEF InHand, Ended
<1> HIDE DEF k
<1> QED BY <1>1, <1>2

\* A call is cut off, by a query that fails or with its process, or it is closed.
LEMMA CutOffKeeps ==
  ASSUME QualityInv, NEW r \in Runs, QueryFails(r) \/ Die(r) \/ CloseRow(r)
  PROVE  QualityInv'
<1>1. CASE QueryFails(r)
  <2>1. /\ Raise(r) /\ UNCHANGED <<gate, log, seeded>> /\ raced \subseteq raced'
        /\ call[r].at \in Working \cup {"choosing"}
        /\ call[r].at \in InHand => Item(r) \in raced'
    BY <1>1 DEF QueryFails, CutOff, finalVars, Working, InHand
  <2>2. seeded # {}
    BY <2>1, StartedAfterClose DEF Working
  <2>3. PICK k : call' = [call EXCEPT ![r] = k] /\ k.at \notin InHand
    BY <2>1, RaiseIsStep
  <2> QED BY <2>1, <2>2, <2>3, EmptyHandKeeps
<1>2. CASE Die(r)
  <2>1. /\ UNCHANGED <<gate, log, seeded>> /\ raced \subseteq raced'
        /\ call[r].at \in Working \cup {"choosing", "closing"}
        /\ call[r].at \in InHand => Item(r) \in raced'
    BY <1>2 DEF Die, CutOff, finalVars, Working, InHand
  <2>2. seeded # {}
    BY <2>1, StartedAfterClose DEF Working
  <2>3. PICK k : call' = [call EXCEPT ![r] = k] /\ k.at \notin InHand
    <3> DEFINE k == IF r \in Handlers THEN [at |-> "left"] ELSE Ended(r, call[r].items, TRUE)
    <3>1. call' = [call EXCEPT ![r] = k]
      BY <1>2 DEF Die, QualityInv, QualityTypes
    <3>2. k.at \notin InHand
      BY DEF InHand, Ended
    <3> HIDE DEF k
    <3> QED BY <3>1, <3>2
  <2> QED BY <2>1, <2>2, <2>3, EmptyHandKeeps
<1>3. CASE CloseRow(r)
  <2> DEFINE k == [at |-> "over", items |-> call[r].items, raised |-> call[r].raised]
  <2>1. /\ UNCHANGED <<gate, log, seeded, raced>> /\ call[r].at = "closing"
        /\ call' = [call EXCEPT ![r] = k]
    BY <1>3 DEF CloseRow, finalVars, QualityInv, QualityTypes
  <2>2. k.at \notin InHand /\ call[r].at \notin InHand /\ seeded # {}
    BY <2>1, StartedAfterClose DEF InHand
  <2> HIDE DEF k
  <2> QED BY <2>1, <2>2, EmptyHandKeeps
<1> QED BY <1>1, <1>2, <1>3

\* A call takes a creative in hand: alone, it drives the row from now on.
LEMMA JudgeKeeps ==
  ASSUME QualityInv, NEW r \in Runs, Judge(r)
  PROVE  QualityInv'
<1> DEFINE c == Item(r)
<1>0. QualityTypes /\ call[r].at = "judging" /\ seeded # {} /\ UNCHANGED <<gate, log, seeded>>
  BY StartedAfterClose DEF Judge, finalVars, QualityInv
<1>1. CASE Raise(r) /\ UNCHANGED raced
  <2>1. PICK k : call' = [call EXCEPT ![r] = k] /\ k.at \notin InHand
    BY <1>1, RaiseIsStep
  <2> QED BY <1>0, <1>1, <2>1, EmptyHandKeeps DEF InHand
<1>2. ASSUME NEW v \in VerdictsOn(c, CallerOf[r]),
             call' = [call EXCEPT ![r] = [at |-> "counting", items |-> @.items, verdict |-> v]],
             raced' = IF Busy(c) = {} THEN raced \ {c} ELSE raced \cup {c}
      PROVE  QualityInv'
  <2> DEFINE k == [at |-> "counting", items |-> call[r].items, verdict |-> v]
  <2>1. call' = [call EXCEPT ![r] = k]
    BY <1>0, <1>2 DEF QualityTypes
  <2>2. k.at = "counting" /\ k.verdict = v /\ Head(k.items) = c
    BY DEF Item
  <2>3. v \in Verdicts
    BY DEF VerdictsOn, Verdicts
  <2> HIDE DEF k
  <2>4. /\ call'[r] = k /\ Item(r)' = c
        /\ \A q \in Runs : q # r => call'[q] = call[q] /\ Item(q)' = Item(q)
        /\ \A q \in Runs : \A d : q # r => Holds(q, d)' = Holds(q, d)
        /\ call' = [q \in Runs |-> call'[q]]
    BY <1>0, <2>1, <2>2, OtherCalls
  <2>5. \A d : ~Holds(r, d)
    BY <1>0 DEF Holds, InHand
  <2>6. \A d : Holds(r, d)' <=> d = c
    BY <2>2, <2>4 DEF Holds, InHand
  <2> HIDE DEF c
  <2>7. QualityTypes'
    BY <1>0, <2>4 DEF QualityTypes
  <2>8. NothingBefore' /\ PassedWasSaid'
    BY <1>0 DEF QualityInv, NothingBefore, PassedWasSaid, HasSaid
  <2>9. WrittenWasSaid'
    BY <1>0, <2>2, <2>3, <2>4 DEF QualityInv, WrittenWasSaid, HasSaid
  <2>10. OneInHand'
    <3> SUFFICES ASSUME NEW d \in Creatives \ raced', NEW q \in Runs, Holds(q, d)'
                 PROVE  /\ \A p \in Runs : Holds(p, d)' => p = q
                        /\ call'[q].at = "adding" => call'[q].number = Len(log[d]) + 1
                        /\ call'[q].at \in {"looking", "writing"} =>
                             log[d] # <<>> /\ log[d][Len(log[d])] = call'[q].verdict
                        /\ call'[q].at = "writing" => (call'[q].found \/ gate[d] = "none")
        BY <1>0 DEF OneInHand
    <3>1. CASE d = c
      <4>1. \A p \in Runs : ~Holds(p, c)
        BY <1>2, <3>1, BusyIsHolds
      <4> QED BY <2>2, <2>4, <2>6, <3>1, <4>1
    <3>2. CASE d # c
      <4>1. d \notin raced /\ q # r /\ Holds(q, d)
        BY <1>2, <2>4, <2>6, <3>2
      <4>2. \A p \in Runs : Holds(p, d)' => Holds(p, d)
        BY <2>4, <2>6, <3>2
      <4> QED BY <2>4, <4>1, <4>2 DEF QualityInv, OneInHand
    <3> QED BY <3>1, <3>2
  <2>11. RestDrives'
    <3> SUFFICES ASSUME NEW d \in Creatives \ raced', log[d] # <<>>,
                        \A q \in Runs : ~Holds(q, d)'
                 PROVE  gate[d] = StateOf[log[d][Len(log[d])]]
        BY <1>0 DEF RestDrives
    <3>1. d # c /\ d \notin raced
      BY <1>2, <2>6
    <3>2. \A q \in Runs : ~Holds(q, d)
      BY <2>4, <2>5
    <3> QED BY <3>1, <3>2 DEF QualityInv, RestDrives
  <2> QED BY <2>7, <2>8, <2>9, <2>10, <2>11 DEF QualityInv
<1> QED BY <1>1, <1>2 DEF Judge

\* A call goes on with the creative it has in hand, and the others as they were.
LEMMA InHandKeeps ==
  ASSUME QualityInv, NEW r \in Runs, NEW k, call' = [call EXCEPT ![r] = k],
         call[r].at \in InHand, k.at \in InHand, k.items = call[r].items,
         k.verdict = call[r].verdict, UNCHANGED <<gate, seeded, raced>>,
         log' \in [Creatives -> Seq(Verdicts)],
         \A d \in Creatives : d # Item(r) => log'[d] = log[d],
         \A d \in Creatives, v \in Verdicts : HasSaid(d, v) => HasSaid(d, v)',
         k.at \in {"looking", "writing"} /\ Item(r) \in Creatives =>
           \E n \in DOMAIN log'[Item(r)] : log'[Item(r)][n] = k.verdict,
         Item(r) \in Creatives \ raced =>
           /\ k.at = "adding" => k.number = Len(log'[Item(r)]) + 1
           /\ k.at \in {"looking", "writing"} =>
                /\ log'[Item(r)] # <<>>
                /\ log'[Item(r)][Len(log'[Item(r)])] = k.verdict
           /\ k.at = "writing" => (k.found \/ gate[Item(r)] = "none")
  PROVE  QualityInv'
<1> DEFINE c == Item(r)
<1>0. QualityTypes /\ seeded # {} /\ k.verdict \in Verdicts
  BY StartedAfterClose DEF QualityInv, InHand, WrittenWasSaid
<1>1. /\ call'[r] = k /\ Item(r)' = c
      /\ \A q \in Runs : q # r => call'[q] = call[q] /\ Item(q)' = Item(q)
      /\ \A q \in Runs : \A d : q # r => Holds(q, d)' = Holds(q, d)
      /\ call' = [q \in Runs |-> call'[q]]
  BY <1>0, OtherCalls DEF Item
<1>2. \A d : Holds(r, d)' <=> Holds(r, d)
  BY <1>1 DEF Holds
<1>3. \A q \in Runs : \A d : Holds(q, d)' <=> Holds(q, d)
  BY <1>1, <1>2
<1>4. Holds(r, c)
  BY DEF Holds
<1>5. QualityTypes'
  BY <1>0, <1>1 DEF QualityTypes
<1>6. NothingBefore' /\ PassedWasSaid'
  BY <1>0 DEF QualityInv, NothingBefore, PassedWasSaid, Verdicts
<1>7. WrittenWasSaid'
  <2> SUFFICES ASSUME NEW q \in Runs
               PROVE  /\ call'[q].at \in InHand => call'[q].verdict \in Verdicts
                      /\ call'[q].at \in {"looking", "writing"} /\ Item(q)' \in Creatives =>
                           HasSaid(Item(q), call[q].verdict)'
      BY DEF WrittenWasSaid
  <2>1. CASE q = r
    <3>1. HasSaid(Item(q), call[q].verdict)' = (\E n \in DOMAIN log'[c] : log'[c][n] = k.verdict)
      BY <1>1, <2>1 DEF HasSaid
    <3> QED BY <1>0, <1>1, <2>1, <3>1
  <2>2. CASE q # r
    <3>1. HasSaid(Item(q), call[q].verdict)' = (\E n \in DOMAIN log'[Item(q)] : log'[Item(q)][n] = call[q].verdict)
      BY <1>1, <2>2 DEF HasSaid
    <3>2. call[q].at \in {"looking", "writing"} /\ Item(q) \in Creatives =>
            (\E n \in DOMAIN log'[Item(q)] : log'[Item(q)][n] = call[q].verdict)
      BY DEF QualityInv, WrittenWasSaid, HasSaid, InHand
    <3> QED BY <1>1, <2>2, <3>1, <3>2 DEF QualityInv, WrittenWasSaid
  <2> QED BY <2>1, <2>2
<1>8. OneInHand'
  <2> SUFFICES ASSUME NEW d \in Creatives \ raced, NEW q \in Runs, Holds(q, d)'
               PROVE  /\ \A p \in Runs : Holds(p, d)' => p = q
                      /\ call'[q].at = "adding" => call'[q].number = Len(log'[d]) + 1
                      /\ call'[q].at \in {"looking", "writing"} =>
                           log'[d] # <<>> /\ log'[d][Len(log'[d])] = call'[q].verdict
                      /\ call'[q].at = "writing" => (call'[q].found \/ gate[d] = "none")
      BY DEF OneInHand
  <2>1. Holds(q, d) /\ \A p \in Runs : Holds(p, d)' => p = q
    BY <1>3 DEF QualityInv, OneInHand
  <2>2. CASE q = r
    <3>1. d = c
      BY <2>1, <2>2 DEF Holds
    <3> QED BY <1>1, <2>1, <2>2, <3>1
  <2>3. CASE q # r
    <3>1. d # c
      BY <1>4, <2>1, <2>3 DEF QualityInv, OneInHand
    <3> QED BY <1>1, <2>1, <2>3, <3>1 DEF QualityInv, OneInHand
  <2> QED BY <2>2, <2>3
<1>9. RestDrives'
  <2> SUFFICES ASSUME NEW d \in Creatives \ raced, log'[d] # <<>>,
                      \A q \in Runs : ~Holds(q, d)'
               PROVE  gate[d] = StateOf[log'[d][Len(log'[d])]]
      BY DEF RestDrives
  <2>1. d # c /\ \A q \in Runs : ~Holds(q, d)
    BY <1>3, <1>4
  <2> QED BY <2>1 DEF QualityInv, RestDrives
<1> QED BY <1>5, <1>6, <1>7, <1>8, <1>9 DEF QualityInv

LEMMA CountKeeps ==
  ASSUME QualityInv, NEW r \in Runs, Count(r)
  PROVE  QualityInv'
<1> DEFINE k == [at |-> "adding", items |-> call[r].items, verdict |-> call[r].verdict,
                 number |-> Len(log[Item(r)]) + 1]
<1>1. /\ call[r].at = "counting" /\ call' = [call EXCEPT ![r] = k]
      /\ UNCHANGED <<gate, log, seeded, raced>> /\ log \in [Creatives -> Seq(Verdicts)]
  BY DEF Count, finalVars, QualityInv, QualityTypes
<1>2. /\ k.at = "adding" /\ k.items = call[r].items /\ k.verdict = call[r].verdict
      /\ k.number = Len(log[Item(r)]) + 1
  OBVIOUS
<1> HIDE DEF k
<1> QED BY <1>1, <1>2, InHandKeeps DEF InHand, HasSaid

LEMMA LookKeeps ==
  ASSUME QualityInv, NEW r \in Runs, Look(r)
  PROVE  QualityInv'
<1> DEFINE k == [at |-> "writing", items |-> call[r].items, verdict |-> call[r].verdict,
                 found |-> gate[Item(r)] # "none"]
<1>1. /\ call[r].at = "looking" /\ call' = [call EXCEPT ![r] = k]
      /\ UNCHANGED <<gate, log, seeded, raced>> /\ log \in [Creatives -> Seq(Verdicts)]
  BY DEF Look, finalVars, QualityInv, QualityTypes
<1>2. /\ k.at = "writing" /\ k.items = call[r].items /\ k.verdict = call[r].verdict
      /\ k.found = (gate[Item(r)] # "none")
  OBVIOUS
<1>3. Item(r) \in Creatives \ raced =>
        log[Item(r)] # <<>> /\ log[Item(r)][Len(log[Item(r)])] = call[r].verdict
  BY <1>1 DEF QualityInv, OneInHand, Holds, InHand
<1>4. Item(r) \in Creatives => \E n \in DOMAIN log'[Item(r)] : log'[Item(r)][n] = k.verdict
  BY <1>1, <1>2 DEF QualityInv, WrittenWasSaid, HasSaid
<1>5. \A d \in Creatives, v \in Verdicts : HasSaid(d, v) => HasSaid(d, v)'
  BY <1>1 DEF HasSaid
<1> HIDE DEF k
<1> QED BY <1>1, <1>2, <1>3, <1>4, <1>5, InHandKeeps DEF InHand

LEMMA AddKeeps ==
  ASSUME QualityInv, NEW r \in Runs, Add(r)
  PROVE  QualityInv'
<1> DEFINE c == Item(r)
           v == call[r].verdict
           k == [at |-> "looking", items |-> call[r].items, verdict |-> v]
<1>0. /\ call[r].at = "adding" /\ QualityTypes /\ v \in Verdicts /\ seeded # {}
      /\ UNCHANGED <<gate, seeded, raced>>
      /\ c \in Creatives \ raced => call[r].number = Len(log[c]) + 1
  BY StartedAfterClose DEF Add, finalVars, QualityInv, WrittenWasSaid, OneInHand, Holds, InHand
<1>1. CASE call[r].number <= Len(log[c])
  <2>1. Raise(r) /\ UNCHANGED log
    BY <1>1 DEF Add
  <2>2. c \in Creatives => c \in raced
    <3> SUFFICES ASSUME c \in Creatives, c \notin raced
                 PROVE  FALSE
        OBVIOUS
    <3>1. Len(log[c]) \in Nat
      BY <1>0 DEF QualityTypes
    <3> QED BY <1>0, <1>1, <3>1
  <2>3. PICK j : call' = [call EXCEPT ![r] = j] /\ j.at \notin InHand
    BY <2>1, RaiseIsStep
  <2> QED BY <1>0, <2>1, <2>2, <2>3, EmptyHandKeeps
<1>2. CASE ~(call[r].number <= Len(log[c]))
  <2>1. log' = [log EXCEPT ![c] = Append(log[c], v)] /\ call' = [call EXCEPT ![r] = k]
    BY <1>0, <1>2 DEF Add, QualityTypes
  <2>2. k.at = "looking" /\ k.items = call[r].items /\ k.verdict = v
    OBVIOUS
  <2> HIDE DEF k, c, v
  <2>3. c \in Creatives => /\ log[c] \in Seq(Verdicts) /\ log'[c] = Append(log[c], v)
                           /\ Append(log[c], v) \in Seq(Verdicts)
                           /\ Append(log[c], v) # <<>>
                           /\ Len(Append(log[c], v)) = Len(log[c]) + 1
                           /\ Len(log[c]) + 1 \in DOMAIN Append(log[c], v)
                           /\ Append(log[c], v)[Len(log[c]) + 1] = v
                           /\ DOMAIN log[c] \subseteq DOMAIN Append(log[c], v)
                           /\ \A n \in DOMAIN log[c] : Append(log[c], v)[n] = log[c][n]
    <3>1. log \in [Creatives -> Seq(Verdicts)] /\ v \in Verdicts
          /\ log' = [log EXCEPT ![c] = Append(log[c], v)]
      BY <1>0, <2>1 DEF QualityTypes
    <3> QED BY <3>1
  <2>4. log' \in [Creatives -> Seq(Verdicts)] /\ \A d \in Creatives : d # c => log'[d] = log[d]
    BY <1>0, <2>1, <2>3 DEF QualityTypes
  <2>5. \A d \in Creatives, w \in Verdicts : HasSaid(d, w) => HasSaid(d, w)'
    BY <2>3, <2>4 DEF HasSaid
  <2>6. c \in Creatives => \E n \in DOMAIN log'[c] : log'[c][n] = k.verdict
    BY <2>2, <2>3
  <2>7. c \in Creatives \ raced => log'[c] # <<>> /\ log'[c][Len(log'[c])] = k.verdict
    BY <2>2, <2>3
  <2> QED BY <1>0, <2>1, <2>2, <2>4, <2>5, <2>6, <2>7, InHandKeeps DEF InHand, c, v
<1> QED BY <1>1, <1>2

\* The row of the verdict is written: its call leaves the creative.
LEMMA WriteKeeps ==
  ASSUME QualityInv, NEW r \in Runs, Write(r)
  PROVE  QualityInv'
<1> DEFINE c == Item(r)
           v == call[r].verdict
<1>0. /\ QualityTypes /\ call[r].at = "writing" /\ seeded # {}
      /\ UNCHANGED <<log, seeded, raced>> /\ v \in Verdicts /\ Holds(r, c)
  BY StartedAfterClose DEF Write, finalVars, QualityInv, WrittenWasSaid, InHand, Holds
<1>1. CASE UNCHANGED gate /\ Raise(r) /\ ~(call[r].found \/ gate[c] = "none")
  <2>1. c \in Creatives => c \in raced
    BY <1>0, <1>1 DEF QualityInv, OneInHand
  <2>2. PICK k : call' = [call EXCEPT ![r] = k] /\ k.at \notin InHand
    BY <1>1, RaiseIsStep
  <2> QED BY <1>0, <1>1, <2>1, <2>2, EmptyHandKeeps
<1>2. CASE gate' = [gate EXCEPT ![c] = StateOf[v]] /\ NextItem(r)
  <2>1. PICK k : call' = [call EXCEPT ![r] = k] /\ k.at \notin InHand
    <3> DEFINE k == IF Len(call[r].items) > 1
                      THEN [at |-> "judging", items |-> Tail(call[r].items)]
                      ELSE Ended(r, <<>>, FALSE)
    <3>1. call' = [call EXCEPT ![r] = k]
      BY <1>2 DEF NextItem, QualityInv, QualityTypes
    <3>2. k.at \notin InHand
      BY DEF InHand, Ended
    <3> HIDE DEF k
    <3> QED BY <3>1, <3>2
  <2>2. CASE c \notin Creatives
    <3>1. gate' = gate
      BY <1>0, <1>2, <2>2 DEF QualityTypes
    <3> QED BY <1>0, <2>1, <2>2, <3>1, EmptyHandKeeps
  <2>3. CASE c \in Creatives
    <3>1. /\ gate'[c] = StateOf[v]
          /\ \A d \in Creatives : d # c => gate'[d] = gate[d]
          /\ gate' \in [Creatives -> States]
      BY <1>0, <1>2, <2>3, StateOfVerdict DEF QualityTypes, States
    <3>2. HasSaid(c, v)
      BY <1>0, <2>3 DEF QualityInv, WrittenWasSaid
    <3>3. c \notin raced => /\ \A q \in Runs : Holds(q, c) => q = r
                            /\ log[c] # <<>> /\ log[c][Len(log[c])] = v
      BY <1>0, <2>3 DEF QualityInv, OneInHand
    <3>4. /\ \A q \in Runs : q # r => call'[q] = call[q] /\ Item(q)' = Item(q)
          /\ \A q \in Runs : \A d : q # r => Holds(q, d)' = Holds(q, d)
          /\ call' = [q \in Runs |-> call'[q]] /\ call'[r] = k
      BY <1>0, <2>1, OtherCalls
    <3>5. \A d : ~Holds(r, d)'
      BY <2>1, <3>4 DEF Holds
    <3>6. \A d : d # c => ~Holds(r, d)
      BY DEF Holds
    <3> HIDE DEF c, v
    <3>7. QualityTypes'
      BY <1>0, <3>1, <3>4 DEF QualityTypes
    <3>8. NothingBefore'
      BY <1>0 DEF NothingBefore
    <3>9. PassedWasSaid'
      <4> SUFFICES ASSUME NEW d \in Creatives
                   PROVE  /\ d \in seeded => gate'[d] \notin {"none", "skipped"}
                          /\ gate'[d] = "passed" => HasSaid(d, "pass")
          BY <1>0 DEF PassedWasSaid, HasSaid
      <4>1. CASE d = c
        BY <1>0, <3>1, <3>2, <4>1, StateOfVerdict
      <4>2. CASE d # c
        BY <3>1, <4>2 DEF QualityInv, PassedWasSaid
      <4> QED BY <4>1, <4>2
    <3>10. WrittenWasSaid'
      BY <1>0, <2>1, <3>4 DEF QualityInv, WrittenWasSaid, HasSaid, InHand
    <3>11. OneInHand'
      <4> SUFFICES ASSUME NEW d \in Creatives \ raced, NEW q \in Runs, Holds(q, d)'
                   PROVE  /\ \A p \in Runs : Holds(p, d)' => p = q
                          /\ call'[q].at = "adding" => call'[q].number = Len(log[d]) + 1
                          /\ call'[q].at \in {"looking", "writing"} =>
                               log[d] # <<>> /\ log[d][Len(log[d])] = call'[q].verdict
                          /\ call'[q].at = "writing" => (call'[q].found \/ gate'[d] = "none")
          BY <1>0 DEF OneInHand
      <4>1. q # r /\ Holds(q, d)
        BY <3>4, <3>5
      <4>2. d # c
        BY <3>3, <4>1
      <4>3. \A p \in Runs : Holds(p, d)' => Holds(p, d)
        BY <3>4, <3>5
      <4> QED BY <3>1, <3>4, <4>1, <4>2, <4>3 DEF QualityInv, OneInHand
    <3>12. RestDrives'
      <4> SUFFICES ASSUME NEW d \in Creatives \ raced, log[d] # <<>>,
                          \A q \in Runs : ~Holds(q, d)'
                   PROVE  gate'[d] = StateOf[log[d][Len(log[d])]]
          BY <1>0 DEF RestDrives
      <4>1. CASE d = c
        BY <3>1, <3>3, <4>1
      <4>2. CASE d # c
        BY <3>1, <3>4, <3>6, <4>2 DEF QualityInv, RestDrives
      <4> QED BY <4>1, <4>2
    <3> QED BY <3>7, <3>8, <3>9, <3>10, <3>11, <3>12 DEF QualityInv
  <2> QED BY <2>2, <2>3
<1> QED BY <1>0, <1>1, <1>2 DEF Write

\* Generation closes on an empty ledger.
LEMMA CloseKeeps ==
  ASSUME QualityInv, Close
  PROVE  QualityInv'
<1>1. /\ seeded' = {c \in Creatives : InScope(c)} /\ seeded' # {}
      /\ gate' = [c \in Creatives |-> CASE InScope(c) -> "pending"
                                        [] c \in Videos /\ film[c] = "failed" -> "skipped"
                                        [] OTHER -> "none"]
      /\ UNCHANGED <<log, call, raced>>
  BY DEF Close
<1>2. (\A r \in Runs : call[r] = New) /\ \A c \in Creatives : log[c] = <<>>
  BY DEF Close, QualityInv, NothingBefore
<1>3. \A c \in Creatives : /\ gate'[c] \in {"pending", "skipped", "none"}
                           /\ InScope(c) => gate'[c] = "pending"
  <2> SUFFICES ASSUME NEW c \in Creatives
               PROVE  /\ gate'[c] \in {"pending", "skipped", "none"}
                      /\ InScope(c) => gate'[c] = "pending"
      OBVIOUS
  <2> DEFINE row == CASE InScope(c) -> "pending"
                      [] c \in Videos /\ film[c] = "failed" -> "skipped"
                      [] OTHER -> "none"
  <2>0. gate'[c] = row
    BY <1>1
  <2>1. CASE InScope(c)
    <3>1. row = "pending"
      BY <2>1 DEF InScope
    <3> QED BY <2>0, <3>1
  <2>2. CASE ~InScope(c) /\ c \in Videos /\ film[c] = "failed"
    BY <1>1, <2>2
  <2>3. CASE ~InScope(c) /\ ~(c \in Videos /\ film[c] = "failed")
    BY <1>1, <2>3
  <2> QED BY <2>1, <2>2, <2>3
<1>4. QualityTypes'
  <2>1. gate' \in [Creatives -> States]
    BY <1>1, <1>3 DEF States
  <2> QED BY <1>1, <2>1 DEF QualityInv, QualityTypes
<1>5. NothingBefore' /\ PassedWasSaid'
  BY <1>1, <1>3 DEF NothingBefore, PassedWasSaid
<1>6. WrittenWasSaid' /\ OneInHand'
  BY <1>1, <1>2 DEF WrittenWasSaid, OneInHand, Holds, InHand, New
<1>7. RestDrives'
  BY <1>1, <1>2 DEF RestDrives
<1> QED BY <1>4, <1>5, <1>6, <1>7 DEF QualityInv

LEMMA QuietKeeps ==
  ASSUME QualityInv, UNCHANGED <<seeded, gate, log, call, raced>>
  PROVE  QualityInv'
<1>1. \A r \in Runs : \A c : Item(r)' = Item(r) /\ Holds(r, c)' = Holds(r, c)
  BY DEF Item, Holds
<1>2. QualityTypes' /\ NothingBefore' /\ PassedWasSaid'
  BY DEF QualityInv, QualityTypes, NothingBefore, PassedWasSaid, HasSaid
<1>4. WrittenWasSaid' /\ OneInHand'
  BY <1>1 DEF QualityInv, WrittenWasSaid, HasSaid, OneInHand
<1>3. RestDrives'
  BY <1>1 DEF QualityInv, RestDrives
<1> QED BY <1>2, <1>3, <1>4 DEF QualityInv

LEMMA QualityStepKeeps ==
  ASSUME QualityInv, [QualityNext]_qualityVars
  PROVE  QualityInv'
<1>1. CASE Close
  BY <1>1, CloseKeeps
<1>2. CASE \E v \in Videos : CaptionLate(v)
  BY <1>2, QuietKeeps DEF CaptionLate
<1>3. CASE \E c \in Creatives, a \in Assets : RenderAgain(c, a)
  BY <1>3, QuietKeeps DEF RenderAgain
<1>4. ASSUME NEW r \in Runs,
             HandlerStart(r) \/ OtherStart(r) \/ StepOf(r) \/ Rotate(r) \/ QueryFails(r) \/ Die(r)
      PROVE  QualityInv'
  <2>1. CASE HandlerStart(r) \/ OtherStart(r) \/ HandlerChoose(r)
    BY <2>1, StartKeeps
  <2>2. CASE Judge(r)
    BY <2>2, JudgeKeeps
  <2>3. CASE Count(r)
    BY <2>3, CountKeeps
  <2>4. CASE Add(r)
    BY <2>4, AddKeeps
  <2>5. CASE Look(r)
    BY <2>5, LookKeeps
  <2>6. CASE Write(r)
    BY <2>6, WriteKeeps
  <2>7. CASE Rotate(r)
    BY <2>7, QuietKeeps DEF Rotate, finalVars
  <2>8. CASE QueryFails(r) \/ Die(r) \/ CloseRow(r)
    BY <2>8, CutOffKeeps
  <2> QED BY <1>4, <2>1, <2>2, <2>3, <2>4, <2>5, <2>6, <2>7, <2>8 DEF StepOf
<1>5. CASE UNCHANGED qualityVars
  BY <1>5, QuietKeeps DEF qualityVars, finalVars
<1> QED BY <1>1, <1>2, <1>3, <1>4, <1>5 DEF QualityNext

THEOREM QualityInductive == QualitySpec => []QualityInv
<1>1. QualityInv /\ [QualityNext]_qualityVars => QualityInv'
  BY QualityStepKeeps
<1> QED BY <1>1, QualityInitInv, PTL DEF QualitySpec

\* OpenGateIsJudged: the quality gate of a pipeline (0038_stage_gates.sql) opens only
\* over creatives whose evidence holds a passing attempt, for any number of calls of
\* qa_run that overlap, are tried again, or die between two writes (qa_run.py).
THEOREM OpenGateIsJudgedHolds == QualitySpec => []OpenGateIsJudged
<1>1. QualityInv => OpenGateIsJudged
  <2> SUFFICES ASSUME QualityInv, GateOpen, NEW c \in seeded
               PROVE  \E n \in DOMAIN log[c] : log[c][n] = "pass"
      BY DEF OpenGateIsJudged
  <2>1. gate[c] = "passed"
    BY DEF GateOpen, Cleared, QualityInv, QualityTypes, PassedWasSaid
  <2> QED BY <2>1 DEF QualityInv, QualityTypes, PassedWasSaid, HasSaid
<1> QED BY <1>1, QualityInductive, PTL

\* LatestAttemptDrives: the row of a creative says what its latest attempt in qa_result
\* found, unless two calls had it in hand at a time or one was cut off between the two
\* writes: nothing else, such as a call for another creative, can move it.
THEOREM LatestAttemptDrivesHolds == QualitySpec => []LatestAttemptDrives
<1>1. QualityInv => LatestAttemptDrives
  BY BusyIsHolds DEF QualityInv, RestDrives, LatestAttemptDrives
<1> QED BY <1>1, QualityInductive, PTL
=============================================================================
