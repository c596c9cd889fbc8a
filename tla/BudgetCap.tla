------------------------------ MODULE BudgetCap ------------------------------
(***************************************************************************)
(* The hard budget cap of a pipeline.  reserve_budget sums cost_ledger and *)
(* refuses an estimate that would pass the cap; it writes nothing.  The    *)
(* paid work that follows is recorded in the ledger once it is done.  Jobs *)
(* of the worker differ in where they check and when they record:          *)
(*   "batch"   the ideation and generation renders check each unit, while  *)
(*             they hold the lock of their brief, and record it at once;   *)
(*   "broll"   broll-search checks all its clips at once, before it asks   *)
(*             for the lock, and records the clips it made after it gave   *)
(*             the lock back, under a key that names their number;         *)
(*   "voice"   the voiceover never checks, and records its segments as     *)
(*             broll-search does, under a key that names their length;     *)
(*   "tool"    the operator's render tool never checks, and records each   *)
(*             unit at once.                                               *)
(*                                                                         *)
(* A unit is one paid call at one price: <<job, run, number>>.             *)
(***************************************************************************)
EXTENDS Naturals, FiniteSets

CONSTANTS
  Jobs,       \* what is paid for one pipeline
  KindOf,     \* "batch", "broll", "voice" or "tool"
  BriefOf,    \* the image or the video brief whose lock the job takes
  UnitsOf,    \* the paid calls of one run of a job
  Cap,        \* pipelines.budget_cap_usd or the configured default, in units
  MaxRuns,    \* bound: runs of each job
  MaxMishaps  \* bound: failed calls and writes, worker restarts

ASSUME BudgetAssumption ==
  /\ KindOf \in [Jobs -> {"batch", "broll", "voice", "tool"}]
  /\ UnitsOf \in [Jobs -> Nat]
  /\ MaxRuns \in [Jobs -> Nat]
  /\ Cap \in Nat
  /\ MaxMishaps \in Nat

VARIABLES
  jobAt,     \* where each job stands
  run,       \* its runs so far
  unit,      \* the unit it is at
  made,      \* the clips or segments it has made in this run
  inLock,    \* the jobs that hold the lease of their brief
  charged,   \* the units the vendor was paid for
  recorded,  \* the units the ledger counts
  keys,      \* the dedupe keys of the ledger
  reserved,  \* units admitted by a check and neither recorded nor given up
  loose,     \* units admitted by no check, or by one that could not see all
  abandoned, \* history: runs that ended with an error and recorded nothing
  mishaps

budgetVars == <<jobAt, run, unit, made, inLock, charged, recorded, keys,
                reserved, loose, abandoned, mishaps>>

Unit == Jobs \X Nat \X Nat
Turn(j, k) == <<j, run[j], k>>
Current(j) == Turn(j, unit[j])
Turns(j) == {Turn(j, k) : k \in 1..UnitsOf[j]}

\* Jobs that record what they made in one row, when they are through.
RecordsLast(j) == KindOf[j] \in {"broll", "voice"}

BudgetInit ==
  /\ jobAt = [j \in Jobs |-> "idle"]
  /\ run = [j \in Jobs |-> 0]
  /\ unit = [j \in Jobs |-> 1]
  /\ made = [j \in Jobs |-> {}]
  /\ inLock = {}
  /\ charged = {}
  /\ recorded = {}
  /\ keys = {}
  /\ reserved = {}
  /\ loose = {}
  /\ abandoned = {}
  /\ mishaps = 0

Mishap == mishaps < MaxMishaps /\ mishaps' = mishaps + 1
Move(j, pc) == jobAt' = [jobAt EXCEPT ![j] = pc]
NextUnit(j) == unit' = [unit EXCEPT ![j] = @ + 1]

-----------------------------------------------------------------------------
(* The check.                                                              *)

\* Two batches that hold the lease of one brief take turns: neither overlaps the
\* other.
TakeTurns(i, j) ==
  /\ {i, j} \subseteq inLock
  /\ KindOf[i] = "batch" /\ KindOf[j] = "batch" /\ BriefOf[i] = BriefOf[j]

\* Mutant: the estimate is left out of the comparison.
ReserveSpent(j, units, spent) ==
  /\ spent <= Cap
  /\ reserved' = reserved \cup units
  /\ loose' = IF spent = Cardinality(recorded)
                 /\ \A t \in reserved : TakeTurns(j, t[1])
              THEN loose ELSE loose \cup units

\* reserve_budget: landing on the cap is allowed.  Admitted units are loose if
\* other work was admitted and is not in the sum yet.
Reserve(j, units, spent) ==
  /\ spent + Cardinality(units) <= Cap
  /\ reserved' = reserved \cup units
  /\ loose' = IF spent = Cardinality(recorded)
                 /\ \A t \in reserved : TakeTurns(j, t[1])
              THEN loose ELSE loose \cup units

Refused(units) == Cardinality(recorded) + Cardinality(units) > Cap

\* A failed read of the ledger counts as nothing spent.
Checks(j, units) ==
  \/ Reserve(j, units, Cardinality(recorded)) /\ UNCHANGED mishaps
  \/ recorded # {} /\ Mishap /\ Reserve(j, units, 0)

Start(j) ==
  /\ jobAt[j] \in {"idle", "ended"}
  /\ run[j] < MaxRuns[j]
  /\ Move(j, IF KindOf[j] = "broll" THEN "checking" ELSE "queued")
  /\ run' = [run EXCEPT ![j] = @ + 1]
  /\ unit' = [unit EXCEPT ![j] = 1]
  /\ made' = [made EXCEPT ![j] = {}]
  /\ UNCHANGED <<inLock, charged, recorded, keys, reserved, loose, abandoned, mishaps>>

\* broll-search checks one clip per segment before it queues for the lock; a
\* refusal is a 402.
CheckAhead(j) ==
  /\ jobAt[j] = "checking"
  /\ \/ Checks(j, Turns(j)) /\ Move(j, "queued")
     \/ Refused(Turns(j)) /\ Move(j, "ended") /\ UNCHANGED <<reserved, loose, mishaps>>
  /\ UNCHANGED <<run, unit, made, inLock, charged, recorded, keys, abandoned>>

TakeLock(j) ==
  /\ jobAt[j] = "queued"
  /\ \A i \in inLock : BriefOf[i] # BriefOf[j]
  /\ inLock' = inLock \cup {j}
  /\ Move(j, "working")
  /\ UNCHANGED <<run, unit, made, charged, recorded, keys, reserved, loose, abandoned, mishaps>>

\* A claim of the lease fails.  After the first one the job goes on without the
\* lease, under a lock of its process that no job of another process sees, nor one
\* that holds the lease; any later one ends it.
ClaimFails(j) ==
  /\ jobAt[j] = "queued"
  /\ Mishap
  /\ \/ Move(j, "working") /\ UNCHANGED reserved
     \/ Move(j, "ended") /\ reserved' = reserved \ Turns(j)
  /\ UNCHANGED <<run, unit, made, inLock, charged, recorded, keys, loose, abandoned>>

\* The heartbeats of the lease fail until it may be taken over; the job does not
\* notice.
LeaseLapses(j) ==
  /\ j \in inLock
  /\ Mishap
  /\ inLock' = inLock \ {j}
  /\ UNCHANGED <<jobAt, run, unit, made, charged, recorded, keys, reserved, loose, abandoned>>

AtUnit(j) == jobAt[j] = "working" /\ unit[j] <= UnitsOf[j]

\* A batch checks each of its units under the lock; a refused one is an error
\* of that unit only.
CheckUnit(j) ==
  /\ AtUnit(j)
  /\ KindOf[j] = "batch"
  /\ Current(j) \notin reserved
  /\ \/ Checks(j, {Current(j)}) /\ UNCHANGED unit
     \/ Refused({Current(j)}) /\ NextUnit(j) /\ UNCHANGED <<reserved, loose, mishaps>>
  /\ UNCHANGED <<jobAt, run, made, inLock, charged, recorded, keys, abandoned>>

-----------------------------------------------------------------------------
(* The work.                                                               *)

\* The vendor takes the order, and bills it ...
Pay(j) ==
  /\ AtUnit(j)
  /\ KindOf[j] = "batch" => Current(j) \in reserved
  /\ charged' = charged \cup {Current(j)}
  /\ loose' = IF KindOf[j] \in {"voice", "tool"} THEN loose \cup {Current(j)} ELSE loose
  /\ Move(j, "paid")
  /\ UNCHANGED <<run, unit, made, inLock, recorded, keys, reserved, abandoned, mishaps>>

\* ... or does not.
PayFails(j) ==
  /\ AtUnit(j)
  /\ KindOf[j] # "voice"
  /\ KindOf[j] = "batch" => Current(j) \in reserved
  /\ Mishap
  /\ reserved' = reserved \ {Current(j)}
  /\ NextUnit(j)
  /\ UNCHANGED <<jobAt, run, made, inLock, charged, recorded, keys, loose, abandoned>>

\* The result is stored.  A clip or segment is counted among those made; any other
\* unit is recorded at once, without a key.
Settle(j) ==
  /\ jobAt[j] = "paid"
  /\ IF RecordsLast(j)
       THEN /\ made' = [made EXCEPT ![j] = @ \cup {Current(j)}]
            /\ UNCHANGED <<recorded, reserved>>
       ELSE /\ recorded' = recorded \cup {Current(j)}
            /\ reserved' = reserved \ {Current(j)}
            /\ UNCHANGED made
  /\ NextUnit(j)
  /\ Move(j, "working")
  /\ UNCHANGED <<run, inLock, charged, keys, loose, abandoned, mishaps>>

\* The poll, the download, the upload, the insert or the ledger write fails:
\* the unit is paid for, and not recorded.
SettleFails(j) ==
  /\ jobAt[j] = "paid"
  /\ KindOf[j] # "voice"
  /\ Mishap
  /\ reserved' = reserved \ {Current(j)}
  /\ NextUnit(j)
  /\ Move(j, "working")
  /\ UNCHANGED <<run, made, inLock, charged, recorded, keys, loose, abandoned>>

\* Mutant: what was made is not recorded at all.
GiveLockAndEnd(j) ==
  /\ jobAt[j] = "working"
  /\ unit[j] > UnitsOf[j]
  /\ inLock' = inLock \ {j}
  /\ Move(j, "ended")
  /\ UNCHANGED <<run, unit, made, charged, recorded, keys, reserved, loose, abandoned, mishaps>>

\* The job is through its units and gives the lock back.
GiveLock(j) ==
  /\ jobAt[j] = "working"
  /\ unit[j] > UnitsOf[j]
  /\ inLock' = inLock \ {j}
  /\ Move(j, IF RecordsLast(j) THEN "recording" ELSE "ended")
  /\ UNCHANGED <<run, unit, made, charged, recorded, keys, reserved, loose, abandoned, mishaps>>

\* Broll-search and the voiceover end with an error: the lock is given back, and
\* what was made is not recorded.  A segment without a query, or without a text, is
\* met when its turn comes; a segment may yield no clip, and the track or the row of
\* the stage may fail to be stored; any failure of a call of the voiceover ends it.
Abort(j) ==
  /\ RecordsLast(j)
  /\ \/ AtUnit(j) /\ UNCHANGED mishaps
     \/ jobAt[j] = "working" /\ Mishap
     \/ jobAt[j] = "paid" /\ KindOf[j] = "voice" /\ Mishap
  /\ inLock' = inLock \ {j}
  /\ reserved' = reserved \ Turns(j)
  /\ abandoned' = abandoned \cup {<<j, run[j]>>}
  /\ Move(j, "ended")
  /\ UNCHANGED <<run, unit, made, charged, recorded, keys, loose>>

\* What the key says: the number of clips, or the length of the text, named here by
\* the first run that may have had it.
KeySizes(j) == IF KindOf[j] = "broll" THEN {Cardinality(made[j])} ELSE 1..run[j]

\* What was made is recorded as one row, unless a row has its key.
RecordClips(j) ==
  /\ jobAt[j] = "recording"
  /\ \E size \in KeySizes(j) :
       /\ recorded' = IF <<j, size>> \in keys THEN recorded ELSE recorded \cup made[j]
       /\ keys' = IF made[j] = {} THEN keys ELSE keys \cup {<<j, size>>}
  /\ reserved' = reserved \ Turns(j)
  /\ Move(j, "ended")
  /\ UNCHANGED <<run, unit, made, inLock, charged, loose, abandoned, mishaps>>

RecordFails(j) ==
  /\ jobAt[j] = "recording"
  /\ Mishap
  /\ reserved' = reserved \ Turns(j)
  /\ Move(j, "ended")
  /\ UNCHANGED <<run, unit, made, inLock, charged, recorded, keys, loose, abandoned>>

\* The worker restarts: its jobs are gone, and its locks with them.
WorkerRestart ==
  /\ Mishap
  /\ jobAt' = [j \in Jobs |-> IF jobAt[j] = "idle" THEN "idle" ELSE "ended"]
  /\ inLock' = {}
  /\ reserved' = {}
  /\ UNCHANGED <<run, unit, made, charged, recorded, keys, loose, abandoned>>

-----------------------------------------------------------------------------
JobStep(j) ==
  \/ CheckAhead(j) \/ TakeLock(j) \/ ClaimFails(j) \/ LeaseLapses(j)
  \/ CheckUnit(j) \/ Pay(j) \/ PayFails(j) \/ Settle(j) \/ SettleFails(j)
  \/ GiveLock(j) \/ Abort(j) \/ RecordClips(j) \/ RecordFails(j)

BudgetNext == (\E j \in Jobs : Start(j) \/ JobStep(j)) \/ WorkerRestart

BudgetSpec == BudgetInit /\ [][BudgetNext]_budgetVars

-----------------------------------------------------------------------------
(* Properties.                                                             *)

Running == {"checking", "queued", "working", "paid", "recording"}

BudgetTypeOK ==
  /\ jobAt \in [Jobs -> {"idle", "ended"} \cup Running]
  /\ run \in [Jobs -> Nat]
  /\ unit \in [Jobs -> Nat]
  /\ made \in [Jobs -> SUBSET Unit]
  /\ inLock \in SUBSET Jobs
  /\ charged \in SUBSET Unit
  /\ recorded \in SUBSET Unit
  /\ keys \in SUBSET (Jobs \X Nat)
  /\ reserved \in SUBSET Unit
  /\ loose \in SUBSET Unit
  /\ abandoned \in SUBSET (Jobs \X Nat)
  /\ mishaps \in 0..MaxMishaps

\* What the cap does guarantee: the units in the ledger and those of running
\* jobs stay within it, apart from the units that no check admitted or whose
\* check could not see work in flight.  Batches that hold the lease of one brief
\* do see one another: it makes read-then-spend atomic for them.  One whose lease
\* lapsed, or that goes on without, is not seen.
OverrunBounded == Cardinality((recorded \cup reserved) \ loose) <= Cap

\* Without mishaps, what is paid for is in the ledger or about to be, except
\* for what broll-search and the voiceover made before a segment they refuse, and
\* for later runs of theirs, whose row may be taken for that of an earlier one.
PaidIsRecorded ==
  mishaps = 0 => \A t \in charged \ recorded :
    \/ jobAt[t[1]] = "paid" /\ t = Current(t[1])
    \/ t \in made[t[1]] /\ jobAt[t[1]] \in {"working", "paid", "recording"}
    \/ <<t[1], t[2]>> \in abandoned
    \/ t[2] > 1 /\ \E key \in keys : key[1] = t[1]

\* The ledger counts only what was paid for: the clips made, not those
\* estimated.
RecordedIsPaid == recorded \subseteq charged

\* What cost_ledger.py says of the cap: the check runs before any paid vendor
\* call, so the spend never passes it.
CapIsHard == Cardinality(charged) <= Cap
=============================================================================
