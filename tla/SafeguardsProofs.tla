--------------------------- MODULE SafeguardsProofs -------------------------
(***************************************************************************)
(* Theorems about the budget cap, the renders at kie and the engines.      *)
(***************************************************************************)
EXTENDS BudgetCap, KieRenders, GateEngines, FiniteSetTheorems, TLAPS

-----------------------------------------------------------------------------
(* The budget cap, for any jobs, caps and bounds.  A check that admits     *)
(* units as not loose saw every unit that counts: what is reserved by then *)
(* would belong to another batch that holds the lease of the brief, which  *)
(* is held by one job at a time.                                           *)

\* The jobs that hold a lease are at work, one for each brief.
LockOK ==
  /\ \A j \in inLock : jobAt[j] \in {"working", "paid"}
  /\ \A i, j \in inLock : BriefOf[i] = BriefOf[j] => i = j

\* A unit is reserved by a job that is under way: the current unit of a batch,
\* or a unit of the present run of a broll-search.
ReservedOwned ==
  \A t \in reserved :
    \/ KindOf[t[1]] = "batch" /\ t = Current(t[1]) /\ jobAt[t[1]] \in {"working", "paid"}
         /\ unit[t[1]] <= UnitsOf[t[1]]
    \/ KindOf[t[1]] = "broll" /\ t \in Turns(t[1])
         /\ jobAt[t[1]] \in {"queued", "working", "paid", "recording"}

\* What a job made is reserved, or loose; the units still to come of a broll-search
\* are reserved.
MadeReserved ==
  \A j \in Jobs :
    /\ made[j] # {} => RecordsLast(j)
    /\ jobAt[j] = "recording" => RecordsLast(j)
    /\ jobAt[j] \in Running => made[j] \subseteq reserved \cup loose
    /\ jobAt[j] \in {"checking", "queued"} => made[j] = {} /\ unit[j] = 1
    /\ jobAt[j] = "checking" => KindOf[j] = "broll"
    /\ unit[j] >= 1
    /\ KindOf[j] = "broll" /\ jobAt[j] \in {"queued", "working", "paid"} =>
         \A k \in unit[j]..UnitsOf[j] : Turn(j, k) \in reserved
    /\ jobAt[j] = "paid" =>
         /\ unit[j] <= UnitsOf[j]
         /\ Current(j) \in reserved \cup loose

AllFinite ==
  /\ IsFiniteSet(recorded)
  /\ IsFiniteSet(reserved)
  /\ \A j \in Jobs : IsFiniteSet(made[j])

\* A paid unit and the clips made were charged.
ChargedOK ==
  /\ RecordedIsPaid
  /\ \A j \in Jobs : made[j] \subseteq charged
  /\ \A j \in Jobs : jobAt[j] = "paid" => Current(j) \in charged

\* A key was written in a run that is over; the clips made are of this run.
KeysOK ==
  /\ \A key \in keys : run[key[1]] >= 1
                       /\ (jobAt[key[1]] \in Running => run[key[1]] > 1)
  /\ \A j \in Jobs : jobAt[j] \in Running => run[j] >= 1
  /\ \A j \in Jobs : \A t \in made[j] : t[1] = j /\ t[2] = run[j] /\ t[3] < unit[j]

BudgetInv ==
  /\ BudgetTypeOK
  /\ LockOK
  /\ ReservedOwned
  /\ MadeReserved
  /\ AllFinite
  /\ OverrunBounded
  /\ ChargedOK
  /\ KeysOK
  /\ PaidIsRecorded

-----------------------------------------------------------------------------
\* Every step keeps the types.
LEMMA TypeStep == BudgetTypeOK /\ AllFinite /\ [BudgetNext]_budgetVars => BudgetTypeOK'
<1> SUFFICES ASSUME BudgetTypeOK /\ AllFinite, [BudgetNext]_budgetVars
             PROVE  BudgetTypeOK'
    OBVIOUS
<1> USE BudgetAssumption DEF BudgetTypeOK, Running, Unit, Turn, Turns, Current, Move, AllFinite
<1>1. ASSUME NEW j \in Jobs, Start(j)
       PROVE  BudgetTypeOK'
  BY <1>1 DEF Start
<1>2. ASSUME NEW j \in Jobs, CheckAhead(j)
       PROVE  BudgetTypeOK'
  BY <1>2 DEF CheckAhead, Checks, Reserve, Mishap
<1>3. ASSUME NEW j \in Jobs, TakeLock(j)
       PROVE  BudgetTypeOK'
  BY <1>3 DEF TakeLock
<1>4. ASSUME NEW j \in Jobs, ClaimFails(j)
       PROVE  BudgetTypeOK'
  BY <1>4 DEF ClaimFails, Mishap
<1>5. ASSUME NEW j \in Jobs, LeaseLapses(j)
       PROVE  BudgetTypeOK'
  BY <1>5 DEF LeaseLapses, Mishap
<1>6. ASSUME NEW j \in Jobs, CheckUnit(j)
       PROVE  BudgetTypeOK'
  BY <1>6 DEF CheckUnit, AtUnit, Checks, Reserve, Mishap, NextUnit
<1>7. ASSUME NEW j \in Jobs, Pay(j)
       PROVE  BudgetTypeOK'
  BY <1>7 DEF Pay, AtUnit
<1>8. ASSUME NEW j \in Jobs, PayFails(j)
       PROVE  BudgetTypeOK'
  BY <1>8 DEF PayFails, AtUnit, Mishap, NextUnit
<1>9. ASSUME NEW j \in Jobs, Settle(j)
       PROVE  BudgetTypeOK'
  BY <1>9 DEF Settle, NextUnit, RecordsLast
<1>10. ASSUME NEW j \in Jobs, SettleFails(j)
       PROVE  BudgetTypeOK'
  BY <1>10 DEF SettleFails, NextUnit, Mishap
<1>11. ASSUME NEW j \in Jobs, GiveLock(j)
       PROVE  BudgetTypeOK'
  BY <1>11 DEF GiveLock, RecordsLast
<1>12. ASSUME NEW j \in Jobs, Abort(j)
       PROVE  BudgetTypeOK'
  BY <1>12 DEF Abort, AtUnit, RecordsLast, Mishap
<1>13. ASSUME NEW j \in Jobs, RecordClips(j)
       PROVE  BudgetTypeOK'
  <2>1. KeySizes(j) \subseteq Nat
    BY FS_CardinalityType DEF KeySizes
  <2>2. keys' \in SUBSET (Jobs \X Nat)
    BY <1>13, <2>1 DEF RecordClips
  <2>3. recorded' \in SUBSET Unit
    BY <1>13 DEF RecordClips
  <2> QED
    BY <1>13, <2>2, <2>3 DEF RecordClips
<1>14. ASSUME NEW j \in Jobs, RecordFails(j)
       PROVE  BudgetTypeOK'
  BY <1>14 DEF RecordFails, Mishap
<1>15. CASE WorkerRestart
  BY <1>15 DEF WorkerRestart, Mishap
<1>16. CASE UNCHANGED budgetVars
  BY <1>16 DEF budgetVars
<1> QED
  BY <1>1, <1>2, <1>3, <1>4, <1>5, <1>6, <1>7, <1>8, <1>9, <1>10, <1>11, <1>12, <1>13, <1>14,
     <1>15, <1>16
     DEF BudgetNext, JobStep

\* Every step keeps the lock exclusive.
LEMMA LockStep == BudgetTypeOK /\ LockOK /\ [BudgetNext]_budgetVars => LockOK'
<1> SUFFICES ASSUME BudgetTypeOK /\ LockOK, [BudgetNext]_budgetVars
             PROVE  LockOK'
    OBVIOUS
<1> USE BudgetAssumption DEF BudgetTypeOK, Running, Unit, Turn, Turns, Current, Move, LockOK
<1>1. ASSUME NEW j \in Jobs, Start(j)
       PROVE  LockOK'
  BY <1>1 DEF Start
<1>2. ASSUME NEW j \in Jobs, CheckAhead(j)
       PROVE  LockOK'
  BY <1>2 DEF CheckAhead, Checks, Reserve, Mishap
<1>3. ASSUME NEW j \in Jobs, TakeLock(j)
       PROVE  LockOK'
  BY <1>3 DEF TakeLock
<1>4. ASSUME NEW j \in Jobs, ClaimFails(j)
       PROVE  LockOK'
  BY <1>4 DEF ClaimFails, Mishap
<1>5. ASSUME NEW j \in Jobs, LeaseLapses(j)
       PROVE  LockOK'
  BY <1>5 DEF LeaseLapses, Mishap
<1>6. ASSUME NEW j \in Jobs, CheckUnit(j)
       PROVE  LockOK'
  BY <1>6 DEF CheckUnit, AtUnit, Checks, Reserve, Mishap, NextUnit
<1>7. ASSUME NEW j \in Jobs, Pay(j)
       PROVE  LockOK'
  BY <1>7 DEF Pay, AtUnit
<1>8. ASSUME NEW j \in Jobs, PayFails(j)
       PROVE  LockOK'
  BY <1>8 DEF PayFails, AtUnit, Mishap, NextUnit
<1>9. ASSUME NEW j \in Jobs, Settle(j)
       PROVE  LockOK'
  BY <1>9 DEF Settle, NextUnit, RecordsLast
<1>10. ASSUME NEW j \in Jobs, SettleFails(j)
       PROVE  LockOK'
  BY <1>10 DEF SettleFails, NextUnit, Mishap
<1>11. ASSUME NEW j \in Jobs, GiveLock(j)
       PROVE  LockOK'
  BY <1>11 DEF GiveLock, RecordsLast
<1>12. ASSUME NEW j \in Jobs, Abort(j)
       PROVE  LockOK'
  BY <1>12 DEF Abort, AtUnit, RecordsLast, Mishap
<1>13. ASSUME NEW j \in Jobs, RecordClips(j)
       PROVE  LockOK'
  BY <1>13 DEF RecordClips
<1>14. ASSUME NEW j \in Jobs, RecordFails(j)
       PROVE  LockOK'
  BY <1>14 DEF RecordFails, Mishap
<1>15. CASE WorkerRestart
  BY <1>15 DEF WorkerRestart, Mishap
<1>16. CASE UNCHANGED budgetVars
  BY <1>16 DEF budgetVars
<1> QED
  BY <1>1, <1>2, <1>3, <1>4, <1>5, <1>6, <1>7, <1>8, <1>9, <1>10, <1>11, <1>12, <1>13, <1>14,
     <1>15, <1>16
     DEF BudgetNext, JobStep

\* Every step keeps reserved units with their owners.
LEMMA OwnedStep == BudgetTypeOK /\ LockOK /\ ReservedOwned /\ MadeReserved /\ [BudgetNext]_budgetVars => ReservedOwned'
<1> SUFFICES ASSUME BudgetTypeOK /\ LockOK /\ ReservedOwned /\ MadeReserved, [BudgetNext]_budgetVars
             PROVE  ReservedOwned'
    OBVIOUS
<1> USE BudgetAssumption DEF BudgetTypeOK, Running, Unit, Turn, Turns, Current, Move, LockOK, ReservedOwned
<1>1. ASSUME NEW j \in Jobs, Start(j)
       PROVE  ReservedOwned'
  BY <1>1 DEF Start
<1>2. ASSUME NEW j \in Jobs, CheckAhead(j)
       PROVE  ReservedOwned'
  <2>1. CASE reserved' = reserved \cup Turns(j) /\ jobAt' = [jobAt EXCEPT ![j] = "queued"]
    <3>1. KindOf[j] = "broll"
      BY <1>2 DEF CheckAhead, MadeReserved
    <3>2. \A t \in Turns(j) : t[1] = j /\ t \in Turns(j)'
      BY <1>2 DEF CheckAhead
    <3> QED
      BY <1>2, <2>1, <3>1, <3>2 DEF CheckAhead
  <2>2. CASE UNCHANGED reserved /\ jobAt' = [jobAt EXCEPT ![j] = "ended"]
    BY <1>2, <2>2 DEF CheckAhead
  <2> QED
    BY <1>2, <2>1, <2>2 DEF CheckAhead, Checks, Reserve
<1>3. ASSUME NEW j \in Jobs, TakeLock(j)
       PROVE  ReservedOwned'
  BY <1>3 DEF TakeLock
<1>4. ASSUME NEW j \in Jobs, ClaimFails(j)
       PROVE  ReservedOwned'
  BY <1>4 DEF ClaimFails, Mishap
<1>5. ASSUME NEW j \in Jobs, LeaseLapses(j)
       PROVE  ReservedOwned'
  BY <1>5 DEF LeaseLapses, Mishap
<1>6. ASSUME NEW j \in Jobs, CheckUnit(j)
       PROVE  ReservedOwned'
  BY <1>6 DEF CheckUnit, AtUnit, Checks, Reserve, Mishap, NextUnit
<1>7. ASSUME NEW j \in Jobs, Pay(j)
       PROVE  ReservedOwned'
  BY <1>7 DEF Pay, AtUnit
<1>8. ASSUME NEW j \in Jobs, PayFails(j)
       PROVE  ReservedOwned'
  BY <1>8 DEF PayFails, AtUnit, Mishap, NextUnit
<1>9. ASSUME NEW j \in Jobs, Settle(j)
       PROVE  ReservedOwned'
  BY <1>9 DEF Settle, NextUnit, RecordsLast
<1>10. ASSUME NEW j \in Jobs, SettleFails(j)
       PROVE  ReservedOwned'
  BY <1>10 DEF SettleFails, NextUnit, Mishap
<1>11. ASSUME NEW j \in Jobs, GiveLock(j)
       PROVE  ReservedOwned'
  BY <1>11 DEF GiveLock, RecordsLast
<1>12. ASSUME NEW j \in Jobs, Abort(j)
       PROVE  ReservedOwned'
  BY <1>12 DEF Abort, AtUnit, RecordsLast, Mishap
<1>13. ASSUME NEW j \in Jobs, RecordClips(j)
       PROVE  ReservedOwned'
  BY <1>13 DEF RecordClips
<1>14. ASSUME NEW j \in Jobs, RecordFails(j)
       PROVE  ReservedOwned'
  BY <1>14 DEF RecordFails, Mishap
<1>15. CASE WorkerRestart
  BY <1>15 DEF WorkerRestart, Mishap
<1>16. CASE UNCHANGED budgetVars
  BY <1>16 DEF budgetVars
<1> QED
  BY <1>1, <1>2, <1>3, <1>4, <1>5, <1>6, <1>7, <1>8, <1>9, <1>10, <1>11, <1>12, <1>13, <1>14,
     <1>15, <1>16
     DEF BudgetNext, JobStep

\* Every step keeps the clips made reserved.
LEMMA MadeStep == BudgetTypeOK /\ LockOK /\ KeysOK /\ MadeReserved /\ [BudgetNext]_budgetVars => MadeReserved'
<1> SUFFICES ASSUME BudgetTypeOK /\ LockOK /\ KeysOK /\ MadeReserved, [BudgetNext]_budgetVars
             PROVE  MadeReserved'
    OBVIOUS
<1> USE BudgetAssumption DEF BudgetTypeOK, Running, Unit, Turn, Turns, Current, Move, LockOK, KeysOK, MadeReserved
<1>1. ASSUME NEW j \in Jobs, Start(j)
       PROVE  MadeReserved'
  BY <1>1 DEF Start
<1>2. ASSUME NEW j \in Jobs, CheckAhead(j)
       PROVE  MadeReserved'
  BY <1>2 DEF CheckAhead, Checks, Reserve, Mishap
<1>3. ASSUME NEW j \in Jobs, TakeLock(j)
       PROVE  MadeReserved'
  BY <1>3 DEF TakeLock
<1>4. ASSUME NEW j \in Jobs, ClaimFails(j)
       PROVE  MadeReserved'
  BY <1>4 DEF ClaimFails, Mishap
<1>5. ASSUME NEW j \in Jobs, LeaseLapses(j)
       PROVE  MadeReserved'
  BY <1>5 DEF LeaseLapses, Mishap
<1>6. ASSUME NEW j \in Jobs, CheckUnit(j)
       PROVE  MadeReserved'
  BY <1>6 DEF CheckUnit, AtUnit, Checks, Reserve, Mishap, NextUnit
<1>7. ASSUME NEW j \in Jobs, Pay(j)
       PROVE  MadeReserved'
  BY <1>7 DEF Pay, AtUnit
<1>8. ASSUME NEW j \in Jobs, PayFails(j)
       PROVE  MadeReserved'
  BY <1>8 DEF PayFails, AtUnit, Mishap, NextUnit
<1>9. ASSUME NEW j \in Jobs, Settle(j)
       PROVE  MadeReserved'
  BY <1>9 DEF Settle, NextUnit, RecordsLast
<1>10. ASSUME NEW j \in Jobs, SettleFails(j)
       PROVE  MadeReserved'
  BY <1>10 DEF SettleFails, NextUnit, Mishap
<1>11. ASSUME NEW j \in Jobs, GiveLock(j)
       PROVE  MadeReserved'
  BY <1>11 DEF GiveLock, RecordsLast
<1>12. ASSUME NEW j \in Jobs, Abort(j)
       PROVE  MadeReserved'
  BY <1>12 DEF Abort, AtUnit, RecordsLast, Mishap
<1>13. ASSUME NEW j \in Jobs, RecordClips(j)
       PROVE  MadeReserved'
  BY <1>13 DEF RecordClips
<1>14. ASSUME NEW j \in Jobs, RecordFails(j)
       PROVE  MadeReserved'
  BY <1>14 DEF RecordFails, Mishap
<1>15. CASE WorkerRestart
  BY <1>15 DEF WorkerRestart, Mishap
<1>16. CASE UNCHANGED budgetVars
  BY <1>16 DEF budgetVars
<1> QED
  BY <1>1, <1>2, <1>3, <1>4, <1>5, <1>6, <1>7, <1>8, <1>9, <1>10, <1>11, <1>12, <1>13, <1>14,
     <1>15, <1>16
     DEF BudgetNext, JobStep

\* Every step keeps the ledger within what was charged.
LEMMA ChargedStep == BudgetTypeOK /\ ChargedOK /\ [BudgetNext]_budgetVars => ChargedOK'
<1> SUFFICES ASSUME BudgetTypeOK /\ ChargedOK, [BudgetNext]_budgetVars
             PROVE  ChargedOK'
    OBVIOUS
<1> USE BudgetAssumption DEF BudgetTypeOK, Running, Unit, Turn, Turns, Current, Move, ChargedOK, RecordedIsPaid
<1>1. ASSUME NEW j \in Jobs, Start(j)
       PROVE  ChargedOK'
  BY <1>1 DEF Start
<1>2. ASSUME NEW j \in Jobs, CheckAhead(j)
       PROVE  ChargedOK'
  BY <1>2 DEF CheckAhead, Checks, Reserve, Mishap
<1>3. ASSUME NEW j \in Jobs, TakeLock(j)
       PROVE  ChargedOK'
  BY <1>3 DEF TakeLock
<1>4. ASSUME NEW j \in Jobs, ClaimFails(j)
       PROVE  ChargedOK'
  BY <1>4 DEF ClaimFails, Mishap
<1>5. ASSUME NEW j \in Jobs, LeaseLapses(j)
       PROVE  ChargedOK'
  BY <1>5 DEF LeaseLapses, Mishap
<1>6. ASSUME NEW j \in Jobs, CheckUnit(j)
       PROVE  ChargedOK'
  BY <1>6 DEF CheckUnit, AtUnit, Checks, Reserve, Mishap, NextUnit
<1>7. ASSUME NEW j \in Jobs, Pay(j)
       PROVE  ChargedOK'
  BY <1>7 DEF Pay, AtUnit
<1>8. ASSUME NEW j \in Jobs, PayFails(j)
       PROVE  ChargedOK'
  BY <1>8 DEF PayFails, AtUnit, Mishap, NextUnit
<1>9. ASSUME NEW j \in Jobs, Settle(j)
       PROVE  ChargedOK'
  BY <1>9 DEF Settle, NextUnit, RecordsLast
<1>10. ASSUME NEW j \in Jobs, SettleFails(j)
       PROVE  ChargedOK'
  BY <1>10 DEF SettleFails, NextUnit, Mishap
<1>11. ASSUME NEW j \in Jobs, GiveLock(j)
       PROVE  ChargedOK'
  BY <1>11 DEF GiveLock, RecordsLast
<1>12. ASSUME NEW j \in Jobs, Abort(j)
       PROVE  ChargedOK'
  BY <1>12 DEF Abort, AtUnit, RecordsLast, Mishap
<1>13. ASSUME NEW j \in Jobs, RecordClips(j)
       PROVE  ChargedOK'
  BY <1>13 DEF RecordClips
<1>14. ASSUME NEW j \in Jobs, RecordFails(j)
       PROVE  ChargedOK'
  BY <1>14 DEF RecordFails, Mishap
<1>15. CASE WorkerRestart
  BY <1>15 DEF WorkerRestart, Mishap
<1>16. CASE UNCHANGED budgetVars
  BY <1>16 DEF budgetVars
<1> QED
  BY <1>1, <1>2, <1>3, <1>4, <1>5, <1>6, <1>7, <1>8, <1>9, <1>10, <1>11, <1>12, <1>13, <1>14,
     <1>15, <1>16
     DEF BudgetNext, JobStep

\* Every step keeps the keys to earlier runs.
LEMMA KeysStep == BudgetTypeOK /\ KeysOK /\ [BudgetNext]_budgetVars => KeysOK'
<1> SUFFICES ASSUME BudgetTypeOK /\ KeysOK, [BudgetNext]_budgetVars
             PROVE  KeysOK'
    OBVIOUS
<1> USE BudgetAssumption DEF BudgetTypeOK, Running, Unit, Turn, Turns, Current, Move, KeysOK
<1>1. ASSUME NEW j \in Jobs, Start(j)
       PROVE  KeysOK'
  BY <1>1 DEF Start
<1>2. ASSUME NEW j \in Jobs, CheckAhead(j)
       PROVE  KeysOK'
  BY <1>2 DEF CheckAhead, Checks, Reserve, Mishap
<1>3. ASSUME NEW j \in Jobs, TakeLock(j)
       PROVE  KeysOK'
  BY <1>3 DEF TakeLock
<1>4. ASSUME NEW j \in Jobs, ClaimFails(j)
       PROVE  KeysOK'
  BY <1>4 DEF ClaimFails, Mishap
<1>5. ASSUME NEW j \in Jobs, LeaseLapses(j)
       PROVE  KeysOK'
  BY <1>5 DEF LeaseLapses, Mishap
<1>6. ASSUME NEW j \in Jobs, CheckUnit(j)
       PROVE  KeysOK'
  BY <1>6 DEF CheckUnit, AtUnit, Checks, Reserve, Mishap, NextUnit
<1>7. ASSUME NEW j \in Jobs, Pay(j)
       PROVE  KeysOK'
  BY <1>7 DEF Pay, AtUnit
<1>8. ASSUME NEW j \in Jobs, PayFails(j)
       PROVE  KeysOK'
  BY <1>8 DEF PayFails, AtUnit, Mishap, NextUnit
<1>9. ASSUME NEW j \in Jobs, Settle(j)
       PROVE  KeysOK'
  BY <1>9 DEF Settle, NextUnit, RecordsLast
<1>10. ASSUME NEW j \in Jobs, SettleFails(j)
       PROVE  KeysOK'
  BY <1>10 DEF SettleFails, NextUnit, Mishap
<1>11. ASSUME NEW j \in Jobs, GiveLock(j)
       PROVE  KeysOK'
  BY <1>11 DEF GiveLock, RecordsLast
<1>12. ASSUME NEW j \in Jobs, Abort(j)
       PROVE  KeysOK'
  BY <1>12 DEF Abort, AtUnit, RecordsLast, Mishap
<1>13. ASSUME NEW j \in Jobs, RecordClips(j)
       PROVE  KeysOK'
  BY <1>13 DEF RecordClips
<1>14. ASSUME NEW j \in Jobs, RecordFails(j)
       PROVE  KeysOK'
  BY <1>14 DEF RecordFails, Mishap
<1>15. CASE WorkerRestart
  BY <1>15 DEF WorkerRestart, Mishap
<1>16. CASE UNCHANGED budgetVars
  BY <1>16 DEF budgetVars
<1> QED
  BY <1>1, <1>2, <1>3, <1>4, <1>5, <1>6, <1>7, <1>8, <1>9, <1>10, <1>11, <1>12, <1>13, <1>14,
     <1>15, <1>16
     DEF BudgetNext, JobStep

\* A paid unit is about to be recorded, or what PaidIsRecorded excuses.
OnTheWay(t) ==
  \/ jobAt[t[1]] = "paid" /\ t = Current(t[1])
  \/ t \in made[t[1]] /\ jobAt[t[1]] \in {"working", "paid", "recording"}

Excused(t) ==
  \/ <<t[1], t[2]>> \in abandoned
  \/ t[2] > 1 /\ \E key \in keys : key[1] = t[1]

\* No step forgets a mishap, a row, a key or a run that ended with an error.
Grows ==
  /\ mishaps <= mishaps'
  /\ recorded \subseteq recorded' /\ keys \subseteq keys' /\ abandoned \subseteq abandoned'

LEMMA GrowsStep == BudgetTypeOK /\ [BudgetNext]_budgetVars => Grows
<1> SUFFICES ASSUME BudgetTypeOK, [BudgetNext]_budgetVars
             PROVE  Grows
    OBVIOUS
<1> USE BudgetAssumption DEF BudgetTypeOK, Grows
<1>1. ASSUME NEW j \in Jobs, Start(j)
       PROVE  Grows
  BY <1>1 DEF Start
<1>2. ASSUME NEW j \in Jobs, CheckAhead(j)
       PROVE  Grows
  BY <1>2 DEF CheckAhead, Checks, Reserve, Mishap
<1>3. ASSUME NEW j \in Jobs, TakeLock(j)
       PROVE  Grows
  BY <1>3 DEF TakeLock
<1>4. ASSUME NEW j \in Jobs, ClaimFails(j)
       PROVE  Grows
  BY <1>4 DEF ClaimFails, Mishap
<1>5. ASSUME NEW j \in Jobs, LeaseLapses(j)
       PROVE  Grows
  BY <1>5 DEF LeaseLapses, Mishap
<1>6. ASSUME NEW j \in Jobs, CheckUnit(j)
       PROVE  Grows
  BY <1>6 DEF CheckUnit, Checks, Reserve, Mishap
<1>7. ASSUME NEW j \in Jobs, Pay(j)
       PROVE  Grows
  BY <1>7 DEF Pay
<1>8. ASSUME NEW j \in Jobs, PayFails(j)
       PROVE  Grows
  BY <1>8 DEF PayFails, Mishap
<1>9. ASSUME NEW j \in Jobs, Settle(j)
       PROVE  Grows
  BY <1>9 DEF Settle
<1>10. ASSUME NEW j \in Jobs, SettleFails(j)
       PROVE  Grows
  BY <1>10 DEF SettleFails, Mishap
<1>11. ASSUME NEW j \in Jobs, GiveLock(j)
       PROVE  Grows
  BY <1>11 DEF GiveLock
<1>12. ASSUME NEW j \in Jobs, Abort(j)
       PROVE  Grows
  BY <1>12 DEF Abort, Mishap
<1>13. ASSUME NEW j \in Jobs, RecordClips(j)
       PROVE  Grows
  BY <1>13 DEF RecordClips
<1>14. ASSUME NEW j \in Jobs, RecordFails(j)
       PROVE  Grows
  BY <1>14 DEF RecordFails, Mishap
<1>15. CASE WorkerRestart
  BY <1>15 DEF WorkerRestart, Mishap
<1>16. CASE UNCHANGED budgetVars
  BY <1>16 DEF budgetVars
<1> QED
  BY <1>1, <1>2, <1>3, <1>4, <1>5, <1>6, <1>7, <1>8, <1>9, <1>10, <1>11, <1>12, <1>13, <1>14,
     <1>15, <1>16
     DEF BudgetNext, JobStep

\* Every step without a mishap keeps what is paid for recorded, or about to be.
LEMMA PaidStep == BudgetTypeOK /\ MadeReserved /\ KeysOK /\ PaidIsRecorded /\ [BudgetNext]_budgetVars => PaidIsRecorded'
<1> DEFINE Fine(t) == OnTheWay(t)' \/ Excused(t)'
<1> SUFFICES ASSUME BudgetTypeOK, MadeReserved, KeysOK, PaidIsRecorded, [BudgetNext]_budgetVars,
                    mishaps' = 0, NEW t \in charged' \ recorded'
             PROVE  Fine(t)
    BY DEF PaidIsRecorded, OnTheWay, Excused
<1>0. /\ Grows /\ mishaps = 0
      /\ t \in charged => OnTheWay(t) \/ Excused(t)
      /\ Excused(t) => Excused(t)'
  <2>1. Grows /\ mishaps = 0
    BY GrowsStep, BudgetAssumption DEF Grows, BudgetTypeOK
  <2>2. t \in charged => OnTheWay(t) \/ Excused(t)
    BY <2>1 DEF Grows, PaidIsRecorded, OnTheWay, Excused
  <2>3. Excused(t) => Excused(t)'
    BY <2>1 DEF Grows, Excused
  <2> QED
    BY <2>1, <2>2, <2>3
<1> USE <1>0 DEF BudgetTypeOK, Running, Unit, Turn, Turns, Current, Move, OnTheWay
<1>1. ASSUME NEW j \in Jobs, Start(j)
       PROVE  Fine(t)
  BY <1>1 DEF Start
<1>2. ASSUME NEW j \in Jobs, CheckAhead(j)
       PROVE  Fine(t)
  BY <1>2 DEF CheckAhead
<1>3. ASSUME NEW j \in Jobs, TakeLock(j)
       PROVE  Fine(t)
  BY <1>3 DEF TakeLock
<1>4. ASSUME NEW j \in Jobs, ClaimFails(j)
       PROVE  Fine(t)
  BY <1>4 DEF ClaimFails, Mishap
<1>5. ASSUME NEW j \in Jobs, LeaseLapses(j)
       PROVE  Fine(t)
  BY <1>5 DEF LeaseLapses
<1>6. ASSUME NEW j \in Jobs, CheckUnit(j)
       PROVE  Fine(t)
  BY <1>6 DEF CheckUnit, AtUnit, Checks, Reserve, Mishap, NextUnit
<1>7. ASSUME NEW j \in Jobs, Pay(j)
       PROVE  Fine(t)
  BY <1>7 DEF Pay, AtUnit
<1>8. ASSUME NEW j \in Jobs, PayFails(j)
       PROVE  Fine(t)
  BY <1>8 DEF PayFails, Mishap
<1>9. ASSUME NEW j \in Jobs, Settle(j)
       PROVE  Fine(t)
  <2>1. /\ jobAt[j] = "paid" /\ jobAt' = [jobAt EXCEPT ![j] = "working"]
        /\ unit' = [unit EXCEPT ![j] = unit[j] + 1]
        /\ run' = run /\ t \in charged
    BY <1>9 DEF Settle, NextUnit
  <2>2. made[j] \subseteq made'[j] /\ \A i \in Jobs \ {j} : made'[i] = made[i]
    BY <1>9 DEF Settle
  <2>3. Current(j) \in made'[j] \cup recorded'
    BY <1>9 DEF Settle
  <2>4. CASE t[1] = j
    BY <2>1, <2>2, <2>3, <2>4
  <2>5. CASE t[1] # j
    BY <2>1, <2>2, <2>5
  <2> QED
    BY <2>4, <2>5
<1>10. ASSUME NEW j \in Jobs, SettleFails(j)
       PROVE  Fine(t)
  BY <1>10 DEF SettleFails, Mishap
<1>11. ASSUME NEW j \in Jobs, GiveLock(j)
       PROVE  Fine(t)
  BY <1>11 DEF GiveLock, MadeReserved
<1>12. ASSUME NEW j \in Jobs, Abort(j)
       PROVE  Fine(t)
  <2>1. jobAt[j] = "working"
    BY <1>12 DEF Abort, AtUnit, Mishap
  <2>2. CASE t[1] # j
    BY <1>12, <2>1, <2>2 DEF Abort
  <2>3. CASE t \in made[j] /\ t[1] = j
    <3>1. <<t[1], t[2]>> \in abandoned'
      BY <1>12, <2>3 DEF Abort, KeysOK
    <3> QED
      BY <3>1 DEF Excused
  <2>4. CASE t \notin made[j] /\ t[1] = j
    BY <1>12, <2>1, <2>4 DEF Abort
  <2> QED
    BY <2>2, <2>3, <2>4
<1>13. ASSUME NEW j \in Jobs, RecordClips(j)
       PROVE  Fine(t)
  <2>1. PICK size \in KeySizes(j) :
          /\ recorded' = IF <<j, size>> \in keys THEN recorded ELSE recorded \cup made[j]
          /\ keys' = IF made[j] = {} THEN keys ELSE keys \cup {<<j, size>>}
    BY <1>13 DEF RecordClips
  <2>2. CASE t[1] # j
    BY <1>13, <2>2 DEF RecordClips
  <2>3. CASE t[1] = j /\ t \in made[j]
    <3>1. <<j, size>> \in keys
      BY <2>1, <2>3
    <3>2. t[2] = run[j] /\ run[j] > 1
      BY <1>13, <2>3, <3>1 DEF RecordClips, KeysOK
    <3>3. Excused(t)
      BY <2>3, <3>1, <3>2 DEF Excused
    <3> QED
      BY <3>3
  <2>4. CASE t[1] = j /\ t \notin made[j]
    BY <1>13, <2>4 DEF RecordClips
  <2> QED
    BY <2>2, <2>3, <2>4
<1>14. ASSUME NEW j \in Jobs, RecordFails(j)
       PROVE  Fine(t)
  BY <1>14 DEF RecordFails, Mishap
<1>15. CASE WorkerRestart
  BY <1>15 DEF WorkerRestart, Mishap
<1>16. CASE UNCHANGED budgetVars
  BY <1>16 DEF budgetVars
<1> QED
  BY <1>1, <1>2, <1>3, <1>4, <1>5, <1>6, <1>7, <1>8, <1>9, <1>10, <1>11, <1>12, <1>13, <1>14,
     <1>15, <1>16
     DEF BudgetNext, JobStep

\* The units of a run are finitely many.
LEMMA TurnsFinite ==
  ASSUME BudgetTypeOK, NEW j \in Jobs
  PROVE  IsFiniteSet(Turns(j))
<1>1. UnitsOf[j] \in Nat
  BY BudgetAssumption
<1>2. IsFiniteSet(1..UnitsOf[j])
  BY <1>1, FS_Interval
<1> DEFINE f == [k \in 1..UnitsOf[j] |-> Turn(j, k)]
<1>3. f \in Surjection(1..UnitsOf[j], Turns(j))
  BY DEF Surjection, Turns
<1> QED
  BY <1>2, <1>3, FS_Surjection

\* Every step keeps the sets finite.
LEMMA FiniteStep == BudgetTypeOK /\ AllFinite /\ [BudgetNext]_budgetVars => AllFinite'
<1> SUFFICES ASSUME BudgetTypeOK /\ AllFinite, [BudgetNext]_budgetVars
             PROVE  AllFinite'
    OBVIOUS
<1> USE BudgetAssumption DEF BudgetTypeOK, Running, Unit, Turn, Turns, Current, Move, AllFinite
<1>1. ASSUME NEW j \in Jobs, Start(j)
       PROVE  AllFinite'
  BY <1>1, FS_AddElement, FS_RemoveElement, FS_Union, FS_Difference, FS_EmptySet DEF Start
<1>2. ASSUME NEW j \in Jobs, CheckAhead(j)
       PROVE  AllFinite'
  <2>1. IsFiniteSet(reserved \cup Turns(j))
    BY TurnsFinite, FS_Union
  <2>2. reserved' = reserved \/ reserved' = reserved \cup Turns(j)
    BY <1>2 DEF CheckAhead, Checks, Reserve
  <2> QED
    BY <1>2, <2>1, <2>2 DEF CheckAhead
<1>3. ASSUME NEW j \in Jobs, TakeLock(j)
       PROVE  AllFinite'
  BY <1>3, FS_AddElement, FS_RemoveElement, FS_Union, FS_Difference, FS_EmptySet DEF TakeLock
<1>4. ASSUME NEW j \in Jobs, ClaimFails(j)
       PROVE  AllFinite'
  <2>1. reserved' \subseteq reserved /\ UNCHANGED <<recorded, made>>
    BY <1>4 DEF ClaimFails
  <2> QED
    BY <2>1, FS_Subset
<1>5. ASSUME NEW j \in Jobs, LeaseLapses(j)
       PROVE  AllFinite'
  BY <1>5 DEF LeaseLapses
<1>6. ASSUME NEW j \in Jobs, CheckUnit(j)
       PROVE  AllFinite'
  <2>1. IsFiniteSet(reserved \cup {Current(j)})
    BY FS_AddElement
  <2>2. reserved' = reserved \/ reserved' = reserved \cup {Current(j)}
    BY <1>6 DEF CheckUnit, Checks, Reserve
  <2> QED
    BY <1>6, <2>1, <2>2 DEF CheckUnit
<1>7. ASSUME NEW j \in Jobs, Pay(j)
       PROVE  AllFinite'
  BY <1>7, FS_AddElement, FS_RemoveElement, FS_Union, FS_Difference, FS_EmptySet DEF Pay, AtUnit
<1>8. ASSUME NEW j \in Jobs, PayFails(j)
       PROVE  AllFinite'
  <2>1. reserved' \subseteq reserved /\ UNCHANGED <<recorded, made>>
    BY <1>8 DEF PayFails
  <2> QED
    BY <2>1, FS_Subset
<1>9. ASSUME NEW j \in Jobs, Settle(j)
       PROVE  AllFinite'
  <2>1. IsFiniteSet(recorded \cup {Current(j)}) /\ IsFiniteSet(made[j] \cup {Current(j)})
    BY FS_AddElement
  <2>2. IsFiniteSet(reserved \ {Current(j)})
    BY FS_Subset
  <2>3. recorded' = recorded \/ recorded' = recorded \cup {Current(j)}
    BY <1>9 DEF Settle
  <2>4. reserved' = reserved \/ reserved' = reserved \ {Current(j)}
    BY <1>9 DEF Settle
  <2>5. made' = made \/ made' = [made EXCEPT ![j] = @ \cup {Current(j)}]
    BY <1>9 DEF Settle
  <2>6. \A i \in Jobs : IsFiniteSet(made'[i])
    BY <2>1, <2>5
  <2> QED
    BY <2>1, <2>2, <2>3, <2>4, <2>6
<1>10. ASSUME NEW j \in Jobs, SettleFails(j)
       PROVE  AllFinite'
  <2>1. reserved' \subseteq reserved /\ UNCHANGED <<recorded, made>>
    BY <1>10 DEF SettleFails
  <2> QED
    BY <2>1, FS_Subset
<1>11. ASSUME NEW j \in Jobs, GiveLock(j)
       PROVE  AllFinite'
  BY <1>11, FS_AddElement, FS_RemoveElement, FS_Union, FS_Difference, FS_EmptySet DEF GiveLock, RecordsLast
<1>12. ASSUME NEW j \in Jobs, Abort(j)
       PROVE  AllFinite'
  <2>1. reserved' \subseteq reserved /\ UNCHANGED <<recorded, made>>
    BY <1>12 DEF Abort
  <2> QED
    BY <2>1, FS_Subset
<1>13. ASSUME NEW j \in Jobs, RecordClips(j)
       PROVE  AllFinite'
  <2>1. IsFiniteSet(recorded \cup made[j]) /\ IsFiniteSet(reserved \ Turns(j))
    BY FS_Union, FS_Subset
  <2>2. UNCHANGED made /\ (recorded' = recorded \/ recorded' = recorded \cup made[j]) /\ reserved' = reserved \ Turns(j)
    BY <1>13 DEF RecordClips
  <2> QED
    BY <2>1, <2>2
<1>14. ASSUME NEW j \in Jobs, RecordFails(j)
       PROVE  AllFinite'
  <2>1. reserved' \subseteq reserved /\ UNCHANGED <<recorded, made>>
    BY <1>14 DEF RecordFails
  <2> QED
    BY <2>1, FS_Subset
<1>15. CASE WorkerRestart
  <2>1. reserved' \subseteq reserved /\ UNCHANGED <<recorded, made>>
    BY <1>15 DEF WorkerRestart
  <2> QED
    BY <2>1, FS_Subset
<1>16. CASE UNCHANGED budgetVars
  BY <1>16 DEF budgetVars
<1> QED
  BY <1>1, <1>2, <1>3, <1>4, <1>5, <1>6, <1>7, <1>8, <1>9, <1>10, <1>11, <1>12, <1>13, <1>14,
     <1>15, <1>16
     DEF BudgetNext, JobStep

\* What the cap bounds.
Counted == (recorded \cup reserved) \ loose

LEMMA CountedFinite ==
  ASSUME AllFinite
  PROVE  IsFiniteSet(Counted) /\ Cardinality(Counted) \in Nat
<1>1. IsFiniteSet(recorded \cup reserved)
  BY FS_Union DEF AllFinite
<1>2. IsFiniteSet(Counted)
  BY <1>1, FS_Subset DEF Counted
<1> QED
  BY <1>2, FS_CardinalityType

\* A step that counts no new unit keeps the bound.
LEMMA CountedShrinks ==
  ASSUME AllFinite, OverrunBounded, Counted' \subseteq Counted
  PROVE  OverrunBounded'
<1>1. Cardinality(Counted') <= Cardinality(Counted)
  BY CountedFinite, FS_Subset
<1>2. Cardinality(Counted') \in Nat /\ Cardinality(Counted) \in Nat
  BY CountedFinite, FS_Subset, FS_CardinalityType
<1> QED
  BY <1>1, <1>2, BudgetAssumption DEF OverrunBounded, Counted

\* A check keeps the bound, if whatever it overlaps without calling its units
\* loose is nothing.
LEMMA ReserveKeeps ==
  ASSUME AllFinite, OverrunBounded, NEW j \in Jobs, NEW units, IsFiniteSet(units),
         Checks(j, units), UNCHANGED recorded,
         (\A t \in reserved : TakeTurns(j, t[1])) => reserved = {}
  PROVE  OverrunBounded'
<1>1. CASE loose' = loose \cup units
  <2>1. Counted' \subseteq Counted
    BY <1>1 DEF Checks, Reserve, Counted
  <2> QED
    BY <2>1, CountedShrinks
<1>2. CASE loose' = loose /\ reserved = {} /\ Cardinality(recorded) + Cardinality(units) <= Cap
  <2>1. Counted' \subseteq recorded \cup units
    BY <1>2 DEF Checks, Reserve, Counted
  <2>2. /\ IsFiniteSet(recorded \cup units)
        /\ Cardinality(recorded \cup units) <= Cardinality(recorded) + Cardinality(units)
    <3>1. IsFiniteSet(recorded) /\ IsFiniteSet(units)
      BY DEF AllFinite
    <3>2. /\ IsFiniteSet(recorded \cup units)
          /\ Cardinality(recorded \cup units) = Cardinality(recorded) + Cardinality(units) - Cardinality(recorded \cap units)
      BY <3>1, FS_Union
    <3>3. Cardinality(recorded \cap units) \in Nat /\ Cardinality(recorded) \in Nat /\ Cardinality(units) \in Nat
      BY <3>1, FS_CardinalityType, FS_Intersection
    <3> QED
      BY <3>2, <3>3
  <2>3. /\ Cardinality(Counted') <= Cardinality(recorded \cup units)
        /\ IsFiniteSet(Counted')
    BY <2>1, <2>2, FS_Subset
  <2>4. /\ Cardinality(Counted') \in Nat /\ Cardinality(recorded \cup units) \in Nat
        /\ Cardinality(recorded) \in Nat /\ Cardinality(units) \in Nat
    BY <2>2, <2>3, FS_CardinalityType DEF AllFinite
  <2>5. Cardinality(Counted') <= Cap
    BY <1>2, <2>2, <2>3, <2>4, BudgetAssumption
  <2> QED
    BY <2>5 DEF OverrunBounded, Counted
<1>3. \/ loose' = loose \cup units
      \/ loose' = loose /\ reserved = {} /\ Cardinality(recorded) + Cardinality(units) <= Cap
  BY DEF Checks, Reserve
<1> QED
  BY <1>1, <1>2, <1>3

\* Every step keeps the bound of the cap.
LEMMA OverrunStep == BudgetTypeOK /\ LockOK /\ ReservedOwned /\ MadeReserved /\ AllFinite /\ OverrunBounded /\ [BudgetNext]_budgetVars => OverrunBounded'
<1> SUFFICES ASSUME BudgetTypeOK /\ LockOK /\ ReservedOwned /\ MadeReserved /\ AllFinite /\ OverrunBounded, [BudgetNext]_budgetVars
             PROVE  OverrunBounded'
    OBVIOUS
<1> USE BudgetAssumption DEF BudgetTypeOK, Running, Unit, Turn, Current, Move
<1>1. ASSUME NEW j \in Jobs, Start(j)
       PROVE  OverrunBounded'
  <2>1. Counted' \subseteq Counted
    BY <1>1 DEF Start, Counted
  <2> QED
    BY <2>1, CountedShrinks
<1>2. ASSUME NEW j \in Jobs, CheckAhead(j)
       PROVE  OverrunBounded'
  <2>1. KindOf[j] = "broll"
    BY <1>2 DEF CheckAhead, MadeReserved
  <2>2. (\A t \in reserved : TakeTurns(j, t[1])) => reserved = {}
    BY <2>1 DEF TakeTurns
  <2>3. CASE Checks(j, Turns(j))
    BY <1>2, <2>2, <2>3, TurnsFinite, ReserveKeeps DEF CheckAhead
  <2>4. CASE UNCHANGED <<reserved, loose>>
    <3>1. Counted' \subseteq Counted
      BY <1>2, <2>4 DEF CheckAhead, Counted
    <3> QED
      BY <3>1, CountedShrinks
  <2> QED
    BY <1>2, <2>3, <2>4 DEF CheckAhead
<1>3. ASSUME NEW j \in Jobs, TakeLock(j)
       PROVE  OverrunBounded'
  <2>1. Counted' \subseteq Counted
    BY <1>3 DEF TakeLock, Counted
  <2> QED
    BY <2>1, CountedShrinks
<1>4. ASSUME NEW j \in Jobs, ClaimFails(j)
       PROVE  OverrunBounded'
  <2>1. Counted' \subseteq Counted
    BY <1>4 DEF ClaimFails, Counted
  <2> QED
    BY <2>1, CountedShrinks
<1>5. ASSUME NEW j \in Jobs, LeaseLapses(j)
       PROVE  OverrunBounded'
  <2>1. Counted' \subseteq Counted
    BY <1>5 DEF LeaseLapses, Counted
  <2> QED
    BY <2>1, CountedShrinks
<1>6. ASSUME NEW j \in Jobs, CheckUnit(j)
       PROVE  OverrunBounded'
  <2>1. Current(j) \notin reserved
    BY <1>6 DEF CheckUnit
  <2>2. \A t \in reserved : TakeTurns(j, t[1]) => t[1] = j
    BY DEF TakeTurns, LockOK
  <2>3. (\A t \in reserved : TakeTurns(j, t[1])) => reserved = {}
    BY <2>1, <2>2 DEF TakeTurns, ReservedOwned
  <2>4. CASE Checks(j, {Current(j)})
    BY <1>6, <2>3, <2>4, FS_Singleton, ReserveKeeps DEF CheckUnit
  <2>5. CASE UNCHANGED <<reserved, loose>>
    <3>1. Counted' \subseteq Counted
      BY <1>6, <2>5 DEF CheckUnit, Counted
    <3> QED
      BY <3>1, CountedShrinks
  <2> QED
    BY <1>6, <2>4, <2>5 DEF CheckUnit
<1>7. ASSUME NEW j \in Jobs, Pay(j)
       PROVE  OverrunBounded'
  <2>1. Counted' \subseteq Counted
    BY <1>7 DEF Pay, Counted
  <2> QED
    BY <2>1, CountedShrinks
<1>8. ASSUME NEW j \in Jobs, PayFails(j)
       PROVE  OverrunBounded'
  <2>1. Counted' \subseteq Counted
    BY <1>8 DEF PayFails, Counted
  <2> QED
    BY <2>1, CountedShrinks
<1>9. ASSUME NEW j \in Jobs, Settle(j)
       PROVE  OverrunBounded'
  <2>1. Current(j) \in reserved \cup loose
    BY <1>9 DEF Settle, MadeReserved
  <2>2. Counted' \subseteq Counted
    BY <1>9, <2>1 DEF Settle, Counted
  <2> QED
    BY <2>2, CountedShrinks
<1>10. ASSUME NEW j \in Jobs, SettleFails(j)
       PROVE  OverrunBounded'
  <2>1. Counted' \subseteq Counted
    BY <1>10 DEF SettleFails, Counted
  <2> QED
    BY <2>1, CountedShrinks
<1>11. ASSUME NEW j \in Jobs, GiveLock(j)
       PROVE  OverrunBounded'
  <2>1. Counted' \subseteq Counted
    BY <1>11 DEF GiveLock, Counted
  <2> QED
    BY <2>1, CountedShrinks
<1>12. ASSUME NEW j \in Jobs, Abort(j)
       PROVE  OverrunBounded'
  <2>1. Counted' \subseteq Counted
    BY <1>12 DEF Abort, Counted
  <2> QED
    BY <2>1, CountedShrinks
<1>13. ASSUME NEW j \in Jobs, RecordClips(j)
       PROVE  OverrunBounded'
  <2>1. made[j] \subseteq reserved \cup loose
    BY <1>13 DEF RecordClips, MadeReserved
  <2>2. Counted' \subseteq Counted
    BY <1>13, <2>1 DEF RecordClips, Counted
  <2> QED
    BY <2>2, CountedShrinks
<1>14. ASSUME NEW j \in Jobs, RecordFails(j)
       PROVE  OverrunBounded'
  <2>1. Counted' \subseteq Counted
    BY <1>14 DEF RecordFails, Counted
  <2> QED
    BY <2>1, CountedShrinks
<1>15. CASE WorkerRestart
  <2>1. Counted' \subseteq Counted
    BY <1>15 DEF WorkerRestart, Counted
  <2> QED
    BY <2>1, CountedShrinks
<1>16. CASE UNCHANGED budgetVars
  BY <1>16 DEF budgetVars, OverrunBounded
<1> QED
  BY <1>1, <1>2, <1>3, <1>4, <1>5, <1>6, <1>7, <1>8, <1>9, <1>10, <1>11, <1>12, <1>13, <1>14,
     <1>15, <1>16
     DEF BudgetNext, JobStep

-----------------------------------------------------------------------------
(* The theorems.                                                           *)

\* The initial state satisfies the invariant.
LEMMA BudgetInitOK == BudgetInit => BudgetInv
<1> SUFFICES ASSUME BudgetInit
             PROVE  BudgetInv
    OBVIOUS
<1> USE BudgetAssumption DEF BudgetInit
<1>1. BudgetTypeOK
  BY DEF BudgetTypeOK, Unit
<1>2. LockOK /\ ReservedOwned /\ ChargedOK /\ KeysOK /\ PaidIsRecorded
  BY DEF LockOK, ReservedOwned, ChargedOK, RecordedIsPaid, KeysOK, PaidIsRecorded, Running
<1>3. MadeReserved
  BY DEF MadeReserved, Running
<1>4. AllFinite
  BY FS_EmptySet DEF AllFinite
<1>5. OverrunBounded
  <2>1. (recorded \cup reserved) \ loose = {}
    OBVIOUS
  <2> QED
    BY <2>1, FS_EmptySet DEF OverrunBounded
<1> QED
  BY <1>1, <1>2, <1>3, <1>4, <1>5 DEF BudgetInv

\* The invariant holds of every reachable state.
THEOREM BudgetInvariant == BudgetSpec => []BudgetInv
<1>1. BudgetInv /\ [BudgetNext]_budgetVars => BudgetInv'
  BY TypeStep, LockStep, OwnedStep, MadeStep, FiniteStep, OverrunStep, ChargedStep,
     KeysStep, PaidStep DEF BudgetInv
<1> QED
  BY <1>1, BudgetInitOK, PTL DEF BudgetSpec

\* The type invariant, for any jobs and bounds.
THEOREM BudgetTyped == BudgetSpec => []BudgetTypeOK
<1>1. BudgetInv => BudgetTypeOK
  BY DEF BudgetInv
<1> QED
  BY <1>1, BudgetInvariant, PTL

\* The cap holds of all that is not loose, for any cap and any jobs: reserve_budget
\* bounds what the batches that hold the lease of their brief spend, whatever jobs
\* beside them check ahead, never check, or lost their lease.
THEOREM OverrunBoundedHolds == BudgetSpec => []OverrunBounded
<1>1. BudgetInv => OverrunBounded
  BY DEF BudgetInv
<1> QED
  BY <1>1, BudgetInvariant, PTL

\* The ledger counts nothing that was not paid for.
THEOREM RecordedIsPaidHolds == BudgetSpec => []RecordedIsPaid
<1>1. BudgetInv => RecordedIsPaid
  BY DEF BudgetInv, ChargedOK
<1> QED
  BY <1>1, BudgetInvariant, PTL

\* Without mishaps, paid units stay out of the ledger only in a run that ended at a
\* segment it refused, or in a second run whose row has the key of an earlier one
\* (search_broll and synthesize_voiceover of video.py).
THEOREM PaidIsRecordedHolds == BudgetSpec => []PaidIsRecorded
<1>1. BudgetInv => PaidIsRecorded
  BY DEF BudgetInv
<1> QED
  BY <1>1, BudgetInvariant, PTL

-----------------------------------------------------------------------------
(* The renders at kie, for any renders and bounds.  A task that holds a    *)
(* clip got it from a render that succeeded, and has described it before   *)
(* it closes the row; a file is half written only while a task writes it,  *)
(* or after a fault.                                                       *)

\* What a task knows of its render when it stands where it does.
TaskOK ==
  \A t \in Tasks :
    /\ task[t] \in {"fetching", "writing", "describing", "closing"} => vendor[t[2]] = "success"
    /\ task[t] \in {"describing", "closing"} => clip[t[2]] # "none"
    /\ task[t] = "closing" => sidecar[t[2]]

\* A half-written file has a writer, or was left by a fault.
PartialOK ==
  \A r \in Renders : clip[r] = "partial" =>
    kieFaults > 0 \/ \E t \in Tasks : t[2] = r /\ task[t] = "writing"

\* A closed row agrees with kie and with the pool.
RowOK ==
  \A r \in Renders :
    /\ render[r] = "completed" => vendor[r] = "success" /\ sidecar[r] /\ clip[r] # "none"
    /\ render[r] = "failed" => vendor[r] = "failed"

\* Until it is submitted, a render is unknown to kie and has no row.
FreshOK ==
  \A r \in Renders : task[Live(r)] = "off" => vendor[r] = "none" /\ render[r] = "none"

KieInv == KieTypeOK /\ TaskOK /\ FreshOK /\ PartialOK /\ RowOK

\* The tasks and their renders.
LEMMA TasksFacts ==
  /\ \A t \in Tasks : t[2] \in Renders
  /\ \A r \in Renders : Live(r) \in Tasks /\ TurnOf(r) \in Tasks
  /\ \A r \in Renders : Live(r)[1] = "live" /\ Live(r)[2] = r /\ TurnOf(r)[1] = "sweep" /\ TurnOf(r)[2] = r
  /\ \A r \in Armed, n \in 1..MaxPosts :
       Post(r, n) \in Tasks /\ Post(r, n)[1] = "callback" /\ Post(r, n)[2] = r /\ r \in Renders
BY KieAssumption DEF Tasks, Live, TurnOf, Post

\* Every step keeps the types.
LEMMA KieTypeStep == KieTypeOK /\ [KieNext]_kieVars => KieTypeOK'
<1> SUFFICES ASSUME KieTypeOK, [KieNext]_kieVars
             PROVE  KieTypeOK'
    OBVIOUS
<1> USE KieAssumption DEF KieTypeOK, Done, Moves, CloseAs, Ends, Open
<1>1. ASSUME NEW r \in Renders, Submit(r)
       PROVE  KieTypeOK'
  <2>1. Cardinality({q \in Renders : born[q] > 0}) \in Nat
    BY FS_Subset, FS_CardinalityType
  <2>2. born' \in [Renders -> Nat]
    BY <1>1, <2>1 DEF Submit
  <2>3. render' \in [Renders -> {"none", "queued", "completed", "failed", "cancelled"}]
    BY <1>1 DEF Submit
  <2>4. task' \in [Tasks -> {"off", "polling", "fetching", "writing", "describing", "closing", "over"}]
    BY <1>1 DEF Submit
  <2>5. kieFaults' \in 0..MaxKieFaults
    BY <1>1 DEF Submit, KieFault
  <2>6. vendor' = [vendor EXCEPT ![r] = "pending"] /\ UNCHANGED <<todo, clip, sidecar>>
    BY <1>1 DEF Submit
  <2> QED
    BY <2>2, <2>3, <2>4, <2>5, <2>6
<1>2. ASSUME NEW r \in Renders, RenderEnds(r)
       PROVE  KieTypeOK'
  BY <1>2, TasksFacts DEF RenderEnds
<1>3. ASSUME NEW r \in Renders, LivePoll(r)
       PROVE  KieTypeOK'
  BY <1>3, TasksFacts DEF LivePoll
<1>4. ASSUME NEW r \in Renders, CancelRender(r)
       PROVE  KieTypeOK'
  BY <1>4, TasksFacts DEF CancelRender
<1>5. ASSUME NEW r \in Renders, Probe(r)
       PROVE  KieTypeOK'
  BY <1>5, TasksFacts DEF Probe, InTurn
<1>6. ASSUME NEW r \in Renders, ProbeErrs(r)
       PROVE  KieTypeOK'
  BY <1>6, TasksFacts DEF ProbeErrs, InTurn, KieFault
<1>7. ASSUME NEW t \in Tasks, Fetch(t)
       PROVE  KieTypeOK'
  BY <1>7, TasksFacts DEF Fetch
<1>8. ASSUME NEW t \in Tasks, Write(t)
       PROVE  KieTypeOK'
  BY <1>8, TasksFacts DEF Write
<1>9. ASSUME NEW t \in Tasks, Describe(t)
       PROVE  KieTypeOK'
  BY <1>9, TasksFacts DEF Describe
<1>10. ASSUME NEW t \in Tasks, MarkCompleted(t)
       PROVE  KieTypeOK'
  BY <1>10, TasksFacts DEF MarkCompleted, KieFault
<1>11. ASSUME NEW t \in Tasks, FetchFails(t)
       PROVE  KieTypeOK'
  BY <1>11, TasksFacts DEF FetchFails, KieFault
<1>12. ASSUME NEW r \in Armed, NEW n \in 1..MaxPosts, Callback(r, n)
       PROVE  KieTypeOK'
  BY <1>12, TasksFacts DEF Callback
<1>13. CASE SweepStart
  BY <1>13, TasksFacts DEF SweepStart
<1>14. CASE KieRestart
  BY <1>14, TasksFacts DEF KieRestart, KieFault
<1>15. CASE UNCHANGED kieVars
  BY <1>15 DEF kieVars
<1> QED
  BY <1>1, <1>2, <1>3, <1>4, <1>5, <1>6, <1>7, <1>8, <1>9, <1>10, <1>11, <1>12, <1>13, <1>14, <1>15
     DEF KieNext, PoolStep

\* Every step keeps what a task knows.
LEMMA TaskStep == KieTypeOK /\ TaskOK /\ FreshOK /\ [KieNext]_kieVars => TaskOK'
<1> SUFFICES ASSUME KieTypeOK /\ TaskOK /\ FreshOK, [KieNext]_kieVars
             PROVE  TaskOK'
    OBVIOUS
<1> USE KieAssumption DEF KieTypeOK, Done, Moves, CloseAs, Ends, Open, TaskOK, FreshOK
<1>1. ASSUME NEW r \in Renders, Submit(r)
       PROVE  TaskOK'
  BY <1>1, TasksFacts DEF Submit, KieFault
<1>2. ASSUME NEW r \in Renders, RenderEnds(r)
       PROVE  TaskOK'
  BY <1>2, TasksFacts DEF RenderEnds
<1>3. ASSUME NEW r \in Renders, LivePoll(r)
       PROVE  TaskOK'
  BY <1>3, TasksFacts DEF LivePoll
<1>4. ASSUME NEW r \in Renders, CancelRender(r)
       PROVE  TaskOK'
  BY <1>4, TasksFacts DEF CancelRender
<1>5. ASSUME NEW r \in Renders, Probe(r)
       PROVE  TaskOK'
  BY <1>5, TasksFacts DEF Probe, InTurn
<1>6. ASSUME NEW r \in Renders, ProbeErrs(r)
       PROVE  TaskOK'
  BY <1>6, TasksFacts DEF ProbeErrs, InTurn, KieFault
<1>7. ASSUME NEW t \in Tasks, Fetch(t)
       PROVE  TaskOK'
  BY <1>7, TasksFacts DEF Fetch
<1>8. ASSUME NEW t \in Tasks, Write(t)
       PROVE  TaskOK'
  BY <1>8, TasksFacts DEF Write
<1>9. ASSUME NEW t \in Tasks, Describe(t)
       PROVE  TaskOK'
  BY <1>9, TasksFacts DEF Describe
<1>10. ASSUME NEW t \in Tasks, MarkCompleted(t)
       PROVE  TaskOK'
  BY <1>10, TasksFacts DEF MarkCompleted, KieFault
<1>11. ASSUME NEW t \in Tasks, FetchFails(t)
       PROVE  TaskOK'
  BY <1>11, TasksFacts DEF FetchFails, KieFault
<1>12. ASSUME NEW r \in Armed, NEW n \in 1..MaxPosts, Callback(r, n)
       PROVE  TaskOK'
  BY <1>12, TasksFacts DEF Callback
<1>13. CASE SweepStart
  BY <1>13, TasksFacts DEF SweepStart
<1>14. CASE KieRestart
  BY <1>14, TasksFacts DEF KieRestart, KieFault
<1>15. CASE UNCHANGED kieVars
  BY <1>15 DEF kieVars
<1> QED
  BY <1>1, <1>2, <1>3, <1>4, <1>5, <1>6, <1>7, <1>8, <1>9, <1>10, <1>11, <1>12, <1>13, <1>14, <1>15
     DEF KieNext, PoolStep

\* Every step keeps a render unknown until it is submitted.
LEMMA FreshStep == KieTypeOK /\ FreshOK /\ [KieNext]_kieVars => FreshOK'
<1> SUFFICES ASSUME KieTypeOK /\ FreshOK, [KieNext]_kieVars
             PROVE  FreshOK'
    OBVIOUS
<1> USE KieAssumption DEF KieTypeOK, Done, Moves, CloseAs, Ends, Open, FreshOK
<1>1. ASSUME NEW r \in Renders, Submit(r)
       PROVE  FreshOK'
  BY <1>1, TasksFacts DEF Submit, KieFault
<1>2. ASSUME NEW r \in Renders, RenderEnds(r)
       PROVE  FreshOK'
  BY <1>2, TasksFacts DEF RenderEnds
<1>3. ASSUME NEW r \in Renders, LivePoll(r)
       PROVE  FreshOK'
  BY <1>3, TasksFacts DEF LivePoll
<1>4. ASSUME NEW r \in Renders, CancelRender(r)
       PROVE  FreshOK'
  BY <1>4, TasksFacts DEF CancelRender
<1>5. ASSUME NEW r \in Renders, Probe(r)
       PROVE  FreshOK'
  BY <1>5, TasksFacts DEF Probe, InTurn
<1>6. ASSUME NEW r \in Renders, ProbeErrs(r)
       PROVE  FreshOK'
  BY <1>6, TasksFacts DEF ProbeErrs, InTurn, KieFault
<1>7. ASSUME NEW t \in Tasks, Fetch(t)
       PROVE  FreshOK'
  BY <1>7, TasksFacts DEF Fetch
<1>8. ASSUME NEW t \in Tasks, Write(t)
       PROVE  FreshOK'
  BY <1>8, TasksFacts DEF Write
<1>9. ASSUME NEW t \in Tasks, Describe(t)
       PROVE  FreshOK'
  BY <1>9, TasksFacts DEF Describe
<1>10. ASSUME NEW t \in Tasks, MarkCompleted(t)
       PROVE  FreshOK'
  BY <1>10, TasksFacts DEF MarkCompleted, KieFault
<1>11. ASSUME NEW t \in Tasks, FetchFails(t)
       PROVE  FreshOK'
  BY <1>11, TasksFacts DEF FetchFails, KieFault
<1>12. ASSUME NEW r \in Armed, NEW n \in 1..MaxPosts, Callback(r, n)
       PROVE  FreshOK'
  BY <1>12, TasksFacts DEF Callback
<1>13. CASE SweepStart
  BY <1>13, TasksFacts DEF SweepStart
<1>14. CASE KieRestart
  BY <1>14, TasksFacts DEF KieRestart, KieFault
<1>15. CASE UNCHANGED kieVars
  BY <1>15 DEF kieVars
<1> QED
  BY <1>1, <1>2, <1>3, <1>4, <1>5, <1>6, <1>7, <1>8, <1>9, <1>10, <1>11, <1>12, <1>13, <1>14, <1>15
     DEF KieNext, PoolStep

\* Every step keeps half-written files accounted for.
LEMMA PartialStep == KieTypeOK /\ PartialOK /\ [KieNext]_kieVars => PartialOK'
<1> SUFFICES ASSUME KieTypeOK /\ PartialOK, [KieNext]_kieVars
             PROVE  PartialOK'
    OBVIOUS
<1> USE KieAssumption DEF KieTypeOK, Done, Moves, CloseAs, Ends, Open, PartialOK
<1>1. ASSUME NEW r \in Renders, Submit(r)
       PROVE  PartialOK'
  BY <1>1, TasksFacts DEF Submit, KieFault
<1>2. ASSUME NEW r \in Renders, RenderEnds(r)
       PROVE  PartialOK'
  BY <1>2, TasksFacts DEF RenderEnds
<1>3. ASSUME NEW r \in Renders, LivePoll(r)
       PROVE  PartialOK'
  BY <1>3, TasksFacts DEF LivePoll
<1>4. ASSUME NEW r \in Renders, CancelRender(r)
       PROVE  PartialOK'
  BY <1>4, TasksFacts DEF CancelRender
<1>5. ASSUME NEW r \in Renders, Probe(r)
       PROVE  PartialOK'
  BY <1>5, TasksFacts DEF Probe, InTurn
<1>6. ASSUME NEW r \in Renders, ProbeErrs(r)
       PROVE  PartialOK'
  BY <1>6, TasksFacts DEF ProbeErrs, InTurn, KieFault
<1>7. ASSUME NEW t \in Tasks, Fetch(t)
       PROVE  PartialOK'
  BY <1>7, TasksFacts DEF Fetch
<1>8. ASSUME NEW t \in Tasks, Write(t)
       PROVE  PartialOK'
  BY <1>8, TasksFacts DEF Write
<1>9. ASSUME NEW t \in Tasks, Describe(t)
       PROVE  PartialOK'
  BY <1>9, TasksFacts DEF Describe
<1>10. ASSUME NEW t \in Tasks, MarkCompleted(t)
       PROVE  PartialOK'
  BY <1>10, TasksFacts DEF MarkCompleted, KieFault
<1>11. ASSUME NEW t \in Tasks, FetchFails(t)
       PROVE  PartialOK'
  BY <1>11, TasksFacts DEF FetchFails, KieFault
<1>12. ASSUME NEW r \in Armed, NEW n \in 1..MaxPosts, Callback(r, n)
       PROVE  PartialOK'
  BY <1>12, TasksFacts DEF Callback
<1>13. CASE SweepStart
  BY <1>13, TasksFacts DEF SweepStart
<1>14. CASE KieRestart
  BY <1>14, TasksFacts DEF KieRestart, KieFault
<1>15. CASE UNCHANGED kieVars
  BY <1>15 DEF kieVars
<1> QED
  BY <1>1, <1>2, <1>3, <1>4, <1>5, <1>6, <1>7, <1>8, <1>9, <1>10, <1>11, <1>12, <1>13, <1>14, <1>15
     DEF KieNext, PoolStep

\* Every step keeps closed rows in agreement with kie and the pool.
LEMMA RowStep == KieTypeOK /\ TaskOK /\ RowOK /\ FreshOK /\ [KieNext]_kieVars => RowOK'
<1> SUFFICES ASSUME KieTypeOK /\ TaskOK /\ RowOK /\ FreshOK, [KieNext]_kieVars
             PROVE  RowOK'
    OBVIOUS
<1> USE KieAssumption DEF KieTypeOK, Done, Moves, CloseAs, Ends, Open, TaskOK, RowOK, FreshOK
<1>1. ASSUME NEW r \in Renders, Submit(r)
       PROVE  RowOK'
  BY <1>1, TasksFacts DEF Submit, KieFault
<1>2. ASSUME NEW r \in Renders, RenderEnds(r)
       PROVE  RowOK'
  BY <1>2, TasksFacts DEF RenderEnds
<1>3. ASSUME NEW r \in Renders, LivePoll(r)
       PROVE  RowOK'
  BY <1>3, TasksFacts DEF LivePoll
<1>4. ASSUME NEW r \in Renders, CancelRender(r)
       PROVE  RowOK'
  BY <1>4, TasksFacts DEF CancelRender
<1>5. ASSUME NEW r \in Renders, Probe(r)
       PROVE  RowOK'
  BY <1>5, TasksFacts DEF Probe, InTurn
<1>6. ASSUME NEW r \in Renders, ProbeErrs(r)
       PROVE  RowOK'
  BY <1>6, TasksFacts DEF ProbeErrs, InTurn, KieFault
<1>7. ASSUME NEW t \in Tasks, Fetch(t)
       PROVE  RowOK'
  BY <1>7, TasksFacts DEF Fetch
<1>8. ASSUME NEW t \in Tasks, Write(t)
       PROVE  RowOK'
  BY <1>8, TasksFacts DEF Write
<1>9. ASSUME NEW t \in Tasks, Describe(t)
       PROVE  RowOK'
  BY <1>9, TasksFacts DEF Describe
<1>10. ASSUME NEW t \in Tasks, MarkCompleted(t)
       PROVE  RowOK'
  BY <1>10, TasksFacts DEF MarkCompleted, KieFault
<1>11. ASSUME NEW t \in Tasks, FetchFails(t)
       PROVE  RowOK'
  BY <1>11, TasksFacts DEF FetchFails, KieFault
<1>12. ASSUME NEW r \in Armed, NEW n \in 1..MaxPosts, Callback(r, n)
       PROVE  RowOK'
  BY <1>12, TasksFacts DEF Callback
<1>13. CASE SweepStart
  BY <1>13, TasksFacts DEF SweepStart
<1>14. CASE KieRestart
  BY <1>14, TasksFacts DEF KieRestart, KieFault
<1>15. CASE UNCHANGED kieVars
  BY <1>15 DEF kieVars
<1> QED
  BY <1>1, <1>2, <1>3, <1>4, <1>5, <1>6, <1>7, <1>8, <1>9, <1>10, <1>11, <1>12, <1>13, <1>14, <1>15
     DEF KieNext, PoolStep

-----------------------------------------------------------------------------
(* The theorems.                                                           *)

\* The invariant holds of every reachable state.
THEOREM KieInvariant == KieSpec => []KieInv
<1>1. KieInit => KieInv
  BY KieAssumption, TasksFacts DEF KieInit, KieInv, KieTypeOK, TaskOK, PartialOK, RowOK, FreshOK
<1>2. KieInv /\ [KieNext]_kieVars => KieInv'
  BY KieTypeStep, TaskStep, FreshStep, PartialStep, RowStep DEF KieInv
<1> QED
  BY <1>1, <1>2, PTL DEF KieSpec

\* The type invariant, for any renders and bounds.
THEOREM KieTyped == KieSpec => []KieTypeOK
<1>1. KieInv => KieTypeOK
  BY DEF KieInv
<1> QED
  BY <1>1, KieInvariant, PTL

\* A completed render has its clip, whole but for a fault or a writer.
THEOREM CompletedHasClipHolds == KieSpec => []CompletedHasClip
<1>1. KieInv => CompletedHasClip
  BY DEF KieInv, KieTypeOK, PartialOK, RowOK, CompletedHasClip
<1> QED
  BY <1>1, KieInvariant, PTL

\* Every step leaves a verdict alone, or gives the one of kie.
LEMMA VerdictStep == KieTypeOK /\ TaskOK /\ RowOK /\ FreshOK /\ [KieNext]_kieVars => Verdict
<1> SUFFICES ASSUME KieTypeOK /\ TaskOK /\ RowOK /\ FreshOK, [KieNext]_kieVars
             PROVE  Verdict
    OBVIOUS
<1> USE KieAssumption DEF KieTypeOK, Done, Moves, CloseAs, Ends, Open, TaskOK, RowOK, FreshOK, Verdict
<1>1. ASSUME NEW r \in Renders, Submit(r)
       PROVE  Verdict
  BY <1>1, TasksFacts DEF Submit, KieFault
<1>2. ASSUME NEW r \in Renders, RenderEnds(r)
       PROVE  Verdict
  BY <1>2, TasksFacts DEF RenderEnds
<1>3. ASSUME NEW r \in Renders, LivePoll(r)
       PROVE  Verdict
  BY <1>3, TasksFacts DEF LivePoll
<1>4. ASSUME NEW r \in Renders, CancelRender(r)
       PROVE  Verdict
  BY <1>4, TasksFacts DEF CancelRender
<1>5. ASSUME NEW r \in Renders, Probe(r)
       PROVE  Verdict
  BY <1>5, TasksFacts DEF Probe, InTurn
<1>6. ASSUME NEW r \in Renders, ProbeErrs(r)
       PROVE  Verdict
  BY <1>6, TasksFacts DEF ProbeErrs, InTurn, KieFault
<1>7. ASSUME NEW t \in Tasks, Fetch(t)
       PROVE  Verdict
  BY <1>7, TasksFacts DEF Fetch
<1>8. ASSUME NEW t \in Tasks, Write(t)
       PROVE  Verdict
  BY <1>8, TasksFacts DEF Write
<1>9. ASSUME NEW t \in Tasks, Describe(t)
       PROVE  Verdict
  BY <1>9, TasksFacts DEF Describe
<1>10. ASSUME NEW t \in Tasks, MarkCompleted(t)
       PROVE  Verdict
  BY <1>10, TasksFacts DEF MarkCompleted, KieFault
<1>11. ASSUME NEW t \in Tasks, FetchFails(t)
       PROVE  Verdict
  BY <1>11, TasksFacts DEF FetchFails, KieFault
<1>12. ASSUME NEW r \in Armed, NEW n \in 1..MaxPosts, Callback(r, n)
       PROVE  Verdict
  BY <1>12, TasksFacts DEF Callback
<1>13. CASE SweepStart
  BY <1>13, TasksFacts DEF SweepStart
<1>14. CASE KieRestart
  BY <1>14, TasksFacts DEF KieRestart, KieFault
<1>15. CASE UNCHANGED kieVars
  BY <1>15 DEF kieVars
<1> QED
  BY <1>1, <1>2, <1>3, <1>4, <1>5, <1>6, <1>7, <1>8, <1>9, <1>10, <1>11, <1>12, <1>13, <1>14, <1>15
     DEF KieNext, PoolStep

\* The first verdict on a render stands but for a cancel, and is that of kie.
THEOREM VerdictStandsHolds == KieSpec => VerdictStands
<1>1. KieInv /\ [KieNext]_kieVars => [Verdict]_render
  BY VerdictStep DEF KieInv
<1> QED
  BY <1>1, KieInvariant, PTL DEF KieSpec, VerdictStands

-----------------------------------------------------------------------------
(* The engines, for any rules, defects, scores, placements and evidence.   *)
(* What the engine holds of a rule sums up what was found of it, whatever  *)
(* the order.                                                              *)

VerdictSet == {"pass", "needs_review", "fail"}

Sure(f) == f.label = "violation" /\ f.confidence >= MinConfidence

SaidOf(F) ==
  IF F = {} THEN "none"
  ELSE IF \E f \in F : Sure(f) THEN "fail"
  ELSE IF \E f \in F : f.label # "clear" THEN "needs_review"
  ELSE "pass"

FindingsTyped == findings \in Seq(Findings) /\ heard = [r \in Rules |-> heard[r]]

HeardSumsUp == \A r \in Rules : heard[r] = SaidOf(Given(r))

LookedIsLast ==
  /\ looks \in Seq([defect : Defects, score : Scores \cup {NoScore}])
  /\ looked = [d \in Defects |-> looked[d]]
  /\ \A d \in Defects : looked[d] # NoScore =>
       \E n \in DOMAIN looks :
         /\ looks[n].defect = d /\ looks[n].score = looked[d]
         /\ \A k \in n + 1 .. Len(looks) : looks[k].defect # d

ImageTyped == matter = "image" => still \in ImageFacts

StoredFits ==
  /\ asset \in {"none", "bad", "good"}
  /\ stored = [p \in Spots |-> stored[p]]
  /\ \A p \in (DOMAIN SpecOf \cap Spots) \ blind :
       stored[p] = "pass" => asset = "good" /\ Conforms(p)

EngineInv == FindingsTyped /\ HeardSumsUp /\ LookedIsLast /\ ImageTyped /\ StoredFits

LEMMA EngineInitOK == EngineInit => EngineInv
<1> SUFFICES ASSUME EngineInit
             PROVE  EngineInv
    OBVIOUS
<1>1. FindingsTyped
  BY DEF EngineInit, FindingsTyped
<1>2. HeardSumsUp
  <2>1. findings = <<>> /\ DOMAIN findings = {}
    BY DEF EngineInit
  <2>2. \A r \in Rules : Given(r) = {}
    BY <2>1 DEF Given
  <2> QED BY <2>2 DEF EngineInit, HeardSumsUp, SaidOf
<1>3. LookedIsLast
  BY DEF EngineInit, LookedIsLast
<1>4. ImageTyped
  BY DEF EngineInit, ImageTyped
<1>5. StoredFits
  BY DEF EngineInit, StoredFits
<1> QED BY <1>1, <1>2, <1>3, <1>4, <1>5 DEF EngineInv

\* One more finding is heeded as the set of all of them says.
LEMMA HeedSumsUp ==
  ASSUME NEW F, NEW f
  PROVE  Heed(SaidOf(F), f) = SaidOf(F \cup {f})
<1>1. CASE \E g \in F : Sure(g)
  BY <1>1 DEF Heed, SaidOf
<1>2. CASE ~(\E g \in F : Sure(g)) /\ Sure(f)
  BY <1>2 DEF Heed, SaidOf, Sure
<1>3. CASE ~(\E g \in F : Sure(g)) /\ ~Sure(f)
  <2>1. CASE f.label = "clear"
    BY <1>3, <2>1 DEF Heed, SaidOf
  <2>2. CASE f.label # "clear"
    BY <1>3, <2>2 DEF Heed, SaidOf, Sure
  <2> QED BY <2>1, <2>2
<1> QED BY <1>1, <1>2, <1>3

LEMMA FindKeeps ==
  ASSUME EngineInv, NEW f \in Findings, Find(f)
  PROVE  EngineInv'
<1>0. /\ FindingsTyped /\ f.rule \in Rules
      /\ findings' = Append(findings, f) /\ heard' = [heard EXCEPT ![f.rule] = Heed(heard[f.rule], f)]
      /\ UNCHANGED <<matter, rule, still, footage, looks, looked, asset, stored, blind>>
  BY DEF EngineInv, Find, given, Findings, FindingsTyped
<1>1. FindingsTyped'
  BY <1>0 DEF FindingsTyped
<1>2. HeardSumsUp'
  <2> SUFFICES ASSUME NEW r \in Rules
               PROVE  heard'[r] = SaidOf(Given(r)')
      BY DEF HeardSumsUp, SaidOf
  <2>1. /\ DOMAIN findings' = DOMAIN findings \cup {Len(findings) + 1}
        /\ findings'[Len(findings) + 1] = f
        /\ \A n \in DOMAIN findings : findings'[n] = findings[n]
    BY <1>0 DEF FindingsTyped
  <2>2. CASE r = f.rule
    <3>1. Given(r)' = Given(r) \cup {f}
      BY <2>1, <2>2 DEF Given
    <3> QED BY <1>0, <2>2, <3>1, HeedSumsUp DEF FindingsTyped, EngineInv, HeardSumsUp
  <2>3. CASE r # f.rule
    <3>1. Given(r)' = Given(r)
      BY <2>1, <2>3 DEF Given
    <3> QED BY <1>0, <2>3, <3>1 DEF FindingsTyped, EngineInv, HeardSumsUp
  <2> QED BY <2>2, <2>3
<1>3. LookedIsLast' /\ ImageTyped' /\ StoredFits'
  BY <1>0 DEF EngineInv, LookedIsLast, ImageTyped, StoredFits, Conforms
<1> QED BY <1>1, <1>2, <1>3 DEF EngineInv

LEMMA LookKeeps ==
  ASSUME EngineInv, NEW d \in Defects, NEW score \in Scores \cup {NoScore}, Look(d, score)
  PROVE  EngineInv'
<1>0. /\ LookedIsLast
      /\ looks' = Append(looks, [defect |-> d, score |-> score])
      /\ looked' = [looked EXCEPT ![d] = score]
      /\ UNCHANGED <<matter, rule, still, footage, findings, heard, asset, stored, blind>>
  BY DEF EngineInv, Look, given
<1>1. FindingsTyped' /\ ImageTyped' /\ StoredFits'
  BY <1>0 DEF EngineInv, FindingsTyped, ImageTyped, StoredFits, Conforms
<1>2. HeardSumsUp'
  BY <1>0 DEF EngineInv, HeardSumsUp, Given, SaidOf
<1>3. LookedIsLast'
  <2> DEFINE one == [defect |-> d, score |-> score]
  <2>1. looks \in Seq([defect : Defects, score : Scores \cup {NoScore}])
    BY <1>0 DEF LookedIsLast
  <2>2. one \in [defect : Defects, score : Scores \cup {NoScore}]
    OBVIOUS
  <2>3. /\ looks' \in Seq([defect : Defects, score : Scores \cup {NoScore}])
        /\ Len(looks) \in Nat /\ Len(looks') = Len(looks) + 1
        /\ DOMAIN looks = 1..Len(looks) /\ DOMAIN looks' = 1..(Len(looks) + 1)
        /\ looks'[Len(looks) + 1] = one
        /\ \A n \in DOMAIN looks : looks'[n] = looks[n]
    <3> HIDE DEF one
    <3> QED BY <1>0, <2>1, <2>2 DEF one
  <2>4. looked' = [e \in Defects |-> looked'[e]]
    BY <1>0 DEF LookedIsLast
  <2>5. ASSUME NEW e \in Defects, looked'[e] # NoScore
        PROVE  \E n \in DOMAIN looks' :
                 /\ looks'[n].defect = e /\ looks'[n].score = looked'[e]
                 /\ \A k \in n + 1 .. Len(looks') : looks'[k].defect # e
    <3>1. CASE e = d
      <4>1. looked'[e] = score
        BY <1>0, <3>1 DEF LookedIsLast
      <4>2. Len(looks) + 1 \in DOMAIN looks'
        BY <2>3
      <4>3. \A k \in (Len(looks) + 1) + 1 .. Len(looks') : FALSE
        BY <2>3
      <4> QED BY <2>3, <3>1, <4>1, <4>2, <4>3
    <3>2. CASE e # d
      <4>1. looked'[e] = looked[e]
        BY <1>0, <3>2 DEF LookedIsLast
      <4>2. PICK n \in DOMAIN looks :
              /\ looks[n].defect = e /\ looks[n].score = looked[e]
              /\ \A k \in n + 1 .. Len(looks) : looks[k].defect # e
        BY <1>0, <2>5, <4>1 DEF LookedIsLast
      <4>3. \A k \in n + 1 .. Len(looks') : looks'[k].defect # e
        <5> SUFFICES ASSUME NEW k \in n + 1 .. Len(looks')
                     PROVE  looks'[k].defect # e
            OBVIOUS
        <5>1. k = Len(looks) + 1 \/ (k \in n + 1 .. Len(looks) /\ k \in DOMAIN looks)
          BY <2>3
        <5> QED BY <2>3, <3>2, <4>2, <5>1
      <4> QED BY <2>3, <4>1, <4>2, <4>3
    <3> QED BY <3>1, <3>2
  <2> QED BY <2>3, <2>4, <2>5 DEF LookedIsLast
<1> QED BY <1>1, <1>2, <1>3 DEF EngineInv

LEMMA StoreAssetKeeps ==
  ASSUME EngineInv, NEW as \in {"bad", "good"}, StoreAsset(as)
  PROVE  EngineInv'
<1>0. /\ asset = "none" /\ asset' = as
      /\ UNCHANGED <<matter, rule, still, footage, findings, heard, looks, looked, stored, blind>>
  BY DEF StoreAsset, given
<1>1. FindingsTyped' /\ ImageTyped' /\ LookedIsLast'
  BY <1>0 DEF EngineInv, FindingsTyped, ImageTyped, LookedIsLast
<1>2. HeardSumsUp'
  BY <1>0 DEF EngineInv, HeardSumsUp, Given, SaidOf
<1>3. StoredFits'
  BY <1>0 DEF EngineInv, StoredFits, Conforms
<1> QED BY <1>1, <1>2, <1>3 DEF EngineInv

LEMMA ReportSpotKeeps ==
  ASSUME EngineInv, NEW p \in Spots, NEW claim, ReportSpot(p, claim)
  PROVE  EngineInv'
<1>0. /\ stored' = [stored EXCEPT ![p] = Backstop(p, claim)]
      /\ blind' = IF asset = "none" THEN blind \cup {p} ELSE blind \ {p}
      /\ UNCHANGED <<matter, rule, still, footage, findings, heard, looks, looked, asset>>
  BY DEF ReportSpot, given
<1>1. FindingsTyped' /\ ImageTyped' /\ LookedIsLast'
  BY <1>0 DEF EngineInv, FindingsTyped, ImageTyped, LookedIsLast
<1>2. HeardSumsUp'
  BY <1>0 DEF EngineInv, HeardSumsUp, Given, SaidOf
<1>3. \A q \in DOMAIN SpecOf : Conforms(q)' <=> Conforms(q)
  BY <1>0 DEF Conforms
<1>4. StoredFits'
  <2>1. StoredFits
    BY DEF EngineInv
  <2>2. stored' = [q \in Spots |-> stored'[q]]
    BY <1>0, <2>1 DEF StoredFits
  <2> SUFFICES ASSUME NEW q \in (DOMAIN SpecOf \cap Spots) \ blind', stored'[q] = "pass"
               PROVE  asset = "good" /\ Conforms(q)
      BY <1>0, <1>3, <2>1, <2>2 DEF StoredFits
  <2>3. CASE q = p
    <3>1. asset # "none" /\ Backstop(p, claim) = "pass"
      BY <1>0, <2>1, <2>3 DEF StoredFits
    <3>2. ~(asset = "bad" \/ ~Conforms(p))
      BY <2>3, <3>1 DEF Backstop
    <3> QED BY <2>1, <2>3, <3>1, <3>2 DEF StoredFits
  <2>4. CASE q # p
    BY <1>0, <2>1, <2>4 DEF StoredFits
  <2> QED BY <2>3, <2>4
<1> QED BY <1>1, <1>2, <1>4 DEF EngineInv

THEOREM EngineInvariant == EngineSpec => []EngineInv
<1>1. EngineInv /\ [EngineNext]_engineVars => EngineInv'
  <2> SUFFICES ASSUME EngineInv, [EngineNext]_engineVars
               PROVE  EngineInv'
      OBVIOUS
  <2>1. CASE \E f \in Findings : Find(f)
    BY <2>1, FindKeeps
  <2>2. CASE \E d \in Defects, score \in Scores \cup {NoScore} : Look(d, score)
    BY <2>2, LookKeeps
  <2>3. CASE \E as \in {"bad", "good"} : StoreAsset(as)
    BY <2>3, StoreAssetKeeps
  <2>4. CASE \E p \in Spots, claim \in {"pass", "warn", "fail"} : ReportSpot(p, claim)
    BY <2>4, ReportSpotKeeps
  <2>5. CASE UNCHANGED engineVars
    <3>1. FindingsTyped' /\ ImageTyped' /\ LookedIsLast'
      BY <2>5 DEF engineVars, given, EngineInv, FindingsTyped, ImageTyped, LookedIsLast
    <3>2. HeardSumsUp'
      BY <2>5 DEF engineVars, given, EngineInv, HeardSumsUp, Given, SaidOf
    <3>3. StoredFits'
      BY <2>5 DEF engineVars, given, EngineInv, StoredFits, Conforms
    <3> QED BY <3>1, <3>2, <3>3 DEF EngineInv
  <2> QED BY <2>1, <2>2, <2>3, <2>4, <2>5 DEF EngineNext
<1> QED BY <1>1, EngineInitOK, PTL DEF EngineSpec

\* The worst of some verdicts.
LEMMA WorstIs ==
  ASSUME NEW S \in SUBSET VerdictSet, S # {}
  PROVE  Worst(S) = IF "fail" \in S THEN "fail"
                    ELSE IF "needs_review" \in S THEN "needs_review" ELSE "pass"
<1> DEFINE top == IF "fail" \in S THEN "fail"
                  ELSE IF "needs_review" \in S THEN "needs_review" ELSE "pass"
<1>1. /\ Rank["fail"] = 2 /\ Rank["needs_review"] = 1 /\ Rank["pass"] = 0
  BY DEF Rank
<1>2. top \in S /\ \A w \in S : Rank[w] <= Rank[top]
  <2>1. \A w \in S : w \in {"pass", "needs_review", "fail"}
    BY DEF VerdictSet
  <2>2. CASE "fail" \in S
    BY <1>1, <2>1, <2>2
  <2>3. CASE "fail" \notin S /\ "needs_review" \in S
    BY <1>1, <2>1, <2>3
  <2>4. CASE "fail" \notin S /\ "needs_review" \notin S
    BY <1>1, <2>1, <2>4
  <2> QED BY <2>2, <2>3, <2>4
<1>3. Worst(S) \in S /\ \A w \in S : Rank[w] <= Rank[Worst(S)]
  BY <1>2 DEF Worst
<1>4. \A v, w \in VerdictSet : Rank[v] <= Rank[w] /\ Rank[w] <= Rank[v] => v = w
  BY <1>1 DEF VerdictSet
<1> QED BY <1>2, <1>3, <1>4

\* A rule fails when something sure says so, and is held when something is in doubt.
LEMMA RuleVerdictIs ==
  ASSUME EngineInv, NEW r \in Rules
  PROVE  RuleVerdict(r) = IF Caught(r) THEN "fail"
                          ELSE IF Doubted(r) THEN "needs_review" ELSE "pass"
<1> DEFINE p == IF rule[r].said = "plain" THEN "fail" ELSE "pass"
           A == IF rule[r].engine # "llm" THEN {p} ELSE {}
           B == IF rule[r].engine # "deterministic" /\ heard[r] # "none" THEN {heard[r]} ELSE {}
<1>1. RuleVerdict(r) = IF A \cup B = {} THEN "needs_review" ELSE Worst(A \cup B)
  BY DEF RuleVerdict
<1>2. heard[r] = SaidOf(Given(r))
  BY DEF EngineInv, HeardSumsUp
<1>3. Caught(r) <=> \/ rule[r].engine # "llm" /\ rule[r].said = "plain"
                    \/ rule[r].engine # "deterministic" /\ heard[r] = "fail"
  BY <1>2 DEF Caught, Asked, SaidOf, Sure
<1>4. Doubted(r) <=> /\ ~Caught(r)
                     /\ \/ rule[r].engine = "llm" /\ heard[r] = "none"
                        \/ rule[r].engine # "deterministic" /\ heard[r] = "needs_review"
  <2>1. heard[r] = "none" <=> Given(r) = {}
    BY <1>2 DEF SaidOf
  <2>2. heard[r] # "fail" =>
          (heard[r] = "needs_review" <=> \E f \in Given(r) : f.label # "clear")
    BY <1>2 DEF SaidOf
  <2> QED BY <1>3, <2>1, <2>2 DEF Doubted, Asked
<1>5. heard[r] \in VerdictSet \cup {"none"} /\ p \in VerdictSet
  BY <1>2 DEF SaidOf, VerdictSet
<1>6. CASE A \cup B = {}
  <2>1. rule[r].engine = "llm" /\ heard[r] = "none"
    BY <1>6
  <2> QED BY <1>1, <1>3, <1>4, <1>6, <2>1
<1>7. CASE A \cup B # {}
  <2>1. A \cup B \in SUBSET VerdictSet
    BY <1>5
  <2>2. RuleVerdict(r) = IF "fail" \in A \cup B THEN "fail"
                         ELSE IF "needs_review" \in A \cup B THEN "needs_review" ELSE "pass"
    BY <1>1, <1>7, <2>1, WorstIs
  <2>3. "fail" \in A \cup B <=> Caught(r)
    BY <1>3, <1>5
  <2>4. "needs_review" \in A \cup B <=> rule[r].engine # "deterministic" /\ heard[r] = "needs_review"
    BY <1>5
  <2>5. ~(rule[r].engine = "llm" /\ heard[r] = "none")
    BY <1>7
  <2> QED BY <1>4, <2>2, <2>3, <2>4, <2>5
<1> QED BY <1>6, <1>7

LEMMA TextEarnedHolds == EngineInv => TextEarned
<1> SUFFICES ASSUME EngineInv
             PROVE  TextEarned
    OBVIOUS
<1>1. \A r \in Applicable : r \in Rules
  BY DEF Applicable
<1>2. \A r \in Blocking : r \in Applicable
  BY DEF Blocking
<1>3. \A r \in Applicable : /\ RuleVerdict(r) = "fail" <=> Caught(r)
                            /\ RuleVerdict(r) = "needs_review" <=> Doubted(r)
  BY <1>1, RuleVerdictIs DEF Doubted
<1>4. TextVerdict = IF \E r \in Blocking : RuleVerdict(r) = "fail" THEN "fail"
                    ELSE IF \E r \in Applicable : RuleVerdict(r) = "needs_review" THEN "needs_review"
                    ELSE "pass"
  BY <1>2 DEF TextVerdict, Roll
<1> QED BY <1>2, <1>3, <1>4 DEF TextEarned

LEMMA ImageEarnedHolds ==
  ASSUME EngineInv, matter = "image"
  PROVE  ImageEarned
<1> SUFFICES ASSUME ImageVerdict = "pass"
             PROVE  /\ still.decodes /\ still.shippable /\ still.dims = "meets"
                    /\ still.bytes \in MinBytes .. MaxBytes /\ still.overlay \in {"none", "legible"}
                    /\ \A d \in Defects : \E n \in DOMAIN looks :
                         /\ looks[n].defect = d /\ Resolve(looks[n].score) >= PassScore
                         /\ \A k \in n + 1 .. Len(looks) : looks[k].defect # d
    BY DEF ImageEarned
<1> DEFINE A == Roll(Measured, DOMAIN Measured)
           B == Roll([d \in Defects |-> Seen(d)], Defects)
<1>1. A = "pass" /\ B = "pass"
  <2>1. A \in VerdictSet /\ B \in VerdictSet
    BY DEF Roll, VerdictSet
  <2>2. ImageVerdict = Worst({A, B})
    BY DEF ImageVerdict
  <2> HIDE DEF A, B
  <2> QED BY <2>1, <2>2, WorstIs DEF VerdictSet
<1>2. \A x \in DOMAIN Measured : Measured[x] # "fail" /\ Measured[x] # "needs_review"
  BY <1>1 DEF Roll
<1>3. still \in ImageFacts
  BY DEF EngineInv, ImageTyped
<1>4. /\ Measured.format # "fail" /\ Measured.size # "fail"
      /\ Measured.resolution \notin {"fail", "needs_review"}
      /\ Measured.overlay \notin {"fail", "needs_review"}
  <2>1. {"format", "size", "resolution", "overlay"} \subseteq DOMAIN Measured
    BY DEF Measured
  <2> QED BY <1>2, <2>1
<1>5. still.decodes /\ still.shippable
  BY <1>4 DEF Measured
<1>6. still.dims = "meets"
  BY <1>4 DEF Measured
<1>7. still.bytes \in MinBytes .. MaxBytes
  BY <1>4 DEF Measured
<1>8. still.overlay \in {"none", "legible"}
  BY <1>3, <1>4, <1>5 DEF Measured, ImageFacts
<1>9. ASSUME NEW d \in Defects
      PROVE  \E n \in DOMAIN looks :
               /\ looks[n].defect = d /\ Resolve(looks[n].score) >= PassScore
               /\ \A k \in n + 1 .. Len(looks) : looks[k].defect # d
  <2>1. Seen(d) # "fail" /\ Seen(d) # "needs_review"
    BY <1>1 DEF Roll
  <2>2. Resolve(looked[d]) >= PassScore
    BY <2>1 DEF Seen
  <2>3. looked[d] # NoScore
    BY <2>2 DEF NoScore, Resolve, PassScore
  <2> QED BY <2>2, <2>3 DEF EngineInv, LookedIsLast
<1> QED BY <1>5, <1>6, <1>7, <1>8, <1>9

LEMMA VideoEarnedHolds == EngineInv => VideoEarned
<1> SUFFICES ASSUME EngineInv
             PROVE  VideoEarned
    OBVIOUS
<1>1. ASSUME VideoVerdict = "pass"
      PROVE  footage.pictures /\ footage.sound /\ footage.seconds > 0 /\ footage.shape = footage.declared
  <2> DEFINE of ==
       [pictures |-> IF footage.pictures THEN "pass" ELSE "fail",
        sound |-> IF footage.sound THEN "pass" ELSE "fail",
        duration |-> IF footage.seconds > 0 THEN "pass" ELSE "fail",
        resolution |-> CASE footage.shape = "none" -> "fail"
                         [] footage.shape # "none" /\ footage.declared = "other" -> "needs_review"
                         [] OTHER -> IF footage.shape = footage.declared THEN "pass" ELSE "fail"]
  <2>1. VideoVerdict = Roll(of, {"pictures", "sound", "duration", "resolution"})
    BY DEF VideoVerdict
  <2>2. DOMAIN of = {"pictures", "sound", "duration", "resolution"}
    OBVIOUS
  <2>3. \A x \in {"pictures", "sound", "duration", "resolution"} :
          of[x] # "fail" /\ of[x] # "needs_review"
    <3> HIDE DEF of
    <3> QED BY <1>1, <2>1, <2>2 DEF Roll
  <2>4. of.pictures # "fail" /\ of.sound # "fail" /\ of.duration # "fail"
        /\ of.resolution # "fail" /\ of.resolution # "needs_review"
    <3> HIDE DEF of
    <3> QED BY <2>3
  <2> QED BY <2>4
<1> QED BY <1>1 DEF VideoEarned, EngineInv, StoredFits

\* PassIsEarned: whatever the agent hands in, in whatever order and number, no engine
\* passes what its evidence does not (compliance_engine.py, qa_engine.py and video_probe.py
\* over gate_core.py, and _spec_backstop_video of operator_stage_tools.py).
THEOREM PassIsEarnedHolds == EngineSpec => []PassIsEarned
<1>1. EngineInv => PassIsEarned
  BY TextEarnedHolds, ImageEarnedHolds, VideoEarnedHolds DEF PassIsEarned
<1> QED BY <1>1, EngineInvariant, PTL
=============================================================================
