-------------------------- MODULE ReviewGatesProofs --------------------------
(***************************************************************************)
(* Theorems about ReviewGates, for any creatives, copy, placements and     *)
(* bounds.  A report in flight that is neither partial nor overlapped is   *)
(* what the rows of its creative say; a launch under way has seen clear    *)
(* every gate it has read, but those written since.                        *)
(***************************************************************************)
EXTENDS ReviewGates, TLAPS

\* A report in flight, alone and whole, agrees with the rows of its creative.
RollingOK ==
  \A r \in Reports :
    report[r].at = "rolling" /\ report[r].creative \notin ragged =>
      /\ \A p \in Placements : check[report[r].creative][p] = report[r].of[p]
      /\ \A q \in Reports :
           report[q].at = "rolling" /\ report[q].creative = report[r].creative => q = r

\* What a launch under way has read, and nobody has written since, is clear.
LaunchOK ==
  \A c \in Creatives \ touched :
    /\ launch # "none" => spec[c] \in Clear \cup {"none"}
    /\ launch \in {"compliance", "checked", "recorded"} => compliance[c] \in Clear \cup {"none"}

ReviewInv == ReviewTypeOK /\ ClearedFitsCopy /\ RollingOK /\ SpecPassIsWhole /\ LaunchOK

\* An item or a report in flight has its creative.
LEMMA FlightFacts ==
  ReviewTypeOK =>
    /\ \A i \in Items : judge[i].at = "judging" =>
         /\ judge[i].creative \in Creatives
         /\ judge[i].variants \in SUBSET Variants
         /\ judge[i].read \in [Variants -> Nat]
    /\ \A r \in Reports : report[r].at = "rolling" =>
         /\ report[r].creative \in Creatives
         /\ report[r].of \in [Placements -> Statuses]
<1> SUFFICES ASSUME ReviewTypeOK
             PROVE  /\ \A i \in Items : judge[i].at = "judging" =>
                         /\ judge[i].creative \in Creatives
                         /\ judge[i].variants \in SUBSET Variants
                         /\ judge[i].read \in [Variants -> Nat]
                    /\ \A r \in Reports : report[r].at = "rolling" =>
                         /\ report[r].creative \in Creatives
                         /\ report[r].of \in [Placements -> Statuses]
    OBVIOUS
<1>1. /\ \A i \in Items : judge[i] \in ItemTypes
      /\ \A r \in Reports : report[r] \in ReportTypes
  BY DEF ReviewTypeOK
<1>2. \A x \in ItemTypes : x.at = "judging" =>
        x.creative \in Creatives /\ x.variants \in SUBSET Variants /\ x.read \in [Variants -> Nat]
  BY DEF ItemTypes
<1>3. \A x \in ReportTypes : x.at = "rolling" =>
        x.creative \in Creatives /\ x.of \in [Placements -> Statuses]
  BY DEF ReportTypes
<1> QED
  BY <1>1, <1>2, <1>3

\* Every step keeps the types.
LEMMA ReviewTypeStep == ReviewTypeOK /\ [ReviewNext]_reviewVars => ReviewTypeOK'
<1> SUFFICES ASSUME ReviewTypeOK, [ReviewNext]_reviewVars
             PROVE  ReviewTypeOK'
    OBVIOUS
<1> USE ReviewAssumption DEF ReviewTypeOK, Clear, Phases, Gate, Statuses, copyVars, complianceVars, specVars
<1>1. ASSUME NEW v \in Variants, NEW t \in 1..MaxText[v], WriteCopy(v, t)
       PROVE  ReviewTypeOK'
  BY <1>1 DEF WriteCopy, Touch, Rearm
<1>2. ASSUME NEW v \in Variants, NEW d \in {"approved", "rejected"}, DecideCopy(v, d)
       PROVE  ReviewTypeOK'
  BY <1>2 DEF DecideCopy
<1>3. ASSUME NEW v \in Variants, NEW d \in {"approved", "rejected"}, CommitDecision(v, d)
       PROVE  ReviewTypeOK'
  BY <1>3 DEF CommitDecision
<1>4. ASSUME NEW i \in Items, NEW c \in Creatives, JudgeRead(i, c)
       PROVE  ReviewTypeOK'
  <2>1. PICK vs \in {{}} \cup {{v} : v \in {w \in Variants : CreativeOf[w] = c /\ text[w] > 0}} :
          judge' = [judge EXCEPT ![i] = [at |-> "judging", creative |-> c, variants |-> vs,
                                       read |-> [v \in Variants |-> IF v \in vs THEN text[v] ELSE 0]]]
    BY <1>4 DEF JudgeRead
  <2>2. [at |-> "judging", creative |-> c, variants |-> vs,
         read |-> [v \in Variants |-> IF v \in vs THEN text[v] ELSE 0]] \in ItemTypes
    BY DEF ItemTypes
  <2> QED
    BY <1>4, <2>1, <2>2 DEF JudgeRead
<1>5. ASSUME NEW i \in Items, NEW s \in {"passed", "failed", "pending"}, JudgeWrite(i, s)
       PROVE  ReviewTypeOK'
  <2>1. judge[i].creative \in Creatives
    BY <1>5, FlightFacts DEF JudgeWrite
  <2>2. [at |-> "over"] \in ItemTypes
    BY DEF ItemTypes
  <2>3. judge' \in [Items -> ItemTypes]
    BY <1>5, <2>2 DEF JudgeWrite
  <2>4. /\ compliance' \in [Creatives -> Gate]
        /\ crossed' \in SUBSET Creatives
        /\ touched' \in SUBSET Creatives
    BY <1>5, <2>1 DEF JudgeWrite, Touch
  <2>5. [v \in Variants |-> IF v \in judge[i].variants THEN judge[i].read[v] ELSE text[v]]
          \in [Variants -> Nat]
    BY <1>5, FlightFacts DEF JudgeWrite
  <2>6. basis' \in [Creatives -> [Variants -> Nat]]
    BY <1>5, <2>1, <2>5 DEF JudgeWrite
  <2> QED
    BY <1>5, <2>3, <2>4, <2>6 DEF JudgeWrite
<1>6. ASSUME NEW i \in Items, JudgeFails(i)
       PROVE  ReviewTypeOK'
  <2>1. [at |-> "over"] \in ItemTypes
    BY DEF ItemTypes
  <2> QED
    BY <1>6, <2>1 DEF JudgeFails
<1>7. ASSUME NEW r \in Reports, NEW c \in Creatives, ReportWrite(r, c)
       PROVE  ReviewTypeOK'
  <2>1. PICK of \in [Placements -> Statuses] :
          /\ check' = [check EXCEPT ![c] =
                         [p \in Placements |-> IF of[p] = "none" THEN @[p] ELSE of[p]]]
          /\ report' = [report EXCEPT ![r] = [at |-> "rolling", creative |-> c, of |-> of]]
          /\ ragged' = IF Covers(of, c) /\ Rolling(c) = {}
                         THEN ragged \ {c} ELSE ragged \cup {c}
    BY <1>7 DEF ReportWrite
  <2>2. [at |-> "rolling", creative |-> c, of |-> of] \in ReportTypes
    BY DEF ReportTypes
  <2>3. report' \in [Reports -> ReportTypes]
    BY <2>1, <2>2
  <2>4. [p \in Placements |-> IF of[p] = "none" THEN check[c][p] ELSE of[p]]
          \in [Placements -> Statuses]
    OBVIOUS
  <2>5. check' \in [Creatives -> [Placements -> Statuses]]
    BY <2>1, <2>4
  <2>6. ragged' \in SUBSET Creatives
    BY <2>1
  <2> QED
    BY <1>7, <2>3, <2>5, <2>6 DEF ReportWrite
<1>8. ASSUME NEW r \in Reports, ReportRoll(r)
       PROVE  ReviewTypeOK'
  <2>1. [at |-> "over"] \in ReportTypes
    BY DEF ReportTypes
  <2>2. SpecGate(report[r].of) \in Gate
    BY DEF SpecGate
  <2>3. report' \in [Reports -> ReportTypes]
    BY <1>8, <2>1 DEF ReportRoll
  <2>4. spec' \in [Creatives -> Gate]
    BY <1>8, <2>2 DEF ReportRoll
  <2>5. released' \in SUBSET Creatives /\ touched' \in SUBSET Creatives
    BY <1>8, FlightFacts DEF ReportRoll, Touch
  <2> QED
    BY <1>8, <2>3, <2>4, <2>5 DEF ReportRoll
<1>9. ASSUME NEW r \in Reports, ReportFails(r)
       PROVE  ReviewTypeOK'
  <2>1. [at |-> "over"] \in ReportTypes
    BY DEF ReportTypes
  <2>2. report' \in [Reports -> ReportTypes]
    BY <1>9, <2>1 DEF ReportFails
  <2>3. ragged' \in SUBSET Creatives
    BY <1>9, FlightFacts DEF ReportFails
  <2> QED
    BY <1>9, <2>2, <2>3 DEF ReportFails
<1>10. ASSUME NEW c \in Creatives, NEW s \in Clear, DecideCompliance(c, s)
       PROVE  ReviewTypeOK'
  BY <1>10 DEF DecideCompliance
<1>11. ASSUME NEW c \in Creatives, NEW s \in Clear, DecideSpec(c, s)
       PROVE  ReviewTypeOK'
  BY <1>11 DEF DecideSpec
<1>12. CASE AdvancePhase
  BY <1>12 DEF AdvancePhase
<1>13. CASE CheckSpec
  BY <1>13 DEF CheckSpec
<1>14. CASE CheckCompliance
  BY <1>14 DEF CheckCompliance
<1>15. CASE CheckCopy
  BY <1>15 DEF CheckCopy
<1>16. CASE RecordLaunch
  BY <1>16 DEF RecordLaunch
<1>17. CASE UNCHANGED reviewVars
  BY <1>17 DEF reviewVars
<1> QED
  BY <1>1, <1>2, <1>3, <1>4, <1>5, <1>6, <1>7, <1>8, <1>9, <1>10, <1>11, <1>12, <1>13, <1>14, <1>15, <1>16, <1>17
     DEF ReviewNext

\* Every step keeps a clear gate to the text it was cleared on.
LEMMA FitsStep == ReviewTypeOK /\ ClearedFitsCopy /\ [ReviewNext]_reviewVars => ClearedFitsCopy'
<1> SUFFICES ASSUME ReviewTypeOK /\ ClearedFitsCopy, [ReviewNext]_reviewVars
             PROVE  ClearedFitsCopy'
    OBVIOUS
<1> USE ReviewAssumption DEF ReviewTypeOK, Clear, ClearedFitsCopy, copyVars, complianceVars, specVars
<1>1. ASSUME NEW v \in Variants, NEW t \in 1..MaxText[v], WriteCopy(v, t)
       PROVE  ClearedFitsCopy'
  <2>1. CASE t = text[v]
    BY <1>1, <2>1 DEF WriteCopy
  <2>2. CASE t # text[v]
    <3>1. text' = [text EXCEPT ![v] = t] /\ UNCHANGED <<basis, crossed>>
      BY <1>1 DEF WriteCopy
    <3>2. compliance' = [compliance EXCEPT ![CreativeOf[v]] = IF @ = "none" THEN @ ELSE "pending"]
      BY <1>1, <2>2 DEF WriteCopy, Rearm
    <3>3. CreativeOf[v] \in Creatives /\ compliance'[CreativeOf[v]] \notin Clear
      BY <3>2
    <3> QED
      BY <3>1, <3>2, <3>3
  <2> QED
    BY <2>1, <2>2
<1>2. ASSUME NEW v \in Variants, NEW d \in {"approved", "rejected"}, DecideCopy(v, d)
       PROVE  ClearedFitsCopy'
  BY <1>2 DEF DecideCopy
<1>3. ASSUME NEW v \in Variants, NEW d \in {"approved", "rejected"}, CommitDecision(v, d)
       PROVE  ClearedFitsCopy'
  BY <1>3 DEF CommitDecision
<1>4. ASSUME NEW i \in Items, NEW c \in Creatives, JudgeRead(i, c)
       PROVE  ClearedFitsCopy'
  BY <1>4 DEF JudgeRead
<1>5. ASSUME NEW i \in Items, NEW s \in {"passed", "failed", "pending"}, JudgeWrite(i, s)
       PROVE  ClearedFitsCopy'
  <2> DEFINE d == judge[i].creative
  <2>1. d \in Creatives
    BY <1>5, FlightFacts DEF JudgeWrite
  <2>2. /\ compliance' = [compliance EXCEPT ![d] = s]
        /\ basis' = [basis EXCEPT ![d] =
                       [v \in Variants |-> IF v \in judge[i].variants
                                             THEN judge[i].read[v] ELSE text[v]]]
        /\ crossed' = IF \E v \in judge[i].variants : judge[i].read[v] # text[v]
                        THEN crossed \cup {d} ELSE crossed \ {d}
        /\ UNCHANGED text
    BY <1>5 DEF JudgeWrite
  <2>3. ASSUME NEW c \in Creatives, NEW v \in Variants, CreativeOf[v] = c,
               compliance'[c] \in Clear, c \notin crossed'
        PROVE  basis'[c][v] = text'[v]
    <3>1. CASE c = d
      BY <2>1, <2>2, <2>3, <3>1
    <3>2. CASE c # d
      BY <2>1, <2>2, <2>3, <3>2
    <3> QED
      BY <3>1, <3>2
  <2> QED
    BY <2>3
<1>6. ASSUME NEW i \in Items, JudgeFails(i)
       PROVE  ClearedFitsCopy'
  BY <1>6 DEF JudgeFails
<1>7. ASSUME NEW r \in Reports, NEW c \in Creatives, ReportWrite(r, c)
       PROVE  ClearedFitsCopy'
  BY <1>7 DEF ReportWrite
<1>8. ASSUME NEW r \in Reports, ReportRoll(r)
       PROVE  ClearedFitsCopy'
  BY <1>8 DEF ReportRoll, Touch
<1>9. ASSUME NEW r \in Reports, ReportFails(r)
       PROVE  ClearedFitsCopy'
  BY <1>9 DEF ReportFails
<1>10. ASSUME NEW c \in Creatives, NEW s \in Clear, DecideCompliance(c, s)
       PROVE  ClearedFitsCopy'
  BY <1>10 DEF DecideCompliance
<1>11. ASSUME NEW c \in Creatives, NEW s \in Clear, DecideSpec(c, s)
       PROVE  ClearedFitsCopy'
  BY <1>11 DEF DecideSpec
<1>12. CASE AdvancePhase
  BY <1>12 DEF AdvancePhase
<1>13. CASE CheckSpec
  BY <1>13 DEF CheckSpec
<1>14. CASE CheckCompliance
  BY <1>14 DEF CheckCompliance
<1>15. CASE CheckCopy
  BY <1>15 DEF CheckCopy
<1>16. CASE RecordLaunch
  BY <1>16 DEF RecordLaunch
<1>17. CASE UNCHANGED reviewVars
  BY <1>17 DEF reviewVars
<1> QED
  BY <1>1, <1>2, <1>3, <1>4, <1>5, <1>6, <1>7, <1>8, <1>9, <1>10, <1>11, <1>12, <1>13, <1>14, <1>15, <1>16, <1>17
     DEF ReviewNext

\* Every step keeps a report in flight to the rows.
LEMMA RollingStep == ReviewTypeOK /\ RollingOK /\ [ReviewNext]_reviewVars => RollingOK'
<1> SUFFICES ASSUME ReviewTypeOK /\ RollingOK, [ReviewNext]_reviewVars
             PROVE  RollingOK'
    OBVIOUS
<1> USE ReviewAssumption DEF ReviewTypeOK, RollingOK, copyVars, complianceVars, specVars
<1>1. ASSUME NEW v \in Variants, NEW t \in 1..MaxText[v], WriteCopy(v, t)
       PROVE  RollingOK'
  BY <1>1 DEF WriteCopy, Touch, Rearm
<1>2. ASSUME NEW v \in Variants, NEW d \in {"approved", "rejected"}, DecideCopy(v, d)
       PROVE  RollingOK'
  BY <1>2 DEF DecideCopy
<1>3. ASSUME NEW v \in Variants, NEW d \in {"approved", "rejected"}, CommitDecision(v, d)
       PROVE  RollingOK'
  BY <1>3 DEF CommitDecision
<1>4. ASSUME NEW i \in Items, NEW c \in Creatives, JudgeRead(i, c)
       PROVE  RollingOK'
  BY <1>4 DEF JudgeRead
<1>5. ASSUME NEW i \in Items, NEW s \in {"passed", "failed", "pending"}, JudgeWrite(i, s)
       PROVE  RollingOK'
  BY <1>5 DEF JudgeWrite, Touch
<1>6. ASSUME NEW i \in Items, JudgeFails(i)
       PROVE  RollingOK'
  BY <1>6 DEF JudgeFails
<1>7. ASSUME NEW r \in Reports, NEW c \in Creatives, ReportWrite(r, c)
       PROVE  RollingOK'
  <2>1. PICK of \in [Placements -> Statuses] :
          /\ check' = [check EXCEPT ![c] =
                         [p \in Placements |-> IF of[p] = "none" THEN @[p] ELSE of[p]]]
          /\ report' = [report EXCEPT ![r] = [at |-> "rolling", creative |-> c, of |-> of]]
          /\ ragged' = IF Covers(of, c) /\ Rolling(c) = {}
                         THEN ragged \ {c} ELSE ragged \cup {c}
    BY <1>7 DEF ReportWrite
  <2>2. /\ report'[r].at = "rolling" /\ report'[r].creative = c /\ report'[r].of = of
        /\ \A q \in Reports \ {r} : report'[q] = report[q]
    BY <2>1
  <2>3. ASSUME NEW q \in Reports, report'[q].at = "rolling", report'[q].creative \notin ragged'
        PROVE  /\ \A p \in Placements : check'[report'[q].creative][p] = report'[q].of[p]
               /\ \A o \in Reports :
                    report'[o].at = "rolling" /\ report'[o].creative = report'[q].creative => o = q
    <3>1. CASE report'[q].creative = c
      <4>1. Covers(of, c) /\ Rolling(c) = {}
        BY <2>1, <2>3, <3>1
      <4>2. q = r /\ \A o \in Reports \ {r} : ~(report[o].at = "rolling" /\ report[o].creative = c)
        BY <2>2, <2>3, <3>1, <4>1 DEF Rolling
      <4>3. \A p \in Placements : check'[c][p] = of[p]
        BY <2>1, <4>1 DEF Covers
      <4> QED
        BY <2>2, <4>2, <4>3
    <3>2. CASE report'[q].creative # c
      <4>1. q # r /\ report'[q] = report[q] /\ report[q].creative \notin ragged
        BY <2>1, <2>2, <2>3, <3>2
      <4>2. report[q].creative \in Creatives /\ check'[report[q].creative] = check[report[q].creative]
        BY <2>1, <2>3, <3>2, <4>1, FlightFacts
      <4> QED
        BY <2>2, <2>3, <3>2, <4>1, <4>2
    <3> QED
      BY <3>1, <3>2
  <2> QED
    BY <2>3
<1>8. ASSUME NEW r \in Reports, ReportRoll(r)
       PROVE  RollingOK'
  <2>1. \A q \in Reports : report'[q].at = "rolling" => q # r /\ report'[q] = report[q]
    BY <1>8 DEF ReportRoll
  <2>2. UNCHANGED check /\ ragged \subseteq ragged'
    BY <1>8 DEF ReportRoll
  <2> QED
    BY <2>1, <2>2
<1>9. ASSUME NEW r \in Reports, ReportFails(r)
       PROVE  RollingOK'
  <2>1. \A q \in Reports : report'[q].at = "rolling" => q # r /\ report'[q] = report[q]
    BY <1>9 DEF ReportFails
  <2>2. UNCHANGED check /\ ragged \subseteq ragged'
    BY <1>9 DEF ReportFails
  <2> QED
    BY <2>1, <2>2
<1>10. ASSUME NEW c \in Creatives, NEW s \in Clear, DecideCompliance(c, s)
       PROVE  RollingOK'
  BY <1>10 DEF DecideCompliance
<1>11. ASSUME NEW c \in Creatives, NEW s \in Clear, DecideSpec(c, s)
       PROVE  RollingOK'
  BY <1>11 DEF DecideSpec
<1>12. CASE AdvancePhase
  BY <1>12 DEF AdvancePhase
<1>13. CASE CheckSpec
  BY <1>13 DEF CheckSpec
<1>14. CASE CheckCompliance
  BY <1>14 DEF CheckCompliance
<1>15. CASE CheckCopy
  BY <1>15 DEF CheckCopy
<1>16. CASE RecordLaunch
  BY <1>16 DEF RecordLaunch
<1>17. CASE UNCHANGED reviewVars
  BY <1>17 DEF reviewVars
<1> QED
  BY <1>1, <1>2, <1>3, <1>4, <1>5, <1>6, <1>7, <1>8, <1>9, <1>10, <1>11, <1>12, <1>13, <1>14, <1>15, <1>16, <1>17
     DEF ReviewNext

\* A step that leaves the spec rows alone.
LEMMA SpecUntouched == SpecPassIsWhole /\ UNCHANGED specVars => SpecPassIsWhole'
BY DEF SpecPassIsWhole, Rolling, specVars

\* Every step keeps a spec gate to the worst of the rows.
LEMMA WholeStep == ReviewTypeOK /\ RollingOK /\ SpecPassIsWhole /\ [ReviewNext]_reviewVars => SpecPassIsWhole'
<1> SUFFICES ASSUME ReviewTypeOK /\ RollingOK /\ SpecPassIsWhole, [ReviewNext]_reviewVars
             PROVE  SpecPassIsWhole'
    OBVIOUS
<1> USE ReviewAssumption DEF ReviewTypeOK, RollingOK, SpecPassIsWhole, copyVars, complianceVars, specVars
<1>1. ASSUME NEW v \in Variants, NEW t \in 1..MaxText[v], WriteCopy(v, t)
       PROVE  SpecPassIsWhole'
  BY <1>1, SpecUntouched DEF WriteCopy, Touch, Rearm
<1>2. ASSUME NEW v \in Variants, NEW d \in {"approved", "rejected"}, DecideCopy(v, d)
       PROVE  SpecPassIsWhole'
  BY <1>2, SpecUntouched DEF DecideCopy
<1>3. ASSUME NEW v \in Variants, NEW d \in {"approved", "rejected"}, CommitDecision(v, d)
       PROVE  SpecPassIsWhole'
  BY <1>3, SpecUntouched DEF CommitDecision
<1>4. ASSUME NEW i \in Items, NEW c \in Creatives, JudgeRead(i, c)
       PROVE  SpecPassIsWhole'
  BY <1>4, SpecUntouched DEF JudgeRead
<1>5. ASSUME NEW i \in Items, NEW s \in {"passed", "failed", "pending"}, JudgeWrite(i, s)
       PROVE  SpecPassIsWhole'
  BY <1>5, SpecUntouched DEF JudgeWrite, Touch
<1>6. ASSUME NEW i \in Items, JudgeFails(i)
       PROVE  SpecPassIsWhole'
  BY <1>6, SpecUntouched DEF JudgeFails
<1>7. ASSUME NEW r \in Reports, NEW c \in Creatives, ReportWrite(r, c)
       PROVE  SpecPassIsWhole'
  <2>1. PICK of \in [Placements -> Statuses] :
          /\ check' = [check EXCEPT ![c] =
                         [p \in Placements |-> IF of[p] = "none" THEN @[p] ELSE of[p]]]
          /\ report' = [report EXCEPT ![r] = [at |-> "rolling", creative |-> c, of |-> of]]
          /\ ragged' = IF Covers(of, c) /\ Rolling(c) = {}
                         THEN ragged \ {c} ELSE ragged \cup {c}
    BY <1>7 DEF ReportWrite
  <2>2. r \in Rolling(c)'
    BY <2>1 DEF Rolling
  <2>3. \A q \in Reports \ {r} : report'[q] = report[q]
    BY <2>1
  <2>4. report[r].at # "rolling"
    BY <1>7 DEF ReportWrite
  <2>5. ASSUME NEW d \in Creatives, d # c
        PROVE  Rolling(d)' = Rolling(d) /\ check'[d] = check[d] /\ (d \in ragged' <=> d \in ragged)
    BY <2>1, <2>3, <2>4, <2>5 DEF Rolling
  <2>6. UNCHANGED <<spec, released>>
    BY <1>7 DEF ReportWrite
  <2>7. ASSUME NEW d \in Creatives, spec'[d] = "passed", d \notin released' \cup ragged',
               Rolling(d)' = {}, NEW p \in Placements
        PROVE  check'[d][p] \in {"none", "pass"}
    BY <2>2, <2>5, <2>6, <2>7
  <2> QED
    BY <2>7
<1>8. ASSUME NEW r \in Reports, ReportRoll(r)
       PROVE  SpecPassIsWhole'
  <2> DEFINE c == report[r].creative
  <2>1. /\ c \in Creatives
        /\ report[r].at = "rolling"
        /\ report[r].of \in [Placements -> Statuses]
    BY <1>8, FlightFacts DEF ReportRoll
  <2>2. /\ spec' = [spec EXCEPT ![c] = SpecGate(report[r].of)]
        /\ released' = released \ {c}
        /\ report' = [report EXCEPT ![r] = [at |-> "over"]]
        /\ UNCHANGED <<check, ragged>>
    BY <1>8 DEF ReportRoll
  <2>3. ASSUME NEW d \in Creatives, spec'[d] = "passed", d \notin released' \cup ragged',
               Rolling(d)' = {}, NEW p \in Placements
        PROVE  check'[d][p] \in {"none", "pass"}
    <3>1. CASE d = c
      <4>1. \A o \in Placements : check[c][o] = report[r].of[o]
        BY <2>1, <2>2, <2>3, <3>1
      <4>2. SpecGate(report[r].of) = "passed"
        BY <2>1, <2>2, <2>3, <3>1
      <4>3. report[r].of[p] \notin {"fail", "warn"}
        BY <4>2 DEF SpecGate
      <4> QED
        BY <2>1, <2>2, <2>3, <3>1, <4>1, <4>3 DEF Statuses
    <3>2. CASE d # c
      <4>1. Rolling(d)' = Rolling(d)
        BY <2>1, <2>2, <2>3, <3>2 DEF Rolling
      <4> QED
        BY <2>1, <2>2, <2>3, <3>2, <4>1
    <3> QED
      BY <3>1, <3>2
  <2> QED
    BY <2>3
<1>9. ASSUME NEW r \in Reports, ReportFails(r)
       PROVE  SpecPassIsWhole'
  <2> DEFINE c == report[r].creative
  <2>1. /\ ragged' = ragged \cup {c}
        /\ report' = [report EXCEPT ![r] = [at |-> "over"]]
        /\ UNCHANGED <<spec, check, released>>
    BY <1>9 DEF ReportFails
  <2>2. ASSUME NEW d \in Creatives, d # c
        PROVE  Rolling(d)' = Rolling(d)
    BY <2>1, <2>2 DEF Rolling
  <2>3. ASSUME NEW d \in Creatives, spec'[d] = "passed", d \notin released' \cup ragged',
               Rolling(d)' = {}, NEW p \in Placements
        PROVE  check'[d][p] \in {"none", "pass"}
    BY <2>1, <2>2, <2>3
  <2> QED
    BY <2>3
<1>10. ASSUME NEW c \in Creatives, NEW s \in Clear, DecideCompliance(c, s)
       PROVE  SpecPassIsWhole'
  BY <1>10, SpecUntouched DEF DecideCompliance
<1>11. ASSUME NEW c \in Creatives, NEW s \in Clear, DecideSpec(c, s)
       PROVE  SpecPassIsWhole'
  <2>1. spec' = [spec EXCEPT ![c] = s] /\ released' = released \cup {c} /\ UNCHANGED <<check, report, ragged>>
    BY <1>11 DEF DecideSpec
  <2>2. Rolling(c)' = Rolling(c) /\ \A d \in Creatives : Rolling(d)' = Rolling(d)
    BY <2>1 DEF Rolling
  <2> QED
    BY <2>1, <2>2 DEF SpecPassIsWhole
<1>12. CASE AdvancePhase
  BY <1>12, SpecUntouched DEF AdvancePhase
<1>13. CASE CheckSpec
  BY <1>13, SpecUntouched DEF CheckSpec
<1>14. CASE CheckCompliance
  BY <1>14, SpecUntouched DEF CheckCompliance
<1>15. CASE CheckCopy
  BY <1>15, SpecUntouched DEF CheckCopy
<1>16. CASE RecordLaunch
  BY <1>16, SpecUntouched DEF RecordLaunch
<1>17. CASE UNCHANGED reviewVars
  BY <1>17, SpecUntouched DEF reviewVars
<1> HIDE DEF SpecPassIsWhole
<1> QED
  BY <1>1, <1>2, <1>3, <1>4, <1>5, <1>6, <1>7, <1>8, <1>9, <1>10, <1>11, <1>12, <1>13, <1>14, <1>15, <1>16, <1>17
     DEF ReviewNext

\* Every step keeps what a launch under way has seen.
LEMMA LaunchStep == ReviewTypeOK /\ LaunchOK /\ [ReviewNext]_reviewVars => LaunchOK'
<1> SUFFICES ASSUME ReviewTypeOK /\ LaunchOK, [ReviewNext]_reviewVars
             PROVE  LaunchOK'
    OBVIOUS
<1> USE ReviewAssumption DEF ReviewTypeOK, LaunchOK, Clear, copyVars, complianceVars, specVars
<1>1. ASSUME NEW v \in Variants, NEW t \in 1..MaxText[v], WriteCopy(v, t)
       PROVE  LaunchOK'
  BY <1>1 DEF WriteCopy, Touch, Rearm
<1>2. ASSUME NEW v \in Variants, NEW d \in {"approved", "rejected"}, DecideCopy(v, d)
       PROVE  LaunchOK'
  BY <1>2 DEF DecideCopy
<1>3. ASSUME NEW v \in Variants, NEW d \in {"approved", "rejected"}, CommitDecision(v, d)
       PROVE  LaunchOK'
  BY <1>3 DEF CommitDecision
<1>4. ASSUME NEW i \in Items, NEW c \in Creatives, JudgeRead(i, c)
       PROVE  LaunchOK'
  BY <1>4 DEF JudgeRead
<1>5. ASSUME NEW i \in Items, NEW s \in {"passed", "failed", "pending"}, JudgeWrite(i, s)
       PROVE  LaunchOK'
  <2>1. judge[i].creative \in Creatives
    BY <1>5, FlightFacts DEF JudgeWrite
  <2>2. compliance' = [compliance EXCEPT ![judge[i].creative] = s] /\ UNCHANGED <<spec, launch>>
    BY <1>5 DEF JudgeWrite
  <2>3. touched' = IF launch = "none" THEN touched ELSE touched \cup {judge[i].creative}
    BY <1>5 DEF JudgeWrite, Touch
  <2> QED
    BY <2>1, <2>2, <2>3
<1>6. ASSUME NEW i \in Items, JudgeFails(i)
       PROVE  LaunchOK'
  BY <1>6 DEF JudgeFails
<1>7. ASSUME NEW r \in Reports, NEW c \in Creatives, ReportWrite(r, c)
       PROVE  LaunchOK'
  BY <1>7 DEF ReportWrite
<1>8. ASSUME NEW r \in Reports, ReportRoll(r)
       PROVE  LaunchOK'
  <2>1. report[r].creative \in Creatives
    BY <1>8, FlightFacts DEF ReportRoll
  <2>2. /\ spec' = [spec EXCEPT ![report[r].creative] = SpecGate(report[r].of)]
        /\ UNCHANGED <<compliance, launch>>
    BY <1>8 DEF ReportRoll
  <2>3. touched' = IF launch = "none" THEN touched ELSE touched \cup {report[r].creative}
    BY <1>8 DEF ReportRoll, Touch
  <2> QED
    BY <2>1, <2>2, <2>3
<1>9. ASSUME NEW r \in Reports, ReportFails(r)
       PROVE  LaunchOK'
  BY <1>9 DEF ReportFails
<1>10. ASSUME NEW c \in Creatives, NEW s \in Clear, DecideCompliance(c, s)
       PROVE  LaunchOK'
  BY <1>10 DEF DecideCompliance
<1>11. ASSUME NEW c \in Creatives, NEW s \in Clear, DecideSpec(c, s)
       PROVE  LaunchOK'
  BY <1>11 DEF DecideSpec
<1>12. CASE AdvancePhase
  BY <1>12 DEF AdvancePhase
<1>13. CASE CheckSpec
  BY <1>13 DEF CheckSpec, Cleared
<1>14. CASE CheckCompliance
  BY <1>14 DEF CheckCompliance, Cleared
<1>15. CASE CheckCopy
  BY <1>15 DEF CheckCopy
<1>16. CASE RecordLaunch
  BY <1>16 DEF RecordLaunch
<1>17. CASE UNCHANGED reviewVars
  BY <1>17 DEF reviewVars
<1> QED
  BY <1>1, <1>2, <1>3, <1>4, <1>5, <1>6, <1>7, <1>8, <1>9, <1>10, <1>11, <1>12, <1>13, <1>14, <1>15, <1>16, <1>17
     DEF ReviewNext

\* The invariant the others follow from.
THEOREM ReviewInvariant == ReviewSpec => []ReviewInv
<1>1. ReviewInit => ReviewInv
  <2> SUFFICES ASSUME ReviewInit
               PROVE  ReviewInv
      OBVIOUS
  <2> USE ReviewAssumption DEF ReviewInit
  <2>1. [at |-> "new"] \in ItemTypes /\ [at |-> "new"] \in ReportTypes
    BY DEF ItemTypes, ReportTypes
  <2>2. ReviewTypeOK
    BY <2>1 DEF ReviewTypeOK, Phases, Gate, Statuses
  <2>3. ClearedFitsCopy /\ SpecPassIsWhole /\ LaunchOK
    BY DEF ClearedFitsCopy, SpecPassIsWhole, LaunchOK, Clear
  <2>4. RollingOK
    BY DEF RollingOK
  <2> QED
    BY <2>2, <2>3, <2>4 DEF ReviewInv
<1>2. ReviewInv /\ [ReviewNext]_reviewVars => ReviewInv'
  BY ReviewTypeStep, FitsStep, RollingStep, WholeStep, LaunchStep DEF ReviewInv
<1> QED
  BY <1>1, <1>2, PTL DEF ReviewSpec

\* The type invariant, for any creatives, copy, placements and bounds.
THEOREM ReviewTyped == ReviewSpec => []ReviewTypeOK
<1>1. ReviewInv => ReviewTypeOK
  BY DEF ReviewInv
<1> QED
  BY <1>1, ReviewInvariant, PTL

\* A clear compliance gate was cleared on the text there is, but for an edit
\* while the engine judged.
THEOREM ClearedFitsCopyHolds == ReviewSpec => []ClearedFitsCopy
<1>1. ReviewInv => ClearedFitsCopy
  BY DEF ReviewInv
<1> QED
  BY <1>1, ReviewInvariant, PTL

\* A spec gate that passed has no failing placement, as long as reports are
\* whole and take turns.
THEOREM SpecPassIsWholeHolds == ReviewSpec => []SpecPassIsWhole
<1>1. ReviewInv => SpecPassIsWhole
  BY DEF ReviewInv
<1> QED
  BY <1>1, ReviewInvariant, PTL

\* A launch is recorded over clear gates, but for those written meanwhile.
THEOREM LaunchWasClearedHolds == ReviewSpec => []LaunchWasCleared
<1>1. ReviewInv => LaunchWasCleared
  BY DEF ReviewInv, LaunchOK, LaunchWasCleared
<1> QED
  BY <1>1, ReviewInvariant, PTL

\* Every step that takes a gate from clear has a reason.
LEMMA ReasonStep == ReviewTypeOK /\ [ReviewNext]_reviewVars => Reason
<1> SUFFICES ASSUME ReviewTypeOK, [ReviewNext]_reviewVars
             PROVE  Reason
    OBVIOUS
<1> USE ReviewAssumption DEF ReviewTypeOK, Clear, Reason, copyVars, complianceVars, specVars
<1>1. ASSUME NEW v \in Variants, NEW t \in 1..MaxText[v], WriteCopy(v, t)
       PROVE  Reason
  <2>1. text' = [text EXCEPT ![v] = t]
    BY <1>1 DEF WriteCopy
  <2>2. CASE t = text[v]
    BY <1>1, <2>2 DEF WriteCopy
  <2>3. CASE t # text[v]
    BY <1>1, <2>1, <2>3 DEF WriteCopy, Rearm
  <2> QED
    BY <2>2, <2>3
<1>2. ASSUME NEW v \in Variants, NEW d \in {"approved", "rejected"}, DecideCopy(v, d)
       PROVE  Reason
  BY <1>2 DEF DecideCopy
<1>3. ASSUME NEW v \in Variants, NEW d \in {"approved", "rejected"}, CommitDecision(v, d)
       PROVE  Reason
  BY <1>3 DEF CommitDecision
<1>4. ASSUME NEW i \in Items, NEW c \in Creatives, JudgeRead(i, c)
       PROVE  Reason
  BY <1>4 DEF JudgeRead
<1>5. ASSUME NEW i \in Items, NEW s \in {"passed", "failed", "pending"}, JudgeWrite(i, s)
       PROVE  Reason
  <2>1. /\ judge[i].at = "judging"
        /\ judge[i].creative \in Creatives
        /\ judge'[i].at = "over"
        /\ compliance' = [compliance EXCEPT ![judge[i].creative] = s]
    BY <1>5, FlightFacts DEF JudgeWrite
  <2> QED
    BY <2>1
<1>6. ASSUME NEW i \in Items, JudgeFails(i)
       PROVE  Reason
  BY <1>6 DEF JudgeFails
<1>7. ASSUME NEW r \in Reports, NEW c \in Creatives, ReportWrite(r, c)
       PROVE  Reason
  BY <1>7 DEF ReportWrite
<1>8. ASSUME NEW r \in Reports, ReportRoll(r)
       PROVE  Reason
  BY <1>8 DEF ReportRoll, Touch
<1>9. ASSUME NEW r \in Reports, ReportFails(r)
       PROVE  Reason
  BY <1>9 DEF ReportFails
<1>10. ASSUME NEW c \in Creatives, NEW s \in Clear, DecideCompliance(c, s)
       PROVE  Reason
  BY <1>10 DEF DecideCompliance
<1>11. ASSUME NEW c \in Creatives, NEW s \in Clear, DecideSpec(c, s)
       PROVE  Reason
  BY <1>11 DEF DecideSpec
<1>12. CASE AdvancePhase
  BY <1>12 DEF AdvancePhase
<1>13. CASE CheckSpec
  BY <1>13 DEF CheckSpec
<1>14. CASE CheckCompliance
  BY <1>14 DEF CheckCompliance
<1>15. CASE CheckCopy
  BY <1>15 DEF CheckCopy
<1>16. CASE RecordLaunch
  BY <1>16 DEF RecordLaunch
<1>17. CASE UNCHANGED reviewVars
  BY <1>17 DEF reviewVars
<1> QED
  BY <1>1, <1>2, <1>3, <1>4, <1>5, <1>6, <1>7, <1>8, <1>9, <1>10, <1>11, <1>12, <1>13, <1>14, <1>15, <1>16, <1>17
     DEF ReviewNext

\* Only new text or a verdict re-opens a clear gate.
THEOREM RearmNeedsNewTextHolds == ReviewSpec => RearmNeedsNewText
<1>1. ReviewInv /\ [ReviewNext]_reviewVars => [Reason]_reviewVars
  BY ReasonStep DEF ReviewInv
<1> QED
  BY <1>1, ReviewInvariant, PTL DEF ReviewSpec, RearmNeedsNewText

=============================================================================
