------------------------------ MODULE ReviewGates ------------------------------
(***************************************************************************)
(* The gates of the creatives between their quality check and the launch.  *)
(* A row of creative_stage_state holds, per creative and stage, what the   *)
(* compliance engine, the spec checks or a manager decided.  Copy is       *)
(* written, edited and approved while the engine judges it; a trigger of   *)
(* the database re-arms the compliance gate when the text changes.         *)
(*                                                                         *)
(* The rollup of a stage looks only at the rows there are: a creative      *)
(* nobody has judged has none, and holds nothing.  No code of the          *)
(* repository kills a creative, so every row is in scope; an archived      *)
(* creative or variant counts like any other in these checks.              *)
(***************************************************************************)
EXTENDS Naturals, FiniteSets

CONSTANTS
  Creatives,
  Variants,     \* rows of copy_variants
  CreativeOf,
  Placements,
  MinCopy,      \* MIN_APPROVED_COPY
  Items,        \* bound: items of calls of compliance_run
  Reports,      \* bound: reports of one creative in calls of spec_result
  MaxText,      \* bound: texts of each variant
  MaxDecisions  \* bound: decisions on copy in flight at a time

ASSUME ReviewAssumption ==
  /\ CreativeOf \in [Variants -> Creatives]
  /\ MinCopy \in Nat
  /\ MaxText \in [Variants -> Nat]
  /\ MaxDecisions \in Nat

VARIABLES
  phase,       \* the stage of the pipeline
  text,        \* the text of each variant, 0 before it is inserted
  verdict,     \* and its status
  deciding,    \* decisions on copy whose request has read the stage
  compliance,  \* creative_stage_state of compliance_review, "none" without a row
  spec,        \* and of spec_validation
  check,       \* spec_check: the status of each placement
  judge,       \* the items in flight, with the text they read
  report,      \* the reports in flight
  launch,      \* how far record_launch is
  basis,       \* the texts the compliance gate of a creative was decided on
  crossed,     \* creatives judged while the text judged was being replaced
  ragged,      \* creatives whose last report was partial, overlapped or cut off
  released,    \* creatives whose spec gate a manager decided
  touched      \* creatives whose rows or copy were written since the launch began

reviewVars == <<phase, text, verdict, deciding, compliance, spec, check, judge,
                report, launch, basis, crossed, ragged, released, touched>>

copyVars == <<text, verdict>>
complianceVars == <<compliance, basis, crossed>>
specVars == <<spec, check, report, ragged, released>>

Clear == {"passed", "overridden"}
Phases == {"copy", "compliance_review", "spec_validation", "launch_handoff"}
Gate == {"none", "pending", "in_progress", "passed", "failed", "overridden"}
Statuses == {"none", "pass", "warn", "fail"}

ReviewInit ==
  /\ phase = "copy"
  /\ text = [v \in Variants |-> 0]
  /\ verdict = [v \in Variants |-> "none"]
  /\ deciding = {}
  /\ compliance = [c \in Creatives |-> "none"]
  /\ spec = [c \in Creatives |-> "none"]
  /\ check = [c \in Creatives |-> [p \in Placements |-> "none"]]
  /\ judge = [i \in Items |-> [at |-> "new"]]
  /\ report = [r \in Reports |-> [at |-> "new"]]
  /\ launch = "none"
  /\ basis = [c \in Creatives |-> text]
  /\ crossed = {}
  /\ ragged = {}
  /\ released = {}
  /\ touched = {}

Touch(c) == touched' = IF launch = "none" THEN touched ELSE touched \cup {c}

-----------------------------------------------------------------------------
(* Copy.                                                                   *)

\* Mutant: only a verdict of the engine is void.
RearmPassed(c) ==
  compliance' = [compliance EXCEPT ![c] = IF @ = "passed" THEN "pending" ELSE @]

\* compliance_rearm_on_copy_change: whatever the row said, it says pending.
Rearm(c) ==
  compliance' = [compliance EXCEPT ![c] = IF @ = "none" THEN @ ELSE "pending"]

\* The operator's tool, the editor of the copy stage and the edit of a single
\* variant all write a draft, in any stage.  The trigger fires on an insert
\* and on an update that changes the text.
WriteCopy(v, t) ==
  /\ t > 0
  /\ text' = [text EXCEPT ![v] = t]
  /\ verdict' = [verdict EXCEPT ![v] = "draft"]
  /\ IF t # text[v]
       THEN Rearm(CreativeOf[v]) /\ Touch(CreativeOf[v])
       ELSE UNCHANGED <<compliance, touched>>
  /\ UNCHANGED <<phase, deciding, specVars, judge, launch, basis, crossed>>

\* A decision is made in the copy stage ...
DecideCopy(v, d) ==
  /\ phase = "copy"
  /\ text[v] > 0
  /\ Cardinality(deciding) < MaxDecisions
  /\ deciding' = deciding \cup {<<v, d>>}
  /\ UNCHANGED <<phase, copyVars, complianceVars, specVars, judge, launch, touched>>

\* ... and written to whatever the variant says by then.
CommitDecision(v, d) ==
  /\ <<v, d>> \in deciding
  /\ deciding' = deciding \ {<<v, d>>}
  /\ verdict' = [verdict EXCEPT ![v] = d]
  /\ UNCHANGED <<phase, text, complianceVars, specVars, judge, launch, touched>>

-----------------------------------------------------------------------------
(* The compliance engine.                                                  *)

\* An item reads the creative, and at most one of its variants ...
JudgeRead(i, c) ==
  /\ judge[i].at = "new"
  /\ \E vs \in {{}} \cup {{v} : v \in {w \in Variants : CreativeOf[w] = c /\ text[w] > 0}} :
       judge' = [judge EXCEPT ![i] =
                  [at |-> "judging", creative |-> c, variants |-> vs,
                   read |-> [v \in Variants |-> IF v \in vs THEN text[v] ELSE 0]]]
  /\ UNCHANGED <<phase, copyVars, deciding, complianceVars, specVars, launch, touched>>

\* ... and the verdict is written to the gate, whatever it says by then.
JudgeWrite(i, status) ==
  /\ judge[i].at = "judging"
  /\ LET c == judge[i].creative
         read == judge[i].read
         vs == judge[i].variants
     IN  /\ compliance' = [compliance EXCEPT ![c] = status]
         /\ basis' = [basis EXCEPT ![c] =
                        [v \in Variants |-> IF v \in vs THEN read[v] ELSE text[v]]]
         /\ crossed' = IF \E v \in vs : read[v] # text[v]
                         THEN crossed \cup {c} ELSE crossed \ {c}
         /\ Touch(c)
  /\ judge' = [judge EXCEPT ![i] = [at |-> "over"]]
  /\ UNCHANGED <<phase, copyVars, deciding, specVars, launch>>

\* A failed call ends the item before the gate is written.
JudgeFails(i) ==
  /\ judge[i].at = "judging"
  /\ judge' = [judge EXCEPT ![i] = [at |-> "over"]]
  /\ UNCHANGED <<phase, copyVars, deciding, complianceVars, specVars, launch, touched>>

-----------------------------------------------------------------------------
(* The spec checks.                                                        *)

\* Mutant: the best of the placements.
BestOf(of) ==
  CASE \E p \in Placements : of[p] = "pass" -> "passed"
    [] \A p \in Placements : of[p] \notin {"pass", "warn"} -> "failed"
    [] OTHER -> "in_progress"

\* The worst of the placements of this call.
SpecGate(of) ==
  CASE \E p \in Placements : of[p] = "fail" -> "failed"
    [] \A p \in Placements : of[p] \notin {"fail", "warn"} -> "passed"
    [] OTHER -> "in_progress"

Rolling(c) == {r \in Reports : report[r].at = "rolling" /\ report[r].creative = c}

\* A report covers a creative if it names every placement that has a row.
Covers(of, c) == \A p \in Placements : check[c][p] # "none" => of[p] # "none"

\* A report writes the rows of its placements ...
ReportWrite(r, c) ==
  /\ report[r].at = "new"
  /\ \E of \in [Placements -> Statuses] :
       /\ \E p \in Placements : of[p] # "none"
       /\ check' = [check EXCEPT ![c] =
                      [p \in Placements |-> IF of[p] = "none" THEN @[p] ELSE of[p]]]
       /\ report' = [report EXCEPT ![r] = [at |-> "rolling", creative |-> c, of |-> of]]
       /\ ragged' = IF Covers(of, c) /\ Rolling(c) = {}
                      THEN ragged \ {c} ELSE ragged \cup {c}
  /\ UNCHANGED <<phase, copyVars, deciding, complianceVars, spec, judge, launch,
                 released, touched>>

\* ... then the gate of the creative.
ReportRoll(r) ==
  /\ report[r].at = "rolling"
  /\ LET c == report[r].creative
     IN  /\ spec' = [spec EXCEPT ![c] = SpecGate(report[r].of)]
         /\ released' = released \ {c}
         /\ Touch(c)
  /\ report' = [report EXCEPT ![r] = [at |-> "over"]]
  /\ UNCHANGED <<phase, copyVars, deciding, complianceVars, check, judge, launch, ragged>>

ReportFails(r) ==
  /\ report[r].at = "rolling"
  /\ ragged' = ragged \cup {report[r].creative}
  /\ report' = [report EXCEPT ![r] = [at |-> "over"]]
  /\ UNCHANGED <<phase, copyVars, deciding, complianceVars, spec, check, judge, launch,
                 released, touched>>

-----------------------------------------------------------------------------
(* The manager.                                                            *)

\* accept or override, in any stage, of any row there is: a failed one too.
DecideCompliance(c, status) ==
  /\ compliance[c] # "none"
  /\ compliance' = [compliance EXCEPT ![c] = status]
  /\ basis' = [basis EXCEPT ![c] = text]
  /\ crossed' = crossed \ {c}
  /\ UNCHANGED <<phase, copyVars, deciding, specVars, judge, launch, touched>>

DecideSpec(c, status) ==
  /\ spec[c] # "none"
  /\ spec' = [spec EXCEPT ![c] = status]
  /\ released' = released \cup {c}
  /\ UNCHANGED <<phase, copyVars, deciding, complianceVars, check, report, ragged, judge,
                 launch, touched>>

-----------------------------------------------------------------------------
(* The pipeline.                                                           *)

\* The rollup: some row, and no row that is not clear.
Cleared(gate) ==
  /\ \E c \in Creatives : gate[c] # "none"
  /\ \A c \in Creatives : gate[c] \in Clear \cup {"none"}

Approved(V) == Cardinality({v \in V : verdict[v] = "approved"})
CopyCleared ==
  \A c \in Creatives : Approved({v \in Variants : CreativeOf[v] = c}) >= MinCopy

\* The advance route.  Its own interleavings are those of StageMachine.
AdvancePhase ==
  /\ \/ phase = "copy" /\ CopyCleared /\ phase' = "compliance_review"
     \/ phase = "compliance_review" /\ Cleared(compliance) /\ phase' = "spec_validation"
     \/ phase = "spec_validation" /\ Cleared(spec) /\ phase' = "launch_handoff"
  /\ UNCHANGED <<copyVars, deciding, complianceVars, specVars, judge, launch, touched>>

\* record_launch, in any stage, reads one gate after the other and then the
\* approved copy of the whole pipeline; it writes nothing unless all are fine.
CheckSpec ==
  /\ launch = "none"
  /\ Cleared(spec)
  /\ launch' = "spec"
  /\ touched' = {}
  /\ UNCHANGED <<phase, copyVars, deciding, complianceVars, specVars, judge>>

\* Mutant: the compliance gate is read and not looked at.
CheckNothing ==
  /\ launch = "spec"
  /\ launch' = "compliance"
  /\ UNCHANGED <<phase, copyVars, deciding, complianceVars, specVars, judge, touched>>

CheckCompliance ==
  /\ launch = "spec"
  /\ launch' = IF Cleared(compliance) THEN "compliance" ELSE "none"
  /\ UNCHANGED <<phase, copyVars, deciding, complianceVars, specVars, judge, touched>>

CheckCopy ==
  /\ launch = "compliance"
  /\ launch' = IF Approved(Variants) >= MinCopy THEN "checked" ELSE "none"
  /\ UNCHANGED <<phase, copyVars, deciding, complianceVars, specVars, judge, touched>>

RecordLaunch ==
  /\ launch = "checked"
  /\ launch' = "recorded"
  /\ UNCHANGED <<phase, copyVars, deciding, complianceVars, specVars, judge, touched>>

-----------------------------------------------------------------------------
ReviewNext ==
  \/ \E v \in Variants : \/ \E t \in 1..MaxText[v] : WriteCopy(v, t)
                         \/ \E d \in {"approved", "rejected"} :
                              DecideCopy(v, d) \/ CommitDecision(v, d)
  \/ \E i \in Items : \/ \E c \in Creatives : JudgeRead(i, c)
                      \/ \E s \in {"passed", "failed", "pending"} : JudgeWrite(i, s)
                      \/ JudgeFails(i)
  \/ \E r \in Reports : \/ \E c \in Creatives : ReportWrite(r, c)
                        \/ ReportRoll(r) \/ ReportFails(r)
  \/ \E c \in Creatives, s \in Clear : DecideCompliance(c, s) \/ DecideSpec(c, s)
  \/ AdvancePhase \/ CheckSpec \/ CheckCompliance \/ CheckCopy \/ RecordLaunch

ReviewSpec == ReviewInit /\ [][ReviewNext]_reviewVars

-----------------------------------------------------------------------------
(* Properties.                                                             *)

ItemTypes ==
  [at : {"new", "over"}] \cup
  [at : {"judging"}, creative : Creatives, variants : SUBSET Variants,
   read : [Variants -> Nat]]
ReportTypes ==
  [at : {"new", "over"}] \cup
  [at : {"rolling"}, creative : Creatives, of : [Placements -> Statuses]]

ReviewTypeOK ==
  /\ phase \in Phases
  /\ text \in [Variants -> Nat]
  /\ verdict \in [Variants -> {"none", "draft", "approved", "rejected"}]
  /\ deciding \in SUBSET (Variants \X {"approved", "rejected"})
  /\ compliance \in [Creatives -> Gate]
  /\ spec \in [Creatives -> Gate]
  /\ check \in [Creatives -> [Placements -> Statuses]]
  /\ judge \in [Items -> ItemTypes]
  /\ report \in [Reports -> ReportTypes]
  /\ launch \in {"none", "spec", "compliance", "checked", "recorded"}
  /\ basis \in [Creatives -> [Variants -> Nat]]
  /\ crossed \in SUBSET Creatives
  /\ ragged \in SUBSET Creatives
  /\ released \in SUBSET Creatives
  /\ touched \in SUBSET Creatives

\* A compliance gate that is clear was cleared on the text there is: a pass, an
\* acceptance and an override alike are void once a variant is written anew.
\* What the trigger cannot see is an edit between the read of the engine and
\* its verdict.
ClearedFitsCopy ==
  \A c \in Creatives : compliance[c] \in Clear /\ c \notin crossed =>
    \A v \in Variants : CreativeOf[v] = c => basis[c][v] = text[v]

\* The gate is not re-armed for nothing: approving or rejecting copy, or saving
\* it as it was, leaves a clear gate clear.
Reason ==
  \A c \in Creatives : compliance[c] \in Clear /\ compliance'[c] \notin Clear =>
    \/ \E v \in Variants : CreativeOf[v] = c /\ text'[v] # text[v]
    \/ \E i \in Items : /\ judge[i].at = "judging" /\ judge[i].creative = c
                        /\ judge'[i].at = "over"

RearmNeedsNewText == [][Reason]_reviewVars

\* A spec gate that passed, and not by a manager's word, has no placement that
\* does not, as long as each report names all the placements of its creative
\* and is done before the next one starts.
SpecPassIsWhole ==
  \A c \in Creatives :
    spec[c] = "passed" /\ c \notin released \cup ragged /\ Rolling(c) = {} =>
      \A p \in Placements : check[c][p] \in {"none", "pass"}

\* A launch is recorded only over gates that are clear, but for the creatives
\* whose copy, verdict or report was written after its checks began.
LaunchWasCleared ==
  launch \in {"checked", "recorded"} =>
    \A c \in Creatives \ touched : {compliance[c], spec[c]} \subseteq Clear \cup {"none"}

\* What transitions.ts says of the gates: every creative is passed, overridden
\* or skipped.
EveryCreativeCleared ==
  [][phase = "compliance_review" /\ phase' = "spec_validation" =>
       \A c \in Creatives : compliance[c] \in Clear]_reviewVars
=============================================================================
