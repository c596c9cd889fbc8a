---------------------------- MODULE StageMachine ----------------------------
(***************************************************************************)
(* The stages of one pipeline.  Dashboard requests move it from stage to   *)
(* stage: each reads the pipeline's row, reads its status, checks the gate *)
(* of the stage, updates the row, inserts the stage_advanced event that    *)
(* the status is computed from, and enqueues the stage's executor.  These  *)
(* are separate calls to the database, and no call checks the status       *)
(* again.  One move, out of generation, is a trigger's.                    *)
(*                                                                         *)
(* What the stages' executors do is only seen as the answers that the      *)
(* questions of the gates would get, which may be taken back.              *)
(***************************************************************************)
EXTENDS Integers, FiniteSets

CONSTANTS
  Requests,      \* requests being served at the same time
  MaxBriefs,     \* bound on the briefs minted
  MaxMishaps,    \* bound on failed calls and on answers taken back, together
  Lookahead      \* how many stages early a question may be answered yes

ASSUME BoundsAssumption == {MaxBriefs, MaxMishaps, Lookahead} \subseteq Nat

-----------------------------------------------------------------------------
(* The stage registry.                                                     *)

Configuration == 0
Ideation      == 1
Review        == 2
Generation    == 3
CreativeQa    == 4
Copy          == 5
Compliance    == 6
SpecCheck     == 7
VariantPlan   == 8
FinalizeAssets == 9
LaunchHandoff == 10
Monitor       == 11
Done          == 12
Cancelled     == 13

Stages == Configuration..Done

\* Mutant: the order of the registry before copy was moved ahead of compliance.
ComplianceFirst(s) == IF s = CreativeQa THEN Compliance ELSE s + 1

Successor(s) == s + 1

\* Decided from the pipeline's row: payloads in the draft, picks.
RowGates  == {Configuration, Ideation}

\* Decided from other tables: rollup of the creatives, approved copy, verified
\* finals, launch preconditions.
LiveGates == {CreativeQa, Copy, Compliance, SpecCheck, FinalizeAssets, LaunchHandoff}
Gates     == RowGates \cup LiveGates

\* A gate on other tables asks questions one after the other, each a read of its
\* own: the copy gate and the finals' gate the image rows, then the video rows; the
\* launch gate the image copy, the video copy, then the gate rows of all creatives.
\* The creatives a question is asked of are read with it: nothing adds or kills one
\* in these stages.
Asks(s) == CASE s = LaunchHandoff            -> 3
             [] s \in {Copy, FinalizeAssets} -> 2
             [] OTHER                        -> 1

Questions    == {q \in Gates \X (1..3) : q[2] <= Asks(q[1])}
QuestionsOf(s) == {q \in Questions : q[1] = s}

\* Stages the advance route leaves; the others have a route of their own.
AdvanceRoute == Gates \ {LaunchHandoff}

Verdicts == {"kill", "scale"}
Moves    == {"advance", "approve", "plan", "launch"} \cup Verdicts
Stops    == {"reject", "cancel"}
Intents  == Moves \cup Stops

NoBrief == 0
Briefs  == 1..MaxBriefs

\* Of a call to the database: "lost" took effect, but the caller saw an error.
Outcomes == {"ok", "lost", "failed"}

-----------------------------------------------------------------------------
VARIABLES
  operatorDriven,  \* config_draft.operator_driven
  stage,           \* stage of the latest stage_advanced event
  cancelled,       \* whether a pipeline_cancelled event exists
  brief,           \* image_brief_id
  posted,          \* rows of briefs
  minted,          \* briefs minted
  items,           \* stages an executor was enqueued for
  actions,         \* verdicts an executor was enqueued for
  open,            \* questions that would be answered yes
  req,             \* req[r]: the request r is serving
  mishaps,         \* failed calls and answers taken back
  entered,         \* history: stages entered
  held,            \* history: questions answered yes since their stage was entered
  unserved         \* history: stages whose request failed before its enqueue was confirmed

eventVars   == <<stage, cancelled, entered>>
rowVars     == <<brief, operatorDriven>>
briefVars   == <<posted, minted>>
queueVars   == <<items, actions, unserved>>
gateVars    == <<open, held>>
vars        == <<eventVars, rowVars, briefVars, queueVars, gateVars, req, mishaps>>

Places == {"idle", "loaded", "checked", "cleared", "updated", "emitted", "queued", "undo"}

Request == [at: Places, intent: Intents, from: Stages,
            passable: SUBSET RowGates, asked: 0..2, brief: Briefs \cup {NoBrief}]

Idle == [at |-> "idle", intent |-> "advance", from |-> Configuration,
         passable |-> {}, asked |-> 0, brief |-> NoBrief]

\* compute_pipeline_status: a cancel outranks every stage.
Status == IF cancelled THEN Cancelled ELSE stage

Target(r) == Successor(req[r].from)

\* Stages somebody is queued for on entry.  Copy and the variant plan are a
\* person's work unless an operator drives the pipeline; review and launch have
\* a person in either mode, and nothing is queued for monitor.
Executed == {Ideation, Generation, CreativeQa, Compliance, SpecCheck, FinalizeAssets, Done}
            \cup (IF operatorDriven THEN {Copy, VariantPlan} ELSE {})

\* The request inserts a brief: the advance out of configuration, when no
\* operator has authored one.
Mints(r) == req[r].intent = "advance" /\ req[r].from = Configuration /\ ~operatorDriven

\* The review decision enqueues the executor before it emits the event.
EnqueuesFirst(r) == req[r].intent = "approve"

Enqueues(r) == req[r].intent \in Moves /\ Target(r) \in Executed

-----------------------------------------------------------------------------
TypeOK ==
  /\ operatorDriven \in BOOLEAN
  /\ stage \in Stages
  /\ cancelled \in BOOLEAN
  /\ brief \in Briefs \cup {NoBrief}
  /\ posted \subseteq Briefs
  /\ minted \in 0..MaxBriefs
  /\ items \subseteq Stages
  /\ actions \subseteq Verdicts
  /\ open \subseteq Questions
  /\ req \in [Requests -> Request]
  /\ mishaps \in 0..MaxMishaps
  /\ entered \subseteq Stages
  /\ held \subseteq Questions
  /\ unserved \subseteq Stages

Init ==
  /\ operatorDriven \in BOOLEAN
  /\ stage = Configuration
  /\ cancelled = FALSE
  /\ brief = NoBrief
  /\ posted = {} /\ minted = 0
  /\ items = {} /\ actions = {} /\ unserved = {}
  /\ open = {} /\ held = {}
  /\ req = [r \in Requests |-> Idle]
  /\ mishaps = 0
  /\ entered = {Configuration}

-----------------------------------------------------------------------------
(* Calls of a request.                                                     *)

Mishap(happens) ==
  /\ happens => mishaps < MaxMishaps
  /\ mishaps' = IF happens THEN mishaps + 1 ELSE mishaps

\* A call of r that moves it to next, unless it fails: then the request goes to
\* onError ("idle" is a 5xx answer).
Call(r, outcome, next, onError) ==
  /\ Mishap(outcome # "ok")
  /\ LET place == IF outcome = "ok" THEN next ELSE onError
     IN  req' = [req EXCEPT ![r] = IF place = "idle" THEN Idle ELSE [@ EXCEPT !.at = place]]

Effect(outcome) == outcome # "failed"

\* The gates whose questions would all be answered yes.
Passing == {s \in Gates : QuestionsOf(s) \subseteq open}

\* select * from pipelines.
Load(r) ==
  /\ req[r].at = "idle"
  /\ req' = [req EXCEPT ![r] = [Idle EXCEPT !.at = "loaded", !.passable = Passing \cap RowGates]]
  /\ UNCHANGED <<eventVars, rowVars, briefVars, queueVars, gateVars, mishaps>>

\* The status each route answers 409 or 422 without.
Accepts(intent, s) ==
  \/ intent = "advance"             /\ s \in AdvanceRoute
  \/ intent \in {"approve", "reject"} /\ s = Review
  \/ intent = "plan"                /\ s = VariantPlan
  \/ intent = "launch"              /\ s = LaunchHandoff
  \/ intent \in Verdicts            /\ s = Monitor
  \/ intent = "cancel"              /\ s \notin {Done, Cancelled}

\* getDerivedStatus.  Whose route the request came through matters from here on.
CheckStatus(r, intent) ==
  /\ req[r].at = "loaded"
  /\ req' = [req EXCEPT ![r] =
               IF Accepts(intent, Status)
               THEN [@ EXCEPT !.at = "checked", !.intent = intent, !.from = Status,
                              !.passable = req[r].passable \cap {Status}]
               ELSE Idle]
  /\ UNCHANGED <<eventVars, rowVars, briefVars, queueVars, gateVars, mishaps>>

\* Mutant: compliance is not a gate.
OpenButCompliance(r) ==
  LET s == req[r].from
  IN  \/ req[r].intent \in Stops
      \/ s \in req[r].passable
      \/ s \in LiveGates /\ <<s, req[r].asked + 1>> \in open
      \/ s \notin Gates \ {Compliance}

\* The next question of the gate of the stage the request leaves: on the row that
\* was read before the status, or on tables that are read now.
GateOpen(r) ==
  LET s == req[r].from
  IN  \/ req[r].intent \in Stops
      \/ s \in req[r].passable
      \/ s \in LiveGates /\ <<s, req[r].asked + 1>> \in open
      \/ s \notin Gates

AsksOn(r) == req[r].intent \notin Stops /\ req[r].asked + 1 < Asks(req[r].from)

\* One read of the gate.  The update that follows the last writes stamps alone
\* unless the request mints a brief: when it fails the request ends as it does when
\* its next call fails.
CheckGate(r) ==
  /\ req[r].at = "checked"
  /\ req' = [req EXCEPT ![r] =
               IF ~GateOpen(r) THEN Idle
               ELSE IF AsksOn(r) THEN [@ EXCEPT !.asked = req[r].asked + 1]
               ELSE [@ EXCEPT !.at = IF Mints(r) THEN "cleared" ELSE "updated",
                              !.passable = {}, !.asked = 0]]
  /\ UNCHANGED <<eventVars, rowVars, briefVars, queueVars, gateVars, mishaps>>

\* insert into briefs.  A failed insert is answered 5xx and nothing is undone.
InsertBrief(r, outcome) ==
  /\ req[r].at = "cleared" /\ req[r].brief = NoBrief
  /\ minted < MaxBriefs
  /\ minted' = minted + 1
  /\ posted' = IF Effect(outcome) THEN posted \cup {minted + 1} ELSE posted
  /\ Mishap(outcome # "ok")
  /\ req' = [req EXCEPT ![r] = IF outcome = "ok" THEN [@ EXCEPT !.brief = minted + 1] ELSE Idle]
  /\ UNCHANGED <<eventVars, rowVars, queueVars, gateVars>>

\* update pipelines set image_brief_id.  The request deletes the brief it minted
\* when this fails.
UpdateRow(r, outcome) ==
  /\ req[r].at = "cleared" /\ req[r].brief # NoBrief
  /\ brief' = IF Effect(outcome) THEN req[r].brief ELSE brief
  /\ Call(r, outcome, "updated", "undo")
  /\ UNCHANGED <<operatorDriven, eventVars, briefVars, queueVars, gateVars>>

\* delete from briefs: refused while the pipeline refers to the brief.
Undo(r, outcome) ==
  /\ req[r].at = "undo"
  /\ posted' = IF Effect(outcome) /\ brief # req[r].brief THEN posted \ {req[r].brief} ELSE posted
  /\ Call(r, outcome, "idle", "idle")
  /\ UNCHANGED <<eventVars, rowVars, minted, queueVars, gateVars>>

OpenIn(stages) == {q \in open : q[1] \in stages}

\* insert into pipeline_events.  The enqueue that should follow does not when
\* the insert is answered with an error.
EmitEvent(r, outcome) ==
  LET after == Enqueues(r) /\ ~EnqueuesFirst(r)
  IN  /\ req[r].at = IF Enqueues(r) /\ EnqueuesFirst(r) THEN "queued" ELSE "updated"
      /\ IF ~Effect(outcome)
         THEN UNCHANGED eventVars
         ELSE IF req[r].intent \in Stops
         THEN cancelled' = TRUE /\ UNCHANGED <<stage, entered>>
         ELSE /\ stage' = Target(r)
              /\ entered' = entered \cup {Target(r)}
              /\ UNCHANGED cancelled
      /\ held' = held \cup OpenIn(entered')
      /\ unserved' = IF outcome = "lost" /\ after THEN unserved \cup {Target(r)} ELSE unserved
      /\ Call(r, outcome, IF after THEN "emitted" ELSE "idle", "idle")
      /\ UNCHANGED <<rowVars, briefVars, items, actions, open>>

\* enqueueWorkItem: once per stage, or per verdict, whoever enqueues it.
EnqueueExecutor(r, outcome) ==
  /\ Enqueues(r)
  /\ req[r].at = IF EnqueuesFirst(r) THEN "updated" ELSE "emitted"
  /\ IF ~Effect(outcome)
     THEN UNCHANGED <<items, actions>>
     ELSE IF req[r].intent \in Verdicts
     THEN actions' = actions \cup {req[r].intent} /\ UNCHANGED items
     ELSE items' = items \cup {Target(r)} /\ UNCHANGED actions
  /\ unserved' = IF outcome # "ok" /\ ~EnqueuesFirst(r) THEN unserved \cup {Target(r)} ELSE unserved
  /\ Call(r, outcome, IF EnqueuesFirst(r) THEN "queued" ELSE "idle", "idle")
  /\ UNCHANGED <<eventVars, rowVars, briefVars, gateVars>>

-----------------------------------------------------------------------------
(* The trigger on the events of generation, and the executors' work.       *)

\* Mutant: the trigger before it enqueued the executor of the stage it enters.
AdvanceUnattended ==
  /\ Status = Generation
  /\ stage' = CreativeQa
  /\ entered' = entered \cup {CreativeQa}
  /\ held' = held \cup OpenIn(entered')
  /\ UNCHANGED <<cancelled, operatorDriven, brief, briefVars, queueVars, open, req, mishaps>>

\* One transaction, when the renders have closed.
AutoAdvance ==
  /\ Status = Generation
  /\ stage' = CreativeQa
  /\ entered' = entered \cup {CreativeQa}
  /\ items' = items \cup {CreativeQa}
  /\ held' = held \cup OpenIn(entered')
  /\ UNCHANGED <<cancelled, operatorDriven, brief, briefVars, actions, unserved, open, req, mishaps>>

\* The draft is complete, concepts are picked, creatives pass, copy is approved.
OpenGate(q) ==
  /\ q \notin open /\ q[1] <= stage + Lookahead
  /\ open' = open \cup {q}
  /\ held' = IF q[1] \in entered THEN held \cup {q} ELSE held
  /\ UNCHANGED <<eventVars, rowVars, briefVars, queueVars, req, mishaps>>

\* A pick is removed, a creative is re-armed or fails again, copy is edited.
CloseGate(q) ==
  /\ q \in open
  /\ open' = open \ {q}
  /\ Mishap(TRUE)
  /\ UNCHANGED <<eventVars, rowVars, briefVars, queueVars, held, req>>

-----------------------------------------------------------------------------
RequestStep(r) ==
  \/ Load(r)
  \/ \E intent \in Intents : CheckStatus(r, intent)
  \/ CheckGate(r)
  \/ \E outcome \in Outcomes :
       \/ InsertBrief(r, outcome)
       \/ UpdateRow(r, outcome)
       \/ Undo(r, outcome)
       \/ EmitEvent(r, outcome)
       \/ EnqueueExecutor(r, outcome)

Next ==
  \/ \E r \in Requests : RequestStep(r)
  \/ AutoAdvance
  \/ \E q \in Questions : OpenGate(q) \/ CloseGate(q)

Spec == Init /\ [][Next]_vars

-----------------------------------------------------------------------------
(* Safety.                                                                 *)

\* No stage is skipped, whatever stale request or trigger moved the pipeline: a
\* stage is entered only after the one the registry puts before it.
StagesInOrder == \A s \in entered \ {Configuration} : s - 1 \in entered

Served(s) == IF s = Done THEN actions # {} ELSE s \in items

\* Somebody is queued for every stage that was entered, or is about to be by a
\* request still in hand, or a request was answered 5xx.  Generation and
\* creative_qa have no such gap: the decision enqueues first, the trigger in the
\* transaction of its event.
EntryHasExecutor ==
  \A s \in entered \cap Executed :
    \/ Served(s)
    \/ /\ s \notin {Generation, CreativeQa}
       /\ \/ s \in unserved
          \/ \E r \in Requests : req[r].at = "emitted" /\ Target(r) = s

\* No executor is queued for a stage the pipeline has not entered, and no verdict
\* is carried out on a run that is not done; the executor of generation may be
\* queued in review.
NoEarlyExecutor ==
  /\ \A s \in items : IF s = Generation THEN Review \in entered ELSE s \in entered
  /\ actions # {} => Done \in entered

\* A gate that is read after the status is passed only if each of its questions
\* would have been answered yes at some time since its stage was entered: an answer
\* from before, for a stage the pipeline had not reached, does not count if it was
\* taken back.
HardGateHeld == \A s \in LiveGates : Successor(s) \in entered => QuestionsOf(s) \subseteq held

\* A pipeline without an operator has a brief row when ideation starts, also
\* when one of two requests undoes the brief it minted.
BriefBeforeIdeation ==
  ~operatorDriven /\ Ideation \in entered => brief \in posted

-----------------------------------------------------------------------------
(* Statements of the code that the code does not keep.                     *)

\* advance/route.ts 886 and 1021: "a concurrent second advance no-ops".  The
\* second one emits its event all the same and takes the pipeline back.
StageMovesForward == [][stage' >= stage]_stage

\* launch/decision/route.ts 101: the hard gate never auto-passes.  Its copy and its
\* gate rows are reads of their own, and so are the tracks of the copy and finals'
\* gates: what is passed may never have been open as a whole.
GateOpenWhole ==
  [][\A r \in Requests :
       req[r].at = "checked" /\ req'[r].at = "updated" /\ req[r].from \in LiveGates
         => req[r].intent \in Stops \/ req[r].from \in Passing]_vars

\* monitor/decision/route.ts 40: a verdict is terminal for the run, and another
\* is answered 409.  Two that are checked together are both carried out.
OneVerdict == Cardinality(actions) <= 1

\* cancel/route.ts 42: the status is asserted again at write time.  A pipeline
\* that is done is cancelled by a request that read its status before.
DoneIsFinal == [][~(stage = Done /\ cancelled' # cancelled)]_vars

\* launch/decision/route.ts 163: "the operator's own monitor dispatch drives the
\* next stage".  Nothing enqueues one.
MonitorHasExecutor == Monitor \in entered => Monitor \in items

\* advance/route.ts 840: a failed advance leaves no dangling posted brief.  A
\* brief whose event fails, or that a second advance replaces, stays posted.
NoDanglingBrief == (\A r \in Requests : req[r].at = "idle") => posted \subseteq {brief}
=============================================================================
