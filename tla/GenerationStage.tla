-------------------------- MODULE GenerationStage --------------------------
(***************************************************************************)
(* The generation stage of one pipeline: the review decision that enters   *)
(* it, the work_item that hands it to the worker or to the operator, the   *)
(* producers that render the finals of the picked image concepts and the   *)
(* substages of the picked videos, and the trigger that counts the task    *)
(* events of the stage and closes it into creative_qa.                     *)
(*                                                                         *)
(* Every insert into pipeline_events runs the trigger in its transaction.  *)
(* The worker inserts them one at a time from one process, so an insert    *)
(* and its trigger are one step here.                                      *)
(***************************************************************************)
EXTENDS Naturals, FiniteSets

CONSTANTS
  ImagePicks,      \* number of picked image concepts
  VideoPicks,      \* number of picked video concepts
  Substages,       \* substages of a video: six in the code
  Missing,         \* <<track, pick>> whose creative row no longer exists
  OperatorDriven,  \* config_draft.operator_driven
  Submissions,     \* submissions of the review decision
  Runs,            \* launches of the producers
  MaxToolCalls,    \* bound on the operator's render calls
  MaxFaults        \* bound on crashes and failed calls

ImageTrack == 0
Tracks     == {ImageTrack} \cup 1..VideoPicks
Ratios     == 2

\* The units of a track in the order they are rendered: both finals of each
\* image pick, or the substages of one video.
Units(t)  == IF t = ImageTrack THEN 1..(Ratios * ImagePicks) ELSE 1..Substages
PickOf(u) == (u + 1) \div Ratios
Finals    == {ImageTrack} \X Units(ImageTrack)
Work      == UNION {{t} \X Units(t) : t \in Tracks}

NoRun == 0

ASSUME CountsAssumption == /\ ImagePicks \in Nat
                           /\ VideoPicks \in Nat
                           /\ Substages \in Nat \ {0}
                           /\ MaxToolCalls \in Nat
                           /\ MaxFaults \in Nat
ASSUME PicksAssumption  == Missing \subseteq Tracks \X (1..ImagePicks \cup {0})
ASSUME ModeAssumption   == OperatorDriven \in BOOLEAN
ASSUME RunsAssumption   == NoRun \notin Runs

VARIABLES
  stage,       \* stage of the latest stage_advanced event
  cancelled,   \* whether a pipeline_cancelled event exists
  entries,     \* stage_advanced events into generation
  closings,    \* stage_advanced events into creative_qa
  count,       \* task events of the stage since the latest entry
  submission,  \* submission[s]: how far a review decision got
  item,        \* the live work_item of the stage
  handler,     \* the worker's handler of that item
  producer,    \* producer[r][t]: the producer of track t in launch r
  tool,        \* the tool call the operator is in
  results,     \* units rendered and units failed
  toolCalls, faults

queueVars    == <<submission, item, handler>>
renderVars   == <<producer, tool, results, toolCalls>>
pipelineVars == <<stage, cancelled, entries, closings, count>>
vars         == <<pipelineVars, queueVars, renderVars, faults>>

-----------------------------------------------------------------------------
(* The pipeline's events.                                                  *)

Stages == {"review", "generation", "creative_qa"}

\* compute_pipeline_status: a cancel outranks every stage.
Status == IF cancelled THEN "cancelled" ELSE stage

Count == [queued: Nat, running: Nat, done: Nat, error: Nat]
Zero  == [queued |-> 0, running |-> 0, done |-> 0, error |-> 0]

\* Events that precede the entry into the stage are not counted.
Tally(n, kind) == IF entries > 0 THEN [n EXCEPT ![kind] = @ + 1] ELSE n

Larger(m, n) == IF m >= n THEN m ELSE n

\* Mutants: no floor at the planned finals; no guard on an all-failed batch.
ClosesWithoutFloor(n) ==
  LET expected == Larger(n.queued, n.running)
  IN  expected > 0 /\ n.done + n.error >= expected /\ n.done >= 1

ClosesWhenAllFailed(n) ==
  LET expected == Larger(Larger(n.queued, n.running), Ratios * ImagePicks)
  IN  expected > 0 /\ n.done + n.error >= expected

ClosesLate(n) ==
  LET expected == Larger(Larger(n.queued, n.running), Ratios * ImagePicks)
  IN  expected > 0 /\ n.done + n.error > expected /\ n.done >= 1

\* The closure heuristic of the trigger: as many outcomes as the work it
\* knows of, at least two per image pick, and one of them a success.
Closes(n) ==
  LET expected == Larger(Larger(n.queued, n.running), Ratios * ImagePicks)
  IN  expected > 0 /\ n.done + n.error >= expected /\ n.done >= 1

\* The trigger on task_done and task_error, after the event is counted.
AutoAdvance(n) ==
  IF Status = "generation" /\ Closes(n)
  THEN stage' = "creative_qa" /\ closings' = closings + 1
  ELSE UNCHANGED <<stage, closings>>

\* Insert a task_queued and a task_running event, or only the latter.
EmitStart(queued) ==
  /\ count' = Tally(IF queued THEN Tally(count, "queued") ELSE count, "running")
  /\ UNCHANGED <<stage, cancelled, entries, closings>>

\* Insert a task_done or a task_error event.
EmitOutcome(kind) ==
  /\ count' = Tally(count, kind)
  /\ AutoAdvance(Tally(count, kind))
  /\ UNCHANGED <<cancelled, entries>>

\* What the work_item trigger emits for a change of the item's status: task
\* events for the worker's kind, none that is counted for the operator's.
EmitItem(kind) ==
  IF OperatorDriven
  THEN UNCHANGED pipelineVars
  ELSE /\ count' = Tally(count, kind)
       /\ IF kind \in {"done", "error"}
          THEN AutoAdvance(Tally(count, kind))
          ELSE UNCHANGED <<stage, closings>>
       /\ UNCHANGED <<cancelled, entries>>

-----------------------------------------------------------------------------
(* State.                                                                  *)

SubmissionStates == {"new", "checked", "enqueued", "over"}
ItemStates       == {"none", "queued", "claimed", "running",
                     "completed", "failed", "cancelled"}
Handler  == [pc: {"idle", "starting", "probing", "skipping", "rendering"}, run: Runs \cup {NoRun}]
NoHandler == [pc |-> "idle", run |-> NoRun]

\* off: not launched.  launched: not begun.  ready: between two units.
\* checked: past the cancel check of its next unit.  raised: it threw.
ProducerStates == {"off", "launched", "ready", "checked", "rendering", "over", "raised"}
Producer == [pc: ProducerStates, at: Nat, late: Nat]
Launched == {"launched", "ready", "checked", "rendering"}

\* The tool call of the operator.  waiting: for the brief's lock.
ToolStates == {"idle", "waiting", "ready", "rendering", "storing"}
Tool   == [pc: ToolStates, todo: SUBSET Units(ImageTrack), unit: Nat]
NoTool == [pc |-> "idle", todo |-> {}, unit |-> 0]

TypeOK ==
  /\ stage \in Stages
  /\ cancelled \in BOOLEAN
  /\ entries \in Nat
  /\ closings \in Nat
  /\ count \in Count
  /\ submission \in [Submissions -> SubmissionStates]
  /\ item \in ItemStates
  /\ handler \in Handler
  /\ producer \in [Runs -> [Tracks -> Producer]]
  /\ tool \in Tool
  /\ results \subseteq Work \X {"done", "error"}
  /\ toolCalls \in 0..MaxToolCalls
  /\ faults \in 0..MaxFaults

Init ==
  /\ stage = "review"
  /\ cancelled = FALSE
  /\ entries = 0
  /\ closings = 0
  /\ count = Zero
  /\ submission = [s \in Submissions |-> "new"]
  /\ item = "none"
  /\ handler = NoHandler
  /\ producer = [r \in Runs |-> [t \in Tracks |-> [pc |-> "off", at |-> 1, late |-> 0]]]
  /\ tool = NoTool
  /\ results = {}
  /\ toolCalls = 0
  /\ faults = 0

Fault == faults < MaxFaults /\ faults' = faults + 1

-----------------------------------------------------------------------------
(* The review decision, and the cancel.                                    *)

CheckDecision(s) ==
  /\ submission[s] = "new"
  /\ submission' = [submission EXCEPT ![s] = IF Status = "review" THEN "checked" ELSE "over"]
  /\ UNCHANGED <<pipelineVars, item, handler, renderVars, faults>>

\* Enqueue first; a second submission finds the key taken.
EnqueueGeneration(s) ==
  /\ submission[s] = "checked"
  /\ submission' = [submission EXCEPT ![s] = "enqueued"]
  /\ IF item = "none"
     THEN item' = "queued" /\ EmitItem("queued")
     ELSE UNCHANGED <<item, pipelineVars>>
  /\ UNCHANGED <<handler, renderVars, faults>>

\* Then insert stage_advanced: the counts start again from here.
EnterGeneration(s) ==
  /\ submission[s] = "enqueued"
  /\ submission' = [submission EXCEPT ![s] = "over"]
  /\ stage' = "generation"
  /\ entries' = entries + 1
  /\ count' = Zero
  /\ UNCHANGED <<cancelled, closings, item, handler, renderVars, faults>>

\* The enqueue or the insert failed: a 500 to the manager.
DecisionFails(s) ==
  /\ submission[s] \in {"checked", "enqueued"}
  /\ Fault
  /\ submission' = [submission EXCEPT ![s] = "over"]
  /\ UNCHANGED <<pipelineVars, item, handler, renderVars>>

\* The cancel route, or a rejecting decision; the trigger sweeps the queue.
Cancel ==
  /\ ~cancelled
  /\ cancelled' = TRUE
  /\ item' = IF item \in {"queued", "claimed", "running"} THEN "cancelled" ELSE item
  /\ UNCHANGED <<stage, entries, closings, count, submission, handler, renderVars, faults>>

-----------------------------------------------------------------------------
(* Launching the producers.                                                *)

InFlight(n) ==
  LET over == n.done + n.error
  IN  n.queued + n.running > over /\ (n.running > over \/ n.queued > over)

\* generation_state without ledger rows, which nothing writes: any task event
\* of the pipeline since it entered the stage is a batch, running or complete.
AlreadyRunning  == InFlight(count)
AlreadyComplete == count # Zero /\ ~InFlight(count)

Unlaunched(r) == \A t \in Tracks : producer[r][t].pc = "off"

Launch(r) ==
  producer' = [producer EXCEPT ![r] = [t \in Tracks |->
    [@[t] EXCEPT !.pc = IF Units(t) = {} THEN "over" ELSE "launched"]]]

\* The operator may act once its item was claimed, and its chat may outlive
\* the item: a cancel or a shutdown leaves the process in the container.
OperatorActs == OperatorDriven /\ item \notin {"none", "queued"}

\* The operator's call of /work/pipeline/generation: the probe, then the
\* producers as background tasks.
CallGeneration(r) ==
  /\ OperatorActs /\ tool = NoTool
  /\ Unlaunched(r)
  /\ ~AlreadyRunning /\ ~AlreadyComplete
  /\ Launch(r)
  /\ UNCHANGED <<pipelineVars, queueVars, tool, results, toolCalls, faults>>

Claim ==
  /\ item = "queued"
  /\ handler.pc = "idle"
  /\ IF OperatorDriven
     THEN item' = "running" /\ UNCHANGED handler
     ELSE item' = "claimed" /\ handler' = [NoHandler EXCEPT !.pc = "starting"]
  /\ UNCHANGED <<pipelineVars, submission, renderVars, faults>>

\* The heartbeat that marks the row running, or finds it cancelled.
FirstHeartbeat ==
  /\ handler.pc = "starting"
  /\ IF item = "claimed"
     THEN /\ item' = "running"
          /\ handler' = [handler EXCEPT !.pc = "probing"]
          /\ EmitItem("running")
     ELSE handler' = NoHandler /\ UNCHANGED <<item, pipelineVars>>
  /\ UNCHANGED <<submission, renderVars, faults>>

SkipBatch ==
  /\ handler.pc = "probing"
  /\ AlreadyRunning \/ AlreadyComplete
  /\ handler' = [handler EXCEPT !.pc = "skipping"]
  /\ UNCHANGED <<pipelineVars, submission, item, renderVars, faults>>

RunBatch(r) ==
  /\ handler.pc = "probing"
  /\ ~AlreadyRunning /\ ~AlreadyComplete
  /\ Unlaunched(r)
  /\ Launch(r)
  /\ handler' = [pc |-> "rendering", run |-> r]
  /\ UNCHANGED <<pipelineVars, submission, item, tool, results, toolCalls, faults>>

BatchOver(r) == \A t \in Tracks : producer[r][t].pc \notin Launched
BatchRaised(r) == \E t \in Tracks : producer[r][t].pc = "raised"

\* The handler returned or threw; the close is scoped to the claim.
FinishHandler ==
  /\ \/ handler.pc = "skipping"
     \/ handler.pc = "rendering" /\ BatchOver(handler.run)
  /\ handler' = NoHandler
  /\ IF item = "running"
     THEN IF handler.pc = "rendering" /\ BatchRaised(handler.run)
          THEN item' = "failed" /\ EmitItem("error")
          ELSE item' = "completed" /\ EmitItem("done")
     ELSE UNCHANGED <<item, pipelineVars>>
  /\ UNCHANGED <<submission, renderVars, faults>>

\* The operator's chat ends, or is given up.
FinishChat ==
  /\ OperatorDriven
  /\ item = "running"
  /\ item' \in {"completed", "failed"}
  /\ UNCHANGED <<pipelineVars, submission, handler, renderVars, faults>>

\* The worker process dies with its tasks.  A row it held is timed out by the
\* watchdog of the next one and enqueued again.
WorkerCrash ==
  /\ Fault
  /\ producer' = [r \in Runs |-> [t \in Tracks |->
       IF producer[r][t].pc \in Launched THEN [producer[r][t] EXCEPT !.pc = "over"]
                                         ELSE producer[r][t]]]
  /\ tool' = NoTool
  /\ handler' = NoHandler
  /\ UNCHANGED <<pipelineVars, submission, item, results, toolCalls>>

RotateItem ==
  /\ ~OperatorDriven
  /\ item \in {"claimed", "running"}
  /\ handler.pc = "idle"
  /\ item' = "queued"
  /\ count' = Tally(Tally(count, "error"), "queued")
  /\ AutoAdvance(Tally(count, "error"))
  /\ UNCHANGED <<cancelled, entries>>
  /\ UNCHANGED <<submission, handler, renderVars, faults>>

-----------------------------------------------------------------------------
(* The producers: one coroutine per track.                                 *)

Move(r, t, pc) == producer' = [producer EXCEPT ![r][t].pc = pc]

\* The producer goes on to unit n of its track, or is done.
Advance(r, t, n) ==
  producer' = [producer EXCEPT ![r][t].at = n,
                               ![r][t].pc = IF n \in Units(t) THEN "ready" ELSE "over"]

\* A producer gives up with one task_error: the pipeline was cancelled, the
\* renderer has no key, or its creative is gone.
GiveUp(r, t) ==
  /\ Move(r, t, "over")
  /\ EmitOutcome("error")

\* Mutant: the worker too runs the producers one after the other.
TracksInTurn(r, t) == \A q \in Tracks : q < t => producer[r][q].pc = "over"

\* The worker gathers its producers.  The route's background tasks run one
\* after the other, and none after one that threw.
HasTurn(r, t) ==
  OperatorDriven => \A q \in Tracks : q < t => producer[r][q].pc = "over"

\* pipeline_is_cancelled: a read that fails answers no.
SeenCancelled == cancelled /\ UNCHANGED faults
SeenLive      == IF cancelled THEN Fault ELSE UNCHANGED faults

Begin(r, t) ==
  /\ producer[r][t].pc = "launched"
  /\ HasTurn(r, t)
  /\ \/ SeenCancelled /\ GiveUp(r, t)
     \/ /\ SeenLive /\ <<t, 0>> \in Missing
        /\ GiveUp(r, t)
     \/ /\ ~cancelled /\ t = ImageTrack
        /\ Fault
        /\ GiveUp(r, t)
     \/ /\ SeenLive /\ <<t, 0>> \notin Missing
        /\ Move(r, t, "ready")
        /\ UNCHANGED pipelineVars
  /\ UNCHANGED <<queueVars, tool, results, toolCalls>>

\* The per-brief lock covers both finals of a pick, or a batch of the tool.
HoldsBrief(r) ==
  LET p == producer[r][ImageTrack]
  IN  p.pc \in {"checked", "rendering"} \/ (p.pc = "ready" /\ p.at % Ratios = 0)

BriefFree == tool.pc \notin {"ready", "rendering"} /\ \A r \in Runs : ~HoldsBrief(r)

MissingPick(t, u) == t = ImageTrack /\ <<t, PickOf(u)>> \in Missing

\* One task_error for a pick whose creative is gone, and on to the next pick.
SkipPick(r, t) ==
  /\ producer[r][t].pc = "ready"
  /\ MissingPick(t, producer[r][t].at)
  /\ Advance(r, t, producer[r][t].at + Ratios)
  /\ EmitOutcome("error")
  /\ UNCHANGED <<queueVars, tool, results, toolCalls, faults>>

\* Mutant: the next unit without the check.
NoCancelCheck(r, t) ==
  /\ producer[r][t].pc = "ready"
  /\ ~MissingPick(t, producer[r][t].at)
  /\ t = ImageTrack => HoldsBrief(r) \/ BriefFree
  /\ Move(r, t, "checked") /\ UNCHANGED pipelineVars
  /\ UNCHANGED <<queueVars, tool, results, toolCalls, faults>>

\* The check for a cancel that precedes every unit.
CancelCheck(r, t) ==
  /\ producer[r][t].pc = "ready"
  /\ ~MissingPick(t, producer[r][t].at)
  /\ t = ImageTrack => HoldsBrief(r) \/ BriefFree
  /\ \/ SeenCancelled /\ GiveUp(r, t)
     \/ SeenLive /\ Move(r, t, "checked") /\ UNCHANGED pipelineVars
  /\ UNCHANGED <<queueVars, tool, results, toolCalls>>

StartUnit(r, t) ==
  /\ producer[r][t].pc = "checked"
  /\ producer' = [producer EXCEPT ![r][t].pc = "rendering",
                                  ![r][t].late = IF cancelled THEN @ + 1 ELSE @]
  /\ EmitStart(TRUE)
  /\ UNCHANGED <<queueVars, tool, results, toolCalls, faults>>

\* An image goes on after a failed final; a video does not after a substage.
FinishUnit(r, t, outcome) ==
  /\ producer[r][t].pc = "rendering"
  /\ results' = results \cup {<<<<t, producer[r][t].at>>, outcome>>}
  /\ IF outcome = "error" /\ t # ImageTrack
     THEN Move(r, t, "over")
     ELSE Advance(r, t, producer[r][t].at + 1)
  /\ EmitOutcome(outcome)
  /\ UNCHANGED <<queueVars, tool, toolCalls, faults>>

\* An exception the producer does not catch.
ProducerRaises(r, t) ==
  /\ producer[r][t].pc \in {"launched", "ready"}
  /\ HasTurn(r, t)
  /\ Fault
  /\ Move(r, t, "raised")
  /\ UNCHANGED <<pipelineVars, queueVars, tool, results, toolCalls>>

-----------------------------------------------------------------------------
(* The operator's render tools.  They check neither stage nor cancel.      *)

Rendered(t, u) == <<<<t, u>>, "done">> \in results

ToolCall ==
  /\ OperatorActs
  /\ tool.pc = "idle"
  /\ toolCalls < MaxToolCalls
  /\ toolCalls' = toolCalls + 1

\* store_creative: the operator rendered the image; running, then done.
StoreCreative(u) ==
  /\ ToolCall
  /\ tool' = [pc |-> "storing", todo |-> {}, unit |-> u]
  /\ EmitStart(FALSE)
  /\ UNCHANGED <<queueVars, producer, results, faults>>

\* render without items: the finals of the picks of which none is stored yet.
RenderBatch ==
  {u \in Units(ImageTrack) :
     /\ ~MissingPick(ImageTrack, u)
     /\ \A v \in Units(ImageTrack) : PickOf(v) = PickOf(u) => ~Rendered(ImageTrack, v)}

CallRender ==
  /\ ToolCall
  /\ tool' = IF RenderBatch = {} THEN NoTool
             ELSE [pc |-> "waiting", todo |-> RenderBatch, unit |-> 0]
  /\ UNCHANGED <<pipelineVars, queueVars, producer, results, faults>>

NextFinal ==
  /\ tool.pc = "ready" \/ (tool.pc = "waiting" /\ BriefFree)
  /\ IF tool.todo = {}
     THEN tool' = NoTool /\ UNCHANGED pipelineVars
     ELSE \E u \in tool.todo :
            /\ \A v \in tool.todo : u <= v
            /\ tool' = [pc |-> "rendering", todo |-> tool.todo \ {u}, unit |-> u]
            /\ EmitStart(TRUE)
  /\ UNCHANGED <<queueVars, producer, results, toolCalls, faults>>

FinishFinal(outcome) ==
  /\ tool.pc \in {"rendering", "storing"}
  /\ tool' = IF tool.pc = "storing" THEN NoTool
             ELSE [tool EXCEPT !.pc = "ready", !.unit = 0]
  /\ results' = results \cup {<<<<ImageTrack, tool.unit>>, outcome>>}
  /\ EmitOutcome(outcome)
  /\ UNCHANGED <<queueVars, producer, toolCalls, faults>>

-----------------------------------------------------------------------------

DecisionStep ==
  \/ \E s \in Submissions : \/ CheckDecision(s)
                            \/ EnqueueGeneration(s)
                            \/ EnterGeneration(s)
                            \/ DecisionFails(s)
  \/ Cancel

ItemStep ==
  \/ Claim
  \/ FirstHeartbeat
  \/ SkipBatch
  \/ \E r \in Runs : RunBatch(r)
  \/ FinishHandler
  \/ FinishChat
  \/ WorkerCrash
  \/ RotateItem

Produce(r, t) ==
  \/ Begin(r, t)
  \/ SkipPick(r, t)
  \/ CancelCheck(r, t)
  \/ StartUnit(r, t)
  \/ \E outcome \in {"done", "error"} : FinishUnit(r, t, outcome)

\* The steps of a tool call once it is made.
ServeTool == NextFinal \/ \E outcome \in {"done", "error"} : FinishFinal(outcome)

OperatorStep ==
  \/ \E r \in Runs : CallGeneration(r)
  \/ \E u \in Units(ImageTrack) : StoreCreative(u)
  \/ CallRender
  \/ ServeTool

Next ==
  \/ DecisionStep
  \/ ItemStep
  \/ \E r \in Runs, t \in Tracks : Produce(r, t) \/ ProducerRaises(r, t)
  \/ OperatorStep

Spec == Init /\ [][Next]_vars

\* A route that has begun goes on, the worker polls and runs its coroutines,
\* a call it makes returns.  Nothing is assumed of the manager or the operator.
Fairness ==
  /\ \A s \in Submissions : WF_vars(EnqueueGeneration(s) \/ EnterGeneration(s))
  /\ WF_vars(Claim \/ FirstHeartbeat \/ SkipBatch \/ FinishHandler)
  /\ WF_vars(\E r \in Runs : RunBatch(r))
  /\ \A r \in Runs, t \in Tracks : WF_vars(Produce(r, t))
  /\ WF_vars(ServeTool)

FairSpec == Spec /\ Fairness

-----------------------------------------------------------------------------
(* Safety.                                                                 *)

\* The stage is never entered before its executor is in the queue: the
\* decision route enqueues first (FIX-F), whatever fails in between.
EnqueuedBeforeEntry == entries > 0 => item # "none"

\* One entry into the stage is closed at most once, however many outcomes
\* and submissions follow: creative_qa is not entered twice.
OneClosePerEntry == closings <= entries

\* A stage that is cancelled while its renders finish is not advanced.
NoCloseAfterCancel == [][cancelled => closings' = closings]_vars

\* After a cancel a producer starts at most the one unit it had checked for,
\* and one more for every status read that failed: the paid work left over is
\* bounded by the producers and the failures, not by the plan.
CancelBoundsSpend ==
  \A r \in Runs, t \in Tracks : producer[r][t].late <= 1 + faults

\* Nothing moves on to QA without one rendered unit: an all-failed batch stays.
AdvanceNeedsARender ==
  closings > 0 => \E w \in Work : <<w, "done">> \in results

Attempted(w, res) == <<w, "done">> \in res \/ <<w, "error">> \in res

\* Unless the operator rendered by hand, or a call failed, every planned image
\* final was rendered or failed when the stage closes.
EveryFinalAttempted ==
  [][closings' > closings /\ toolCalls = 0 /\ faults = 0 =>
       \A w \in Finals : Attempted(w, results')]_vars

-----------------------------------------------------------------------------
(* What the documents promise of the stage.                                *)

\* SKILL.md: the stage closes when no unit is queued or running; no producer
\* of a launch is left with work to do.
ClosesWithNothingOpen ==
  [][closings' > closings =>
       \A r \in Runs, t \in Tracks : producer'[r][t].pc \notin Launched]_vars

\* worker_stage_consumer.py: the item completes only when the finals have
\* been rendered.
CompletedMeansRendered ==
  (item = "completed" /\ ~OperatorDriven /\ ~cancelled) =>
    \A w \in Work : Attempted(w, results)

\* worker_stage_consumer.py: an all-failed batch is neither running nor
\* complete, so a retry may dispatch it again.
AllFailedMayRetry ==
  (/\ Status = "generation"
   /\ \A w \in Work : <<w, "error">> \in results /\ <<w, "done">> \notin results
   /\ \A r \in Runs : BatchOver(r)) => ~AlreadyRunning /\ ~AlreadyComplete

\* review/decision/route.ts: a double submit cannot promote a pipeline twice.
EnteredOnce == entries <= 1

\* pipeline_tools.py: a render that is called again completes the remainder.
RenderResumes ==
  [][toolCalls' > toolCalls /\ tool' = NoTool =>
       \A u \in Units(ImageTrack) :
         MissingPick(ImageTrack, u) \/ Rendered(ImageTrack, u)]_vars

\* pipeline.py: one generation at a time.
OneBatchAtATime ==
  \A r, q \in Runs : ~BatchOver(r) /\ ~BatchOver(q) => r = q

-----------------------------------------------------------------------------
(* Liveness.                                                               *)

\* A launch of the producers in the stage ends it, unless a call failed or
\* nothing it rendered since the stage was entered succeeded.
BatchCloses ==
  \A r \in Runs :
    (Status = "generation" /\ producer[r][ImageTrack].pc = "launched")
      ~> \/ Status # "generation"
         \/ BatchOver(r) /\ count.done = 0
         \/ faults > 0

\* A producer that throws leaves its peers to finish.
FailureSparesPeers == \A r \in Runs : BatchRaised(r) ~> BatchOver(r)
=============================================================================
