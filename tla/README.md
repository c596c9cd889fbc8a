# Formal model of the VoxHorizon control panel

TLA+ modules, model-checked with TLC and proved about with TLAPS, for the parts of
this repository that coordinate: the work queue of the pipeline, the stages a
pipeline goes through, its generation stage and the gates after it in detail, the lock
that serializes the renders of one brief, the safeguards of approval, budget,
render reconciliation and judgement, the chats with the agent, the two forms that save by
themselves, and the page that follows it all.

## 1. The system

A Next.js dashboard (`src/app`, `src/lib`, `src/components`) and a FastAPI worker
(`src/worker`) share one Postgres database (`src/db/migrations`), whose triggers do
part of the work. An operator daemon (`src/operator-daemon`) takes rows of the
queue and runs an external agent (Hermes) for each of them; the agent calls the
worker's tools over HTTP. A pipeline goes through the stages

    configuration, ideation, review, generation, creative_qa, copy,
    compliance_review, spec_validation, variant_plan, finalize_assets, launch_handoff, monitor, done

and `cancelled`, which outranks them all. The stage is not a column anyone sets:
it is computed from `pipeline_events` (`compute_pipeline_status`, 0050).

### 1.1 Components

| Component | State | Operations | Talks to | Hard behaviour | Correct when |
|---|---|---|---|---|---|
| work_item queue (0050, `work_queue.py`) | `work_items` rows: status, token, owner, attempt, clocks, key, parent | enqueue, claim, heartbeat, complete, fail, admin cancel, redispatch; cancel trigger | routes, consumers, watchdog | lost claims, rotation while the work goes on, unconditional admin cancel | one writer per row, no row lost, retries chain from closed rows |
| watchdog (`scheduler.py` 684-925) | snapshot of a pass | select stale rows, time out or dead-letter, requeue | queue | two calls per row, two watchdogs, kill in mid-pass | one retry per timed-out row, no retry without need |
| operator daemon (`daemon.py`) | the row in hand, a chat process | claim, heartbeat, close, SIGTERM | queue, Hermes | chat outlives its row | the row is closed or requeued |
| worker drains (`worker_stage_consumer.py`, `outbox_consumer.py`) | the row in hand | claim, first heartbeat, handler, close | queue, producers | handler survives a rotation; outbox never heartbeats | as above |
| generation stage (0059, 0054, `pipeline.py`, `pipeline_runner.py`, `pipeline_tools.py`) | task events since the entry, producers, tool calls | decision, launch, render, emit, close | queue, brief lock, cancel route | counts decide; several renderers; late cancels; double submits | closed once, with work done, and not by a cancelled pipeline |
| review decision and cancel routes | none of their own | read status, enqueue, insert event | events, queue | read, then write | no stage without an executor |
| per-brief render lock (`services/queue.py`, 0038) | lease row, depth counter and asyncio lock per process | claim, heartbeat, release, stale takeover, fallback | producers and tools | expiry under a live holder, failed first claim, dropped lock objects | one render per brief; no brief blocked for ever |
| stage machine (`advance/route.ts`, `lib/pipeline`) | events, `creative_stage_state` | advance per stage, guards, dispatch on entry | everything | read, then write, no compare-and-set | no stage skipped, no HARD gate passed open |
| per-creative gates and rollup (0018, 0025, 0039, 0055, `rollup.ts`, `qa_compliance.py`, `operator_stage_tools.py`) | one row per creative and stage, the evidence of the checks | judge, roll up, override, re-arm, launch | stage machine, agent | a copy edit during the judgement, overlapping reports, a batch that dies | a gate that is open was opened by the evidence there is |
| approvals (`hermes_approval*.py`, the plugin `voxhorizon_approvals`) | row, mode, slots; caches of the plugin | probe, post, poll, decide, cancel, expire, set mode | agent, dashboard | a late answer against the timeout, an old copy of the mode, lost connections | nothing runs unapproved, one outcome per request |
| kie renders (`scheduler.py` 600-690, `video_callback.py`, `video.py`, `kie_video.py`, `broll_store.py`) | rows, files and sidecars of the pool | submit, poll, callback, sweep | external renderer | callback racing the sweep, a request that dies, a crash in mid-file | one outcome per render, and a clip behind it |
| cost ledger and cap (`cost_ledger.py`, 0036, 0042) | ledger rows, cap | reserve, pay, record | producers | the check reads, the cost comes later | the overrun is bounded, what is paid is recorded |
| Hermes chat (`hermes_bridge.py`, `hermes_chat.py`, `EkkoChat.tsx`) | an entry per session | open, stream, close, abort | browser, container | streams of one session share an entry, an abort spans awaits | an abort signals what is open |
| realtime (`api/realtime/route.ts`, `useRealtimeStream.ts`, `usePipelineEvents.ts`, `realtime-queue.ts`) | connections and channels, a queue, a list | connect, relay, flush, refresh | change feed, router | lost streams, late refreshes, rows out of order | what was heard is shown, no channel outlives its page |
| forms of configuration and ideation (`StageConfiguration.tsx`, `StageIdeation.tsx`, the config and picks routes) | the page, a timer, requests in flight; `config_draft`, `picks` | edit, autosave, pick, propose, reload, continue | routes, stage machine | overlapping saves that each write the whole row, an abort the server does not hear, an advance beside them | what rests on the page is stored, and the briefs are of it |
| engines (`gate_core.py`, `compliance_engine.py`, `qa_engine.py`, `video_probe.py`, `operator_stage_tools.py`) | none that lasts: the evidence of a call | adjudicate, measure, roll up, backstop | agent, gates | evidence in any order, repeated or missing; boundaries of scores and sizes | a pass is earned by the evidence |
| consumer registry (0050, `scheduler.py`) | consumers and last beat | upsert, flip stale, stop | dashboard | stale flip racing a beat | a live consumer is shown live |
| GHL and integrations, HTTP breaker, kanban and webhook, notifications, video tools, CRUD, search, auth, the other pages, skills, deployment | none that coordinates | | | | see section 8 |

`PROJECT.json` lists them all with their sources and status, and under `hazards`
what is hard to test in them, each at its line.

## 2. Modules

| Module | What it is |
|---|---|
| `WorkLedger` | abstract specification: what the queue promises its users |
| `WorkItemQueue` | the queue, its routes, consumers and watchdogs |
| `WorkItemQueueProofs` | theorems about it, up to "it implements `WorkLedger`" |
| `GenerationStage` | one pipeline from the review decision to the entry into creative_qa |
| `LivePage` | the open page of a pipeline and the relay that feeds it |
| `GenerationStageProofs` | theorems about these two |
| `StageMachine` | the stages of one pipeline and the requests that move it |
| `StageMachineProofs` | theorems about it |
| `BriefLease` | the lock of one brief |
| `QualityCheck` | the check of the finals, from the close of generation to the gate of creative_qa |
| `ChatSessions` | chat streams and their Stop button |
| `WorkerCallsProofs` | theorems about the first two of these |
| `ReviewGates` | the gates of the creatives from copy to the launch |
| `ReviewGatesProofs` | theorems about it |
| `Consent` | abstract specification: what the approval gate promises |
| `ApprovalGate` | the hook of the plugin, the handlers of the worker, the operator |
| `ApprovalGateProofs` | theorems about it, up to "it implements `Consent`" |
| `BudgetCap` | the jobs that pay, the ledger and the cap |
| `KieRenders` | renders bought from kie: request, callback and sweep |
| `GateEngines` | the engines that judge a creative, and the evidence they judge by |
| `SafeguardsProofs` | theorems about these three |
| `ConfigForm` | the form of the configuration stage and its autosave |
| `PickBoard` | the board of the ideation stage and its picks |
| `DashboardProofs` | theorems about these two |
| `MC*` | values of the constants for TLC |

The modules meet where the code does. `StageMachine` moves a pipeline through all its
stages and sees the work in each as a gate that opens or a trigger that fires;
`GenerationStage` is what it calls `AutoAdvance`, unfolded. `GenerationStage` has one work item whose
claim, heartbeat, cancel and rotation are those of `WorkItemQueue`, cut down to the
statuses, because there the question is what the item's events do to the stage;
its renders take the brief's lock as a plain mutual exclusion, and `BriefLease`
says when the real one is that and when it is not. `BudgetCap` has the same lock with its
lapses and its fallback, as mishaps, and asks what it makes atomic. `QualityCheck` begins where
`GenerationStage` ends, with the rows the trigger seeds; `ReviewGates` begins with copy
and ends with the launch; the gates of both are what `StageMachine` sees open and
close, and the verdicts they take as inputs are those of `GateEngines`. `ConfigForm` and
`PickBoard` end where `StageMachine`'s advances out of configuration and ideation read the
row. `LivePage` shows the events that the others write, and writes nothing.

An MC module may hold the instances of several modules. They share no state there, so a
variable `focus`, chosen once, says which of them a behaviour is about; the others
stay as they start, in a state where none of their fair actions is enabled. So
`MCQueueAndForms` holds the queue and the two forms (its constant `Foci` says which; the run
that needs fairness has the queue alone), `MCWorkerCalls` what the worker serves at once,
`MCSafeguards` approvals, budget, renders and engines, and `MCGenerationAndPage` and
`MCGenerationAndGates` a generation stage and what looks at it or follows it. Between them
they fire every action: the rare ones of the queue, `DeadLetter` and `DropRotated`, in
`worker_calls`, where a row has a single attempt and the outbox never heartbeats;
`SkipBadRow` and `WatchdogCrash` wherever a watchdog may fail.

Definitions marked "Mutant" in the modules are plausible bugs of the code that the
properties detect; no specification uses them.

### 2.1 `WorkItemQueue`

A SQL statement is one step. A handler that reads and then writes is two steps
with what it read in between: `work[c]` is the row and token a consumer claimed,
`dog[w]` the snapshot a watchdog pass selected, `admitted` the requests a route
checked and has not enqueued. `row[i]` is the table. The clocks are booleans:
`stale` (the heartbeat threshold has passed) and `due` (`next_attempt_at` has come).

| Action | Code |
|---|---|
| `Admit`, `AdmitRedispatch`, `Enqueue` | the status check of an enqueuing route, `redispatch/route.ts`, the idempotent insert of `enqueue_work_item` |
| `CancelPipeline`, `CancelItem` | the propagation trigger of 0050, `cancel_item` of `work_queue.py` |
| `Claim`, `ClaimLost` | `claim_work_item`; its response reaches the consumer or does not |
| `Heartbeat`, `HeartbeatRotated` | `heartbeat_item`, and what each consumer does when it matches no row |
| `Complete`, `Fail`, `Shutdown`, `DropRotated`, `Abandon` | the ends of a handler; SIGTERM; crash, lost call or an outbox handler that raises |
| `Select`, `TimeOut`, `DeadLetter`, `Requeue`, `SkipBadRow`, `WatchdogCrash` | a pass of the watchdog, call by call |
| `HeartbeatAges`, `BackoffElapses` | time |

Left out: payloads, the `done` status of a pipeline, the order in which claims and
passes take rows (oldest first in the code, any order here), the consumer registry.

### 2.2 `GenerationStage`

`count` is what the trigger of 0059 counts: the task events since the latest entry.
Inserting an event and running its trigger is one step, because the worker
inserts events synchronously from one process; concurrent transactions of two
processes on the counts are not modelled. `producer[r][t]` is the coroutine or
background task of track `t` (0 the images, 1.. the videos) in launch `r`; `tool` is
the operator's call of a render tool; `item` and `handler` are the work item and
the worker's handler of it; `submission` is a submission of the review decision.
`OperatorDriven` chooses between the two modes of a pipeline: the worker runs
the producers in the handler of the item and gathers them, or the operator's agent
calls the route, whose background tasks run one after the other.

Left out: the events of later stages, `/render` with explicit items, a
`pipeline_events` insert that fails and is swallowed, the concurrency of several
tool calls, and `closings` as more than a counter (what `creative_qa` then does).

### 2.3 `BriefLease`

Time is counted in heartbeat intervals: `Ttl` is 4 in the code (120 s and 30 s). A
database call is one step, and answers within an interval. `lease` is the row,
`at[a]` the place of a call of `acquire`, `due` and `missed` its heartbeats, `depth` and
`object` the counter and the lock object of a process, `bound` the lock object a call
took from the dictionary before it waited. A call that fails may have committed.

### 2.4 `StageMachine`

A request of the dashboard (`req[r]`) is at one of its places, with what it has read:
the row (`passable`, the gates its payloads and picks would pass), then the status
(`from`), then the gate. Each database call is a step and may fail, or take
effect and be answered with an error ("lost"). A retry is a new request. `stage` and
`cancelled` are what `compute_pipeline_status` computes from the events; `items` and `actions`
what was enqueued. A gate is one or more questions, `<<stage, n>>`, each a read of its own:
the gate of copy and that of finalize_assets ask for the images and then for the videos, that
of the launch for the copy of the images, the copy of the videos and the rows of the stages
before it (`Asks`). `open` are the questions that would be answered yes now, so each may change
between two of them, and `asked` is how many a request has had answered.
`entered`, `held` and `unserved` are history, read by properties only. Whether an
operator drives the pipeline is chosen in `Init`.

| Action | Code |
|---|---|
| `Load`, `CheckStatus`, `CheckGate` | the reads of `advance/route.ts`, `review/decision`, `variant-plan/decision`, `launch/decision`, `monitor/decision` and `cancel`, and their 409 and 422 answers |
| `InsertBrief`, `UpdateRow`, `Undo` | the brief minted by the advance out of configuration, the update of the pipeline that sets it, the compensating delete |
| `EmitEvent`, `EnqueueExecutor` | `stage_advanced` or `pipeline_cancelled`, and the work item of the stage; the review decision makes them in the other order |
| `AutoAdvance` | the trigger of 0059, one transaction |
| `OpenGate`, `CloseGate` | the work of the stages: picks, QA, copy, finals, and what undoes it |

Left out: the `advanced_at` stamps, which are shown and not read; rejections at the
variant plan and at launch, which write no state a route reads; an image and a video
brief, taken as one;
`operator_instruction`, which the routes count as operator-driven and the trigger
does not (0059, 194-199). A request that dies between two calls is one that stays
where it is.

### 2.5 `QualityCheck`

`seeded` are the creatives the trigger of 0056 gives a pending row when generation
closes, `gate` the rows, `log` the attempts in `qa_result`, `call[r]` a call of `qa_run`
with the items it has left. A call of the database is a step, as if every call ran in a
worker process of its own; in one process a call yields only while a video is probed.

| Action | Code |
|---|---|
| `Close` | the seeding by the triggers of 0056 and 0059, with the enqueue of `worker_qa` |
| `CaptionLate`, `RenderAgain` | a video that is captioned after the close, `store_creative` for a final that exists |
| `HandlerStart`, `HandlerChoose` | the handler of `worker_qa`: the creatives in scope, then the row of each, until one it has to judge |
| `OtherStart` | a call of the operator or the manager |
| `Judge`, `Count`, `Add`, `Look`, `Write` | one item: the file and its verdict, the number of the attempt, the insert, the row, its update or insert |
| `CloseRow` | `_drain_one`: the row is completed, or failed when the handler raised |
| `Rotate` | the watchdog times out a row whose handler runs on, or was killed, and the next try may start |
| `QueryFails`, `Die` | a query that raises; the end of a process, which leaves the row of a handler held |

A broken file raises and ends the call (`BadFileSparesOthers`, 4.1), and the row of a handler
that raised is `failed`: no watchdog reads it and no other try starts (`FailedIsRotated`, 4.1).
Only a row that is still held is rotated. The manager sends no vision findings, so an image it
has judged is `needs_review`.

### 2.6 `ReviewGates`

`text` and `verdict` are the variants of the copy, `compliance` and `spec` the rows of the two
gates, `check` the evidence per placement, `judge[i]` and `report[r]` what calls of
`compliance_run` and `spec_result` have read or written so far, `launch` the preconditions that
`record_launch` has passed. `basis`, `crossed`, `ragged`, `released` and `touched` are history,
read by properties only.

| Action | Code |
|---|---|
| `WriteCopy` | an insert or edit of a variant, with the trigger of 0025 and 0055 (`Rearm`) |
| `DecideCopy`, `CommitDecision` | `copy/decision/route.ts`: the read of the stage, the update by id |
| `JudgeRead`, `JudgeWrite`, `JudgeFails` | `compliance_run` for one item |
| `ReportWrite`, `ReportRoll`, `ReportFails` | `spec_result`: the evidence, the rollup of the placements of the call, the gate |
| `DecideCompliance`, `DecideSpec` | the override, acceptance and gate decision routes |
| `AdvancePhase` | the rollup and the copy gate of `advance/route.ts` |
| `CheckSpec`, `CheckCompliance`, `CheckCopy`, `RecordLaunch` | `check_launch_preconditions`, read by read, and the write of the entities |

No code sets a creative to killed, so the filter of 0039 leaves every row in scope; archived
creatives and variants count. A gate that has no row holds nothing. `record_launch`
does not check the stage.

### 2.7 `ApprovalGate`

`hook[c]` is where the pre_tool_call hook of a call stands, `row[c]` its row of `approvals`,
`handlers` the handlers that wait in the worker and `slots` their count, `mode` the row of
`approval_mode` and `over` the windows of it that have ended, `cached` and `remembered` the
plugin's two caches. `risky` are the keys of the classes AUTO_APPROVE does not cover.

| Action | Code |
|---|---|
| `Dispatch`, `ProbeRead`, `Learn`, `ProbeFails` | `on_pre_tool_call` and `mode.py`: the probe, its cache, fail to ASK |
| `WriteAutoDecision`, `UseRemembered`, `PostApproval` | the three courses: a decided row, an earlier approval, the worker |
| `PollRow`, `Timeout`, `PollRowFails` | the loop of `hermes_approval.py` and its expiry write, which matches only a pending row |
| `ConnectionLost`, `WorkerCrash` | the client gives up; the worker restarts |
| `Decide`, `Cancel`, `SetMode`, `WindowEnds` | the routes of the dashboard, and time |
| `CacheAges`, `Forget` | the 5 s of the mode, the life of a remembered approval |

At the cap of handlers the worker answers 503, which the plugin takes for a refusal. The
plugin remembers every positive verdict. An automatic approval writes its row as pending
and then decides it; a row left pending by a failure between the two may be
decided by the operator or expires.

`Consent` has none of this: a question is opened once and settled once, and a call runs once,
for an approval of a call with its key or because the class needs none. `ImplementsConsent`
maps a row to a ballot (expired and cancelled are denied) and the hooks that let
their call through to the calls that ran; probes, caches, polls, slots and restarts are stutters.

### 2.8 `BudgetCap`

A unit is one paid call at one price, `<<job, run, number>>`. `charged` are the units
paid, `recorded` those in the ledger, `reserved` those that a check has admitted and are not
settled, `loose` those that no check admitted, or whose check could not see work in
flight. The four kinds of job differ in where they check and when they record (head of
the module). `inLock` are the jobs that hold the lease of their brief: a job at work may not be
one of them.

| Action | Code |
|---|---|
| `Start`, `CheckAhead` | a run begins; broll-search reserves for all its segments before it queues |
| `TakeLock`, `ClaimFails`, `LeaseLapses`, `GiveLock` | `BriefQueue.acquire`: the claim, a claim that fails (the first sends the job on under the lock of its process, a later one ends it), heartbeats that fail until the lease may be taken over, the release |
| `CheckUnit`, `Pay`, `PayFails`, `Settle`, `SettleFails` | a unit: `reserve_budget`, the order at the vendor, the result stored and, for a batch or the render tool, recorded |
| `Abort` | broll-search or the voiceover ends with a 409, 502 or 503 from inside the lock; what it made so far is paid for and not recorded |
| `RecordClips`, `RecordFails` | the one row of a broll-search or a voiceover, after the lock was given back |
| `WorkerRestart` | all jobs are gone |

`keys` are the idempotency keys of the ledger (0036). A second broll-search that makes as many
clips as the first is taken for it, and so is a second voiceover whose text is as long
(`KeySizes`: the length of a text is chosen at each run, new or that of an earlier run).
`abandoned` is history: the runs that ended in `Abort`.

### 2.9 `KieRenders`

`vendor[r]` is the render at kie, `render[r]` its row, `task[t]` the request that polls
(`Live`), the posts (`Post`) and the turns of a pass (`TurnOf`); `todo` what a pass has
left, `clip` and `sidecar` the two files all three write. A pass takes the `PerPass`
oldest queued rows. `_bump_render_attempt` sets `next_attempt_at`, which the sweep does not
read: there is no backoff, and a row that no pass can close (kie reports success
without a URL) keeps its place in every pass.

### 2.10 `ChatSessions`

`active[s]` is the entry of `_active_execs`, `stream[c]` what `chat_stream` is doing, `exec[c]` the
process in the container, `abort[a]` where an abort is and the exec it found. What runs
between two awaits is one step. A stream is cut in the browser (`Disconnect`, or `Stop`,
which then posts the abort) before the worker notices (`CloseStream`). No property of a run is
about it: what the code says of its aborts, TLC refutes (`ReadIsAbortable`, `StopSparesOthers`,
`StopEndsExec`, 4.1), and what is left when a session has one stream is the keyed update of a
table.

### 2.11 `LivePage`

For each of the two streams of the page: `source[s]` the connection the browser holds,
`relay[s][c]` the channel of each connection, `wire[s]` what is on its way, `timer[s]` the
reconnect. `queue` is the 200 ms queue, `shown` the list, `asked` and `answer` the refreshes the
router owes and the rows the last read brought; the router runs one refresh at a time. A row is
its place in the order of the timeline, and `Flush` sorts the whole batch into the list, which is
what the hook's one insertion per row comes to. The relay drops a table that is not on its list
without an error. The backoff of a reconnect is left out with the clock.

### 2.12 `ConfigForm`

`shown` is the page and `draft` the row, part by part: the columns of the format and of the
client, and the payloads of the two tracks. A content is the number of the edit
that wrote it, which is all the properties need to tell old from new. `sound` are the parts whose
fields validate, and the client once one is chosen; a pipeline is created without one. `timer` is
the one debounce of the page, `saves` the requests in flight with the draft each has read,
`latest` the one the AbortController belongs to. `unsure` is history: the parts whose last edit
was not sent, or whose save was dropped, overlapped or failed.

| Action | Code |
|---|---|
| `EditDebounced`, `PickFormat` | a field that validates, or the client; the format, saved at once |
| `EditUnsaved`, `EditRows` | a field that does not validate, or one of the video while there is no client (`toVideoPayload` is null); a row of the video brief that comes or goes without a save |
| `Propose` | the agent's proposal: it fills the format and the tracks, and saves of them what validates, the video only with a client |
| `Fire`, `Reload` | the debounce, the page left and opened again |
| `ReadDraft`, `CheckStage`, `WriteDraft`, `SaveFails` | the config route: its read, its guard, its write of the merged draft, a call that fails or fails after it wrote |
| `Hear`, `Vanish` | the answer; an aborted request that had not reached the server |
| `PressContinue` | the button, which asks a client and that the tracks of the format validate |
| `ReadForAdvance`, `Mint`, `Refuse` | the advance out of configuration, as far as it concerns the draft |

Choosing the client saves the client alone. A video that was filled in before is then valid, the
button is open, and the draft has no such video: the part stays in `unsure` until it is edited
again, and `AutosavesAsYouGo` (4.1) shows it. The advance refuses a row that has no payload for a
track of its format; a row that has an older one it takes.

### 2.13 `PickBoard`

The same for the ideation stage, where each click posts the whole list of its track at once
and a request that fails takes the board back to what it showed before the click. `blurred` are
the tracks with a click that overlapped another one or failed after it wrote; `late` says that
a click was on its way while the advance was.

| Action | Code |
|---|---|
| `Offer`, `TogglePick`, `HearAnswer`, `Reopen` | a concept appears; `togglePick` and its answer; the page opened again |
| `ReadPicks`, `CheckPicks`, `WritePicks`, `Recheck`, `PickFails` | the picks route: read, guard, write of both tracks, the guard once more, a failed call |
| `PostReview`, `ReadRowForReview`, `EnterReview`, `ReviewFails` | the advance out of ideation |

### 2.14 `GateEngines`

A behaviour is about one creative and one engine: `Init` chooses what the worker can measure
by itself (`rule`, `still`, `footage`), and each step adds a piece of the agent's evidence, so
that each state is one input of the engine and its verdict an operator of it (`TextVerdict`,
`ImageVerdict`, `VideoVerdict`). `heard` is the loop variable of `adjudicate_confidence` and
`looked` the dictionary by id, after as many findings as there are.

| Action | Code |
|---|---|
| `Find` | a finding of compliance, taken in by `adjudicate_confidence` |
| `Look` | an observation of an image |
| `StoreAsset`, `ReportSpot` | the file of a video; a status per placement, with the backstop of `spec_result` |

The file of a video is stored once. The code may store another after a placement has passed, and
the stored status is then about the old file: `PassIsEarned` says nothing of that case.

Left out: whether a pattern matches a text (an input: its words are not there, there, or there
beside a sign that is no letter), the table of rules, and the sides of an
image as numbers (they meet, miss or have no rail).

## 3. Runs

Cfgs set `CHECK_DEADLOCK FALSE` because every model here is bounded and stops: rows,
faults, tool calls, calls of `acquire`, and a pipeline that is done.

| Run | Modules | Question | Distinct states |
|---|---|---|---|
| `queue_safety` | `WorkItemQueue`, `ConfigForm`, `PickBoard` | with a failing watchdog, redispatch and admin cancels, do all writers respect the CHECK constraints (`DbChecksHold`); is what rests on a form stored (`RestedIsStored`, `QuietTrackIsStored`), and do the briefs and the review get it (`BriefHasWhatRested`, `ReviewHasPicks`) | 5,665,552 |
| `queue_race` | `WorkItemQueue`, `WorkLedger` | with two daemons and two watchdogs: one writer (`SingleWriter`), one open row (`OneOpenRowPerRoot`); every timed-out row is retried (`TimedOutIsRequeued`), every row closed (`EveryRowCloses`); the queue implements `WorkLedger` (`ImplementsLedger`) | 164,311 |
| `worker_calls` | `WorkItemQueue`, `BriefLease`, `QualityCheck`, `ChatSessions` | with one attempt per row and a failing watchdog, is every row closed, by the dead-letter branch too (`EveryRowCloses`); exclusion by the lease and by its fallback (`LeaseExclusive`, `FallbackExclusive`), and service of every call (`EveryCallServed`); the gate of creative_qa opens over passing evidence (`OpenGateIsJudged`), the last attempt decides (`LatestAttemptDrives`), and what was seeded is judged unless a handler raised (`EverySeededJudged`) | 148,160 |
| `gen_operator` | `GenerationStage`, `LivePage` | operator mode: spend after a cancel (`CancelBoundsSpend`), an entry into QA with nothing rendered (`AdvanceNeedsARender`), a close before every final was tried (`EveryFinalAttempted`), no close (`BatchCloses`); the page: what was heard is shown (`HeardIsShown`), what a refresh read stays (`RefreshedRowStays`), streams and channels settle (`StreamsSettle`) | 349,588 |
| `gen_worker` | `GenerationStage`, `ReviewGates` | worker mode, double submit, missing picks, crashes: a failure spares the peers (`FailureSparesPeers`); the gates: a clear compliance gate is about the text there is (`ClearedFitsCopy`), a passed spec gate is whole (`SpecPassIsWhole`), a launch read clear gates (`LaunchWasCleared`) | 774,440 |
| `stages` | `StageMachine` | no stage skipped (`StagesInOrder`), an executor for every entry (`EntryHasExecutor`), gates held (`HardGateHeld`) | 1,759,252 |
| `safeguards` | `ApprovalGate`, `Consent`, `BudgetCap`, `KieRenders`, `GateEngines` | the gate implements `Consent` (`ImplementsConsent`), windows end (`AutoEndsWithWindow`); the overrun is bounded (`OverrunBounded`), what is paid is recorded (`PaidIsRecorded`); a completed render has its clip (`CompletedHasClip`), verdicts stand (`VerdictStands`), renders are resolved (`EveryRenderResolved`); no engine passes a creative on less than its evidence (`PassIsEarned`) | 609,148 |
| `find_retry_budget`, `find_retry_completed`, `find_skipped_batch`, `find_two_acquirers`, `find_second_advance` | | statements of the code that TLC refutes, section 4.1 | |

Each property of a passing run has a mutant, a plausible bug of the code that it
detects (`PROJECT.json`, `mutants`).

### 3.1 Bounds

- Queue: three rows, which is a piece of work, its retry and the retry of the retry,
  or two pieces and one retry; two consumers of one kind or one of each of two
  kinds; one or two watchdogs; two faults, so that a loss can meet a loss; passes of
  one or two rows, below and at the number of stuck rows. `queue_race` lets no
  watchdog fail, because a watchdog that fails between its two calls loses the retry
  (4.1) and `TimedOutIsRequeued` with it; `queue_safety` and `worker_calls` let it.
- Forms: all four parts, on a row with or without a client and with both payloads or with none;
  two edits, of which a choice of the format may leave one track, two saves in flight, one failed
  call, so that a save overlaps another of its own part and of another part; two tracks, one with
  two concepts, three clicks, two requests in flight, one failed call.
- Generation: one or two image picks (two finals each), one video of one or two
  substages, one or two launches, one or two submissions, at most one tool call, up
  to two faults. Two finals of one pick, a pick that is gone beside one that is not,
  and a video beside images are the cases the closing rule tells apart.
  `EveryFinalAttempted` is stated of behaviours without a tool call or a fault, and
  `BatchCloses` of those without a fault, because with them the code closes early or
  not at all (4.1).
- Lease: three calls of one process, so that the fallback lock is dropped and
  made anew under a waiter; a lease of four intervals as in the code; three failed
  calls, which is as many missed heartbeats as cost a holder the brief; one crash.
- Quality: an image and a video, two tries of the handler and a call of the manager;
  one final stored again, which may be a broken file, one query that fails or process that dies,
  and at most two upsets in all, none once the manager calls. The time-out of a row that a
  handler left held is not counted.
- Chats: two streams of one creative and one of another, and one Stop.
- Gates: two creatives with a variant each, the first rewritten once; two placements and
  two reports; one item of the engine; one decision in flight at a time. Rewriting and
  overlapping reports are explored apart, as they write different rows.
- Page: two rows and a page of one, so that the older is cut off; one upset, a lost
  connection or a failed channel or a refresh somebody else asks for.
- Approvals: two calls of one key, one of them tried twice, one slot, one fault, one
  change of mode. Budget: a cap of two, five jobs of all four kinds, of which three
  run, or the two that may run twice (`FewJobs`: the broll-search and the voiceover, of two
  units each); one mishap. Renders: two, one with a callback, a pass of one, one post, two faults.
- Engines: two rules, the second for the agent alone, and three findings, so that a doubt, a
  clearance and a sure violation of one rule come in every order; confidences, scores, sizes and
  lengths at and beside each limit; a placement with a spec and one without.
- Stages: two requests at a time, any number one after the other, which is what it
  takes for one to act on what the other has changed; two briefs, the second followed up to
  the review, after which nothing reads a brief (`SecondBriefEarly`); one mishap, a
  failed or lost call or a question whose answer turns to no again; one question at most answered
  before its stage is entered, and that one stage early (`FewEarly`, `Lookahead`); a request that
  is up to `MaxLag` stages behind, five here and none in `find_second_advance` (`ShortLag`).
  The theorems have none of these bounds.

### 3.2 Fairness

- Queue: the poll loops claim (weak fairness of a claim per consumer), the worker's
  first heartbeat is made, a handler returns (each kind bounds its own run), the
  watchdog's interval loop runs, time passes. Nothing is assumed of the routes,
  and heartbeats that keep a row alive are not assumed.
- Generation: a route that passed its check goes on, the worker polls and runs its
  coroutines, calls return. Nothing is assumed of the manager or the agent.
- Lease: a call that began polls and goes on, its section ends, heartbeats are sent,
  time passes. Weak fairness of `Poll` is enough since polling claims every two
  seconds and an expired row stays claimable until someone takes it.
- Quality: the drainer has a handler start, a call goes on unless it dies, and the watchdog
  times out a row that a handler left held. Nothing is assumed of the operator and the manager.
- Chats: an abort that was posted goes on (it awaits Docker, with time limits), and a
  stream whose process has ended or whose browser has left is closed. No property of a run
  needs it. A chat may run for ever.
- Page: timers fire, messages arrive, the router answers, the server joins the feed and
  sees a browser that is gone. Nothing is assumed of who writes rows.
- Renders: the interval loop of the scheduler makes passes and what it starts goes on; kie
  ends what it took. Nothing is assumed of callbacks.
- Stages, the gates of `ReviewGates`, approvals, budget, forms and engines: none. People and the
  agent move them and nothing makes them, or nothing is asked of them but safety.

## 4. What the checks show

The queue keeps its promises of exclusion: whatever is lost, rotated or cancelled, one consumer at
most writes a row, retries follow each other, and every row is closed. No stage is skipped, and
none is entered without an executor unless a request was answered 5xx; generation and creative_qa
never. An entry into generation is closed at most once, and a cancelled pipeline does not advance.
Each question of a gate was answered yes at some time after its stage was entered, though not all
at one time (`GateOpenWhole`, 4.1). The lease excludes unless a holder misses a lease's life of
heartbeats, and frees every brief.

The gate of creative_qa opens only over passing evidence, although calls overlap, die and write
one another's rows; a clear compliance gate is about the text there is, unless the text was
replaced under the engine; a spec gate that passed has no failing placement as long as reports are
whole and one at a time; and a launch reads clear gates. No tool call runs without an approval of
its own row, of an equal call, or of a window that has not ended, and none twice; a question is
settled once, and the gate as a whole is the simple machine of `Consent`, whatever it caches,
loses or restarts. The cap is passed only by the units that the module calls loose: what no check
admits (the operator's render tool, the voiceover), and what a check admits while work is in
flight that is not in the ledger, which is any work but that of a batch that holds the same lease.
While nothing fails, what is paid for is recorded, but for a broll-search or a voiceover that
stops at a segment it refuses, and a second one whose key is taken. A render has one verdict, and
it is kie's, whichever of request, callback and sweep comes first. A page gets its streams back
and leaves no channel behind; its list has what it has heard of once the queue is flushed; what a
refresh could read comes to stay.

A part of the form that rests on the page is stored as it is shown, and the briefs have it or a
later edit; an edit is lost only to rows of the video brief, to a field that does not validate or
a client that is not chosen yet, to an edit of another part within the second of the debounce, to
overlapping saves, or to a save that fails. The board and the row of the picks part only by clicks
that overlap or that fail after they wrote. The engines decide by what the evidence is and not by
its order, a doubt holds the gate unless it is of a rule that failed and does not block, and no
boundary of a score, a size or a length lets a creative through.

### 4.1 Where the code departs from its own words

Five statements of comments and documents are checked by runs that TLC ends with a
behaviour of the code against them:

| Run | The code says | The behaviour |
|---|---|---|
| `find_retry_budget` | the attempt is carried forward, and the last one is marked failed (`scheduler.py` 777-781) | a retry restarts at 0: a piece of work is tried again without end |
| `find_retry_completed` | an UPDATE of no rows "is fine" (`scheduler.py` 785) | the retry is enqueued for completed work |
| `find_skipped_batch` | completes only when the finals are rendered (`worker_stage_consumer.py` 177) | the item's own event makes the handler skip the batch |
| `find_two_acquirers` | the fallback still serializes in-process (`queue.py` 269) | it does not exclude the lease holder of the same process |
| `find_second_advance` | a concurrent second advance no-ops (`advance/route.ts` 886) | it enters the stage again and takes the pipeline back |

The others are defined in the modules, under the same headings; naming one as an
INVARIANT or PROPERTY of a cfg makes TLC show its behaviour (`BadFileSparesOthers` also needs a
file that is broken from the start, which `MCWorkerCalls` rules out in its Init).

| Statement | The code says | The behaviour |
|---|---|---|
| `RotatedOnlyWhenStale` | a heartbeated row is not rotated (785) | it is: the token does not change with a heartbeat |
| `ShutdownIsRequeued` | SIGTERM "so the watchdog requeues it" (`daemon.py` 10) | the watchdog never reads failed rows |
| `TimedOutIsRequeued`, a watchdog that may fail | retries never go untracked (`work_queue.py` 335) | an error between the two calls loses the retry |
| `CancelledQueueEmpty` | a cancelled queue is empty (`redispatch/route.ts` 65) | a route that checked before the cancel enqueues after it |
| `EveryFinalAttempted`, with a tool call or a failed read | every final exists at the close (0059, 24) | one final stored twice counts as two |
| `ClosesWithNothingOpen` | closed when nothing is queued or running (`SKILL.md` 338) | the first finished substage of a video closes |
| `AdvanceNeedsARender`, worker mode | one render must succeed (0024, 8) | the item's own `task_done` counts as one |
| `AllFailedMayRetry` | an all-failed batch may be dispatched again (`worker_stage_consumer.py` 199) | it is reported complete |
| `EnteredOnce` | a double submit cannot promote twice (`review/decision` 48) | it enters the stage twice |
| `RenderResumes` | a retry renders the remainder (`pipeline_tools.py` 1042) | a pick with one final of two is skipped |
| `OneBatchAtATime` | two calls reduce to one run (`pipeline.py` 33) | both probe before the first event |
| `BatchCloses`, with a missing pick | a failed render does not block the rest (0056, 51) | a pick that is gone leaves the stage open for ever |
| `FailureSparesPeers`, operator mode | a failure does not kill peers (`pipeline.py` 1086) | background tasks after one that threw never run |
| `OneVerdict` | a verdict is terminal, another is answered 409 (`monitor/decision` 40) | two that are checked together are both carried out |
| `DoneIsFinal` | the status is asserted again at write time (`cancel` 42) | a cancel that read its status before ends a run that is done |
| `MonitorHasExecutor` | the operator's own monitor dispatch (`launch/decision` 163) | nothing enqueues one |
| `GateOpenWhole` | the hard gate is never passed by itself (`launch/decision` 101) | a gate is several reads: the copy is rewritten after its own, and what was never open as a whole is passed |
| `NoDanglingBrief` | a failed advance leaves no posted brief (`advance/route.ts` 840) | one whose event fails, or that a second advance replaces, stays |
| `CapIsHard` | the check runs before any paid call, "so the spend never happens" (`cost_ledger.py` 391) | two jobs of different briefs pass the check together; a tool pays unchecked |
| `EveryCreativeCleared` | every creative is passed, overridden or skipped (`transitions.ts` 123-129) | a creative nobody judged has no row and holds nothing |
| `FailedIsRotated` | a handler that raises fails its row and the watchdog rotates it (`worker_stage_consumer.py` 299-300) | the watchdog does not read a failed row: the creatives that are left are not judged |
| `BadFileSparesOthers` | a creative that cannot be judged never aborts the batch (`worker_stage_consumer.py` 293-296) | a file that cannot be read raises out of `qa_run`, and the rest of the batch is left |
| `NothingShipsUnchecked` | no billed video is absent from the gate (0056, 4-19) | a video captioned after the close has no row and is not checked |
| `PassFitsFile` | the latest attempt drives the row (0021, 117), so a pass is about the latest file | a final stored again keeps the row of the old file |
| `ReadIsAbortable` | an abort answers no only when the stream has finished or never started (`hermes_bridge.py` 225-228) | a second stream of the session that ends drops the entry of the first |
| `StopSparesOthers` | Stop kicks the upstream of what it cancelled (`EkkoChat.tsx` 171) | the next message has taken the entry: that one is killed |
| `StopEndsExec` | as above | the cut stream drops its entry before the abort looks, and Hermes goes on |
| `NothingVanishes` | append-only: rows are never deleted (`usePipelineEvents.ts` 24) | a refresh that was read earlier replaces the list, until the next one |
| `EveryRowShown` | the first paint is correct, then inserts land (`usePipelineEvents.ts` 15-18) | a row written while no stream was joined is announced to nobody |
| `SavesKept` | autosaves do not obliterate each other (`StageConfiguration.tsx` 56-57) | a save writes back the other payload as it was read, over the save that went before it |
| `AutosavesAsYouGo` | the form saves as you go (`StageConfiguration.tsx` 661) | a video filled in before a client is chosen is never saved, and Continue is open |
| `LatestWins` | the latest payload always wins (`StageConfiguration.tsx` 312-313) | an aborted save that is on the server writes after the later one, and the whole draft |
| `BriefIsTheForm` | Continue validates the form as it is (`StageConfiguration.tsx` 46-48) | it mints the briefs from the draft, without the edit behind the debounce |
| `DraftLocked` | the status guard protects against late autosaves (`StageConfiguration.tsx` 57-58) | one that passed the guard before the event writes after it |
| `OtherTrackUntouched` | the track not in the body is left alone (`picks/route.ts` 28-30) | it is written back as it was read |
| `PicksLocked` | picks do not bleed into other stages (`picks/route.ts` 31-32) | the second check answers 409 and leaves the write |
| `EveryTrackPicked` | review asks a pick of every track (`StageIdeation.tsx` 49-51) | a click that was on its way at the check empties one |
| `DoubtIsKept` | a doubt never silently passes (`compliance_engine.py` 40-41) | a surer finding makes its rule fail, and a failed rule that does not block passes the gate |
| `SaidIsCaught` | what a client must not say is caught (`compliance_engine.py` 18-20) | a phrase that begins or ends in a sign that is no letter never matches `\b` |
| `PercentIsRead` | scores may be sent as 0..100 (`qa_engine.py` 625) | 1 of 100 is read as 1.0, the best |
| `NeverPassesUnfit` | the agent cannot pass what does not conform (`operator_stage_tools.py` 534-535) | a status reported before the file is there stays |
| `GateChangeShown` | changes of `creative_stage_state` stream (`PipelineDetailRealtime.tsx` 14-17) | the relay's list lacks the table, and drops it silently |

## 5. Proofs

The theorems hold for every value of the constants that their modules' named ASSUMEs
allow: any set of rows, consumers, watchdogs, runs, calls, processes, requests, parts,
tracks or rules, and any bound. The assumptions say what the constants are (a natural number,
a finite set, a function between the right sets, a null value outside a set) and no more. Each
module proves that a strengthening of its properties is inductive; the theorems listed in
`PROJECT.json` follow from it. Every safety invariant and every action property of the passing
runs is proved, and so are the two refinements.

Three theorems assume more, in their statement, and without it the properties are false:

| Theorem | Assumes | Otherwise |
|---|---|---|
| `OneOpenRowPerRootHolds` | no pipeline is redispatchable | a redispatch opens a second row of the work |
| `AdvanceNeedsARenderHolds` | an operator drives the pipeline | the item's own `task_done` counts as a render (4.1) |
| `EveryFinalAttemptedHolds` | an operator drives it, there is one launch, every picked image is there | outcomes of videos count beside those of images; a second launch counts twice; a pick that is gone has an outcome and no try |

Some properties are proved and left out of the runs, which ask for what is hardest to see:
the type invariants (`TypeCorrect`, `StageTypeCorrect`,
`LeaseTypeCorrect`, `StageMachineTyped`, `ReviewTyped`, `ApprovalTyped`, `BudgetTyped`, `KieTyped`,
`PageTyped`), `ParentClosed`, `OneRetryPerRow` and `NeverDeadLettered` of the queue (the last says
that the dead-letter branch is dead while more than one attempt is allowed), `DepthExact` and
`LiveLeaseKept` of the lease, `EnqueuedBeforeEntry`, `OneClosePerEntry` and `NoCloseAfterCancel` of
the generation stage, `NoEarlyExecutor` and `BriefBeforeIdeation` of the stages, `AllowedIsApproved`,
`PendingIsAwaited`, `SlotsExact` and `DecisionFinal` of the approvals, `RecordedIsPaid` of the
ledger, `RearmNeedsNewText` of the gates.

**`WorkItemQueueProofs`.** A step adds one row under a new key, or moves every row along
its life: a row is claimed at most once, loses its token by being closed only, and a
closed row stays closed. `IInv` adds to that, for each process, why what it remembers
of the table is still true: a consumer whose token matches owns the row (`WorkOK`), the
row of a watchdog's snapshot has kept its token or is closed (`DogOK`), a redispatch was
admitted for a closed row (`AdmittedOK`), tokens are never minted twice (`TokensMinted`) and keys are
unique (`KeysUnique`). `SingleWriter` alone is not inductive: two consumers
may remember tokens of one row, and it is `WorkOK` that says one of the two is old.
`OneOpenRowPerRootHolds` needs the chain of retries besides: a root's rows form one
chain whose last row alone may be open. `QueueImplementsLedger` maps each step to a step
of `WorkLedger` or to a stutter.

**`GenerationStageProofs`.** The events change in a few ways only (`EventSteps`): an
entry resets the counts, an outcome adds to one of them and may close the stage, the
item's own events count in worker mode. `IInv` says that the stage is open only with an
entry not yet closed (`ClosingsPaid`), that in operator mode the done count stands for a
rendered unit (`DoneIsRendered`), that a producer is past at most the one check it made
before the cancel (`ProducersOK`), and that a submission that is about to enter
the stage has enqueued (`QueueFirst`).

That the stage closes on its last final is an argument about order (`OrderInv`): while there is
no fault, tool call or cancel, the image producer has tried every final before the one it is at
and fewer outcomes than that are counted, and no video is begun before it is over
(`InOrder`). So the count that closes is reached at the last final, or after it. TLC checked
`OrderInv` on 16,770,884 states before it was proved.

Of the page, `PageInv` says where a row may be (`RowsKnown`), and `HeardIsShownHolds` comes
down to what sorting does: `AscendingKeepsRows`, the list of a set of rows has those
rows and no other, by cardinality, since each row has as many before it as its place says
(`PlacesAreTaken`).

**`WorkerCallsProofs`.** Of the lease, `LeaseCovers` says of every holder that the row is its own and the
intervals left, those missed and the heartbeat due add up to a life of the lease, or
it has missed at least `Ttl - 1` heartbeats. That makes `LeaseExclusive` inductive. For the
fallback, `DepthExact` counts the calls of a process and `BoundToLock` says that a call
that waits or is inside is bound to the lock object of the dictionary: the object is
dropped only when the counter says that nobody is left.

Of the quality check, `OpenGateIsJudged` is not inductive: a row passes by a verdict that a
call has carried since it judged. `WrittenWasSaid` says that it is in the evidence by the time it
is written, `PassedWasSaid` that a row that passed was judged so, and `NothingBefore` that
the evidence starts at the close. For `LatestAttemptDrives`, `OneInHand` says that a creative
no two calls had in hand is in the hand of one call at most, whose verdict is the last
attempt, and `RestDrives` that with no call at it the row is that of the last attempt.

**`StageMachineProofs`.** `RequestOK` says what a request knows at each of its places in
spite of all the others: the stage it leaves was entered and its route may leave it,
each question its gate has answered is in `held`, an executor it is about to enqueue is for a stage
that was entered. All of this only grows, which is why it survives interleaving where
the status itself does not. `BriefsOK` says that briefs are minted once and that the one
the pipeline refers to is there.

**`ReviewGatesProofs`.** `RollingOK` says of a report that has written its evidence and not
its gate that no other report of its creative has begun without marking it ragged, so
what it is about to write is the rollup of what is stored; `LaunchOK` says, for each
precondition that a launch has passed, that the gates it read are clear but for the
creatives touched since. `ClearedFitsCopy` is inductive as it stands: an edit re-arms
the gate in the step that changes the text, and an edit under the engine is `crossed`.

**`ApprovalGateProofs`.** `AllowedIsApproved` needs `RememberedApproved` (a key in the cache
belongs to a row that was approved, and decided rows stay) and `AutoCovered` (a hook on the
automatic course was sent there for a class the mode covers). `PendingIsAwaited` needs
`PostsOnce`: a hook that has not posted has neither row nor handler of its try.

`GateImplementsConsent` maps each step of the gate to a step of `Consent` or to a stutter: a
row that is admitted opens its ballot or finds it open (`AdmitOpens`), a hook that moves without
letting its call through is a stutter (`MovesOn`), and one that lets it through does so for the
first time (`LetsThrough`), for an approval (`AnswerKeeps`) or by a course that `AutoCovered`
allows only to classes without risk (`PromiseStep` puts them together).

**`SafeguardsProofs`.** Of the budget, `OverrunBounded` rests on `LockOK` and `ReservedOwned`: the
lease of a brief has one holder, and a batch has one unit reserved at a time, so of all that is in
flight only what belongs to another holder of the lease would go unseen, and there is none; whatever
else is reserved makes the units loose, so a batch that lost its lease, or never had it, is covered
without being excluded. `PaidIsRecorded` needs that a key of the ledger stands for the
units of one run that is over (`KeysOK`), and that what a job made in this run is
reserved or loose (`MadeReserved`) until its row is written; `GrowsStep` says that no excuse is
taken back.

Of the renders, `TaskOK` says what a task knows of its render at each of its places
(kie reported success before it fetches, its file and sidecar are there before it closes),
`PartialOK` that a file is half written only while a task writes it or after a fault, and
`RowOK` that a closed row agrees with kie.

Of the engines, `EngineInv` says that the loop variable of each rule sums up the set of its
findings, in whatever order they came (`HeardSumsUp`, by `HeedSumsUp`), that the score of a
defect is that of its last observation (`LookedIsLast`), and that a stored pass of a placement
with a spec fits the file (`StoredFits`). `PassIsEarnedHolds` is then about the roll-ups alone:
`WorstIs` says what the worst of a few verdicts is, `RuleVerdictIs` what a rule comes to.

**`DashboardProofs`.** Both forms are proved by the same idea: a request that is alone, of a part
that is not in doubt, has what the page shows, and what it read of the other parts is what
the row has. For the board these are `ClicksOK`, `LoneClickOK` and `ReadPicksOK`, with `GateOK`
for the review: once its gate has read the row, no write is left but late ones. For the form
they are `LoneSaveOK` and `ReadDraftOK`; `AdvanceOK` adds that whatever is on its way while
the advance is, be it a save, what it has read, or the timer, is no older than the page was
at the click (`NoOlder`), and `WithinEdits` that numbers of edits are those of edits made.

## 6. Only model-checked

- Liveness: `EveryRowCloses`, `TimedOutIsRequeued`, `EveryCallServed`, `EverySeededJudged`,
  `BatchCloses`, `FailureSparesPeers`, `StreamsSettle`, `RefreshedRowStays`, `EveryRenderResolved`.
  TLAPS has no backend for fairness (ENABLED).
- The counterexamples of section 4.1.

## 7. Plan

1. A refinement from the rows of `ReviewGates` and `QualityCheck` to the gates of `StageMachine`,
   and from `GenerationStage` to its `AutoAdvance`, step by step as for `Consent`.
2. Two transactions of the trigger of 0059 at a time, which the counts do not exclude.
3. The other subscribers of the dashboard (approvals, work items), which fetch on every
   message and show the answer that comes last.
4. The safety part of the liveness properties: what must hold at each stage of the argument
   for a row to close or a batch to close, as invariants to prove.

## 8. Not modelled

- Of the engines, whether a pattern matches a text and what an image shows: inputs of
  `GateEngines`. So is the table of rules.
- The ideation stage of the worker. Its producers are deterministic and are never reached:
  the route writes `stage_advanced` and then enqueues `worker_ideation`, whose trigger (0050,
  366-395) inserts `task_queued`; `ideation_already_ran` (`pipeline_runner.py` 398-408) takes any
  event after `stage_advanced` for a stage that has run, so the handler always skips, and the
  worker's HTTP route for it has no caller.
- The Retry button of a task (`tasks/[task_event_id]/retry/route.ts`): no `task_error` event
  carries the id it looks for, and its other way filters `hermes_tasks.status` by a value that
  the enum does not have (0008, 49-58), so it answers 422 before it writes.
- The video toolchain: each substage is one unit that succeeds or fails.
- The HTTP breaker: its only user is the client of the daily GHL reconciliation, which
  has no targets until a table exists (`scheduler.py` 100-143), so it never runs.
- The consumer registry: a status that is displayed, which no claim, rule or route
  reads and which the next beat sets right.
- GHL, the integrations and the notifications: calls to external services; their rows of
  the queue are modelled. An alert or a webhook that fails is lost, and nothing in
  the repository depends on it.
- Kanban, webhook and health routes of the Hermes bridge: one call each, no state.
- The proposal of a configuration and the draft chat: calls to a language model; what the form
  does with a proposal is `Propose`.
- CRUD routes and search: single statements. Authentication: a check in front of every route.
- The user interface apart from the live page and the two forms: rendering of what the API
  returns, and one decision per click that is posted to a route.
- The agent's skills: instructions for a language model, which is modelled as a caller of
  any tool in any order. Deployment and scripts.
