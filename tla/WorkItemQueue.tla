--------------------------- MODULE WorkItemQueue ---------------------------
(***************************************************************************)
(* The unified work_item queue: one Postgres table (migration 0050), the   *)
(* routes that enqueue into it, the consumers that claim, heartbeat and    *)
(* close its rows under a claim token, and the watchdog that rotates the   *)
(* rows whose heartbeat clock went stale.                                  *)
(*                                                                         *)
(* A SQL statement is one step.  A handler that reads and then writes is   *)
(* two steps, with what it read kept in between: a consumer keeps the row  *)
(* and token it claimed, a watchdog pass keeps the snapshot of its SELECT, *)
(* a route keeps the request it has checked but not yet enqueued.          *)
(***************************************************************************)
EXTENDS Naturals, FiniteSets

CONSTANTS
  Ids,              \* row ids, in creation order; no more rows than these
  Roots,            \* the pieces of work the dashboard and worker enqueue
  KindOf,           \* the work_item kind of each root
  Pipelines,        \* the pipelines
  PipelineOf,       \* the pipeline of each root, or NoPipeline
  Consumers,        \* processes that drain the queue
  Drains,           \* the kind each consumer drains
  Watchdogs,        \* scheduler processes that run the watchdog loop
  Redispatchable,   \* pipelines on which an operator may press redispatch
  MaxAttempts,      \* settings.work_item_max_attempts
  MaxPerPass,       \* settings.work_item_watchdog_max_per_pass
  MaxFaults,        \* bound on crashes, lost responses and missed heartbeats
  WatchdogMayFail   \* whether a watchdog pass may raise or be killed

Kinds == {"operator_dispatch", "worker_stage", "outbox"}

NoPipeline == "no pipeline"
NoRoot     == "no root"
NoOne      == "nobody"
NoRow      == 0
NoToken    == 0
NoKey      == <<"none", 0, 0>>

ASSUME IdsAssumption       == Ids \subseteq Nat \ {0}
ASSUME RootsAssumption     == /\ NoRoot \notin Roots
                              /\ KindOf \in [Roots -> Kinds]
                              /\ PipelineOf \in [Roots -> Pipelines \cup {NoPipeline}]
ASSUME PipelinesAssumption == /\ NoPipeline \notin Pipelines
                              /\ Redispatchable \subseteq Pipelines
ASSUME ConsumersAssumption == /\ NoOne \notin Consumers
                              /\ Drains \in [Consumers -> Kinds]
ASSUME LimitsAssumption    == /\ MaxAttempts \in Nat \ {0}
                              /\ MaxPerPass \in Nat \ {0}
                              /\ MaxFaults \in Nat
                              /\ WatchdogMayFail \in BOOLEAN

VARIABLES
  row,        \* row[i]: the work_item row i
  work,       \* work[c]: what consumer c holds in memory
  dog,        \* dog[w]: the pass watchdog w is in
  minted,     \* claim tokens minted so far
  admitted,   \* enqueue requests whose route has passed its status check
  cancelled,  \* pipelines with a pipeline_cancelled event
  faults      \* crashes, lost responses and missed heartbeats so far

vars == <<row, work, dog, minted, admitted, cancelled, faults>>

-----------------------------------------------------------------------------
(* The table.                                                              *)

Held     == {"claimed", "running"}
Open     == {"queued"} \cup Held
Terminal == {"completed", "failed", "timed_out", "cancelled"}
Statuses == {"absent"} \cup Open \cup Terminal

Errors == {"none", "handler_error", "consumer_shutdown", "heartbeat_stale",
           "max_attempts_exceeded", "pipeline_cancelled", "user_cancelled"}

Keys == ({"root"} \X Roots \X {0})
          \cup ({"redispatch"} \X Ids \X {0})
          \cup ({"retry"} \X Ids \X Nat)

\* A row.  stale: its heartbeat clock is past the threshold.  due: its
\* next_attempt_at has come.  beat: heartbeat_at is set.
Row == [status: Statuses, attempt: Nat, token: Nat, owner: Consumers \cup {NoOne},
        beat: BOOLEAN, stale: BOOLEAN, due: BOOLEAN, error: Errors,
        key: Keys \cup {NoKey}, root: Roots \cup {NoRoot}, parent: Ids \cup {NoRow}]

AbsentRow == [status |-> "absent", attempt |-> 0, token |-> NoToken, owner |-> NoOne,
              beat |-> FALSE, stale |-> FALSE, due |-> FALSE, error |-> "none",
              key |-> NoKey, root |-> NoRoot, parent |-> NoRow]

QueuedRow(key, root, parent, due) ==
  [status |-> "queued", attempt |-> 0, token |-> NoToken, owner |-> NoOne,
   beat |-> FALSE, stale |-> FALSE, due |-> due, error |-> "none",
   key |-> key, root |-> root, parent |-> parent]

\* Mutant: a patch that keeps the claimed_by column.
ClosedKeepingOwner(r, status, error) ==
  [r EXCEPT !.status = status, !.error = error, !.token = NoToken, !.stale = FALSE]

\* The terminal patch every closing UPDATE writes: it releases the claim.
Closed(r, status, error) ==
  [r EXCEPT !.status = status, !.error = error,
            !.token = NoToken, !.owner = NoOne, !.stale = FALSE]

\* UPDATE ... WHERE id = i AND claim_token = token: no row matches a token
\* that the row no longer carries.
UpdateIfToken(i, token, patched) ==
  row' = [row EXCEPT ![i] = IF @.token = token THEN patched ELSE @]

HasKey(key) == \E i \in Ids : row[i].key = key

Fresh == {i \in Ids : /\ row[i].status = "absent"
                      /\ \A j \in Ids : j < i => row[j].status # "absent"}

\* INSERT with the unique idempotency key; a second insert returns the first row.
Insert(key, root, parent, due) ==
  \/ HasKey(key) /\ UNCHANGED row
  \/ /\ ~HasKey(key)
     /\ \E i \in Fresh : row' = [row EXCEPT ![i] = QueuedRow(key, root, parent, due)]

-----------------------------------------------------------------------------
(* The processes.                                                          *)

\* starting: claimed, before the worker's first heartbeat.  working: the
\* handler runs.  rotated: the worker's handler still runs, its claim is gone.
WorkStates == {"idle", "starting", "working", "rotated"}
Work == [pc: WorkStates, item: Ids \cup {NoRow}, token: Nat]
Idle == [pc |-> "idle", item |-> NoRow, token |-> NoToken]

Snapshots  == [item: Ids, token: Nat, attempt: Nat]
NoSnapshot == [item |-> NoRow, token |-> NoToken, attempt |-> 0]

DogStates == {"asleep", "sweeping", "requeueing"}
Dog == [pc: DogStates, todo: SUBSET Snapshots, current: Snapshots \cup {NoSnapshot}]

\* The rest of a pass, once its current row is dealt with.
Continue(todo) ==
  [pc |-> IF todo = {} THEN "asleep" ELSE "sweeping",
   todo |-> todo, current |-> NoSnapshot]

Requests == [key: Keys, root: Roots, parent: Ids \cup {NoRow}]

\* Consumer c still carries the token of the row it works on.
HoldsClaim(c) ==
  work[c].pc # "idle" /\ row[work[c].item].token = work[c].token

TypeOK ==
  /\ row \in [Ids -> Row]
  /\ work \in [Consumers -> Work]
  /\ dog \in [Watchdogs -> Dog]
  /\ minted \in Nat
  /\ admitted \subseteq Requests
  /\ cancelled \subseteq Pipelines
  /\ faults \in 0..MaxFaults

Init ==
  /\ row = [i \in Ids |-> AbsentRow]
  /\ work = [c \in Consumers |-> Idle]
  /\ dog = [w \in Watchdogs |-> Continue({})]
  /\ minted = 0
  /\ admitted = {}
  /\ cancelled = {}
  /\ faults = 0

Fault == faults < MaxFaults /\ faults' = faults + 1

-----------------------------------------------------------------------------
(* Routes.                                                                 *)

\* A route checks that the pipeline is not terminal, and will enqueue next.
Admit(k) ==
  /\ PipelineOf[k] \notin cancelled
  /\ admitted' = admitted \cup {[key |-> <<"root", k, 0>>, root |-> k, parent |-> NoRow]}
  /\ UNCHANGED <<row, work, dog, minted, cancelled, faults>>

LatestFailedDispatch(p) ==
  LET failed == {i \in Ids : /\ row[i].status \in {"failed", "timed_out"}
                             /\ KindOf[row[i].root] = "operator_dispatch"
                             /\ PipelineOf[row[i].root] = p}
  IN  {i \in failed : \A j \in failed : j <= i}

\* The redispatch route: the latest failed dispatch of a live pipeline.
AdmitRedispatch(p) ==
  /\ p \notin cancelled
  /\ \E i \in LatestFailedDispatch(p) :
       admitted' = admitted \cup
         {[key |-> <<"redispatch", i, 0>>, root |-> row[i].root, parent |-> i]}
  /\ UNCHANGED <<row, work, dog, minted, cancelled, faults>>

Enqueue(request) ==
  /\ ~HasKey(request.key)
  /\ Insert(request.key, request.root, request.parent, TRUE)
  /\ UNCHANGED <<work, dog, minted, admitted, cancelled, faults>>

\* Inserting the pipeline_cancelled event fires the propagation trigger.  A
\* cancel route that read the status before another cancelled inserts it again.
CancelPipeline(p) ==
  /\ cancelled' = cancelled \cup {p}
  /\ row' = [i \in Ids |->
               IF row[i].status \in Open /\ PipelineOf[row[i].root] = p
               THEN Closed(row[i], "cancelled", "pipeline_cancelled")
               ELSE row[i]]
  /\ UNCHANGED <<work, dog, minted, admitted, faults>>

\* The admin cancel: neither the token nor the status is checked.
CancelItem(i) ==
  /\ row[i].status # "absent"
  /\ row' = [row EXCEPT ![i] = Closed(@, "cancelled", "user_cancelled")]
  /\ UNCHANGED <<work, dog, minted, admitted, cancelled, faults>>

-----------------------------------------------------------------------------
(* Consumers.                                                              *)

\* Mutants: a claimed row is served again, with the token it had; a stale row
\* is taken over by a claim instead of being rotated.
TakeRowAgain(c, i) ==
  /\ row[i].status \in {"queued", "claimed"}
  /\ row[i].due
  /\ KindOf[row[i].root] = Drains[c]
  /\ UNCHANGED minted
  /\ row' = [row EXCEPT ![i].status = "claimed", ![i].token = minted + 1,
                        ![i].owner = c]

TakeStaleRow(c, i) ==
  /\ row[i].status = "queued" \/ row[i].stale
  /\ row[i].due
  /\ KindOf[row[i].root] = Drains[c]
  /\ minted' = minted + 1
  /\ row' = [row EXCEPT ![i].status = "claimed", ![i].token = minted + 1,
                        ![i].owner = c, ![i].attempt = @ + 1, ![i].stale = FALSE]

\* The claim_work_item function: a due queued row, locked, with a new token.
TakeRow(c, i) ==
  /\ row[i].status = "queued"
  /\ row[i].due
  /\ KindOf[row[i].root] = Drains[c]
  /\ minted' = minted + 1
  /\ row' = [row EXCEPT ![i].status = "claimed", ![i].token = minted + 1,
                        ![i].owner = c, ![i].attempt = @ + 1]

Claim(c, i) ==
  /\ work[c].pc = "idle"
  /\ TakeRow(c, i)
  /\ work' = [work EXCEPT ![c] =
       [pc |-> IF Drains[c] = "worker_stage" THEN "starting" ELSE "working",
        item |-> i, token |-> minted + 1]]
  /\ UNCHANGED <<dog, admitted, cancelled, faults>>

\* The claim committed and its response was lost: nobody holds the row.
ClaimLost(c, i) ==
  /\ work[c].pc = "idle"
  /\ TakeRow(c, i)
  /\ Fault
  /\ UNCHANGED <<work, dog, admitted, cancelled>>

\* A heartbeat that still holds the claim.  The worker's first one, made
\* before it calls the handler, is the one that takes it to "working".
Heartbeat(c) ==
  /\ Drains[c] # "outbox"
  /\ work[c].pc \in {"starting", "working"}
  /\ HoldsClaim(c)
  /\ row' = [row EXCEPT ![work[c].item].status = "running",
                        ![work[c].item].beat = TRUE,
                        ![work[c].item].stale = FALSE]
  /\ work' = [work EXCEPT ![c].pc = "working"]
  /\ UNCHANGED <<dog, minted, admitted, cancelled, faults>>

\* A heartbeat that matched no row.  The daemon cancels its work and the
\* worker gives up before the handler; a handler of the worker that already
\* runs is left running.
HeartbeatRotated(c) ==
  /\ Drains[c] # "outbox"
  /\ work[c].pc \in {"starting", "working"}
  /\ ~HoldsClaim(c)
  /\ work' = [work EXCEPT ![c] =
       IF Drains[c] = "worker_stage" /\ @.pc = "working"
       THEN [@ EXCEPT !.pc = "rotated"]
       ELSE Idle]
  /\ UNCHANGED <<row, dog, minted, admitted, cancelled, faults>>

\* The handler returned; the completing UPDATE is scoped to the token.
Complete(c) ==
  /\ work[c].pc = "working"
  /\ UpdateIfToken(work[c].item, work[c].token,
       Closed(row[work[c].item], "completed", row[work[c].item].error))
  /\ work' = [work EXCEPT ![c] = Idle]
  /\ UNCHANGED <<dog, minted, admitted, cancelled, faults>>

\* The handler failed, or the process was asked to stop, and the row is
\* closed as failed.  The outbox drain never does this: see Abandon.
Fail(c, error) ==
  /\ Drains[c] # "outbox"
  /\ work[c].pc = "working"
  /\ UpdateIfToken(work[c].item, work[c].token,
       Closed(row[work[c].item], "failed", error))
  /\ work' = [work EXCEPT ![c] = Idle]
  /\ UNCHANGED <<dog, minted, admitted, cancelled, faults>>

\* The daemon on SIGTERM.
Shutdown(c) == Drains[c] = "operator_dispatch" /\ Fail(c, "consumer_shutdown")

\* The worker's handler returns after its claim was rotated: no write.
DropRotated(c) ==
  /\ work[c].pc = "rotated"
  /\ work' = [work EXCEPT ![c] = Idle]
  /\ UNCHANGED <<row, dog, minted, admitted, cancelled, faults>>

\* The process dies and restarts, or its closing call is lost, or an outbox
\* handler raises: the consumer moves on and the row stays held.
Abandon(c) ==
  /\ work[c].pc # "idle"
  /\ Fault
  /\ work' = [work EXCEPT ![c] = Idle]
  /\ UNCHANGED <<row, dog, minted, admitted, cancelled>>

-----------------------------------------------------------------------------
(* Time.                                                                   *)

\* The threshold passes with no heartbeat.  While a consumer is at work on
\* the row this takes a fault: a stall, a slow handler, a lost heartbeat.
HeartbeatAges(i) ==
  /\ row[i].status \in Held
  /\ ~row[i].stale
  /\ row' = [row EXCEPT ![i].stale = TRUE]
  /\ IF \E c \in Consumers : HoldsClaim(c) /\ work[c].item = i
     THEN Fault
     ELSE UNCHANGED faults
  /\ UNCHANGED <<work, dog, minted, admitted, cancelled>>

BackoffElapses(i) ==
  /\ row[i].status = "queued"
  /\ ~row[i].due
  /\ row' = [row EXCEPT ![i].due = TRUE]
  /\ UNCHANGED <<work, dog, minted, admitted, cancelled, faults>>

-----------------------------------------------------------------------------
(* The watchdog.                                                           *)

\* Mutant: a row that was claimed and never heartbeated is not swept.
StuckRunning == {i \in Ids : row[i].status = "running" /\ row[i].stale}

Stuck == {i \in Ids : row[i].status \in Held /\ row[i].stale}

Smaller(m, n) == IF m <= n THEN m ELSE n

\* One SELECT of the held rows, filtered and cut to the pass's limit.
Select(w) ==
  /\ dog[w].pc = "asleep"
  /\ Stuck # {}
  /\ \E batch \in SUBSET Stuck :
       /\ Cardinality(batch) = Smaller(Cardinality(Stuck), MaxPerPass)
       /\ dog' = [dog EXCEPT ![w] = Continue(
            {[item |-> i, token |-> row[i].token, attempt |-> row[i].attempt] : i \in batch})]
  /\ UNCHANGED <<row, work, minted, admitted, cancelled, faults>>

\* Mutant: the retry is enqueued and the row left open.
TimeOutWithoutUpdate(w) ==
  /\ dog[w].pc = "sweeping"
  /\ \E s \in dog[w].todo :
       /\ s.attempt < MaxAttempts
       /\ dog' = [dog EXCEPT ![w] =
            [pc |-> "requeueing", todo |-> @.todo \ {s}, current |-> s]]
  /\ UNCHANGED <<row, work, minted, admitted, cancelled, faults>>

\* attempt < max_attempts: time the row out, and go on to enqueue a retry
\* whether or not the UPDATE matched a row.
TimeOut(w) ==
  /\ dog[w].pc = "sweeping"
  /\ \E s \in dog[w].todo :
       /\ s.attempt < MaxAttempts
       /\ UpdateIfToken(s.item, s.token,
            Closed(row[s.item], "timed_out", "heartbeat_stale"))
       /\ dog' = [dog EXCEPT ![w] =
            [pc |-> "requeueing", todo |-> @.todo \ {s}, current |-> s]]
  /\ UNCHANGED <<work, minted, admitted, cancelled, faults>>

\* attempt >= max_attempts: dead-letter the row.
DeadLetter(w) ==
  /\ dog[w].pc = "sweeping"
  /\ \E s \in dog[w].todo :
       /\ s.attempt >= MaxAttempts
       /\ UpdateIfToken(s.item, s.token,
            Closed(row[s.item], "failed", "max_attempts_exceeded"))
       /\ dog' = [dog EXCEPT ![w] = Continue(@.todo \ {s})]
  /\ UNCHANGED <<work, minted, admitted, cancelled, faults>>

\* Mutant: the retry under the key of the row it retries.
RequeueSameKey(w) ==
  /\ dog[w].pc = "requeueing"
  /\ LET s == dog[w].current
     IN  Insert(row[s.item].key, row[s.item].root, s.item, FALSE)
  /\ dog' = [dog EXCEPT ![w] = Continue(@.todo)]
  /\ UNCHANGED <<work, minted, admitted, cancelled, faults>>

\* Enqueue the retry: a new row, a key of its own, due after the backoff.
Requeue(w) ==
  /\ dog[w].pc = "requeueing"
  /\ LET s == dog[w].current
     IN  Insert(<<"retry", s.item, s.attempt + 1>>, row[s.item].root, s.item, FALSE)
  /\ dog' = [dog EXCEPT ![w] = Continue(@.todo)]
  /\ UNCHANGED <<work, minted, admitted, cancelled, faults>>

\* An UPDATE or an enqueue raised: logged, and the pass goes on to the next row.
SkipBadRow(w) ==
  /\ WatchdogMayFail
  /\ Fault
  /\ \/ /\ dog[w].pc = "sweeping"
        /\ \E s \in dog[w].todo : dog' = [dog EXCEPT ![w] = Continue(@.todo \ {s})]
     \/ /\ dog[w].pc = "requeueing"
        /\ dog' = [dog EXCEPT ![w] = Continue(@.todo)]
  /\ UNCHANGED <<row, work, minted, admitted, cancelled>>

\* The worker process dies in the middle of a pass.
WatchdogCrash(w) ==
  /\ WatchdogMayFail
  /\ dog[w].pc # "asleep"
  /\ Fault
  /\ dog' = [dog EXCEPT ![w] = Continue({})]
  /\ UNCHANGED <<row, work, minted, admitted, cancelled>>

-----------------------------------------------------------------------------

RouteStep ==
  \/ \E k \in Roots : Admit(k)
  \/ \E p \in Redispatchable : AdmitRedispatch(p)
  \/ \E request \in admitted : Enqueue(request)
  \/ \E p \in Pipelines : CancelPipeline(p)
  \/ \E i \in Ids : CancelItem(i)

ConsumerStep(c) ==
  \/ \E i \in Ids : Claim(c, i) \/ ClaimLost(c, i)
  \/ Heartbeat(c)
  \/ HeartbeatRotated(c)
  \/ Complete(c)
  \/ Fail(c, "handler_error")
  \/ Shutdown(c)
  \/ DropRotated(c)
  \/ Abandon(c)

TimeStep == \E i \in Ids : HeartbeatAges(i) \/ BackoffElapses(i)

\* The steps of a pass that its loop always takes.
Sweep(w) == Select(w) \/ TimeOut(w) \/ DeadLetter(w) \/ Requeue(w)

WatchdogStep(w) == Sweep(w) \/ SkipBadRow(w) \/ WatchdogCrash(w)

Next ==
  \/ RouteStep
  \/ \E c \in Consumers : ConsumerStep(c)
  \/ TimeStep
  \/ \E w \in Watchdogs : WatchdogStep(w)

Spec == Init /\ [][Next]_vars

\* The poll loops of the consumers, a handler that returns (each kind bounds
\* its own run), the watchdog interval loop, and time.
Fairness ==
  /\ \A c \in Consumers :
       /\ WF_vars(\E i \in Ids : Claim(c, i))
       /\ WF_vars(work[c].pc = "starting" /\ (Heartbeat(c) \/ HeartbeatRotated(c)))
       /\ WF_vars(Complete(c) \/ Fail(c, "handler_error") \/ DropRotated(c))
  /\ \A w \in Watchdogs : WF_vars(Sweep(w))
  /\ \A i \in Ids : WF_vars(HeartbeatAges(i) \/ BackoffElapses(i))

FairSpec == Spec /\ Fairness

-----------------------------------------------------------------------------
(* Safety.                                                                 *)

\* The CHECK constraints of migration 0050 as the writers meet them: a row
\* has a token and an owner exactly while it is claimed or running, a running
\* row has heartbeated, and a failed or timed-out row names what broke.  A
\* writer that forgot one would have its UPDATE rejected and lose the step.
DbChecksHold ==
  \A i \in Ids : LET r == row[i] IN
    /\ (r.status \in Held) <=> (r.token # NoToken)
    /\ (r.status \in Held) <=> (r.owner # NoOne)
    /\ (r.status = "running") => r.beat
    /\ (r.status \in {"failed", "timed_out"}) => r.error # "none"

\* The single-writer claim (0050): no two consumers hold a token that still
\* matches one row, whatever crashes, lost claims and rotations came before.
SingleWriter ==
  \A c, d \in Consumers :
    (HoldsClaim(c) /\ HoldsClaim(d) /\ work[c].item = work[d].item) => c = d

\* A retry or a redispatch never exists beside a parent that is still open:
\* the watchdog and the redispatch route only chain from closed rows.
ParentClosed ==
  \A i \in Ids : row[i].parent # NoRow => row[row[i].parent].status \in Terminal

\* Two watchdogs that sweep the same stuck row enqueue one retry between
\* them: the idempotency key of the retry is that of the row and its attempt.
OneRetryPerRow ==
  \A i, j \in Ids :
    (i # j /\ row[i].key[1] = "retry" /\ row[j].key[1] = "retry")
      => row[i].parent # row[j].parent

\* Without redispatch, a piece of work has at most one open row: retries
\* follow each other, they do not fan out.
OneOpenRowPerRoot ==
  \A i, j \in Ids :
    (i # j /\ row[i].status \in Open /\ row[j].status \in Open)
      => row[i].root # row[j].root

\* The branch of the watchdog that dead-letters a row is never taken when it
\* allows two attempts or more: a retry row starts again at attempt 0.
NeverDeadLettered ==
  MaxAttempts >= 2 => \A i \in Ids : row[i].error # "max_attempts_exceeded"

\* The queue implements its ledger: a row is added once, taken by at most one
\* consumer, completed only while its claim is live, and never reopened.
Phase(status) ==
  CASE status = "absent"    -> "none"
    [] status = "queued"    -> "waiting"
    [] status \in Held      -> "taken"
    [] status = "completed" -> "completed"
    [] OTHER                -> "closed"

Ledger == INSTANCE WorkLedger WITH
  phase  <- [i \in Ids |-> Phase(row[i].status)],
  holder <- [i \in Ids |-> row[i].owner]

\* Every step of the queue is a step of the ledger or leaves it unchanged.
ImplementsLedger == Ledger!Spec

-----------------------------------------------------------------------------
(* What the code's own comments promise.                                   *)

\* scheduler.py: the attempt is carried forward and a row is dead-lettered at
\* max_attempts, so a piece of work is tried at most MaxAttempts times.
RetryBudget ==
  \A k \in Roots : Cardinality({i \in Ids : row[i].root = k}) <= MaxAttempts

\* scheduler.py: an UPDATE that matches no row means the consumer completed
\* the work in between, "and the row is no longer stuck": nothing is retried.
NoRetryOfCompletedWork ==
  \A i \in Ids : row[i].key[1] = "retry" => row[row[i].parent].status # "completed"

\* scheduler.py: a row heartbeated between the SELECT and the UPDATE is not
\* rotated.
RotatedOnlyWhenStale ==
  [][\A i \in Ids :
       (row'[i].error = "heartbeat_stale" /\ row[i].error # "heartbeat_stale")
         => row[i].stale]_vars

\* redispatch/route.ts: a cancelled pipeline's queue is empty by definition.
CancelledQueueEmpty ==
  \A i \in Ids : row[i].status \in Open => PipelineOf[row[i].root] \notin cancelled

\* Row i has a successor, or was cancelled and needs none.
Followed(i) ==
  \/ \E j \in Ids : row[j].parent = i
  \/ row[i].status = "cancelled"
  \/ row[i].root # NoRoot /\ PipelineOf[row[i].root] \in cancelled

\* daemon.py: SIGTERM marks the row failed "so the watchdog requeues it".
ShutdownIsRequeued ==
  \A i \in Ids : row[i].error = "consumer_shutdown" ~> Followed(i)

-----------------------------------------------------------------------------
(* Liveness.                                                               *)

\* Every enqueued row is closed: claimed and finished, or rotated by the
\* watchdog after its consumer died, lost the claim or abandoned it.
EveryRowCloses ==
  \A i \in Ids : row[i].status = "queued" ~> row[i].status \in Terminal

\* A row the watchdog times out gets its retry.
TimedOutIsRequeued ==
  \A i \in Ids : row[i].error = "heartbeat_stale" ~> Followed(i)
=============================================================================
