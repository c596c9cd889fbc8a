------------------------------ MODULE KieRenders ------------------------------
(***************************************************************************)
(* Video renders bought from kie.  The request that submits a render polls *)
(* for it until it is done; a queued work_item records the render, so that *)
(* the reconcile sweep of the scheduler resolves it if the request does    *)
(* not live to see the end.  A render submitted with a callback is also    *)
(* resolved by kie's posts to the worker.                                  *)
(*                                                                         *)
(* All three download the clip into one pool on disk, a file and a sidecar *)
(* named by the hash of the content; the sweep and the callback then close *)
(* the row.  A task <<"live", r, 1>> is the request of render r, a task    *)
(* <<"sweep", r, 1>> its turn in a pass, <<"callback", r, n>> a post.      *)
(***************************************************************************)
EXTENDS Naturals, FiniteSets

CONSTANTS
  Renders,
  Armed,         \* the renders submitted with a callback
  PerPass,       \* scheduler_kie_reconcile_max_per_pass
  MaxPosts,      \* bound: callbacks kie posts for a render, with its retries
  MaxKieFaults   \* bound: lost answers, failed calls, worker restarts

ASSUME KieAssumption ==
  /\ IsFiniteSet(Renders)
  /\ Armed \subseteq Renders
  /\ PerPass \in Nat \ {0}
  /\ MaxPosts \in Nat
  /\ MaxKieFaults \in Nat

VARIABLES
  vendor,    \* the render at kie: done with a clip, done without a URL, failed
  render,    \* its work_item
  born,      \* the order in which the work_items were inserted, 0 if none
  task,      \* where each task stands
  todo,      \* the rows the running pass has left
  clip,      \* the file of the clip in the pool
  sidecar,   \* whether the metadata of the clip are written
  kieFaults

kieVars == <<vendor, render, born, task, todo, clip, sidecar, kieFaults>>

Live(r) == <<"live", r, 1>>
TurnOf(r) == <<"sweep", r, 1>>
Post(r, n) == <<"callback", r, n>>
Tasks == {Live(r) : r \in Renders} \cup {TurnOf(r) : r \in Renders}
           \cup ({"callback"} \X Armed \X (1..MaxPosts))
Done == {"success", "empty", "failed"}

KieInit ==
  /\ vendor = [r \in Renders |-> "none"]
  /\ render = [r \in Renders |-> "none"]
  /\ born = [r \in Renders |-> 0]
  /\ task = [t \in Tasks |-> "off"]
  /\ todo = {}
  /\ clip = [r \in Renders |-> "none"]
  /\ sidecar = [r \in Renders |-> FALSE]
  /\ kieFaults = 0

KieFault == kieFaults < MaxKieFaults /\ kieFaults' = kieFaults + 1
Moves(t, pc) == task' = [task EXCEPT ![t] = pc]

\* Mutant: a close touches any row.
CloseAnyAs(r, status) == render' = [render EXCEPT ![r] = status]

\* A close touches only a row that is open.
CloseAs(r, status) ==
  render' = [render EXCEPT ![r] = IF @ = "queued" THEN status ELSE @]

-----------------------------------------------------------------------------
(* The request.                                                            *)

\* kie takes the order and the row is inserted; or the insert fails, which is
\* ignored; or kie's answer is lost, and nobody knows the render.
Submit(r) ==
  /\ task[Live(r)] = "off"
  /\ vendor' = [vendor EXCEPT ![r] = "pending"]
  /\ \/ /\ render' = [render EXCEPT ![r] = "queued"]
        /\ born' = [born EXCEPT ![r] = 1 + Cardinality({q \in Renders : born[q] > 0})]
        /\ Moves(Live(r), "polling")
        /\ UNCHANGED kieFaults
     \/ /\ KieFault
        /\ \E pc \in {"polling", "over"} : Moves(Live(r), pc)
        /\ UNCHANGED <<render, born>>
  /\ UNCHANGED <<todo, clip, sidecar>>

RenderEnds(r) ==
  /\ vendor[r] = "pending"
  /\ \E end \in Done : vendor' = [vendor EXCEPT ![r] = end]
  /\ UNCHANGED <<render, born, task, todo, clip, sidecar, kieFaults>>

\* A poll finds the clip, or an end without one; a failed call and the last
\* of the attempts are an error too.  None of this touches the row.
LivePoll(r) ==
  /\ task[Live(r)] = "polling"
  /\ \/ vendor[r] = "success" /\ Moves(Live(r), "fetching")
     \/ vendor[r] # "success" /\ Moves(Live(r), "over")
  /\ UNCHANGED <<vendor, render, born, todo, clip, sidecar, kieFaults>>

-----------------------------------------------------------------------------
(* The pool.                                                               *)

\* A task of the sweep gives way to the next row, any other is over.
Ends(t) ==
  /\ Moves(t, IF t[1] = "sweep" THEN "off" ELSE "over")
  /\ todo' = IF t[1] = "sweep" THEN todo \ {t[2]} ELSE todo

\* The clip is downloaded, and its file created unless there is one.
Fetch(t) ==
  /\ task[t] = "fetching"
  /\ IF clip[t[2]] = "none"
       THEN clip' = [clip EXCEPT ![t[2]] = "partial"] /\ Moves(t, "writing")
       ELSE Moves(t, "describing") /\ UNCHANGED clip
  /\ UNCHANGED <<vendor, render, born, todo, sidecar, kieFaults>>

FetchFails(t) ==
  /\ task[t] = "fetching"
  /\ KieFault
  /\ Ends(t)
  /\ UNCHANGED <<vendor, render, born, clip, sidecar>>

Write(t) ==
  /\ task[t] = "writing"
  /\ clip' = [clip EXCEPT ![t[2]] = "whole"]
  /\ Moves(t, "describing")
  /\ UNCHANGED <<vendor, render, born, todo, sidecar, kieFaults>>

\* Mutant: the sidecar is left to the request.
DescribeLive(t) ==
  /\ task[t] = "describing"
  /\ sidecar' = [sidecar EXCEPT ![t[2]] = @ \/ t[1] = "live"]
  /\ Moves(t, IF t[1] = "live" THEN "over" ELSE "closing")
  /\ UNCHANGED <<vendor, render, born, todo, clip, kieFaults>>

\* The sidecar is written over; the request is done then, the others close
\* the row next.
Describe(t) ==
  /\ task[t] = "describing"
  /\ sidecar' = [sidecar EXCEPT ![t[2]] = TRUE]
  /\ Moves(t, IF t[1] = "live" THEN "over" ELSE "closing")
  /\ UNCHANGED <<vendor, render, born, todo, clip, kieFaults>>

\* A failed close is ignored.
MarkCompleted(t) ==
  /\ task[t] = "closing"
  /\ \/ CloseAs(t[2], "completed") /\ UNCHANGED kieFaults
     \/ KieFault /\ UNCHANGED render
  /\ Ends(t)
  /\ UNCHANGED <<vendor, born, clip, sidecar>>

PoolStep(t) == Fetch(t) \/ Write(t) \/ Describe(t) \/ MarkCompleted(t)

-----------------------------------------------------------------------------
(* The sweep.                                                              *)

\* Mutant: the sweep skips the renders that have a callback.
OpenUnarmed == {r \in Renders \ Armed : render[r] = "queued"}

Open == {r \in Renders : render[r] = "queued"}
OlderIn(S, r) == {q \in S : born[q] < born[r]}

\* A pass reads the oldest open rows.  It does not look at next_attempt_at.
SweepStart ==
  /\ todo = {}
  /\ Open # {}
  /\ todo' = {r \in Open : Cardinality(OlderIn(Open, r)) < PerPass}
  /\ UNCHANGED <<vendor, render, born, task, clip, sidecar, kieFaults>>

\* The pass takes its rows in order, one after the other.
InTurn(r) == r \in todo /\ OlderIn(todo, r) = {} /\ task[TurnOf(r)] = "off"

\* The probe of the next row: failed is a verdict; a clip is fetched; a render
\* still pending, or done without a URL to fetch, waits for another pass.
Probe(r) ==
  /\ InTurn(r)
  /\ \/ vendor[r] = "failed" /\ CloseAs(r, "failed") /\ todo' = todo \ {r} /\ UNCHANGED task
     \/ vendor[r] = "success" /\ Moves(TurnOf(r), "fetching") /\ UNCHANGED <<render, todo>>
     \/ vendor[r] \in {"pending", "empty"} /\ todo' = todo \ {r} /\ UNCHANGED <<render, task>>
  /\ UNCHANGED <<vendor, born, clip, sidecar, kieFaults>>

\* The probe or the close of a failed render fails: the row waits.
ProbeErrs(r) ==
  /\ InTurn(r)
  /\ KieFault
  /\ todo' = todo \ {r}
  /\ UNCHANGED <<vendor, render, born, task, clip, sidecar>>

-----------------------------------------------------------------------------
(* The callback, the admin cancel and the restart.                         *)

\* kie posts the end of a render: refused when the render is not recorded, a
\* no-op when its row is closed, an error when it has no URL.
Callback(r, n) ==
  LET t == Post(r, n) IN
  /\ task[t] = "off"
  /\ vendor[r] \in Done
  /\ \/ /\ render[r] # "queued" \/ vendor[r] = "empty"
        /\ Moves(t, "over")
        /\ UNCHANGED render
     \/ /\ render[r] = "queued"
        /\ vendor[r] = "failed"
        /\ CloseAs(r, "failed")
        /\ Moves(t, "over")
     \/ /\ render[r] = "queued"
        /\ vendor[r] = "success"
        /\ Moves(t, "fetching")
        /\ UNCHANGED render
  /\ UNCHANGED <<vendor, born, todo, clip, sidecar, kieFaults>>

\* The admin cancel checks no status: it replaces a verdict too.
CancelRender(r) ==
  /\ render[r] # "none"
  /\ render' = [render EXCEPT ![r] = "cancelled"]
  /\ UNCHANGED <<vendor, born, task, todo, clip, sidecar, kieFaults>>

\* The worker restarts: requests, posts and the pass are gone; what is on
\* disk stays as it is.
KieRestart ==
  /\ KieFault
  /\ task' = [t \in Tasks |-> CASE t[1] = "sweep"   -> "off"
                                [] task[t] = "off" -> "off"
                                [] OTHER           -> "over"]
  /\ todo' = {}
  /\ UNCHANGED <<vendor, render, born, clip, sidecar>>

-----------------------------------------------------------------------------
KieNext ==
  \/ \E r \in Renders : Submit(r) \/ RenderEnds(r) \/ LivePoll(r) \/ CancelRender(r)
                      \/ Probe(r) \/ ProbeErrs(r)
  \/ \E t \in Tasks : PoolStep(t) \/ FetchFails(t)
  \/ \E r \in Armed, n \in 1..MaxPosts : Callback(r, n)
  \/ SweepStart \/ KieRestart

KieSpec == KieInit /\ [][KieNext]_kieVars

\* The scheduler repeats the pass, the tasks it starts go on, and kie ends the
\* renders it took.
KieFairness ==
  /\ \A r \in Renders : WF_kieVars(RenderEnds(r))
  /\ WF_kieVars(SweepStart)
  /\ WF_kieVars(\E r \in Renders : Probe(r))
  /\ \A t \in Tasks : WF_kieVars(PoolStep(t))

-----------------------------------------------------------------------------
(* Properties.                                                             *)

KieTypeOK ==
  /\ vendor \in [Renders -> {"none", "pending"} \cup Done]
  /\ render \in [Renders -> {"none", "queued", "completed", "failed", "cancelled"}]
  /\ born \in [Renders -> Nat]
  /\ task \in [Tasks -> {"off", "polling", "fetching", "writing", "describing",
                         "closing", "over"}]
  /\ todo \in SUBSET Renders
  /\ clip \in [Renders -> {"none", "partial", "whole"}]
  /\ sidecar \in [Renders -> BOOLEAN]
  /\ kieFaults \in 0..MaxKieFaults

\* A render is reported as completed only when its clip is in the pool, with
\* its metadata; and the file is whole, unless another task is writing it
\* still or a fault struck: a file that a crash left half written is taken for
\* the clip ever after.
CompletedHasClip ==
  \A r \in Renders : render[r] = "completed" =>
    /\ sidecar[r]
    /\ \/ clip[r] = "whole"
       \/ clip[r] = "partial" /\ \/ kieFaults > 0
                                 \/ \E t \in Tasks : t[2] = r /\ task[t] = "writing"

\* The sweep, the posts and an admin cancel race for a row: the first verdict
\* stands, but for a cancel, which is never undone; and a verdict does not
\* contradict what kie said of the render.
Verdict ==
  \A r \in Renders :
    /\ render[r] \in {"completed", "failed", "cancelled"} =>
         render'[r] \in {render[r], "cancelled"}
    /\ render'[r] = "completed" => vendor[r] = "success"
    /\ render'[r] = "failed" => vendor[r] = "failed"

VerdictStands == [][Verdict]_render

\* The rows that no pass will ever close: done, without a URL.
Stuck == {r \in Renders : render[r] = "queued" /\ vendor[r] = "empty"}

\* A render that was recorded is resolved, whatever became of its request and
\* its posts, as long as the rows no pass can close leave room in a pass.
EveryRenderResolved ==
  \A r \in Renders :
    render[r] = "queued" /\ vendor[r] \in {"success", "failed"} ~>
      render[r] # "queued" \/ Cardinality(Stuck) >= PerPass
=============================================================================
