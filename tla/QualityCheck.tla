---------------------------- MODULE QualityCheck ----------------------------
(***************************************************************************)
(* The quality check of the finals of one pipeline, from the close of the  *)
(* generation stage on.  The trigger that closes the stage seeds a row per *)
(* creative; qa_run judges a batch of creatives one after the other, adds  *)
(* an attempt to qa_result and then writes the row.  The handler of        *)
(* worker_qa calls it for what has not passed, the operator and the        *)
(* manager call it as they like, and a call may overlap another one.       *)
(*                                                                         *)
(* A call to the database is one step, as if each call had a process of the*)
(* worker of its own; within one process it yields only while a video is   *)
(* probed.  No creative is killed or archived.                             *)
(***************************************************************************)
EXTENDS Naturals, Sequences, FiniteSets

CONSTANTS
  Images, Videos,
  Order,       \* the creatives in the order the queries return them
  Runs,        \* bound: calls of qa_run
  CallerOf,    \* who makes each call; a handler's call is one try of its row
  MaxRenders,  \* bound: finals stored again
  MaxDeaths    \* bound: calls killed between two steps or by a failing query

Creatives == Images \cup Videos
Assets    == {"good", "poor", "broken"}
Verdicts  == {"pass", "fail", "needs_review"}
States    == {"none", "pending", "passed", "failed", "skipped"}

ASSUME QualityAssumption ==
  /\ Images \cap Videos = {}
  /\ Order \in Seq(Creatives)
  /\ CallerOf \in [Runs -> {"handler", "operator", "manager"}]
  /\ MaxRenders \in Nat
  /\ MaxDeaths \in Nat

VARIABLES
  asset,    \* the file of each creative, as the check would find it
  film,     \* how far the render of each video is
  seeded,   \* creatives given a pending row at the close of generation
  gate,     \* creative_stage_state of creative_qa, "none" without a row
  log,      \* the attempts in qa_result, per creative
  call,     \* the calls of qa_run
  rotated,  \* handlers whose row the watchdog timed out
  raced,    \* creatives whose last attempt overlapped another or was cut off
  renders, deaths

finalVars   == <<asset, film, seeded, renders>>
qualityVars == <<finalVars, gate, log, call, rotated, raced, deaths>>

New == [at |-> "new"]
Working == {"judging", "counting", "adding", "looking", "writing"}

QualityInit ==
  /\ asset \in [Creatives -> Assets]
  /\ film \in [Videos -> {"rendering", "failed", "captioned"}]
  /\ seeded = {}
  /\ gate = [c \in Creatives |-> "none"]
  /\ log = [c \in Creatives |-> <<>>]
  /\ call = [r \in Runs |-> New]
  /\ rotated = {}
  /\ raced = {}
  /\ renders = 0
  /\ deaths = 0

InScope(c) == c \in Videos => film[c] = "captioned"
Cleared(s) == s \in {"passed", "skipped"}

\* _VERDICT_TO_STAGE_STATE
StateOf == [pass |-> "passed", fail |-> "failed", needs_review |-> "pending"]

-----------------------------------------------------------------------------
(* The close of generation and what is rendered after it.                  *)

\* The trigger: a video that failed is skipped, one that is still being
\* rendered gets no row.
Close ==
  /\ seeded = {}
  /\ \E c \in Creatives : InScope(c)
  /\ seeded' = {c \in Creatives : InScope(c)}
  /\ gate' = [c \in Creatives |->
                CASE InScope(c) -> "pending"
                  [] c \in Videos /\ film[c] = "failed" -> "skipped"
                  [] OTHER -> "none"]
  /\ UNCHANGED <<asset, film, renders, log, call, rotated, raced, deaths>>

\* A render that was under way, or is run again by hand, is captioned late.
CaptionLate(v) ==
  /\ seeded # {}
  /\ film[v] # "captioned"
  /\ film' = [film EXCEPT ![v] = "captioned"]
  /\ UNCHANGED <<asset, seeded, renders, gate, log, call, rotated, raced, deaths>>

\* A final stored again, or a video captioned again, replaces the file of its
\* creative.  Nothing tells the gate.
RenderAgain(c, a) ==
  /\ seeded # {}
  /\ renders < MaxRenders
  /\ a # asset[c]
  /\ renders' = renders + 1
  /\ asset' = [asset EXCEPT ![c] = a]
  /\ UNCHANGED <<film, seeded, gate, log, call, rotated, raced, deaths>>

-----------------------------------------------------------------------------
(* A call.                                                                 *)

Handlers == {r \in Runs : CallerOf[r] = "handler"}

\* Tries whose row was closed as failed, or would have been had it not timed out.
Failed   == {r \in Handlers : call[r].at = "over" /\ call[r].raised}

\* The handler of worker_qa reads the creatives in scope.  Another try follows
\* one that timed out; a row that is closed as failed is not retried.
HandlerStart(r) ==
  /\ r \in Handlers
  /\ seeded # {}
  /\ call[r] = New
  /\ Cardinality({q \in Handlers : call[q] # New}) <= Cardinality(rotated)
  /\ call' = [call EXCEPT ![r] =
                [at |-> "choosing", unread |-> SelectSeq(Order, InScope), items |-> <<>>]]
  /\ UNCHANGED <<finalVars, gate, log, rotated, raced, deaths>>

\* A handler that returns or raises leaves its row to be closed.
Ended(r, items, raised) ==
  [at |-> IF r \in Handlers THEN "closing" ELSE "over", items |-> items, raised |-> raised]

\* Mutant: a row that is there counts as done.

Seen(s) == s # "none"

\* _already_terminal_good
Done(s) == Cleared(s)

\* It asks for the row of each, and leaves out what is done.
HandlerChoose(r) ==
  /\ call[r].at = "choosing"
  /\ LET c == Head(call[r].unread)
         undone == IF Done(gate[c]) THEN call[r].items ELSE Append(call[r].items, c)
     IN  call' = [call EXCEPT
           ![r] = IF @.unread # <<>>
                    THEN [at |-> "choosing", unread |-> Tail(@.unread), items |-> undone]
                    ELSE IF @.items # <<>>
                           THEN [at |-> "judging", items |-> @.items]
                           ELSE Ended(r, <<>>, FALSE)]
  /\ UNCHANGED <<finalVars, gate, log, rotated, raced, deaths>>

\* The operator names creatives; the manager asks for one to be checked again.
OtherStart(r) ==
  /\ CallerOf[r] # "handler"
  /\ seeded # {}
  /\ call[r] = New
  /\ \E S \in SUBSET Creatives :
       /\ S # {}
       /\ CallerOf[r] = "manager" => Cardinality(S) = 1
       /\ call' = [call EXCEPT
            ![r] = [at |-> "judging", items |-> SelectSeq(Order, LAMBDA c : c \in S)]]
  /\ UNCHANGED <<finalVars, gate, log, rotated, raced, deaths>>

Item(r) == Head(call[r].items)
Busy(c) == {r \in Runs : call[r].at \in Working \ {"judging"} /\ Item(r) = c}

\* A raise ends the call, the items it did not come to included.
Raise(r) == call' = [call EXCEPT ![r] = Ended(r, @.items, TRUE)]

\* The verdict on a sound image rests on what the caller saw in it: the handler
\* supplies a pass, the manager nothing.
VerdictsOn(c, by) ==
  CASE asset[c] = "poor" -> {"fail"}
    [] c \in Videos \/ by = "handler" -> {"pass"}
    [] by = "manager" -> {"needs_review"}
    [] OTHER -> Verdicts

\* The file is fetched and judged; one that cannot be fetched or probed raises.
\* A video without captions may have a composed file to judge, or none.
Judge(r) ==
  /\ call[r].at = "judging"
  /\ LET c == Item(r)
     IN  \/ /\ asset[c] = "broken" \/ ~InScope(c)
            /\ Raise(r)
            /\ UNCHANGED raced
         \/ /\ asset[c] # "broken"
            /\ \E v \in VerdictsOn(c, CallerOf[r]) :
                 call' = [call EXCEPT ![r] = [at |-> "counting", items |-> @.items,
                                              verdict |-> v]]
            /\ raced' = IF Busy(c) = {} THEN raced \ {c} ELSE raced \cup {c}
  /\ UNCHANGED <<finalVars, gate, log, rotated, deaths>>

\* _persist_qa_result counts the attempts there are ...
Count(r) ==
  /\ call[r].at = "counting"
  /\ call' = [call EXCEPT ![r] = [at |-> "adding", items |-> @.items, verdict |-> @.verdict,
                                  number |-> Len(log[Item(r)]) + 1]]
  /\ UNCHANGED <<finalVars, gate, log, rotated, raced, deaths>>

\* ... and adds the next one, unless another call has done so.
Add(r) ==
  /\ call[r].at = "adding"
  /\ LET c == Item(r)
     IN  IF call[r].number <= Len(log[c])
           THEN Raise(r) /\ UNCHANGED log
           ELSE /\ log' = [log EXCEPT ![c] = Append(@, call[r].verdict)]
                /\ call' = [call EXCEPT ![r] = [at |-> "looking", items |-> @.items,
                                                verdict |-> @.verdict]]
  /\ UNCHANGED <<finalVars, gate, rotated, raced, deaths>>

\* _upsert_stage_state looks for the row ...
Look(r) ==
  /\ call[r].at = "looking"
  /\ call' = [call EXCEPT ![r] = [at |-> "writing", items |-> @.items, verdict |-> @.verdict,
                                  found |-> gate[Item(r)] # "none"]]
  /\ UNCHANGED <<finalVars, gate, log, rotated, raced, deaths>>

NextItem(r) ==
  call' = [call EXCEPT ![r] = IF Len(@.items) > 1
                                THEN [at |-> "judging", items |-> Tail(@.items)]
                                ELSE Ended(r, <<>>, FALSE)]

\* Mutants: a row that is there stays as it is; a manager's word passes.
WriteNew(r) ==
  /\ call[r].at = "writing"
  /\ LET c == Item(r)
     IN  gate' = [gate EXCEPT ![c] = IF @ = "none" THEN StateOf[call[r].verdict] ELSE @]
  /\ NextItem(r)
  /\ UNCHANGED <<finalVars, log, rotated, raced, deaths>>

WriteLenient(r) ==
  /\ call[r].at = "writing"
  /\ gate' = [gate EXCEPT ![Item(r)] = IF call[r].verdict = "fail" THEN "failed" ELSE "passed"]
  /\ NextItem(r)
  /\ UNCHANGED <<finalVars, log, rotated, raced, deaths>>

\* ... and updates it, or inserts one, which raises if there is one by now.
Write(r) ==
  /\ call[r].at = "writing"
  /\ LET c == Item(r)
     IN  IF call[r].found \/ gate[c] = "none"
           THEN gate' = [gate EXCEPT ![c] = StateOf[call[r].verdict]] /\ NextItem(r)
           ELSE UNCHANGED gate /\ Raise(r)
  /\ UNCHANGED <<finalVars, log, rotated, raced, deaths>>

\* _drain_one closes the row, as completed or as failed.
CloseRow(r) ==
  /\ call[r].at = "closing"
  /\ call' = [call EXCEPT ![r] = [at |-> "over", items |-> @.items, raised |-> @.raised]]
  /\ UNCHANGED <<finalVars, gate, log, rotated, raced, deaths>>

\* The watchdog times out the row of a handler that runs on, or left it held.
Rotate(r) ==
  /\ r \in Handlers \ rotated
  /\ call[r].at \in Working \cup {"choosing", "closing", "left"}
  /\ rotated' = rotated \cup {r}
  /\ UNCHANGED <<finalVars, gate, log, call, raced, deaths>>

\* The creative in hand when a call is cut off is one that no verdict settles.
CutOff(r) ==
  /\ deaths < MaxDeaths
  /\ deaths' = deaths + 1
  /\ raced' = IF call[r].at \in Working \ {"judging"} THEN raced \cup {Item(r)} ELSE raced
  /\ UNCHANGED <<finalVars, gate, log, rotated>>

\* A query fails, and the call with it.
QueryFails(r) ==
  /\ call[r].at \in Working \cup {"choosing"}
  /\ Raise(r)
  /\ CutOff(r)

\* The process is killed, or the query that closes the row fails: the row of a
\* handler stays held.
Die(r) ==
  /\ call[r].at \in Working \cup {"choosing", "closing"}
  /\ call' = [call EXCEPT ![r] = IF r \in Handlers THEN [at |-> "left"]
                                 ELSE Ended(r, @.items, TRUE)]
  /\ CutOff(r)

-----------------------------------------------------------------------------
StepOf(r) ==
  HandlerChoose(r) \/ Judge(r) \/ Count(r) \/ Add(r) \/ Look(r) \/ Write(r)
    \/ CloseRow(r)

QualityNext ==
  \/ Close
  \/ \E v \in Videos : CaptionLate(v)
  \/ \E c \in Creatives, a \in Assets : RenderAgain(c, a)
  \/ \E r \in Runs : HandlerStart(r) \/ OtherStart(r) \/ StepOf(r)
                     \/ Rotate(r) \/ QueryFails(r) \/ Die(r)

QualitySpec == QualityInit /\ [][QualityNext]_qualityVars

\* The drainer has the handler start, calls go on, and the watchdog comes to a
\* row that nobody heartbeats.
QualityFairness ==
  \A r \in Runs : /\ WF_qualityVars(HandlerStart(r)) /\ WF_qualityVars(StepOf(r))
                  /\ WF_qualityVars(call[r].at = "left" /\ Rotate(r))

-----------------------------------------------------------------------------
(* Properties.                                                             *)

Calls ==
  {New} \cup
  [at : {"choosing"}, unread : Seq(Creatives), items : Seq(Creatives)] \cup
  [at : {"judging"}, items : Seq(Creatives)] \cup
  [at : {"counting", "looking"}, items : Seq(Creatives), verdict : Verdicts] \cup
  [at : {"adding"}, items : Seq(Creatives), verdict : Verdicts, number : Nat] \cup
  [at : {"writing"}, items : Seq(Creatives), verdict : Verdicts, found : BOOLEAN] \cup
  [at : {"closing", "over"}, items : Seq(Creatives), raised : BOOLEAN] \cup
  [at : {"left"}]

QualityTypeOK ==
  /\ asset \in [Creatives -> Assets]
  /\ film \in [Videos -> {"rendering", "failed", "captioned"}]
  /\ seeded \in SUBSET Creatives
  /\ gate \in [Creatives -> States]
  /\ log \in [Creatives -> Seq(Verdicts)]
  /\ call \in [Runs -> Calls]
  /\ rotated \in SUBSET Handlers
  /\ raced \in SUBSET Creatives
  /\ renders \in 0..MaxRenders
  /\ deaths \in 0..MaxDeaths

\* The gate of the stage opens only over creatives with a passing attempt in
\* the evidence, whichever calls wrote their rows, died or overlapped; but for
\* videos that were not finished when generation closed.
GateOpen ==
  /\ \E c \in Creatives : gate[c] # "none"
  /\ \A c \in Creatives : Cleared(gate[c]) \/ gate[c] = "none"

OpenGateIsJudged ==
  GateOpen => \A c \in seeded : \E n \in DOMAIN log[c] : log[c][n] = "pass"

\* 0021_rebuild_evidence.sql: the latest attempt drives the row, as long as no
\* two calls had the creative in hand at a time and none was cut off there.
LatestAttemptDrives ==
  \A c \in Creatives \ raced :
    log[c] # <<>> /\ Busy(c) = {} => gate[c] = StateOf[log[c][Len(log[c])]]

\* Each creative that was seeded is judged, whichever handlers are killed or
\* timed out on the way, unless a handler raised while the row was still its
\* own (the row is then failed for good), or every try the bound allows for
\* timed out.
EverySeededJudged ==
  \A c \in Creatives :
    c \in seeded ~> \/ log[c] # <<>>
                    \/ Failed \ rotated # {}
                    \/ Handlers \subseteq rotated

\* worker_stage_consumer.py: a handler that raises fails its row "+ the
\* watchdog rotates it".
FailedIsRotated == \A r \in Handlers : r \in Failed ~> r \in rotated

\* worker_stage_consumer.py: a creative that cannot be judged never aborts the
\* batch: the handler comes to every sound one it took up.
BadFileSparesOthers ==
  renders = 0 /\ deaths = 0 /\ raced = {} =>
    \A r \in Failed : \A n \in DOMAIN call[r].items :
      LET c == call[r].items[n] IN asset[c] = "broken" \/ log[c] # <<>>

\* What opens the gate is all that ships: no video is captioned unchecked.
NothingShipsUnchecked ==
  GateOpen => \A c \in Creatives : InScope(c) => log[c] # <<>>

\* A row that says passed is about the file there is.
PassFitsFile == \A c \in Creatives : gate[c] = "passed" => asset[c] # "poor"
=============================================================================
