----------------------- MODULE GenerationStageProofs -----------------------
(***************************************************************************)
(* Theorems about GenerationStage, for any number of picks, substages,     *)
(* submissions, launches, tool calls and faults.                           *)
(*                                                                         *)
(* The events change in four ways (EventSteps), so what is said of the     *)
(* counts and of the entries and closings is proved on those four.  What   *)
(* is said of a producer is proved of one producer at a time: OneOK is     *)
(* kept by each of its moves, and by the steps of all the others.  That    *)
(* the stage closes on its last final is an argument of its own, about     *)
(* the order of one launch (OrderInv).                                     *)
(*                                                                         *)
(* And about LivePage, the page that shows the events of the stage, for    *)
(* any rows and any upsets: its list, once sorted, loses no row            *)
(* (AscendingKeepsRows).                                                   *)
(***************************************************************************)
EXTENDS GenerationStage, LivePage, FiniteSetTheorems, SequenceTheorems, TLAPS

Kinds == {"queued", "running", "done", "error"}

SomeRendered == \E w \in Work : <<w, "done">> \in results

EventsTyped ==
  /\ stage \in Stages
  /\ cancelled \in BOOLEAN
  /\ entries \in Nat
  /\ closings \in Nat
  /\ count \in Count

\* A stage that is open has an entry that is not closed.
ClosingsPaid ==
  /\ closings <= entries
  /\ stage = "generation" => closings < entries

\* What counts as done was rendered: in the operator's mode no event of the
\* work_item is counted.
DoneIsRendered == OperatorDriven /\ (closings > 0 \/ count.done > 0) => SomeRendered

\* What holds of producer p of track t, with f faults and c the cancel: it is
\* at one of its units, and it started no unit after the cancel beyond the
\* one it had checked for and one per failed read.
OneOK(t, p, f, c) ==
  /\ p.pc \in {"off", "launched"} => p.at = 1
  /\ p.pc \in Launched => p.at \in Units(t)
  /\ p.late <= 1 + f
  /\ p.pc = "checked" => p.late <= f
  /\ ~c => p.late = 0

ProducersTyped == producer \in [Runs -> [Tracks -> Producer]]
ProducersOK    == \A r \in Runs, t \in Tracks : OneOK(t, producer[r][t], faults, cancelled)

ToolOK ==
  /\ tool \in Tool
  /\ tool.pc \in {"rendering", "storing"} => tool.unit \in Units(ImageTrack)
  /\ results \subseteq Work \X {"done", "error"}
  /\ toolCalls \in 0..MaxToolCalls
  /\ faults \in 0..MaxFaults

QueueTyped ==
  /\ submission \in [Submissions -> SubmissionStates]
  /\ item \in ItemStates
  /\ handler \in Handler

\* A submission past its enqueue, and an entry, leave an item behind.
QueueFirst ==
  /\ \A s \in Submissions : submission[s] = "enqueued" => item # "none"
  /\ EnqueuedBeforeEntry

IInv ==
  /\ EventsTyped
  /\ ClosingsPaid
  /\ DoneIsRendered
  /\ ProducersTyped
  /\ ProducersOK
  /\ ToolOK
  /\ QueueTyped
  /\ QueueFirst

-----------------------------------------------------------------------------
(* Events.                                                                 *)

\* Counting an event changes its own count only.
LEMMA TallyTyped ==
  ASSUME NEW n \in Count, NEW kind \in Kinds
  PROVE  /\ Tally(n, kind) \in Count
         /\ kind # "done" => Tally(n, kind).done = n.done
  BY DEF Tally, Count, Kinds

\* The trigger closes an open stage or changes nothing.
LEMMA AutoAdvanceCloses ==
  ASSUME NEW n \in Count, AutoAdvance(n)
  PROVE  \/ UNCHANGED <<stage, closings>>
         \/ /\ ~cancelled /\ stage = "generation" /\ n.done >= 1
            /\ stage' = "creative_qa" /\ closings' = closings + 1
<1>1. Status = "generation" => ~cancelled /\ stage = "generation"
  BY DEF Status
<1> QED
  BY <1>1 DEF AutoAdvance, Closes

\* What one step may do to the events: nothing, an entry, a cancel, or a
\* number of counted events, after which the stage may be closed.
Entered ==
  /\ stage' = "generation"
  /\ entries' = entries + 1
  /\ count' = Zero
  /\ UNCHANGED <<cancelled, closings>>

Counted ==
  /\ count' \in Count
  /\ \/ UNCHANGED <<stage, closings>>
     \/ /\ ~cancelled /\ stage = "generation"
        /\ OperatorDriven => count'.done >= 1
        /\ stage' = "creative_qa" /\ closings' = closings + 1
  /\ UNCHANGED <<cancelled, entries>>
  /\ OperatorDriven /\ count'.done # count.done => SomeRendered'

\* A start is counted, and never as done.
LEMMA StartCounted ==
  ASSUME EventsTyped, NEW queued \in BOOLEAN, EmitStart(queued)
  PROVE  Counted
<1> DEFINE n == IF queued THEN Tally(count, "queued") ELSE count
<1>1. n \in Count /\ n.done = count.done
  BY TallyTyped DEF EventsTyped, Kinds
<1>2. Tally(n, "running") \in Count /\ Tally(n, "running").done = n.done
  BY <1>1, TallyTyped DEF Kinds
<1>3. count' = Tally(n, "running")
  BY DEF EmitStart
<1> QED
  BY <1>1, <1>2, <1>3 DEF EmitStart, Counted

\* So is an outcome; a success comes with its rendered unit.
LEMMA OutcomeCounted ==
  ASSUME EventsTyped, NEW outcome \in {"done", "error"}, EmitOutcome(outcome),
         outcome = "done" => SomeRendered'
  PROVE  Counted
<1>1. Tally(count, outcome) \in Count
      /\ (outcome # "done" => Tally(count, outcome).done = count.done)
  BY TallyTyped DEF EventsTyped, Kinds
<1>2. count' = Tally(count, outcome) /\ AutoAdvance(count') /\ UNCHANGED <<cancelled, entries>>
  BY DEF EmitOutcome
<1> QED
  BY <1>1, <1>2, AutoAdvanceCloses DEF Counted

\* The events of the work_item are counted in the worker's mode only.
LEMMA ItemCounted ==
  ASSUME EventsTyped, NEW kind \in Kinds, EmitItem(kind)
  PROVE  UNCHANGED pipelineVars \/ Counted
<1>1. CASE OperatorDriven
  BY <1>1 DEF EmitItem
<1>2. CASE ~OperatorDriven
  <2>1. count' = Tally(count, kind) /\ count' \in Count /\ UNCHANGED <<cancelled, entries>>
    BY <1>2, TallyTyped DEF EmitItem, EventsTyped
  <2>2. AutoAdvance(count') \/ UNCHANGED <<stage, closings>>
    BY <1>2, <2>1 DEF EmitItem
  <2> QED
    BY <1>2, <2>1, <2>2, AutoAdvanceCloses DEF Counted
<1> QED
  BY <1>1, <1>2

\* Every step is one of these four.
LEMMA EventSteps ==
  ASSUME IInv, [Next]_vars
  PROVE  \/ UNCHANGED pipelineVars
         \/ Entered
         \/ Cancel
         \/ Counted
<1> USE DEF IInv
<1>1. CASE DecisionStep
  BY <1>1, ItemCounted
  DEF DecisionStep, CheckDecision, EnqueueGeneration, EnterGeneration, DecisionFails,
      Entered, pipelineVars, Kinds
<1>2. CASE ItemStep
  <2>1. CASE FirstHeartbeat
    BY <2>1, ItemCounted DEF FirstHeartbeat, Kinds
  <2>2. CASE FinishHandler
    BY <2>2, ItemCounted DEF FinishHandler, Kinds
  <2>3. CASE RotateItem
    <3>1. Tally(count, "error") \in Count
      BY TallyTyped DEF EventsTyped, Kinds
    <3>2. Tally(Tally(count, "error"), "queued") \in Count
      BY <3>1, TallyTyped DEF Kinds
    <3> QED
      BY <2>3, <3>1, <3>2, AutoAdvanceCloses DEF RotateItem, Counted
  <2> QED
    BY <1>2, <2>1, <2>2, <2>3
    DEF ItemStep, Claim, SkipBatch, RunBatch, FinishChat, WorkerCrash
<1>3. ASSUME NEW r \in Runs, NEW t \in Tracks, Produce(r, t) \/ ProducerRaises(r, t)
      PROVE  UNCHANGED pipelineVars \/ Counted
  <2>1. CASE Begin(r, t) \/ SkipPick(r, t) \/ CancelCheck(r, t)
    BY <2>1, OutcomeCounted DEF Begin, SkipPick, CancelCheck, GiveUp
  <2>2. CASE StartUnit(r, t)
    BY <2>2, StartCounted DEF StartUnit
  <2>3. ASSUME NEW outcome \in {"done", "error"}, FinishUnit(r, t, outcome)
        PROVE  Counted
    <3>1. producer[r][t].at \in Units(t)
      BY <2>3 DEF FinishUnit, ProducersOK, OneOK, Launched
    <3>2. <<t, producer[r][t].at>> \in Work
      BY <3>1 DEF Work
    <3>3. outcome = "done" => SomeRendered'
      BY <2>3, <3>2 DEF FinishUnit, SomeRendered
    <3> QED
      BY <2>3, <3>3, OutcomeCounted DEF FinishUnit
  <2>4. CASE ProducerRaises(r, t)
    BY <2>4 DEF ProducerRaises
  <2> QED
    BY <1>3, <2>1, <2>2, <2>3, <2>4 DEF Produce
<1>4. CASE OperatorStep
  <2>1. CASE \E u \in Units(ImageTrack) : StoreCreative(u)
    BY <2>1, StartCounted DEF StoreCreative
  <2>2. CASE NextFinal
    BY <2>2, StartCounted DEF NextFinal
  <2>3. ASSUME NEW outcome \in {"done", "error"}, FinishFinal(outcome)
        PROVE  Counted
    <3>1. <<ImageTrack, tool.unit>> \in Work
      BY <2>3 DEF FinishFinal, ToolOK, Work, Tracks
    <3>2. outcome = "done" => SomeRendered'
      BY <2>3, <3>1 DEF FinishFinal, SomeRendered
    <3> QED
      BY <2>3, <3>2, OutcomeCounted DEF FinishFinal
  <2> QED
    BY <1>4, <2>1, <2>2, <2>3 DEF OperatorStep, ServeTool, CallGeneration, CallRender
<1>5. CASE UNCHANGED vars
  BY <1>5 DEF vars
<1> QED
  BY <1>1, <1>2, <1>3, <1>4, <1>5 DEF Next

\* Results are only added to.
LEMMA ResultsGrow ==
  ASSUME [Next]_vars
  PROVE  SomeRendered => SomeRendered'
<1>1. results \subseteq results'
  <2>1. CASE DecisionStep
    BY <2>1 DEF DecisionStep, CheckDecision, EnqueueGeneration, EnterGeneration, DecisionFails,
       Cancel, renderVars
  <2>2. CASE ItemStep
    BY <2>2 DEF ItemStep, Claim, FirstHeartbeat, SkipBatch, RunBatch, FinishHandler, FinishChat,
       WorkerCrash, RotateItem, renderVars
  <2>3. ASSUME NEW r \in Runs, NEW t \in Tracks, Produce(r, t) \/ ProducerRaises(r, t)
        PROVE  results \subseteq results'
    BY <2>3 DEF Produce, Begin, SkipPick, CancelCheck, StartUnit, FinishUnit, ProducerRaises
  <2>4. CASE OperatorStep
    BY <2>4 DEF OperatorStep, ServeTool, CallGeneration, StoreCreative, CallRender, NextFinal,
       FinishFinal
  <2>5. CASE UNCHANGED vars
    BY <2>5 DEF vars, renderVars
  <2> QED
    BY <2>1, <2>2, <2>3, <2>4, <2>5 DEF Next
<1> QED
  BY <1>1 DEF SomeRendered

\* The events keep their types, an open stage its unclosed entry, and what is
\* counted as done its rendered unit.
LEMMA EventsPreserved ==
  ASSUME IInv, [Next]_vars
  PROVE  EventsTyped' /\ ClosingsPaid' /\ DoneIsRendered'
<1> USE DEF IInv, EventsTyped, ClosingsPaid, DoneIsRendered
<1>1. CASE UNCHANGED pipelineVars
  BY <1>1, ResultsGrow DEF pipelineVars
<1>2. CASE Entered
  BY <1>2, ResultsGrow DEF Entered, Zero, Count, Stages
<1>3. CASE Cancel
  BY <1>3, ResultsGrow DEF Cancel
<1>4. CASE Counted
  <2>1. EventsTyped' /\ ClosingsPaid'
    BY <1>4 DEF Counted, Stages
  <2>2. OperatorDriven /\ count'.done > 0 => SomeRendered'
    BY <1>4, ResultsGrow DEF Counted
  <2>3. OperatorDriven /\ closings' > 0 => SomeRendered'
    BY <1>4, <2>2, ResultsGrow DEF Counted, Count
  <2> QED
    BY <2>1, <2>2, <2>3
<1> QED
  BY <1>1, <1>2, <1>3, <1>4, EventSteps

-----------------------------------------------------------------------------
(* Producers.                                                              *)

\* A fault more, or a cancel, leaves what holds of a producer true.
LEMMA OneOKKept ==
  ASSUME NEW t \in Tracks, NEW p \in Producer, NEW f \in Nat, NEW g \in Nat, f <= g,
         NEW c \in BOOLEAN, NEW d \in BOOLEAN, c => d, OneOK(t, p, f, c)
  PROVE  OneOK(t, p, g, d)
  BY DEF OneOK, Producer

\* One producer moves and the others stand still.
Moves(r, t, p) ==
  /\ ProducersTyped'
  /\ producer'[r][t] = p
  /\ \A q \in Runs, s \in Tracks : q # r \/ s # t => producer'[q][s] = producer[q][s]

Still == UNCHANGED producer

LEMMA MoveMoves ==
  ASSUME ProducersTyped, NEW r \in Runs, NEW t \in Tracks, NEW pc \in ProducerStates,
         Move(r, t, pc)
  PROVE  Moves(r, t, [producer[r][t] EXCEPT !.pc = pc])
<1>1. producer[r][t] \in Producer
  BY DEF ProducersTyped
<1>2. [producer[r][t] EXCEPT !.pc = pc] \in Producer
  BY <1>1 DEF Producer
<1>3. producer' = [producer EXCEPT ![r] = [producer[r] EXCEPT ![t] = [producer[r][t] EXCEPT !.pc = pc]]]
  BY DEF Move
<1> HIDE DEF Producer
<1> QED
  BY <1>2, <1>3 DEF ProducersTyped, Moves

LEMMA AdvanceMoves ==
  ASSUME ProducersTyped, NEW r \in Runs, NEW t \in Tracks, NEW n \in Nat, Advance(r, t, n)
  PROVE  \E pc \in {"ready", "over"} :
           /\ Moves(r, t, [producer[r][t] EXCEPT !.at = n, !.pc = pc])
           /\ pc = "ready" <=> n \in Units(t)
<1> DEFINE pc == IF n \in Units(t) THEN "ready" ELSE "over"
           p  == [producer[r][t] EXCEPT !.at = n, !.pc = pc]
<1>1. producer[r][t] \in Producer
  BY DEF ProducersTyped
<1>2. p \in Producer
  BY <1>1 DEF Producer, ProducerStates
<1>3. producer' = [producer EXCEPT ![r] = [producer[r] EXCEPT ![t] = p]]
  BY <1>1 DEF Advance, ProducersTyped, Producer
<1>4. Moves(r, t, p)
  <2> HIDE DEF p
  <2> QED
    BY <1>2, <1>3 DEF ProducersTyped, Moves
<1> QED
  BY <1>4

\* What a step must show to keep what holds of the producers.
LEMMA ProducersKept ==
  ASSUME ProducersTyped, ProducersOK, NEW r \in Runs, NEW t \in Tracks, NEW p \in Producer,
         cancelled \in BOOLEAN, cancelled' \in BOOLEAN, cancelled => cancelled',
         faults \in Nat, faults' \in Nat, faults <= faults',
         Still \/ (Moves(r, t, p) /\ OneOK(t, p, faults', cancelled'))
  PROVE  ProducersTyped' /\ ProducersOK'
<1>1. CASE Still
  <2>1. ProducersTyped'
    BY <1>1 DEF ProducersTyped, Still
  <2>2. ASSUME NEW q \in Runs, NEW s \in Tracks
        PROVE  OneOK(s, producer'[q][s], faults', cancelled')
    BY <1>1, OneOKKept DEF ProducersTyped, ProducersOK, Still
  <2> QED
    BY <2>1, <2>2 DEF ProducersOK
<1>2. CASE Moves(r, t, p) /\ OneOK(t, p, faults', cancelled')
  <2>1. ASSUME NEW q \in Runs, NEW s \in Tracks
        PROVE  OneOK(s, producer'[q][s], faults', cancelled')
    <3>1. CASE q = r /\ s = t
      BY <1>2, <3>1 DEF Moves
    <3>2. CASE q # r \/ s # t
      BY <1>2, <3>2, OneOKKept DEF ProducersTyped, ProducersOK, Moves
    <3> QED
      BY <3>1, <3>2
  <2> QED
    BY <1>2, <2>1 DEF ProducersOK, Moves
<1> QED
  BY <1>1, <1>2

\* Every step of a producer keeps them, whatever the others do.
LEMMA ProduceKeeps ==
  ASSUME IInv, NEW r \in Runs, NEW t \in Tracks, Produce(r, t) \/ ProducerRaises(r, t)
  PROVE  ProducersTyped' /\ ProducersOK'
<1> DEFINE old == producer[r][t]
           at_(pc) == [old EXCEPT !.pc = pc]
<1>1. ProducersTyped /\ ProducersOK /\ cancelled \in BOOLEAN /\ faults \in Nat
  BY CountsAssumption DEF IInv, EventsTyped, ToolOK
<1>2. old \in Producer /\ OneOK(t, old, faults, cancelled)
  BY <1>1 DEF ProducersTyped, ProducersOK
<1>3. cancelled' = cancelled
  BY DEF Produce, Begin, SkipPick, CancelCheck, StartUnit, FinishUnit, ProducerRaises, GiveUp,
     EmitOutcome, EmitStart, pipelineVars
<1>4. faults' = faults \/ faults' = faults + 1
  BY DEF Produce, Begin, SkipPick, CancelCheck, StartUnit, FinishUnit, ProducerRaises,
     SeenCancelled, SeenLive, Fault
<1>5. faults' \in Nat /\ faults <= faults'
  BY <1>1, <1>4
<1> DEFINE Goal == ProducersTyped' /\ ProducersOK'
<1>6. ASSUME NEW p \in Producer, Moves(r, t, p), OneOK(t, p, faults', cancelled)
      PROVE  Goal
  BY <1>1, <1>3, <1>5, <1>6, ProducersKept
<1>7. ASSUME NEW pc \in {"over", "raised"}, Move(r, t, pc)
      PROVE  Goal
  <2>1. at_(pc) \in Producer /\ OneOK(t, at_(pc), faults', cancelled)
    BY <1>2, <1>4, <1>1, <1>7 DEF Producer, ProducerStates, OneOK, Launched
  <2>2. Moves(r, t, at_(pc))
    BY <1>1, <1>7, MoveMoves DEF ProducerStates
  <2> QED
    BY <1>6, <2>1, <2>2
<1>8. ASSUME NEW n \in Nat, Advance(r, t, n)
      PROVE  Goal
  <2>1. PICK pc \in {"ready", "over"} :
          /\ Moves(r, t, [old EXCEPT !.at = n, !.pc = pc])
          /\ pc = "ready" => n \in Units(t)
    BY <1>1, <1>8, AdvanceMoves
  <2>2. [old EXCEPT !.at = n, !.pc = pc] \in Producer
    BY <1>2 DEF Producer, ProducerStates
  <2>3. OneOK(t, [old EXCEPT !.at = n, !.pc = pc], faults', cancelled)
    BY <1>1, <1>2, <1>4, <2>1 DEF Producer, OneOK, Launched
  <2> QED
    BY <1>6, <2>1, <2>2, <2>3
<1>9. CASE Begin(r, t)
  <2>1. CASE Move(r, t, "over")
    BY <2>1, <1>7
  <2>2. CASE old.pc = "launched" /\ Move(r, t, "ready")
    <3>1. at_("ready") \in Producer /\ OneOK(t, at_("ready"), faults', cancelled)
      BY <1>2, <1>4, <1>1, <2>2 DEF Producer, ProducerStates, OneOK, Launched
    <3>2. Moves(r, t, at_("ready"))
      BY <1>1, <2>2, MoveMoves DEF ProducerStates
    <3> QED
      BY <1>6, <3>1, <3>2
  <2> QED
    BY <1>9, <2>1, <2>2 DEF Begin, GiveUp
<1>10. CASE SkipPick(r, t)
  BY <1>2, <1>8, <1>10 DEF SkipPick, Producer, Ratios
<1>11. CASE CancelCheck(r, t)
  <2>1. CASE Move(r, t, "over")
    BY <2>1, <1>7
  <2>2. CASE old.pc = "ready" /\ SeenLive /\ Move(r, t, "checked")
    <3>1. old.late <= faults'
      BY <1>1, <1>2, <2>2 DEF SeenLive, Fault, OneOK, Producer
    <3>2. at_("checked") \in Producer /\ OneOK(t, at_("checked"), faults', cancelled)
      BY <1>2, <1>4, <1>1, <2>2, <3>1 DEF Producer, ProducerStates, OneOK, Launched
    <3>3. Moves(r, t, at_("checked"))
      BY <1>1, <2>2, MoveMoves DEF ProducerStates
    <3> QED
      BY <1>6, <3>2, <3>3
  <2> QED
    BY <1>11, <2>1, <2>2 DEF CancelCheck, GiveUp
<1>12. CASE StartUnit(r, t)
  <2> DEFINE late == IF cancelled THEN old.late + 1 ELSE old.late
             p == [old EXCEPT !.pc = "rendering", !.late = late]
  <2>1. p \in Producer
    <3>1. late \in Nat
      BY <1>2 DEF Producer
    <3> HIDE DEF late
    <3> QED
      BY <1>2, <3>1 DEF Producer, ProducerStates
  <2>2. OneOK(t, p, faults', cancelled)
    BY <1>1, <1>2, <1>12 DEF StartUnit, OneOK, Producer, Launched
  <2>3. producer' = [producer EXCEPT ![r] = [producer[r] EXCEPT ![t] = p]]
    BY <1>1, <1>2, <1>12 DEF StartUnit, ProducersTyped, Producer
  <2>4. Moves(r, t, p)
    <3> HIDE DEF p
    <3> QED
      BY <1>1, <2>1, <2>3 DEF ProducersTyped, Moves
  <2> QED
    BY <1>6, <2>1, <2>2, <2>4
<1>13. ASSUME NEW outcome \in {"done", "error"}, FinishUnit(r, t, outcome)
       PROVE  Goal
  BY <1>2, <1>7, <1>8, <1>13 DEF FinishUnit, Producer
<1>14. CASE ProducerRaises(r, t)
  BY <1>7, <1>14 DEF ProducerRaises
<1> QED
  BY <1>9, <1>10, <1>11, <1>12, <1>13, <1>14 DEF Produce

\* So does every other step.
LEMMA ProducersPreserved ==
  ASSUME IInv, [Next]_vars
  PROVE  ProducersTyped' /\ ProducersOK'
<1>1. ProducersTyped /\ ProducersOK /\ cancelled \in BOOLEAN /\ faults \in Nat
  BY CountsAssumption DEF IInv, EventsTyped, ToolOK
<1>2. ASSUME producer' = producer, cancelled' \in BOOLEAN, cancelled => cancelled',
             faults' = faults \/ faults' = faults + 1
      PROVE  ProducersTyped' /\ ProducersOK'
  <2>1. ProducersTyped'
    BY <1>1, <1>2 DEF ProducersTyped
  <2>2. ASSUME NEW q \in Runs, NEW s \in Tracks
        PROVE  OneOK(s, producer'[q][s], faults', cancelled')
    BY <1>1, <1>2, OneOKKept DEF ProducersTyped, ProducersOK
  <2> QED
    BY <2>1, <2>2 DEF ProducersOK
<1>3. ASSUME NEW r \in Runs, Launch(r), Unlaunched(r), UNCHANGED <<cancelled, faults>>
      PROVE  ProducersTyped' /\ ProducersOK'
  <2> DEFINE pc(t) == IF Units(t) = {} THEN "over" ELSE "launched"
             new(t) == [producer[r][t] EXCEPT !.pc = pc(t)]
  <2>1. producer' = [producer EXCEPT ![r] = [t \in Tracks |-> new(t)]]
    BY <1>3 DEF Launch
  <2>2. ASSUME NEW t \in Tracks
        PROVE  new(t) \in Producer /\ OneOK(t, new(t), faults, cancelled)
    <3>1. producer[r][t] \in Producer /\ OneOK(t, producer[r][t], faults, cancelled)
      BY <1>1 DEF ProducersTyped, ProducersOK
    <3>2. producer[r][t].at = 1
      BY <1>3, <3>1 DEF Unlaunched, OneOK
    <3>3. Units(t) # {} => 1 \in Units(t)
      BY CountsAssumption DEF Units, Ratios
    <3> QED
      BY <1>1, <3>1, <3>2, <3>3 DEF Producer, ProducerStates, OneOK, Launched
  <2> HIDE DEF new
  <2>3. ProducersTyped'
    BY <1>1, <2>1, <2>2 DEF ProducersTyped
  <2>4. ASSUME NEW q \in Runs, NEW t \in Tracks
        PROVE  OneOK(t, producer'[q][t], faults', cancelled')
    BY <1>1, <1>3, <2>1, <2>2 DEF ProducersTyped, ProducersOK
  <2> QED
    BY <2>3, <2>4 DEF ProducersOK
<1>4. CASE WorkerCrash
  <2> DEFINE old(r, t) == producer[r][t]
             new(r, t) == IF old(r, t).pc \in Launched THEN [old(r, t) EXCEPT !.pc = "over"]
                                                      ELSE old(r, t)
  <2>1. producer' = [r \in Runs |-> [t \in Tracks |-> new(r, t)]]
    BY <1>4 DEF WorkerCrash
  <2>2. UNCHANGED cancelled /\ faults' = faults + 1
    BY <1>4 DEF WorkerCrash, Fault, pipelineVars
  <2>3. ASSUME NEW r \in Runs, NEW t \in Tracks
        PROVE  new(r, t) \in Producer /\ OneOK(t, new(r, t), faults', cancelled')
    <3>1. old(r, t) \in Producer /\ OneOK(t, old(r, t), faults', cancelled')
      BY <1>1, <2>2, OneOKKept DEF ProducersTyped, ProducersOK
    <3> QED
      BY <3>1, <2>2, <1>1 DEF Producer, ProducerStates, OneOK, Launched
  <2> HIDE DEF new
  <2> QED
    BY <2>1, <2>3 DEF ProducersTyped, ProducersOK
<1>5. CASE DecisionStep
  BY <1>1, <1>2, <1>5
  DEF DecisionStep, CheckDecision, EnqueueGeneration, EnterGeneration, DecisionFails, Cancel,
      EmitItem, pipelineVars, renderVars, Fault
<1>6. CASE ItemStep
  <2>1. ASSUME NEW r \in Runs, RunBatch(r)
        PROVE  ProducersTyped' /\ ProducersOK'
    BY <1>3, <2>1 DEF RunBatch, pipelineVars
  <2>2. CASE Claim \/ FirstHeartbeat \/ SkipBatch \/ FinishHandler \/ FinishChat \/ RotateItem
    BY <1>1, <1>2, <2>2
    DEF Claim, FirstHeartbeat, SkipBatch, FinishHandler, FinishChat, RotateItem,
        EmitItem, pipelineVars, renderVars
  <2> QED
    BY <1>4, <1>6, <2>1, <2>2 DEF ItemStep
<1>7. CASE OperatorStep
  <2>1. ASSUME NEW r \in Runs, CallGeneration(r)
        PROVE  ProducersTyped' /\ ProducersOK'
    BY <1>3, <2>1 DEF CallGeneration, pipelineVars
  <2>2. CASE (\E u \in Units(ImageTrack) : StoreCreative(u)) \/ CallRender \/ ServeTool
    BY <1>1, <1>2, <2>2
    DEF StoreCreative, CallRender, ServeTool, NextFinal, FinishFinal, EmitStart, EmitOutcome,
        pipelineVars
  <2> QED
    BY <1>7, <2>1, <2>2 DEF OperatorStep
<1>8. CASE UNCHANGED vars
  BY <1>1, <1>2, <1>8 DEF vars, pipelineVars, renderVars
<1> QED
  BY <1>5, <1>6, <1>7, <1>8, ProduceKeeps DEF Next

-----------------------------------------------------------------------------
(* The tool call, the results and the queue.                               *)

\* The unit a tool call is at is a planned final, and results are of planned
\* units.
LEMMA ToolPreserved ==
  ASSUME IInv, [Next]_vars
  PROVE  ToolOK'
<1> USE DEF IInv, ToolOK
<1>1. CASE UNCHANGED <<tool, results, toolCalls, faults>>
  BY <1>1
<1>2. CASE UNCHANGED <<tool, results, toolCalls>> /\ Fault
  BY <1>2, CountsAssumption DEF Fault
<1>3. CASE WorkerCrash
  BY <1>3, CountsAssumption DEF WorkerCrash, Fault, NoTool, Tool, ToolStates
<1>4. ASSUME NEW r \in Runs, NEW t \in Tracks, NEW outcome \in {"done", "error"},
             FinishUnit(r, t, outcome)
      PROVE  ToolOK'
  <2>1. producer[r][t].at \in Units(t)
    BY <1>4 DEF FinishUnit, ProducersOK, OneOK, Launched
  <2>2. <<t, producer[r][t].at>> \in Work
    BY <2>1 DEF Work
  <2> QED
    BY <1>4, <2>2 DEF FinishUnit
<1>5. ASSUME NEW u \in Units(ImageTrack), StoreCreative(u)
      PROVE  ToolOK'
  <2>1. u \in Nat
    BY DEF Units, ImageTrack
  <2> QED
    BY <1>5, <2>1, CountsAssumption DEF StoreCreative, ToolCall, Tool, ToolStates
<1>6. CASE CallRender
  <2>1. RenderBatch \subseteq Units(ImageTrack)
    BY DEF RenderBatch
  <2>2. tool' = NoTool \/ tool' = [pc |-> "waiting", todo |-> RenderBatch, unit |-> 0]
    BY <1>6 DEF CallRender
  <2>3. tool' \in Tool /\ tool'.pc \notin {"rendering", "storing"}
    BY <2>1, <2>2 DEF NoTool, Tool, ToolStates
  <2>4. toolCalls' \in 0..MaxToolCalls
    BY <1>6, CountsAssumption DEF CallRender, ToolCall
  <2> QED
    BY <1>6, <2>3, <2>4 DEF CallRender
<1>7. CASE NextFinal
  <2>1. CASE tool' = NoTool
    BY <1>7, <2>1 DEF NextFinal, NoTool, Tool, ToolStates
  <2>2. ASSUME NEW u \in tool.todo,
               tool' = [pc |-> "rendering", todo |-> tool.todo \ {u}, unit |-> u]
        PROVE  ToolOK'
    <3>1. u \in Units(ImageTrack) /\ tool.todo \ {u} \subseteq Units(ImageTrack)
      BY DEF Tool
    <3>2. u \in Nat
      BY <3>1 DEF Units, ImageTrack
    <3> QED
      BY <1>7, <2>2, <3>1, <3>2 DEF NextFinal, Tool, ToolStates
  <2> QED
    BY <1>7, <2>1, <2>2 DEF NextFinal
<1>8. ASSUME NEW outcome \in {"done", "error"}, FinishFinal(outcome)
      PROVE  ToolOK'
  <2>1. <<ImageTrack, tool.unit>> \in Work
    BY <1>8 DEF FinishFinal, Work, Tracks
  <2>2. tool' \in Tool /\ tool'.pc \notin {"rendering", "storing"}
    BY <1>8 DEF FinishFinal, NoTool, Tool, ToolStates
  <2> QED
    BY <1>8, <2>1, <2>2 DEF FinishFinal
<1> QED
  BY <1>1, <1>2, <1>3, <1>4, <1>5, <1>6, <1>7, <1>8
  DEF Next, vars, renderVars, DecisionStep, CheckDecision, EnqueueGeneration, EnterGeneration,
     DecisionFails, Cancel, ItemStep, Claim, FirstHeartbeat, SkipBatch, RunBatch, FinishHandler,
     FinishChat, RotateItem, Produce, Begin, SkipPick, CancelCheck, StartUnit, SeenCancelled,
     SeenLive, ProducerRaises, OperatorStep, ServeTool, CallGeneration

\* An item once enqueued stays, whatever becomes of it, and an entry follows
\* the enqueue of its submission.
LEMMA QueuePreserved ==
  ASSUME IInv, [Next]_vars
  PROVE  QueueTyped' /\ QueueFirst'
<1> USE DEF IInv, QueueTyped, QueueFirst, EnqueuedBeforeEntry
<1>1. CASE UNCHANGED <<queueVars, entries>>
  BY <1>1 DEF queueVars
<1>2. ASSUME NEW s \in Submissions,
             CheckDecision(s) \/ EnqueueGeneration(s) \/ EnterGeneration(s) \/ DecisionFails(s)
      PROVE  QueueTyped' /\ QueueFirst'
  <2>1. entries' = entries \/ item # "none"
    BY <1>2 DEF CheckDecision, EnqueueGeneration, EnterGeneration, DecisionFails, EmitItem,
       pipelineVars
  <2>2. item' = item \/ item' = "queued"
    BY <1>2 DEF CheckDecision, EnqueueGeneration, EnterGeneration, DecisionFails
  <2>3. \E state \in SubmissionStates :
           /\ submission' = [submission EXCEPT ![s] = state]
           /\ state = "enqueued" => item' # "none"
    BY <1>2 DEF CheckDecision, EnqueueGeneration, EnterGeneration, DecisionFails, SubmissionStates
  <2>4. handler' = handler
    BY <1>2 DEF CheckDecision, EnqueueGeneration, EnterGeneration, DecisionFails
  <2>5. item' \in ItemStates /\ (item # "none" => item' # "none")
    BY <2>2 DEF ItemStates
  <2> QED
    BY <2>1, <2>3, <2>4, <2>5 DEF EventsTyped
<1>3. CASE Cancel \/ ItemStep
  <2>1. UNCHANGED <<submission, entries>>
    BY <1>3
    DEF Cancel, ItemStep, Claim, FirstHeartbeat, SkipBatch, RunBatch, FinishHandler, FinishChat,
        WorkerCrash, RotateItem, EmitItem, pipelineVars
  <2>2. item' \in ItemStates /\ (item # "none" => item' # "none")
    BY <1>3
    DEF Cancel, ItemStep, Claim, FirstHeartbeat, SkipBatch, RunBatch, FinishHandler, FinishChat,
        WorkerCrash, RotateItem, ItemStates
  <2>3. handler' \in Handler
    BY <1>3
    DEF Cancel, ItemStep, Claim, FirstHeartbeat, SkipBatch, RunBatch, FinishHandler, FinishChat,
        WorkerCrash, RotateItem, Handler, NoHandler
  <2> QED
    BY <2>1, <2>2, <2>3
<1>4. ASSUME NEW r \in Runs, NEW t \in Tracks, Produce(r, t) \/ ProducerRaises(r, t)
      PROVE  UNCHANGED <<queueVars, entries>>
  BY <1>4
  DEF Produce, Begin, SkipPick, CancelCheck, StartUnit, FinishUnit, ProducerRaises, GiveUp,
      EmitStart, EmitOutcome, pipelineVars
<1>5. CASE OperatorStep
  BY <1>1, <1>5
  DEF OperatorStep, ServeTool, CallGeneration, StoreCreative, CallRender, NextFinal, FinishFinal,
      EmitStart, EmitOutcome, pipelineVars
<1>6. CASE UNCHANGED vars
  BY <1>1, <1>6 DEF vars, pipelineVars
<1> QED
  BY <1>1, <1>2, <1>3, <1>4, <1>5, <1>6 DEF Next, DecisionStep

-----------------------------------------------------------------------------
(* The theorems.                                                           *)

\* The invariant holds at the start.
LEMMA InitEstablishes == Init => IInv
<1> SUFFICES ASSUME Init
             PROVE  IInv
  OBVIOUS
<1>1. EventsTyped /\ ClosingsPaid /\ DoneIsRendered
  <2>1. Zero \in Count /\ Zero.done = 0
    BY DEF Zero, Count
  <2>2. /\ stage = "review" /\ cancelled = FALSE /\ entries = 0 /\ closings = 0
        /\ count = Zero
    BY DEF Init
  <2>3. ~(closings > 0 \/ count.done > 0)
    BY <2>1, <2>2
  <2>4. EventsTyped
    BY <2>1, <2>2 DEF EventsTyped, Stages
  <2>5. ClosingsPaid
    BY <2>2 DEF ClosingsPaid
  <2>6. DoneIsRendered
    BY <2>3 DEF DoneIsRendered
  <2> QED
    BY <2>4, <2>5, <2>6
<1> DEFINE first == [pc |-> "off", at |-> 1, late |-> 0]
<1>2. first \in Producer /\ \A t \in Tracks : OneOK(t, first, 0, FALSE)
  BY DEF Producer, ProducerStates, OneOK, Launched
<1>3. ProducersTyped /\ ProducersOK
  <2> HIDE DEF first
  <2>1. producer = [r \in Runs |-> [t \in Tracks |-> first]] /\ faults = 0 /\ cancelled = FALSE
    BY DEF Init, first
  <2> QED
    BY <1>2, <2>1 DEF ProducersTyped, ProducersOK
<1>4. ToolOK
  BY CountsAssumption DEF Init, ToolOK, NoTool, Tool, ToolStates
<1>5. QueueTyped /\ QueueFirst
  BY DEF Init, QueueTyped, QueueFirst, EnqueuedBeforeEntry, SubmissionStates, ItemStates,
     Handler, NoHandler
<1> QED
  BY <1>1, <1>3, <1>4, <1>5 DEF IInv

\* Every step keeps it.
LEMMA NextPreserves == IInv /\ [Next]_vars => IInv'
  BY EventsPreserved, ProducersPreserved, ToolPreserved, QueuePreserved DEF IInv

\* The inductive invariant of the stage.
THEOREM StageInductive == Spec => []IInv
  BY InitEstablishes, NextPreserves, PTL DEF Spec

\* Type correctness: the events, the item, the producers of pipeline.py and
\* the operator's tool never leave their states.
THEOREM StageTypeCorrect == Spec => []TypeOK
<1>1. IInv => TypeOK
  BY DEF IInv, TypeOK, EventsTyped, ProducersTyped, ToolOK, QueueTyped
<1> QED
  BY <1>1, StageInductive, PTL

\* The decision route never enters generation before the executor is in the
\* queue, however many submissions race and whichever of their calls fail.
THEOREM EnqueuedBeforeEntryHolds == Spec => []EnqueuedBeforeEntry
<1>1. IInv => EnqueuedBeforeEntry
  BY DEF IInv, QueueFirst
<1> QED
  BY <1>1, StageInductive, PTL

\* The trigger of 0059 never closes an entry twice.
THEOREM OneClosePerEntryHolds == Spec => []OneClosePerEntry
<1>1. IInv => OneClosePerEntry
  BY DEF IInv, ClosingsPaid, OneClosePerEntry
<1> QED
  BY <1>1, StageInductive, PTL

\* A producer of pipeline.py starts at most one unit after a cancel, and one
\* more for every read of the status that failed.
THEOREM CancelBoundsSpendHolds == Spec => []CancelBoundsSpend
<1>1. IInv => CancelBoundsSpend
  BY DEF IInv, ProducersOK, OneOK, CancelBoundsSpend
<1> QED
  BY <1>1, StageInductive, PTL

\* In an operator-driven pipeline the trigger closes the stage only after a
\* unit was rendered.  In a worker-driven one the item's own task_done counts.
THEOREM AdvanceNeedsARenderHolds ==
  ASSUME OperatorDriven
  PROVE  Spec => []AdvanceNeedsARender
<1>1. IInv => AdvanceNeedsARender
  BY DEF IInv, DoneIsRendered, SomeRendered, AdvanceNeedsARender
<1> QED
  BY <1>1, StageInductive, PTL

\* The trigger never advances a pipeline that is cancelled, although renders
\* that were in flight go on to report.
THEOREM NoCloseAfterCancelHolds == Spec => NoCloseAfterCancel
<1>1. ASSUME IInv, [Next]_vars, cancelled
      PROVE  closings' = closings
  BY <1>1, EventSteps DEF Entered, Cancel, Counted, pipelineVars
<1>2. IInv /\ [Next]_vars => [cancelled => closings' = closings]_vars
  BY <1>1
<1> QED
  BY <1>2, StageInductive, PTL DEF Spec, NoCloseAfterCancel
-----------------------------------------------------------------------------
(* The close of a stage that one launch works through.                     *)

\* Nothing interferes with the producers.
Calm == toolCalls = 0 /\ faults = 0 /\ ~cancelled

OneLaunch   == \A r, q \in Runs : r = q
ImagesThere == \A m \in Missing : m[1] # ImageTrack

Outcomes(n) == n.done + n.error

Tried(u) == Attempted(<<ImageTrack, u>>, results)
AllTried == \A u \in Units(ImageTrack) : Tried(u)

\* The image producer of launch r has tried every final before the one it is at, fewer
\* outcomes than that are counted, and no video is begun before it is over.
InOrder(r) ==
  LET p == producer[r][ImageTrack]
  IN  /\ p.at >= 1
      /\ \A u \in Units(ImageTrack) : u < p.at => Tried(u)
      /\ p.pc = "over" => AllTried
      /\ p.pc # "over" =>
           /\ Outcomes(count) < p.at
           /\ \A t \in Tracks \ {ImageTrack} : producer[r][t].pc \in {"off", "launched"}

OrderInv ==
  /\ toolCalls = 0 => tool.pc = "idle"
  /\ Calm => \A r \in Runs : InOrder(r)

\* An event adds one outcome at most, a start none.
LEMMA TallyOutcomes ==
  ASSUME NEW n \in Count, NEW kind \in Kinds
  PROVE  /\ Outcomes(Tally(n, kind)) \in Nat
         /\ Outcomes(Tally(n, kind)) <= Outcomes(n) + 1
         /\ kind \in {"queued", "running"} => Outcomes(Tally(n, kind)) = Outcomes(n)
  BY DEF Tally, Count, Kinds, Outcomes

\* The trigger closes with an outcome for each planned final at least.
LEMMA ClosesOnOutcomes ==
  ASSUME NEW n \in Count, AutoAdvance(n), closings' # closings
  PROVE  Outcomes(n) >= Ratios * ImagePicks
<1>1. Closes(n)
  BY DEF AutoAdvance
<1>2. Ratios * ImagePicks \in Nat
  BY CountsAssumption DEF Ratios
<1> QED
  BY <1>1, <1>2 DEF Closes, Larger, Outcomes, Count

\* A video of the operator's launch moves after the images are over.
LEMMA VideoWaits ==
  ASSUME NEW r \in Runs, NEW t \in Tracks, t # ImageTrack, OperatorDriven, InOrder(r),
         Produce(r, t)
  PROVE  producer[r][ImageTrack].pc = "over"
<1>1. CASE Begin(r, t)
  BY <1>1, CountsAssumption DEF Begin, HasTurn, Tracks, ImageTrack
<1>2. CASE ~Begin(r, t)
  <2>1. producer[r][t].pc \in {"ready", "checked", "rendering"}
    BY <1>2 DEF Produce, SkipPick, CancelCheck, StartUnit, FinishUnit
  <2> QED
    BY <2>1 DEF InOrder
<1> QED
  BY <1>1, <1>2

\* What a calm step is.
Quiet  == UNCHANGED <<producer, results>> /\ (UNCHANGED count \/ count' = Zero)
Starts == UNCHANGED <<results, count>> /\ \E r \in Runs : Unlaunched(r) /\ Launch(r)

LEMMA CalmSteps ==
  ASSUME IInv, OrderInv, [Next]_vars, OperatorDriven, Calm
  PROVE  \/ closings' = closings /\ (Quiet \/ Starts \/ ~Calm')
         \/ \E r \in Runs, t \in Tracks : Produce(r, t)
<1>1. tool.pc = "idle" /\ faults = 0 /\ toolCalls = 0
  BY DEF OrderInv, Calm
<1>2. CASE DecisionStep
  BY <1>1, <1>2 DEF DecisionStep, CheckDecision, EnqueueGeneration, EnterGeneration,
     DecisionFails, Cancel, Fault, EmitItem, Quiet, Calm, pipelineVars, renderVars
<1>3. CASE ItemStep
  BY <1>1, <1>3 DEF ItemStep, Claim, FirstHeartbeat, SkipBatch, RunBatch, FinishHandler,
     FinishChat, WorkerCrash, RotateItem, Fault, EmitItem, Quiet, Starts, Calm, pipelineVars,
     renderVars
<1>4. ASSUME NEW r \in Runs, NEW t \in Tracks, ProducerRaises(r, t)
      PROVE  closings' = closings /\ ~Calm'
  BY <1>1, <1>4 DEF ProducerRaises, Fault, Calm, pipelineVars
<1>5. CASE OperatorStep
  BY <1>1, <1>5 DEF OperatorStep, ServeTool, CallGeneration, StoreCreative, CallRender, ToolCall,
     NextFinal, FinishFinal, EmitStart, Starts, Calm, pipelineVars
<1>6. CASE UNCHANGED vars
  BY <1>6 DEF vars, pipelineVars, renderVars, Quiet
<1> QED
  BY <1>2, <1>3, <1>4, <1>5, <1>6 DEF Next

\* The image producer keeps its order through its own steps.
LEMMA ImageKeepsOrder ==
  ASSUME IInv, NEW r \in Runs, InOrder(r), ImagesThere, Calm, Calm', Produce(r, ImageTrack)
  PROVE  InOrder(r)'
<1> DEFINE p == producer[r][ImageTrack]
<1>1. ImageTrack \in Tracks /\ \A u : ~MissingPick(ImageTrack, u) /\ <<ImageTrack, u>> \notin Missing
  BY DEF Tracks, MissingPick, ImagesThere
<1>2. p.pc # "over" /\ p.at \in Nat /\ count \in Count /\ ProducersTyped
  BY <1>1 DEF Produce, Begin, SkipPick, CancelCheck, StartUnit, FinishUnit, IInv, ProducersTyped, Producer,
     EventsTyped
<1>3. ASSUME NEW pc \in ProducerStates \ {"over"}, Moves(r, ImageTrack, [p EXCEPT !.pc = pc]),
             Outcomes(count') = Outcomes(count), UNCHANGED results
      PROVE  InOrder(r)'
  <2>1. producer'[r][ImageTrack].pc = pc /\ producer'[r][ImageTrack].at = p.at
    BY <1>1, <1>2, <1>3 DEF Moves, ProducersTyped, Producer
  <2>2. \A t \in Tracks \ {ImageTrack} : producer'[r][t] = producer[r][t]
    BY <1>3 DEF Moves
  <2> QED
    BY <1>2, <1>3, <2>1, <2>2 DEF InOrder, Tried, AllTried
<1>4. CASE Begin(r, ImageTrack)
  <2>1. Move(r, ImageTrack, "ready") /\ UNCHANGED <<count, results>>
    BY <1>1, <1>4 DEF Begin, SeenCancelled, Fault, Calm, pipelineVars
  <2> QED
    BY <1>1, <1>2, <1>3, <2>1, MoveMoves DEF ProducerStates
<1>5. CASE CancelCheck(r, ImageTrack)
  <2>1. Move(r, ImageTrack, "checked") /\ UNCHANGED <<count, results>>
    BY <1>5 DEF CancelCheck, SeenCancelled, Calm, pipelineVars
  <2> QED
    BY <1>1, <1>2, <1>3, <2>1, MoveMoves DEF ProducerStates
<1>6. CASE StartUnit(r, ImageTrack)
  <2>1. Outcomes(count') = Outcomes(count) /\ UNCHANGED results
    <3>1. Tally(count, "queued") \in Count /\ Outcomes(Tally(count, "queued")) = Outcomes(count)
      BY <1>2, TallyOutcomes, TallyTyped DEF Kinds
    <3>2. count' = Tally(Tally(count, "queued"), "running") /\ UNCHANGED results
      BY <1>6 DEF StartUnit, EmitStart
    <3> QED
      BY <3>1, <3>2, TallyOutcomes DEF Kinds
  <2>2. producer' = [producer EXCEPT ![r][ImageTrack].pc = "rendering"]
    BY <1>1, <1>2, <1>6 DEF StartUnit, Calm, ProducersTyped, Producer
  <2>3. Move(r, ImageTrack, "rendering")
    BY <2>2 DEF Move
  <2> QED
    BY <1>1, <1>2, <1>3, <2>1, <2>3, MoveMoves DEF ProducerStates
<1>7. ASSUME NEW outcome \in {"done", "error"}, FinishUnit(r, ImageTrack, outcome)
      PROVE  InOrder(r)'
  <2>1. Advance(r, ImageTrack, p.at + 1) /\ count' = Tally(count, outcome)
        /\ results' = results \cup {<<<<ImageTrack, p.at>>, outcome>>}
    BY <1>7 DEF FinishUnit, EmitOutcome
  <2>2. PICK pc \in {"ready", "over"} :
          /\ Moves(r, ImageTrack, [p EXCEPT !.at = p.at + 1, !.pc = pc])
          /\ pc = "ready" <=> p.at + 1 \in Units(ImageTrack)
    <3>1. p.at + 1 \in Nat
      BY <1>2
    <3> QED
      BY <1>1, <1>2, <2>1, <3>1, AdvanceMoves
  <2>3. producer'[r][ImageTrack].pc = pc /\ producer'[r][ImageTrack].at = p.at + 1
    BY <1>1, <1>2, <2>2 DEF Moves, ProducersTyped, Producer
  <2>4. \A t \in Tracks \ {ImageTrack} : producer'[r][t] = producer[r][t]
    BY <2>2 DEF Moves
  <2>5. Outcomes(count') < p.at + 1
    <3>1. Outcomes(count) < p.at /\ Outcomes(count) \in Nat
      BY <1>2 DEF InOrder, Outcomes, Count
    <3> QED
      BY <1>2, <2>1, <3>1, TallyOutcomes DEF Kinds
  <2>6. \A u \in Units(ImageTrack) : u < p.at + 1 => Tried(u)'
    <3>1. \A u \in Units(ImageTrack) : u < p.at => Tried(u)'
      BY <2>1 DEF InOrder, Tried, Attempted
    <3>2. Attempted(<<ImageTrack, p.at>>, results')
      BY <2>1 DEF Attempted
    <3>3. \A u \in Units(ImageTrack) : u \in Nat
      BY CountsAssumption DEF Units, Ratios
    <3> QED
      BY <1>2, <3>1, <3>2, <3>3 DEF Tried
  <2>7. pc = "over" => \A u \in Units(ImageTrack) : u < p.at + 1
    BY <1>2, <1>7, <2>2, CountsAssumption DEF FinishUnit, IInv, ProducersOK, OneOK, Launched, Units, Ratios
  <2> QED
    BY <1>2, <2>3, <2>4, <2>5, <2>6, <2>7 DEF InOrder, AllTried
<1> QED
  BY <1>1, <1>4, <1>5, <1>6, <1>7 DEF Produce, SkipPick

\* A step of a video leaves the images as they were, over.
LEMMA VideoKeepsOrder ==
  ASSUME IInv, NEW r \in Runs, NEW t \in Tracks, t # ImageTrack, OperatorDriven, InOrder(r),
         Produce(r, t)
  PROVE  InOrder(r)' /\ AllTried'
<1>1. producer[r][ImageTrack].pc = "over" /\ ImageTrack \in Tracks
  BY VideoWaits DEF Tracks
<1>2. producer'[r][ImageTrack] = producer[r][ImageTrack]
  BY <1>1 DEF IInv, ProducersTyped, Produce, Begin, SkipPick, CancelCheck, StartUnit, FinishUnit,
     GiveUp, Move, Advance
<1>3. results \subseteq results'
  BY DEF Produce, Begin, SkipPick, CancelCheck, StartUnit, FinishUnit
<1> QED
  BY <1>1, <1>2, <1>3 DEF InOrder, AllTried, Tried, Attempted

\* What holds before a launch holds after it.
LEMMA StartKeepsOrder ==
  ASSUME IInv, NEW r \in Runs, InOrder(r), Unlaunched(r), Launch(r), UNCHANGED <<results, count>>
  PROVE  InOrder(r)'
<1> DEFINE q(t) == [producer[r][t] EXCEPT !.pc = IF Units(t) = {} THEN "over" ELSE "launched"]
<1>1. ImageTrack \in Tracks /\ \A t \in Tracks : producer[r][t] \in Producer
  BY DEF Tracks, IInv, ProducersTyped
<1>2. \A t \in Tracks : producer'[r][t] = q(t)
  BY DEF Launch, IInv, ProducersTyped
<1>3. \A t \in Tracks : /\ producer'[r][t].at = producer[r][t].at
                         /\ producer'[r][t].pc = IF Units(t) = {} THEN "over" ELSE "launched"
  BY <1>1, <1>2 DEF Producer
<1>4. \A t \in Tracks \ {ImageTrack} : 1 \in Units(t)
  BY CountsAssumption DEF Units
<1>5. producer[r][ImageTrack].pc = "off"
  BY <1>1 DEF Unlaunched
<1> HIDE DEF q
<1> QED
  BY <1>1, <1>3, <1>4, <1>5 DEF InOrder, AllTried, Tried

\* Calls and faults are only added to, and only a call has the tool busy.
LEMMA CallsGrow ==
  ASSUME [Next]_vars
  PROVE  /\ \/ toolCalls' = toolCalls /\ (tool' \in {tool, NoTool} \/ ServeTool)
            \/ ToolCall
         /\ faults' = faults \/ faults' = faults + 1
         /\ cancelled => cancelled'
<1>1. CASE DecisionStep
  BY <1>1 DEF DecisionStep, CheckDecision, EnqueueGeneration, EnterGeneration, DecisionFails,
     Cancel, Fault, EmitItem, pipelineVars, renderVars
<1>2. CASE ItemStep
  BY <1>2 DEF ItemStep, Claim, FirstHeartbeat, SkipBatch, RunBatch, FinishHandler, FinishChat,
     WorkerCrash, RotateItem, Fault, EmitItem, pipelineVars, renderVars
<1>3. ASSUME NEW r \in Runs, NEW t \in Tracks, Produce(r, t) \/ ProducerRaises(r, t)
      PROVE  /\ UNCHANGED <<toolCalls, tool>>
             /\ faults' = faults \/ faults' = faults + 1
             /\ cancelled => cancelled'
  BY <1>3 DEF Produce, Begin, SkipPick, CancelCheck, StartUnit, FinishUnit, ProducerRaises,
     SeenCancelled, SeenLive, Fault, GiveUp, EmitOutcome, EmitStart, pipelineVars
<1>4. CASE OperatorStep
  BY <1>4 DEF OperatorStep, ServeTool, CallGeneration, StoreCreative, CallRender, NextFinal,
     FinishFinal, EmitOutcome, EmitStart, pipelineVars
<1>5. CASE UNCHANGED vars
  BY <1>5 DEF vars, pipelineVars, renderVars
<1> QED
  BY <1>1, <1>2, <1>3, <1>4, <1>5 DEF Next

\* The order is kept by every step of a stage that one operator's launch works through.
LEMMA OrderKept ==
  ASSUME IInv, OrderInv, [Next]_vars, OperatorDriven, OneLaunch, ImagesThere
  PROVE  OrderInv'
<1>1. toolCalls' = 0 => tool'.pc = "idle"
  <2>1. toolCalls \in Nat
    BY DEF IInv, ToolOK
  <2>2. ~ToolCall \/ toolCalls' = toolCalls + 1
    BY DEF ToolCall
  <2>3. toolCalls = 0 => tool.pc = "idle" /\ ~ServeTool
    BY DEF OrderInv, ServeTool, NextFinal, FinishFinal
  <2>4. NoTool.pc = "idle"
    BY DEF NoTool
  <2> QED
    BY <2>1, <2>2, <2>3, <2>4, CallsGrow
<1>2. ASSUME Calm', NEW r \in Runs
      PROVE  InOrder(r)'
  <2>1. Calm
    BY <1>2, CallsGrow DEF Calm, IInv, ToolOK, ToolCall
  <2>2. InOrder(r)
    BY <2>1 DEF OrderInv
  <2>3. CASE Quiet
    <3>1. count' = Zero => Outcomes(count') = 0
      BY DEF Zero, Outcomes
    <3>2. producer[r][ImageTrack].at \in Nat
      BY DEF IInv, ProducersTyped, Producer, Tracks
    <3> QED
      BY <2>2, <2>3, <3>1, <3>2 DEF Quiet, InOrder, AllTried, Tried
  <2>4. CASE Starts
    BY <2>2, <2>4, StartKeepsOrder DEF Starts, OneLaunch
  <2>5. ASSUME NEW q \in Runs, NEW t \in Tracks, Produce(q, t)
        PROVE  InOrder(r)'
    <3>1. q = r
      BY DEF OneLaunch
    <3> QED
      BY <1>2, <2>1, <2>2, <2>5, <3>1, ImageKeepsOrder, VideoKeepsOrder
  <2> QED
    BY <1>2, <2>1, <2>3, <2>4, <2>5, CalmSteps
<1> QED
  BY <1>1, <1>2 DEF OrderInv

\* A stage closes on the last final, or after it.
LEMMA ClosesInOrder ==
  ASSUME IInv, OrderInv, [Next]_vars, OperatorDriven, ImagesThere,
         closings' > closings, toolCalls = 0, faults = 0
  PROVE  \A w \in Finals : Attempted(w, results')
<1>1. closings \in Nat /\ count \in Count
  BY DEF IInv, EventsTyped
<1>2. Calm
  <2>1. Counted
    <3>1. closings' # closings
      BY <1>1
    <3>2. ~UNCHANGED pipelineVars /\ ~Entered /\ ~Cancel
      BY <3>1 DEF Entered, Cancel, pipelineVars
    <3> QED
      BY <3>2, EventSteps
  <2> QED
    BY <1>1, <2>1 DEF Counted, Calm
<1>3. PICK r \in Runs, t \in Tracks : Produce(r, t)
  BY <1>1, <1>2, CalmSteps
<1>4. InOrder(r)
  BY <1>2 DEF OrderInv
<1>5. CASE t # ImageTrack
  BY <1>3, <1>4, <1>5, VideoKeepsOrder DEF AllTried, Tried, Finals
<1>6. CASE t = ImageTrack
  <2> DEFINE p == producer[r][ImageTrack]
  <2>1. p.pc # "over" /\ Outcomes(count) \in Nat /\ p.at \in Nat
    <3>1. p.pc # "over"
      BY <1>3, <1>6 DEF Produce, Begin, SkipPick, CancelCheck, StartUnit, FinishUnit
    <3>2. p.at \in Nat
      BY <1>6 DEF IInv, ProducersTyped, Producer
    <3>3. Outcomes(count) \in Nat
      BY <1>1 DEF Outcomes, Count
    <3> QED
      BY <3>1, <3>2, <3>3
  <2>0. \A u : ~MissingPick(ImageTrack, u) /\ <<ImageTrack, u>> \notin Missing
    BY DEF MissingPick, ImagesThere
  <2>2. Outcomes(count) < p.at
    BY <1>4, <2>1 DEF InOrder
  <2>3. p.pc \in Launched => p.at \in 1..(Ratios * ImagePicks)
    BY <1>6 DEF IInv, ProducersOK, OneOK, Units
  <2>4. ASSUME NEW outcome \in {"done", "error"}, EmitOutcome(outcome)
        PROVE  Outcomes(count) + 1 >= Ratios * ImagePicks
    <3>1. Tally(count, outcome) \in Count /\ Outcomes(Tally(count, outcome)) <= Outcomes(count) + 1
          /\ Outcomes(Tally(count, outcome)) \in Nat
      BY <1>1, <2>4, TallyOutcomes, TallyTyped DEF Kinds
    <3>2. Outcomes(Tally(count, outcome)) >= Ratios * ImagePicks
      BY <1>1, <2>4, <3>1, ClosesOnOutcomes DEF EmitOutcome
    <3>3. Ratios * ImagePicks \in Nat
      BY CountsAssumption DEF Ratios
    <3> QED
      BY <2>1, <3>1, <3>2, <3>3
  <2>5. ~Begin(r, t)
    <3>1. ASSUME Begin(r, t)
          PROVE  p.pc = "launched" /\ EmitOutcome("error")
      BY <1>1, <1>2, <1>6, <2>0, <3>1 DEF Begin, SeenCancelled, Calm, GiveUp, pipelineVars
    <3>2. p.pc = "launched" => p.at = 1
      BY <1>6 DEF IInv, ProducersOK, OneOK
    <3> QED
      BY <2>1, <2>2, <2>3, <2>4, <3>1, <3>2, CountsAssumption DEF Launched, Ratios
  <2>6. PICK outcome \in {"done", "error"} : FinishUnit(r, t, outcome)
    <3>1. ~SkipPick(r, t)
      BY <1>6, <2>0 DEF SkipPick
    <3>2. ~CancelCheck(r, t) /\ ~StartUnit(r, t)
      BY <1>1, <1>2 DEF CancelCheck, StartUnit, EmitStart, SeenCancelled, Calm, pipelineVars
    <3> QED
      BY <1>3, <2>5, <3>1, <3>2 DEF Produce
  <2>7. p.at = Ratios * ImagePicks
    BY <1>6, <2>1, <2>2, <2>3, <2>4, <2>6, CountsAssumption DEF FinishUnit, Launched, Ratios
  <2>8. results' = results \cup {<<<<ImageTrack, p.at>>, outcome>>}
    BY <1>6, <2>6 DEF FinishUnit
  <2>9. ASSUME NEW u \in Units(ImageTrack)
        PROVE  Attempted(<<ImageTrack, u>>, results')
    <3>1. u = p.at \/ u < p.at
      BY <2>7, CountsAssumption DEF Units, Ratios
    <3>2. CASE u = p.at
      BY <2>8, <3>2 DEF Attempted
    <3>3. CASE u < p.at
      BY <1>4, <2>8, <3>3 DEF InOrder, Tried, Attempted
    <3> QED
      BY <3>1, <3>2, <3>3
  <2> QED
    BY <2>9 DEF Finals
<1> QED
  BY <1>5, <1>6

\* Operator-driven, with one launch and no image pick gone, the trigger closes the stage
\* only when every planned final was tried, unless a tool rendered by hand or a call failed.
\* In the worker's mode videos render beside the images and their outcomes count as finals
\* do; a second launch counts twice, and a pick that is gone has an outcome and no try.
THEOREM EveryFinalAttemptedHolds ==
  ASSUME OperatorDriven, OneLaunch, ImagesThere
  PROVE  Spec => EveryFinalAttempted
<1>1. Init => OrderInv
  BY DEF Init, OrderInv, InOrder, NoTool, Zero, Outcomes, Tracks, Units, Tried
<1>2. IInv /\ OrderInv /\ [Next]_vars => OrderInv'
  BY OrderKept
<1>3. IInv /\ OrderInv /\ [Next]_vars
        => [closings' > closings /\ toolCalls = 0 /\ faults = 0 =>
              \A w \in Finals : Attempted(w, results')]_vars
  BY ClosesInOrder
<1> QED
  BY <1>1, <1>2, <1>3, StageInductive, PTL DEF Spec, EveryFinalAttempted

-----------------------------------------------------------------------------
(* The list of the page.                                                   *)

Before(S, x) == {y \in S : y < x}
Place(S) == [x \in S |-> Cardinality(Before(S, x)) + 1]

\* Each of finitely many rows has a place of its own, and each place its row.
LEMMA PlacesAreTaken ==
  ASSUME NEW S \in SUBSET Nat, IsFiniteSet(S)
  PROVE  Place(S) \in Bijection(S, 1..Cardinality(S))
<1> DEFINE n == Cardinality(S)
           T == 1..n
<1>1. n \in Nat /\ IsFiniteSet(T) /\ Cardinality(T) = n
  BY FS_CardinalityType, FS_Interval
<1>2. ASSUME NEW x \in S
      PROVE  /\ IsFiniteSet(Before(S, x)) /\ Cardinality(Before(S, x)) \in Nat
             /\ Cardinality(Before(S, x)) < n
  <2>1. Before(S, x) \subseteq S \ {x}
    BY DEF Before
  <2>2. IsFiniteSet(S \ {x}) /\ Cardinality(S \ {x}) = n - 1
    BY FS_RemoveElement
  <2>3. IsFiniteSet(Before(S, x)) /\ Cardinality(Before(S, x)) <= n - 1
    BY <2>1, <2>2, FS_Subset
  <2> QED
    BY <1>1, <2>3, FS_CardinalityType
<1>3. Place(S) \in [S -> T]
  BY <1>1, <1>2 DEF Place
<1>4. ASSUME NEW x \in S, NEW z \in S, x < z
      PROVE  Place(S)[x] # Place(S)[z]
  <2>1. Before(S, x) \subseteq Before(S, z) /\ x \in Before(S, z) /\ x \notin Before(S, x)
    <3>1. \A y \in S : y \in Nat
      OBVIOUS
    <3>2. \A y \in S : y < x => y < z
      BY <1>4, <3>1
    <3>3. ~(x < x)
      BY <3>1
    <3> QED
      BY <1>4, <3>2, <3>3 DEF Before
  <2>2. Cardinality(Before(S, x)) # Cardinality(Before(S, z))
    BY <1>2, <2>1, FS_Subset
  <2> QED
    BY <1>2, <2>2 DEF Place
<1>5. Place(S) \in Injection(S, T)
  <2>1. ASSUME NEW x \in S, NEW z \in S, Place(S)[x] = Place(S)[z]
        PROVE  x = z
    <3>1. x < z \/ z < x \/ x = z
      OBVIOUS
    <3> QED
      BY <1>4, <2>1, <3>1
  <2> QED
    BY <1>3, <2>1 DEF Injection, IsInjective
<1>6. Place(S) \in Surjection(S, T)
  BY <1>1, <1>5, FS_Injection
<1> QED
  BY <1>5, <1>6 DEF Bijection

\* sortChronologically loses no row and adds none.
LEMMA AscendingKeepsRows ==
  ASSUME NEW S \in SUBSET Nat, IsFiniteSet(S)
  PROVE  Range(Ascending(S)) = S
<1> DEFINE n == Cardinality(S)
<1>1. n \in Nat /\ \A x \in S : Cardinality(Before(S, x)) \in Nat
  <2>1. \A x \in S : IsFiniteSet(Before(S, x))
    BY FS_Subset DEF Before
  <2> QED
    BY <2>1, FS_CardinalityType
<1>2. ASSUME NEW i \in 1..n
      PROVE  \E x \in S : /\ Place(S)[x] = i
                          /\ \A z \in S : Place(S)[z] = i => z = x
  BY PlacesAreTaken DEF Bijection, Injection, Surjection, IsInjective
<1>3. \A x \in S : Place(S)[x] \in 1..n
  BY PlacesAreTaken DEF Bijection, Injection
<1>4. \A x \in S, i \in 1..n : Place(S)[x] = i <=> Cardinality({y \in S : y < x}) = i - 1
  BY <1>1 DEF Place, Before
<1>5. ASSUME NEW i \in 1..n
      PROVE  Ascending(S)[i] \in S /\ Place(S)[Ascending(S)[i]] = i
  <2>1. Ascending(S)[i] = CHOOSE x \in S : Cardinality({y \in S : y < x}) = i - 1
    BY DEF Ascending
  <2>2. \E x \in S : Cardinality({y \in S : y < x}) = i - 1
    BY <1>2, <1>4
  <2>3. Ascending(S)[i] \in S /\ Cardinality({y \in S : y < Ascending(S)[i]}) = i - 1
    BY <2>1, <2>2
  <2> QED
    BY <1>4, <2>3
<1>6. DOMAIN Ascending(S) = 1..n
  BY DEF Ascending
<1>7. ASSUME NEW x \in S
      PROVE  x \in Range(Ascending(S))
  <2>1. Place(S)[x] \in 1..n
    BY <1>3
  <2>2. Ascending(S)[Place(S)[x]] = x
    <3> DEFINE i == Place(S)[x]
               a == Ascending(S)[i]
    <3>1. a \in S /\ Place(S)[a] = i
      BY <1>5, <2>1
    <3>2. Place(S)[x] = i
      OBVIOUS
    <3> HIDE DEF i, a
    <3>3. i \in 1..n
      BY <2>1 DEF i
    <3>4. a = x
      BY <1>2, <3>1, <3>2, <3>3
    <3> QED
      BY <3>4 DEF a, i
  <2> QED
    BY <1>6, <2>1, <2>2 DEF Range
<1>8. Range(Ascending(S)) \subseteq S
  BY <1>5, <1>6 DEF Range
<1> QED
  BY <1>7, <1>8

-----------------------------------------------------------------------------
(* The rows and the streams.                                               *)

Messages == written \cup {Failure, OtherChange}

\* What is on its way, waits, is shown or was read has been written.
RowsKnown ==
  /\ written \subseteq Rows /\ gates \in 0..1 /\ pills \in 0..gates
  /\ wire \in [Streams -> Seq(Messages)]
  /\ queue \in Seq(written) /\ Range(shown) \subseteq written
  /\ answer = {} \/ \E a : answer = {a}
  /\ \A a \in answer : a.rows \subseteq written /\ a.gates \in 0..gates

StreamsTyped ==
  /\ relay \in [Streams -> [Conns -> Channel]]
  /\ source \in [Streams -> Conns \cup {None}]
  /\ timer \in [Streams -> BOOLEAN] /\ mounted \in BOOLEAN
  /\ asked \in Nat /\ upsets \in 0..MaxUpsets

PageInv == RowsKnown /\ StreamsTyped

LEMMA PageInitInv == PageInit => PageInv
<1> SUFFICES ASSUME PageInit PROVE PageInv
  OBVIOUS
<1>1. 1 \in Conns /\ MaxUpsets \in Nat
  BY PageAssumption DEF Conns
<1>2. RowsKnown
  BY DEF PageInit, RowsKnown, Messages, Range
<1>3. StreamsTyped
  BY <1>1 DEF PageInit, StreamsTyped, Channel
<1> QED
  BY <1>2, <1>3 DEF PageInv

LEMMA StreamsKeepTypes ==
  ASSUME StreamsTyped, [PageNext]_pageVars
  PROVE  StreamsTyped'
<1> USE PageAssumption DEF StreamsTyped
<1>1. ASSUME NEW s \in Streams,
             HearFailure(s) \/ Connect(s) \/ ChannelFails(s) \/ ConnectionLost(s)
      PROVE  StreamsTyped'
  <2>1. CASE HearFailure(s)
    BY <2>1 DEF HearFailure, OnError
  <2>2. CASE Connect(s)
    BY <2>2 DEF Connect, Channel
  <2>3. CASE ChannelFails(s)
    BY <2>3 DEF ChannelFails, Channel
  <2>4. CASE ConnectionLost(s)
    BY <2>4 DEF ConnectionLost, OnError
  <2> QED
    BY <1>1, <2>1, <2>2, <2>3, <2>4
<1>2. CASE Server
  BY <1>2 DEF Server, Subscribed, Teardown, Channel
<1>3. CASE QueueRow \/ AskForRefresh \/ Flush \/ ReadForRefresh \/ Reseed \/ OthersAsk \/ ChangeGate
  BY <1>3 DEF QueueRow, AskForRefresh, Flush, ReadForRefresh, Reseed, OthersAsk, ChangeGate
<1>4. CASE Unmount
  BY <1>4 DEF Unmount
<1>5. CASE \E r \in Rows : WriteRow(r)
  BY <1>5 DEF WriteRow
<1>6. CASE UNCHANGED pageVars
  BY <1>6 DEF pageVars
<1> QED
  BY <1>1, <1>2, <1>3, <1>4, <1>5, <1>6 DEF PageNext, Browser

\* An announcement puts one message at the end of a wire.
LEMMA AnnouncementsKnown ==
  ASSUME NEW table, NEW message, wire \in [Streams -> Seq(Messages)], Announce(table, message),
         written \subseteq written', message \in Messages'
  PROVE  wire' \in [Streams -> Seq(Messages')]
<1>1. \A s \in Streams : wire[s] \in Seq(Messages')
  BY DEF Messages
<1>2. \A s \in Streams : Append(wire[s], message) \in Seq(Messages')
  BY <1>1
<1> QED
  BY <1>1, <1>2 DEF Announce

\* What the flush shows.
LEMMA FlushShows ==
  ASSUME RowsKnown, Flush
  PROVE  Range(shown') = Range(shown) \cup Range(queue)
<1>1. Range(queue) \subseteq written
  BY DEF RowsKnown, Range
<1>2. Range(shown) \cup Range(queue) \in SUBSET Nat /\ IsFiniteSet(Range(shown) \cup Range(queue))
  BY <1>1, PageAssumption, FS_Subset DEF RowsKnown
<1>3. CASE Range(queue) \subseteq Range(shown)
  BY <1>3 DEF Flush, AppendChronologically
<1>4. CASE ~(Range(queue) \subseteq Range(shown))
  BY <1>2, <1>4, AscendingKeepsRows DEF Flush, AppendChronologically
<1> QED
  BY <1>3, <1>4

\* What the answer of a refresh shows.
LEMMA ReseedShows ==
  ASSUME RowsKnown, NEW a \in answer, shown' = Ascending(a.rows)
  PROVE  Range(shown') = a.rows
<1>1. a.rows \in SUBSET Nat /\ IsFiniteSet(a.rows)
  BY PageAssumption, FS_Subset DEF RowsKnown
<1> QED
  BY <1>1, AscendingKeepsRows

LEMMA RowsStayKnown ==
  ASSUME RowsKnown, [PageNext]_pageVars
  PROVE  RowsKnown'
<1>1. ASSUME NEW r \in Rows, WriteRow(r)
      PROVE  RowsKnown'
  <2>1. written' = written \cup {r} /\ r \in Messages'
    BY <1>1 DEF WriteRow, Messages
  <2>2. wire' \in [Streams -> Seq(Messages')]
    BY <1>1, <2>1, AnnouncementsKnown DEF WriteRow, RowsKnown
  <2>3. queue' \in Seq(written')
    BY <1>1, <2>1 DEF WriteRow, RowsKnown
  <2> QED
    BY <1>1, <2>1, <2>2, <2>3 DEF WriteRow, RowsKnown
<1>2. CASE ChangeGate
  <2>1. wire' \in [Streams -> Seq(Messages')]
    BY <1>2, AnnouncementsKnown DEF ChangeGate, RowsKnown, Messages
  <2>2. pills \in 0..1 /\ \A a \in answer : a.rows \subseteq written /\ a.gates \in 0..1
    BY <1>2 DEF ChangeGate, RowsKnown
  <2>3. gates' = 1 /\ UNCHANGED <<written, queue, shown, pills, answer>>
    BY <1>2 DEF ChangeGate
  <2>4. gates' \in 0..1 /\ pills' \in 0..gates'
    BY <2>2, <2>3
  <2>5. \A a \in answer' : a.rows \subseteq written' /\ a.gates \in 0..gates'
    BY <2>2, <2>3
  <2>6. /\ written' \subseteq Rows /\ queue' \in Seq(written') /\ Range(shown') \subseteq written'
        /\ answer' = {} \/ \E a : answer' = {a}
    BY <2>3 DEF RowsKnown
  <2> QED
    BY <2>1, <2>4, <2>5, <2>6 DEF RowsKnown
<1>3. ASSUME NEW s \in Streams, ChannelFails(s)
      PROVE  RowsKnown'
  <2>1. Append(wire[s], Failure) \in Seq(Messages)
    BY DEF RowsKnown, Messages
  <2> QED
    BY <1>3, <2>1 DEF ChannelFails, RowsKnown, Messages
<1>4. ASSUME NEW s \in Streams, HearFailure(s) \/ Connect(s) \/ ConnectionLost(s)
      PROVE  RowsKnown'
  <2>1. <<>> \in Seq(Messages)
    OBVIOUS
  <2> QED
    BY <1>4, <2>1 DEF HearFailure, Connect, ConnectionLost, OnError, RowsKnown, Messages
<1>5. CASE Server
  BY <1>5 DEF Server, Subscribed, Teardown, RowsKnown, Messages
<1>6. CASE QueueRow
  <2> DEFINE w == wire["timeline"]
  <2>1. w \in Seq(Messages) /\ w # <<>>
    BY <1>6 DEF QueueRow, RowsKnown, Streams
  <2>2. Tail(w) \in Seq(Messages) /\ Head(w) \in Messages
    BY <2>1
  <2>3. Head(w) \in written
    BY <1>6, <2>2, PageAssumption DEF QueueRow, Messages, Failure, OtherChange
  <2>4. queue' \in Seq(written)
    BY <1>6, <2>3 DEF QueueRow, RowsKnown
  <2>5. wire' \in [Streams -> Seq(Messages)]
    BY <1>6, <2>2 DEF QueueRow, RowsKnown
  <2> QED
    BY <1>6, <2>4, <2>5 DEF QueueRow, RowsKnown, Messages
<1>7. CASE AskForRefresh
  <2>1. Tail(wire["detail"]) \in Seq(Messages)
    BY <1>7 DEF AskForRefresh, RowsKnown, Streams
  <2> QED
    BY <1>7, <2>1 DEF AskForRefresh, RowsKnown, Messages
<1>8. CASE Flush
  <2>1. Range(shown') \subseteq written
    <3>1. Range(queue) \subseteq written
      BY DEF RowsKnown, Range
    <3> QED
      BY <1>8, <3>1, FlushShows DEF RowsKnown
  <2>2. queue' \in Seq(written)
    BY <1>8 DEF Flush
  <2> QED
    BY <1>8, <2>1, <2>2 DEF Flush, RowsKnown, Messages
<1>9. CASE ReadForRefresh
  <2>1. Newest \subseteq written
    BY DEF Newest
  <2>2. gates \in 0..gates
    BY DEF RowsKnown
  <2> DEFINE a == [rows |-> Newest, gates |-> gates]
  <2>3. a.rows \subseteq written /\ a.gates \in 0..gates
    BY <2>1, <2>2
  <2>4. answer' = {a}
    BY <1>9 DEF ReadForRefresh
  <2> HIDE DEF a
  <2>5. /\ answer' = {} \/ \E b : answer' = {b}
        /\ \A b \in answer' : b.rows \subseteq written /\ b.gates \in 0..gates
    BY <2>3, <2>4
  <2> QED
    BY <1>9, <2>5 DEF ReadForRefresh, RowsKnown, Messages
<1>10. CASE Reseed
  <2>1. PICK a \in answer : shown' = Ascending(a.rows) /\ pills' = a.gates
    BY <1>10 DEF Reseed
  <2>2. Range(shown') \subseteq written
    BY <2>1, ReseedShows DEF RowsKnown
  <2> QED
    BY <1>10, <2>1, <2>2 DEF Reseed, RowsKnown, Messages
<1>11. CASE OthersAsk
  BY <1>11 DEF OthersAsk, RowsKnown, Messages
<1>12. CASE Unmount
  BY <1>12 DEF Unmount, RowsKnown, Messages
<1>13. CASE UNCHANGED pageVars
  BY <1>13 DEF pageVars, RowsKnown, Messages
<1> QED
  BY <1>1, <1>2, <1>3, <1>4, <1>5, <1>6, <1>7, <1>8, <1>9, <1>10, <1>11, <1>12, <1>13
  DEF PageNext, Browser

LEMMA PageInductive == PageSpec => []PageInv
<1>1. PageInv /\ [PageNext]_pageVars => PageInv'
  BY RowsStayKnown, StreamsKeepTypes DEF PageInv
<1> QED
  BY <1>1, PageInitInv, PTL DEF PageSpec

\* Type correctness: what the page shows, and what is on its way there, was written.
THEOREM PageTyped == PageSpec => []PageTypeOK
<1>1. ASSUME PageInv
      PROVE  PageTypeOK
  <2>1. \A s \in Streams : Range(wire[s]) \subseteq Rows \cup {Failure, OtherChange}
    BY <1>1 DEF PageInv, RowsKnown, Messages, Range
  <2>2. Range(queue) \subseteq written
    BY <1>1 DEF PageInv, RowsKnown, Range
  <2>3. Cardinality(answer) <= 1
    <3>1. CASE answer = {}
      BY <3>1, FS_EmptySet
    <3>2. ASSUME NEW a, answer = {a}
          PROVE  Cardinality(answer) <= 1
      <4>1. Cardinality({a}) = 1
        BY FS_Singleton
      <4> QED
        BY <3>2, <4>1
    <3> QED
      BY <1>1, <3>1, <3>2 DEF PageInv, RowsKnown
  <2> QED
    BY <1>1, <2>1, <2>2, <2>3 DEF PageInv, RowsKnown, StreamsTyped, PageTypeOK
<1> QED
  BY <1>1, PageInductive, PTL

\* A row that the timeline has heard of is shown, or waits on, whatever refreshes come in
\* between and however often the streams are lost (usePipelineEvents, realtime-queue).
THEOREM HeardIsShownHolds == PageSpec => HeardIsShown
<1> DEFINE Kept == \A r \in Range(queue) : mounted' => r \in Range(queue') \cup Range(shown')
<1>1. ASSUME PageInv, [PageNext]_pageVars
      PROVE  Kept
  <2>1. CASE Flush
    BY <1>1, <2>1, FlushShows DEF PageInv
  <2>2. CASE Unmount
    BY <2>2 DEF Unmount
  <2>3. CASE QueueRow
    <3>1. CASE queue' = queue
      BY <3>1
    <3>2. CASE queue' = Append(queue, Head(wire["timeline"]))
      BY <1>1, <3>2 DEF PageInv, RowsKnown, Range
    <3> QED
      BY <2>3, <3>1, <3>2 DEF QueueRow
  <2>4. CASE ~Flush /\ ~Unmount /\ ~QueueRow
    <3>1. queue' = queue
      BY <1>1, <2>4 DEF PageNext, Browser, Server, HearFailure, Connect, AskForRefresh,
         ReadForRefresh, Reseed, Subscribed, Teardown, OthersAsk, ChangeGate, WriteRow,
         ChannelFails, ConnectionLost, pageVars
    <3> QED
      BY <3>1
  <2> QED
    BY <2>1, <2>2, <2>3, <2>4
<1>2. PageInv /\ [PageNext]_pageVars => [Kept]_pageVars
  BY <1>1
<1> QED
  BY <1>2, PageInductive, PTL DEF PageSpec, HeardIsShown
=============================================================================
