------------------------- MODULE StageMachineProofs -------------------------
(***************************************************************************)
(* Theorems about StageMachine, for every set of requests and every bound. *)
(*                                                                         *)
(* The inductive invariant says what a request knows at each of its places *)
(* in spite of all the others: the stage it leaves was entered and is one  *)
(* its route may leave, what it asked at the gate of that stage was        *)
(* answered yes since the stage was entered, the brief it minted is its    *)
(* own and is there until it refers the pipeline to it.                    *)
(***************************************************************************)
EXTENDS StageMachine, TLAPS

PastStatus == {"checked", "cleared", "updated", "emitted", "queued", "undo"}
PastGate   == PastStatus \ {"checked"}

\* What holds of request r wherever it is.
RequestOK(r) ==
  /\ req[r].at \in PastStatus => /\ req[r].from \in entered
                                 /\ Accepts(req[r].intent, req[r].from)
  /\ req[r].at = "loaded"  => req[r].asked = 0
  /\ req[r].at = "checked" => \A n \in 1..req[r].asked : <<req[r].from, n>> \in held
  /\ req[r].at \in PastGate /\ req[r].intent \in Moves /\ req[r].from \in LiveGates
       => QuestionsOf(req[r].from) \subseteq held
  /\ req[r].at = "emitted" => Enqueues(r) /\ Target(r) \in entered
  /\ req[r].at = "queued"  => Generation \in items
  /\ req[r].at = "updated" /\ Mints(r) => brief # NoBrief

RequestsOK == \A r \in Requests : RequestOK(r)

\* Briefs are minted once, each by one request, and are there until they are
\* undone.
BriefsOK ==
  /\ brief # NoBrief => brief \in posted
  /\ posted \subseteq 1..minted
  /\ \A r \in Requests : /\ req[r].brief <= minted
                         /\ req[r].brief # NoBrief => req[r].at \in PastGate
  /\ \A r \in Requests : req[r].at = "cleared" /\ req[r].brief # NoBrief => req[r].brief \in posted
  /\ \A r, q \in Requests : r # q /\ req[r].brief = req[q].brief => req[r].brief = NoBrief

\* The stage was entered, and an answer that is yes since then was noticed.
EntriesOK ==
  /\ {Configuration, stage} \subseteq entered
  /\ OpenIn(entered) \subseteq held

IInv ==
  /\ TypeOK
  /\ EntriesOK
  /\ RequestsOK
  /\ BriefsOK
  /\ StagesInOrder
  /\ EntryHasExecutor
  /\ NoEarlyExecutor
  /\ HardGateHeld
  /\ BriefBeforeIdeation

\* Places, stages and gates, expanded.
LEMMA StageFacts ==
  /\ Stages = 0..12
  /\ RowGates \subseteq Stages /\ LiveGates \subseteq Stages
  /\ Executed \subseteq Stages
BY DEF Stages, RowGates, LiveGates, Executed, Configuration, Ideation, Review, Generation,
       CreativeQa, Copy, Compliance, SpecCheck, VariantPlan, FinalizeAssets, LaunchHandoff,
       Monitor, Done

\* A request that moves the pipeline leaves a stage that has a successor; only
\* the decision leaves review and only the trigger leaves generation.
LEMMA MoveFacts ==
  ASSUME NEW intent \in Moves, NEW s \in Stages, Accepts(intent, s)
  PROVE  /\ s \in 0..11 /\ Successor(s) \in Stages /\ Successor(s) - 1 = s
         /\ s = Configuration => intent = "advance"
         /\ s = Review <=> intent = "approve"
         /\ s = Monitor <=> intent \in Verdicts
         /\ s # Generation
<1> USE DEF Successor, Stages, AdvanceRoute, Gates, RowGates, LiveGates, Configuration, Ideation,
       Review, Generation, CreativeQa, Copy, Compliance, SpecCheck, VariantPlan, FinalizeAssets,
       LaunchHandoff, Monitor, Done
<1>1. CASE intent = "advance"
  BY <1>1 DEF Accepts, Verdicts
<1>2. CASE intent = "approve"
  BY <1>2 DEF Accepts, Verdicts
<1>3. CASE intent = "plan"
  BY <1>3 DEF Accepts, Verdicts
<1>4. CASE intent = "launch"
  BY <1>4 DEF Accepts, Verdicts
<1>5. CASE intent \in Verdicts
  BY <1>5 DEF Accepts, Verdicts
<1> QED BY <1>1, <1>2, <1>3, <1>4, <1>5 DEF Moves

\* A gate asks one to three questions, and those on the pipeline's row ask one.
LEMMA AskFacts ==
  ASSUME NEW s \in Stages
  PROVE  /\ Asks(s) \in 1..3
         /\ Asks(s) > 1 => s \in LiveGates /\ s \notin RowGates
         /\ \A q \in QuestionsOf(s) : \E n \in 1..Asks(s) : q = <<s, n>>
         /\ s \in LiveGates => \A n \in 1..Asks(s) : <<s, n>> \in Questions
<1>1. Asks(s) \in 1..3 /\ (Asks(s) > 1 => s \in {Copy, FinalizeAssets, LaunchHandoff})
  BY DEF Asks
<1>2. /\ {Copy, FinalizeAssets, LaunchHandoff} \subseteq LiveGates
      /\ LiveGates \cap RowGates = {} /\ LiveGates \subseteq Gates
  BY DEF Gates, LiveGates, RowGates, Configuration, Ideation, CreativeQa, Copy, Compliance, SpecCheck,
         FinalizeAssets, LaunchHandoff
<1>3. \A q \in QuestionsOf(s) : q = <<s, q[2]>> /\ q[2] \in 1..3 /\ q[2] <= Asks(s)
  BY DEF QuestionsOf, Questions
<1>4. \A q \in QuestionsOf(s) : q[2] \in 1..Asks(s)
  BY <1>1, <1>3
<1>5. s \in LiveGates => \A n \in 1..Asks(s) : <<s, n>> \in Questions
  BY <1>1, <1>2 DEF Questions
<1> QED BY <1>1, <1>2, <1>3, <1>4, <1>5

LEMMA IdleFacts ==
  Idle \in Request /\ Idle.at = "idle" /\ Idle.brief = NoBrief /\ Idle.asked = 0
BY DEF Idle, Request, Places, Intents, Moves, Stages, Configuration, Done, NoBrief

LEMMA InitIInv == Init => IInv
<1> SUFFICES ASSUME Init PROVE IInv OBVIOUS
<1> USE BoundsAssumption
<1>1. Idle \in Request
  BY DEF Idle, Request, Places, Intents, Moves, Stages, Configuration, Done, NoBrief
<1>2. TypeOK
  <2>1. req \in [Requests -> Request]
    BY <1>1 DEF Init
  <2>2. MaxBriefs \in Nat /\ MaxMishaps \in Nat
    OBVIOUS
  <2>3. /\ stage \in Stages /\ entered \subseteq Stages
        /\ brief \in Briefs \cup {NoBrief} /\ minted \in 0..MaxBriefs /\ mishaps \in 0..MaxMishaps
    BY <2>2 DEF Init, Stages, Configuration, Done
  <2>4. operatorDriven \in BOOLEAN /\ cancelled \in BOOLEAN
    BY DEF Init
  <2> QED BY <2>1, <2>3, <2>4 DEF Init, TypeOK
<1>3. RequestsOK /\ BriefsOK
  BY DEF Init, RequestsOK, RequestOK, BriefsOK, Idle, PastStatus, PastGate, NoBrief
<1>4. EntriesOK /\ StagesInOrder /\ NoEarlyExecutor /\ BriefBeforeIdeation
  BY DEF Init, EntriesOK, OpenIn, StagesInOrder, NoEarlyExecutor, BriefBeforeIdeation,
         Configuration, Ideation
<1>5. EntryHasExecutor /\ HardGateHeld
  BY DEF Init, EntryHasExecutor, HardGateHeld, Executed, LiveGates, Successor, Configuration,
         Ideation, Generation, CreativeQa, Copy, Compliance, SpecCheck, VariantPlan,
         FinalizeAssets, LaunchHandoff, Done
<1> QED BY <1>2, <1>3, <1>4, <1>5 DEF IInv

-----------------------------------------------------------------------------
(* Steps that change one request and nothing else that others see.         *)

LEMMA LocalStep ==
  ASSUME IInv, NEW r \in Requests, NEW e \in Request,
         req' = [req EXCEPT ![r] = e],
         UNCHANGED <<eventVars, rowVars, briefVars, queueVars, gateVars>>,
         mishaps' \in 0..MaxMishaps,
         req[r].at # "emitted", e.at # "emitted",
         RequestOK(r)',
         e.brief \in {NoBrief, req[r].brief},
         e.brief # NoBrief => e.at \in PastGate,
         e.at = "cleared" /\ e.brief # NoBrief => req[r].at = "cleared"
  PROVE  IInv'
<1> USE DEF eventVars, rowVars, briefVars, queueVars, gateVars
<1>1. req \in [Requests -> Request] /\ req'[r] = e /\ \A q \in Requests \ {r} : req'[q] = req[q]
  BY DEF IInv, TypeOK
<1>2. TypeOK'
  BY <1>1 DEF IInv, TypeOK
<1>3. RequestsOK'
  <2> SUFFICES ASSUME NEW q \in Requests \ {r} PROVE RequestOK(q)'
    BY DEF RequestsOK
  <2> QED BY <1>1 DEF IInv, RequestsOK, RequestOK, Enqueues, Target, Mints, Executed
<1>4. BriefsOK'
  <2>1. minted \in Nat /\ NoBrief <= minted
    BY BoundsAssumption DEF IInv, TypeOK, NoBrief
  <2>2. \A q \in Requests : req'[q].brief \in {NoBrief, req[q].brief}
    BY <1>1
  <2>4. \A q \in Requests : req'[q].brief # NoBrief => req'[q].at \in PastGate
    BY <1>1 DEF IInv, BriefsOK
  <2>3. \A q \in Requests : req'[q].at = "cleared" /\ req'[q].brief # NoBrief => req'[q].brief \in posted
    BY <1>1, <2>2 DEF IInv, BriefsOK
  <2> QED BY <2>1, <2>2, <2>3, <2>4 DEF IInv, BriefsOK
<1>5. EntryHasExecutor'
  <2> SUFFICES ASSUME NEW s \in entered \cap Executed,
                      NEW q \in Requests, req[q].at = "emitted", Target(q) = s
               PROVE  \E p \in Requests : (req[p].at = "emitted" /\ Target(p) = s)'
    BY DEF IInv, EntryHasExecutor, Served, Executed
  <2> QED BY <1>1 DEF Target
<1>6. EntriesOK' /\ StagesInOrder' /\ NoEarlyExecutor' /\ HardGateHeld' /\ BriefBeforeIdeation'
  BY DEF IInv, EntriesOK, OpenIn, StagesInOrder, NoEarlyExecutor, HardGateHeld, BriefBeforeIdeation
<1> QED BY <1>2, <1>3, <1>4, <1>5, <1>6 DEF IInv

LEMMA LoadInv == ASSUME IInv, NEW r \in Requests, Load(r) PROVE IInv'
<1> DEFINE e == [Idle EXCEPT !.at = "loaded", !.passable = Passing \cap RowGates]
<1>1. e \in Request /\ e.at = "loaded" /\ e.brief = NoBrief /\ e.asked = 0
  <2>1. Passing \cap RowGates \in SUBSET RowGates
    OBVIOUS
  <2>2. "loaded" \in Places
    BY DEF Places
  <2> QED BY <2>1, <2>2, IdleFacts DEF Request
<1>2. req' = [req EXCEPT ![r] = e] /\ req[r].at = "idle"
  BY DEF Load
<1>3. req'[r] = e
  BY <1>2 DEF IInv, TypeOK
<1>4. RequestOK(r)'
  BY <1>1, <1>3 DEF RequestOK, PastStatus, PastGate
<1>5. mishaps' \in 0..MaxMishaps
  BY DEF Load, IInv, TypeOK
<1> HIDE DEF e
<1> QED BY <1>1, <1>2, <1>4, <1>5, LocalStep DEF Load

\* A request that is given up leaves nothing to hold.
LEMMA GiveUp ==
  ASSUME IInv, NEW r \in Requests, req' = [req EXCEPT ![r] = Idle],
         UNCHANGED <<eventVars, rowVars, briefVars, queueVars, gateVars>>,
         mishaps' \in 0..MaxMishaps, req[r].at # "emitted"
  PROVE  IInv'
<1>1. req'[r] = Idle
  BY DEF IInv, TypeOK
<1>2. RequestOK(r)'
  BY <1>1, IdleFacts DEF RequestOK, PastStatus, PastGate
<1> QED BY <1>2, IdleFacts, LocalStep

LEMMA CheckStatusInv ==
  ASSUME IInv, NEW r \in Requests, NEW intent \in Intents, CheckStatus(r, intent)
  PROVE  IInv'
<1>1. mishaps' \in 0..MaxMishaps /\ req[r].at = "loaded" /\ req[r] \in Request
  BY DEF CheckStatus, IInv, TypeOK
<1>2. CASE ~Accepts(intent, Status)
  BY <1>1, <1>2, GiveUp DEF CheckStatus
<1>3. CASE Accepts(intent, Status)
  <2> DEFINE e == [req[r] EXCEPT !.at = "checked", !.intent = intent, !.from = Status,
                                 !.passable = req[r].passable \cap {Status}]
  <2>1. Status = stage /\ stage \in Stages /\ stage \in entered
    BY <1>3 DEF Status, Accepts, Intents, Moves, Stops, Verdicts, AdvanceRoute, Gates, RowGates, LiveGates,
           IInv, TypeOK, EntriesOK, Stages, Configuration, Ideation, Review, CreativeQa, Copy,
           Compliance, SpecCheck, VariantPlan, FinalizeAssets, LaunchHandoff, Monitor, Done, Cancelled
  <2>2. e \in Request
    BY <1>1, <2>1 DEF Request, Places
  <2>3. /\ e.at = "checked" /\ e.intent = intent /\ e.from = stage /\ e.brief = NoBrief
        /\ e.asked = 0
    BY <1>1, <2>1 DEF Request, IInv, BriefsOK, RequestsOK, RequestOK, PastGate, PastStatus
  <2>4. req' = [req EXCEPT ![r] = e]
    BY <1>3 DEF CheckStatus
  <2>5. req'[r] = e
    BY <2>4 DEF IInv, TypeOK
  <2>6. UNCHANGED <<eventVars, rowVars, briefVars, queueVars, gateVars>> /\ entered' = entered
    BY DEF CheckStatus, eventVars
  <2> HIDE DEF e
  <2>7. RequestOK(r)'
    BY <1>3, <2>1, <2>3, <2>5, <2>6 DEF RequestOK, PastGate, PastStatus
  <2> QED BY <1>1, <2>2, <2>3, <2>4, <2>6, <2>7, LocalStep
<1> QED BY <1>2, <1>3

LEMMA CheckGateInv == ASSUME IInv, NEW r \in Requests, CheckGate(r) PROVE IInv'
<1>1. /\ mishaps' \in 0..MaxMishaps /\ req[r].at = "checked" /\ req[r] \in Request
      /\ UNCHANGED <<eventVars, rowVars, briefVars, queueVars, gateVars>>
  BY DEF CheckGate, IInv, TypeOK
<1>2. CASE ~GateOpen(r)
  BY <1>1, <1>2, GiveUp DEF CheckGate
<1>3. CASE GateOpen(r)
  <2> DEFINE s == req[r].from
             n == req[r].asked + 1
             next == IF Mints(r) THEN "cleared" ELSE "updated"
             e == IF AsksOn(r) THEN [req[r] EXCEPT !.asked = n]
                  ELSE [req[r] EXCEPT !.at = next, !.passable = {}, !.asked = 0]
  <2>1. /\ s \in Stages /\ s \in entered /\ Accepts(req[r].intent, s)
        /\ req[r].asked \in 0..2 /\ n \in 1..3 /\ req[r].brief = NoBrief
        /\ \A k \in 1..req[r].asked : <<s, k>> \in held
    BY <1>1 DEF Request, IInv, RequestsOK, RequestOK, BriefsOK, PastGate, PastStatus
  <2>2. AsksOn(r) => n \in 1..2
    BY <2>1, AskFacts DEF AsksOn
  <2>3. /\ e \in Request /\ e.intent = req[r].intent /\ e.from = s /\ e.brief = NoBrief
        /\ AsksOn(r) => e.at = "checked" /\ e.asked = n
        /\ ~AsksOn(r) => e.at = next
    <3>1. CASE AsksOn(r)
      <4>1. e = [req[r] EXCEPT !.asked = n]
        BY <3>1
      <4> HIDE DEF e, n
      <4> QED BY <1>1, <2>1, <2>2, <3>1, <4>1 DEF Request
    <3>2. CASE ~AsksOn(r)
      <4>1. next \in Places /\ {} \subseteq RowGates /\ 0 \in 0..2
        BY DEF Places
      <4>2. e = [req[r] EXCEPT !.at = next, !.passable = {}, !.asked = 0]
        BY <3>2
      <4> HIDE DEF e, next, n
      <4>3. e \in Request
        BY <1>1, <4>1, <4>2 DEF Request
      <4>4. e.at = next /\ e.intent = req[r].intent /\ e.from = s /\ e.brief = NoBrief
        BY <1>1, <2>1, <4>2 DEF Request
      <4> QED BY <3>2, <4>3, <4>4
    <3> QED BY <3>1, <3>2
  <2>4. req' = [req EXCEPT ![r] = e]
    <3>1. req' = [req EXCEPT ![r] = IF AsksOn(r) THEN [req[r] EXCEPT !.asked = req[r].asked + 1]
                                    ELSE [req[r] EXCEPT !.at = next, !.passable = {}, !.asked = 0]]
      <4>1. req \in [Requests -> Request]
        BY DEF IInv, TypeOK
      <4> QED BY <1>3, <4>1 DEF CheckGate
    <3> QED BY <3>1
  <2>5. req'[r] = e
    BY <2>4 DEF IInv, TypeOK
  <2>6. entered' = entered /\ held' = held /\ operatorDriven' = operatorDriven
    BY <1>1 DEF eventVars, gateVars, rowVars
  <2>7. req[r].intent \in Moves /\ s \in LiveGates => <<s, n>> \in held
    <3>1. req[r].intent \in Moves /\ s \in LiveGates => <<s, n>> \in open
      BY <1>1, <1>3 DEF Request, Gates, GateOpen, Moves, Stops, Verdicts, RowGates, LiveGates,
         Configuration, Ideation, CreativeQa, Copy, Compliance, SpecCheck, FinalizeAssets,
         LaunchHandoff
    <3> QED BY <2>1, <3>1 DEF IInv, EntriesOK, OpenIn
  <2>8. req[r].intent \in Moves /\ s \in LiveGates => \A k \in 1..n : <<s, k>> \in held
    <3>1. \A k \in 1..n : k = n \/ k \in 1..req[r].asked
      BY <2>1
    <3> QED BY <2>1, <2>7, <3>1
  <2>9. RequestOK(r)'
    <3>1. CASE AsksOn(r)
      <4>1. req[r].intent \in Moves /\ s \in LiveGates
        BY <1>1, <2>1, <3>1, AskFacts DEF AsksOn, Request, Intents
      <4> HIDE DEF e, n, next, s
      <4>2. \A k \in 1..e.asked : <<s, k>> \in held
        BY <2>3, <2>8, <3>1, <4>1
      <4> QED BY <2>1, <2>3, <2>5, <2>6, <3>1, <4>2 DEF RequestOK, PastGate, PastStatus
    <3>2. CASE ~AsksOn(r)
      <4>1. req[r].intent \in Moves /\ s \in LiveGates => QuestionsOf(s) \subseteq held
        <5> SUFFICES ASSUME req[r].intent \in Moves, s \in LiveGates, NEW q \in QuestionsOf(s)
                     PROVE  q \in held
          OBVIOUS
        <5>1. PICK k \in 1..Asks(s) : q = <<s, k>>
          BY <2>1, AskFacts
        <5>2. req[r].intent \notin Stops
          BY DEF Moves, Stops, Verdicts
        <5>3. k \in 1..n
          BY <2>1, <3>2, <5>1, <5>2, AskFacts DEF AsksOn
        <5> QED BY <2>8, <5>1, <5>3
      <4>2. Mints(r)' => Mints(r)
        BY <2>3, <2>5, <2>6 DEF Mints
      <4>3. e.at = next /\ next \in {"cleared", "updated"} /\ (Mints(r) => next = "cleared")
        BY <2>3, <3>2
      <4> HIDE DEF e, n, s, next
      <4> QED BY <2>1, <2>3, <2>5, <2>6, <4>1, <4>2, <4>3 DEF RequestOK
    <3> QED BY <3>1, <3>2
  <2>10. e.at # "emitted" /\ ~(e.at = "cleared" /\ e.brief # NoBrief)
    BY <1>1, <2>3
  <2> HIDE DEF e
  <2> QED BY <1>1, <2>3, <2>4, <2>9, <2>10, LocalStep
<1> QED BY <1>2, <1>3

-----------------------------------------------------------------------------
(* Steps that others see.                                                  *)

LEMMA CallFacts ==
  ASSUME IInv, NEW r \in Requests, NEW outcome \in Outcomes,
         NEW next \in Places, NEW onError \in Places, Call(r, outcome, next, onError)
  PROVE  /\ mishaps' \in 0..MaxMishaps
         /\ req' \in [Requests -> Request]
         /\ \A q \in Requests \ {r} : req'[q] = req[q]
         /\ req'[r].at = IF outcome = "ok" THEN next ELSE onError
         /\ req'[r].at = "idle" => req'[r] = Idle
         /\ req'[r].at # "idle" => /\ req'[r].intent = req[r].intent
                                   /\ req'[r].from = req[r].from
                                   /\ req'[r].brief = req[r].brief
<1> DEFINE place == IF outcome = "ok" THEN next ELSE onError
           e == IF place = "idle" THEN Idle ELSE [req[r] EXCEPT !.at = place]
<1>1. req' = [req EXCEPT ![r] = e] /\ req \in [Requests -> Request] /\ place \in Places
  BY DEF Call, IInv, TypeOK
<1>2. CASE place = "idle"
  <2>1. e = Idle
    BY <1>2
  <2> QED BY <1>1, <1>2, <2>1, IdleFacts, BoundsAssumption DEF Call, Mishap, IInv, TypeOK
<1>3. CASE place # "idle"
  <2>1. e = [req[r] EXCEPT !.at = place]
    BY <1>3
  <2>2. e \in Request /\ e.at = place /\ e.intent = req[r].intent /\ e.from = req[r].from
        /\ e.brief = req[r].brief
    BY <1>1, <2>1 DEF Request
  <2>3. mishaps' \in 0..MaxMishaps
    BY BoundsAssumption DEF Call, Mishap, IInv, TypeOK
  <2> HIDE DEF e
  <2> QED BY <1>1, <1>3, <2>2, <2>3
<1> QED BY <1>2, <1>3

\* What a request holds survives the steps of the others.
LEMMA OthersKeep ==
  ASSUME IInv, NEW r, \A q \in Requests \ {r} : req'[q] = req[q],
         entered \subseteq entered', held \subseteq held', items \subseteq items',
         UNCHANGED operatorDriven, brief # NoBrief => brief' # NoBrief
  PROVE  \A q \in Requests \ {r} : RequestOK(q)'
BY DEF IInv, RequestsOK, RequestOK, Enqueues, Target, Mints, Executed

\* A stage keeps its executor, or the request that is about to enqueue it.
ExecutorFor(s) ==
  \/ Served(s)
  \/ /\ s \notin {Generation, CreativeQa}
     /\ \/ s \in unserved
        \/ \E r \in Requests : req[r].at = "emitted" /\ Target(r) = s

LEMMA ExecutorKept ==
  ASSUME IInv, NEW r, \A q \in Requests \ {r} : req'[q] = req[q],
         items \subseteq items', actions \subseteq actions', unserved \subseteq unserved',
         r \in Requests /\ req[r].at = "emitted" =>
           \A s \in Stages : s = Target(r) => s \in unserved' \/ Served(s)'
  PROVE  \A s \in entered \cap Executed : ExecutorFor(s)'
<1> SUFFICES ASSUME NEW s \in entered \cap Executed PROVE ExecutorFor(s)'
  OBVIOUS
<1> USE DEF ExecutorFor
<1>1. CASE Served(s)
  BY <1>1 DEF Served
<1>2. CASE ~Served(s)
  <2>1. s \notin {Generation, CreativeQa}
    BY <1>2 DEF IInv, EntryHasExecutor
  <2>2. CASE s \in unserved
    BY <2>1, <2>2
  <2>3. CASE s \notin unserved
    <3>1. PICK q \in Requests : req[q].at = "emitted" /\ Target(q) = s
      BY <1>2, <2>3 DEF IInv, EntryHasExecutor
    <3>2. CASE q = r
      BY <2>1, <3>1, <3>2, StageFacts
    <3>3. CASE q # r
      BY <2>1, <3>1, <3>3 DEF Target
    <3> QED BY <3>2, <3>3
  <2> QED BY <2>2, <2>3
<1> QED BY <1>1, <1>2

\* The same of all stages when none is entered.
LEMMA ExecutorsKeep ==
  ASSUME IInv, NEW r, \A q \in Requests \ {r} : req'[q] = req[q],
         entered' = entered, UNCHANGED operatorDriven,
         items \subseteq items', actions \subseteq actions', unserved \subseteq unserved',
         r \in Requests /\ req[r].at = "emitted" =>
           \A s \in Stages : s = Target(r) => s \in unserved' \/ Served(s)'
  PROVE  EntryHasExecutor'
<1>1. \A s \in entered \cap Executed : ExecutorFor(s)'
  BY ExecutorKept
<1> QED BY <1>1 DEF ExecutorFor, EntryHasExecutor, Executed

LEMMA PlaceFacts ==
  {"idle", "loaded", "checked", "cleared", "updated", "emitted", "queued", "undo"} \subseteq Places
BY DEF Places

LEMMA InsertBriefInv ==
  ASSUME IInv, NEW r \in Requests, NEW outcome \in Outcomes, InsertBrief(r, outcome)
  PROVE  IInv'
<1> DEFINE e == IF outcome = "ok" THEN [req[r] EXCEPT !.brief = minted + 1] ELSE Idle
<1>1. /\ req[r] \in Request /\ req[r].at = "cleared" /\ req[r].brief = NoBrief
      /\ minted \in 0..MaxBriefs /\ minted < MaxBriefs /\ minted' = minted + 1
      /\ MaxBriefs \in Nat /\ req \in [Requests -> Request]
  BY BoundsAssumption DEF InsertBrief, IInv, TypeOK
<1>2. minted' \in Briefs /\ minted' # NoBrief /\ minted' \in Nat /\ minted' \in 0..MaxBriefs
  BY <1>1 DEF Briefs, NoBrief
<1>3. /\ posted \subseteq posted' /\ posted' \subseteq posted \cup {minted'}
      /\ outcome = "ok" => minted' \in posted'
  BY <1>1 DEF InsertBrief, Effect
<1>4. /\ e \in Request /\ e.at \in {"cleared", "idle"} /\ e.brief \in {NoBrief, minted'}
      /\ e.brief = minted' => outcome = "ok" /\ e.at = "cleared"
      /\ e.at = "cleared" => e.intent = req[r].intent /\ e.from = req[r].from
  <2>1. CASE outcome = "ok"
    <3>1. e = [req[r] EXCEPT !.brief = minted']
      BY <2>1, <1>1
    <3> QED BY <3>1, <2>1, <1>1, <1>2 DEF Request
  <2>2. CASE outcome # "ok"
    BY <2>2, <1>2, IdleFacts
  <2> QED BY <2>1, <2>2
<1>5. req' = [req EXCEPT ![r] = e]
  BY DEF InsertBrief
<1> HIDE DEF e
<1>6. req'[r] = e /\ \A q \in Requests \ {r} : req'[q] = req[q]
  BY <1>1, <1>5
<1>7. UNCHANGED <<stage, cancelled, entered, brief, operatorDriven, items, actions, unserved, open, held>>
  BY DEF InsertBrief, eventVars, rowVars, queueVars, gateVars
<1>8. TypeOK'
  <2>1. mishaps' \in 0..MaxMishaps
    BY BoundsAssumption DEF InsertBrief, Mishap, IInv, TypeOK
  <2>2. req' \in [Requests -> Request] /\ posted' \subseteq Briefs
    BY <1>1, <1>2, <1>3, <1>4, <1>5 DEF IInv, TypeOK
  <2> QED BY <1>2, <1>7, <2>1, <2>2 DEF IInv, TypeOK
<1>9. RequestsOK'
  <2>1. \A q \in Requests \ {r} : RequestOK(q)'
    BY <1>6, <1>7, OthersKeep
  <2>2. RequestOK(r)'
    BY <1>1, <1>4, <1>6, <1>7 DEF IInv, RequestsOK, RequestOK, PastGate, PastStatus
  <2> QED BY <2>1, <2>2 DEF RequestsOK
<1>10. BriefsOK'
  <2>1. posted' \subseteq 1..minted'
    BY <1>1, <1>2, <1>3 DEF IInv, BriefsOK
  <2>2. \A q \in Requests : req'[q].brief <= minted' /\ (req'[q].brief # NoBrief => req'[q].at \in PastGate)
    <3> SUFFICES ASSUME NEW q \in Requests
                 PROVE  req'[q].brief <= minted' /\ (req'[q].brief # NoBrief => req'[q].at \in PastGate)
      OBVIOUS
    <3>1. req[q].brief \in Nat
      BY <1>1 DEF Request, Briefs, NoBrief
    <3> QED BY <1>1, <1>2, <1>4, <1>6, <3>1 DEF IInv, BriefsOK, PastGate, PastStatus, NoBrief
  <2>3. \A q \in Requests : req'[q].at = "cleared" /\ req'[q].brief # NoBrief => req'[q].brief \in posted'
    BY <1>3, <1>4, <1>6 DEF IInv, BriefsOK
  <2>4. \A q \in Requests : req[q].brief <= minted /\ req[q].brief \in Nat
    BY <1>1 DEF IInv, BriefsOK, Request, Briefs, NoBrief
  <2>5. \A p, q \in Requests : p # q /\ req'[p].brief = req'[q].brief => req'[p].brief = NoBrief
    <3> SUFFICES ASSUME NEW p \in Requests, NEW q \in Requests, p # q, req'[p].brief = req'[q].brief
                 PROVE  req'[p].brief = NoBrief
      OBVIOUS
    <3>1. CASE p = r
      BY <3>1, <1>1, <1>4, <1>6, <2>4
    <3>2. CASE q = r
      BY <3>2, <1>1, <1>4, <1>6, <2>4
    <3>3. CASE p # r /\ q # r
      BY <3>3, <1>6 DEF IInv, BriefsOK
    <3> QED BY <3>1, <3>2, <3>3
  <2>6. brief' # NoBrief => brief' \in posted'
    BY <1>3, <1>7 DEF IInv, BriefsOK
  <2> QED BY <2>1, <2>2, <2>3, <2>5, <2>6 DEF BriefsOK
<1>11. EntryHasExecutor'
  BY <1>1, <1>6, <1>7, ExecutorsKeep
<1>12. EntriesOK' /\ StagesInOrder' /\ NoEarlyExecutor' /\ HardGateHeld' /\ BriefBeforeIdeation'
  BY <1>3, <1>7 DEF IInv, EntriesOK, OpenIn, StagesInOrder, NoEarlyExecutor, HardGateHeld,
         BriefBeforeIdeation
<1> QED BY <1>8, <1>9, <1>10, <1>11, <1>12 DEF IInv

LEMMA UpdateRowInv ==
  ASSUME IInv, NEW r \in Requests, NEW outcome \in Outcomes, UpdateRow(r, outcome)
  PROVE  IInv'
<1>1. /\ req[r] \in Request /\ req[r].at = "cleared"
      /\ req[r].brief # NoBrief /\ req[r].brief \in posted
  BY DEF UpdateRow, IInv, TypeOK, BriefsOK
<1>2. UNCHANGED <<stage, cancelled, entered, operatorDriven, posted, minted, items, actions,
                  unserved, open, held>>
  BY DEF UpdateRow, eventVars, briefVars, queueVars, gateVars
<1>3. /\ mishaps' \in 0..MaxMishaps
      /\ req' \in [Requests -> Request]
      /\ \A q \in Requests \ {r} : req'[q] = req[q]
      /\ req'[r].at = IF outcome = "ok" THEN "updated" ELSE "undo"
      /\ req'[r].at = "idle" => req'[r] = Idle
      /\ req'[r].at # "idle" => /\ req'[r].intent = req[r].intent
                                /\ req'[r].from = req[r].from
                                /\ req'[r].brief = req[r].brief
  <2>1. Call(r, outcome, "updated", "undo")
    BY DEF UpdateRow
  <2> QED BY <2>1, PlaceFacts, CallFacts
<1>4. /\ brief' \in {brief, req[r].brief} /\ brief' \in Briefs \cup {NoBrief}
      /\ outcome = "ok" => brief' = req[r].brief
      /\ brief # NoBrief => brief' # NoBrief
  BY <1>1 DEF UpdateRow, Effect, IInv, TypeOK, Request
<1>6. TypeOK'
  BY <1>2, <1>3, <1>4 DEF IInv, TypeOK
<1>7. RequestsOK'
  <2>1. \A q \in Requests \ {r} : RequestOK(q)'
    BY <1>2, <1>3, <1>4, OthersKeep
  <2>2. RequestOK(r)'
    <3>1. /\ req[r].from \in entered
          /\ Accepts(req[r].intent, req[r].from)
          /\ req[r].intent \in Moves /\ req[r].from \in LiveGates => QuestionsOf(req[r].from) \subseteq held
      BY <1>1 DEF IInv, RequestsOK, RequestOK, PastStatus, PastGate
    <3>2. req'[r].at = "updated" => brief' # NoBrief
      BY <1>1, <1>3, <1>4
    <3>3. req'[r].at \in {"updated", "undo"}
      BY <1>3
    <3> QED BY <1>2, <1>3, <3>1, <3>2, <3>3 DEF RequestOK
  <2> QED BY <2>1, <2>2 DEF RequestsOK
<1>8. BriefsOK'
  <2>1. brief' # NoBrief => brief' \in posted'
    BY <1>1, <1>2, <1>4 DEF IInv, BriefsOK
  <2>2. req'[r].brief \in {NoBrief, req[r].brief} /\ req'[r].at # "cleared"
        /\ req'[r].at \in PastGate \cup {"idle"}
    BY <1>3, IdleFacts DEF PastGate, PastStatus
  <2>3. req'[r].brief # NoBrief => req'[r].at \in PastGate
    BY <1>3, <2>2, IdleFacts
  <2>4. minted \in Nat /\ NoBrief <= minted
    BY BoundsAssumption DEF IInv, TypeOK, NoBrief
  <2> QED BY <1>2, <1>3, <2>1, <2>2, <2>3, <2>4 DEF IInv, BriefsOK
<1>9. EntryHasExecutor'
  BY <1>1, <1>2, <1>3, ExecutorsKeep
<1>10. EntriesOK' /\ StagesInOrder' /\ NoEarlyExecutor' /\ HardGateHeld'
  BY <1>2 DEF IInv, EntriesOK, OpenIn, StagesInOrder, NoEarlyExecutor, HardGateHeld
<1>11. BriefBeforeIdeation'
  <2>1. brief # NoBrief => brief' # NoBrief /\ brief' \in posted
    BY <1>1, <1>4 DEF IInv, BriefsOK
  <2>2. NoBrief \notin posted
    BY DEF IInv, TypeOK, Briefs, NoBrief
  <2> QED BY <1>2, <2>1, <2>2 DEF IInv, BriefBeforeIdeation
<1> QED BY <1>6, <1>7, <1>8, <1>9, <1>10, <1>11 DEF IInv

LEMMA UndoInv ==
  ASSUME IInv, NEW r \in Requests, NEW outcome \in Outcomes, Undo(r, outcome)
  PROVE  IInv'
<1>1. /\ req[r].at = "undo" /\ req[r] \in Request
      /\ posted' \subseteq posted
      /\ \A b \in posted \ posted' : b = req[r].brief /\ b # brief
  BY DEF Undo, IInv, TypeOK
<1>2. UNCHANGED <<stage, cancelled, entered, brief, operatorDriven, minted, items, actions,
                  unserved, open, held>>
  BY DEF Undo, eventVars, rowVars, queueVars, gateVars
<1>3. /\ mishaps' \in 0..MaxMishaps
      /\ req' \in [Requests -> Request]
      /\ \A q \in Requests \ {r} : req'[q] = req[q]
      /\ req'[r] = Idle
  <2>1. Call(r, outcome, "idle", "idle")
    BY DEF Undo
  <2> QED BY <2>1, PlaceFacts, CallFacts
<1>4. TypeOK'
  BY <1>1, <1>2, <1>3 DEF IInv, TypeOK
<1>5. RequestsOK'
  <2>1. \A q \in Requests \ {r} : RequestOK(q)'
    BY <1>2, <1>3, OthersKeep
  <2>2. RequestOK(r)'
    BY <1>3, IdleFacts DEF RequestOK, PastStatus, PastGate
  <2> QED BY <2>1, <2>2 DEF RequestsOK
<1>6. BriefsOK'
  <2>1. brief' # NoBrief => brief' \in posted'
    BY <1>1, <1>2 DEF IInv, BriefsOK
  <2>2. \A q \in Requests \ {r} : req[q].brief = req[r].brief => req[q].brief = NoBrief
    BY DEF IInv, BriefsOK
  <2>3. \A q \in Requests \ {r} : req[q].at = "cleared" /\ req[q].brief # NoBrief => req[q].brief \in posted'
    BY <1>1, <2>2 DEF IInv, BriefsOK
  <2>4. minted \in Nat /\ NoBrief <= minted
    BY BoundsAssumption DEF IInv, TypeOK, NoBrief
  <2> QED BY <1>1, <1>2, <1>3, <2>1, <2>3, <2>4, IdleFacts DEF IInv, BriefsOK
<1>7. EntryHasExecutor'
  BY <1>1, <1>2, <1>3, ExecutorsKeep
<1>8. EntriesOK' /\ StagesInOrder' /\ NoEarlyExecutor' /\ HardGateHeld'
  BY <1>2 DEF IInv, EntriesOK, OpenIn, StagesInOrder, NoEarlyExecutor, HardGateHeld
<1>9. BriefBeforeIdeation'
  BY <1>1, <1>2 DEF IInv, BriefBeforeIdeation
<1> QED BY <1>4, <1>5, <1>6, <1>7, <1>8, <1>9 DEF IInv

\* The place an event is emitted from, and what the request is sure of there.
LEMMA BeforeEvent ==
  ASSUME IInv, NEW r \in Requests,
         req[r].at = IF Enqueues(r) /\ EnqueuesFirst(r) THEN "queued" ELSE "updated"
  PROVE  /\ req[r] \in Request
         /\ req[r].from \in entered /\ Accepts(req[r].intent, req[r].from)
         /\ req[r].intent \in Moves /\ req[r].from \in LiveGates => QuestionsOf(req[r].from) \subseteq held
         /\ Enqueues(r) /\ EnqueuesFirst(r) => Generation \in items
         /\ req[r].intent = "advance" /\ req[r].from = Configuration /\ ~operatorDriven
              => brief # NoBrief
<1>1. req[r] \in Request /\ RequestOK(r) /\ req[r].at \in PastGate \cap PastStatus
  BY DEF IInv, TypeOK, RequestsOK, PastGate, PastStatus
<1>2. req[r].intent = "advance" => req[r].at = "updated"
  BY DEF EnqueuesFirst
<1> QED BY <1>1, <1>2 DEF RequestOK, Mints

LEMMA EmitEventInv ==
  ASSUME IInv, NEW r \in Requests, NEW outcome \in Outcomes, EmitEvent(r, outcome)
  PROVE  IInv'
<1> DEFINE after == Enqueues(r) /\ ~EnqueuesFirst(r)
           moves == Effect(outcome) /\ req[r].intent \in Moves
<1>1. PICK t : t = Target(r)
  OBVIOUS
<1>2. /\ req[r].at # "emitted" /\ req[r].at # "cleared"
      /\ req[r] \in Request
      /\ req[r].from \in entered /\ Accepts(req[r].intent, req[r].from)
      /\ req[r].intent \in Moves /\ req[r].from \in LiveGates => QuestionsOf(req[r].from) \subseteq held
      /\ Enqueues(r) /\ EnqueuesFirst(r) => Generation \in items
      /\ req[r].intent = "advance" /\ req[r].from = Configuration /\ ~operatorDriven
           => brief # NoBrief
  BY BeforeEvent DEF EmitEvent
<1>3. /\ UNCHANGED <<brief, operatorDriven, posted, minted, items, actions, open>>
      /\ held' = held \cup OpenIn(entered')
  BY DEF EmitEvent, rowVars, briefVars
<1>4. /\ mishaps' \in 0..MaxMishaps
      /\ req' \in [Requests -> Request]
      /\ \A q \in Requests \ {r} : req'[q] = req[q]
      /\ req'[r] = Idle \/ /\ req'[r].at = "emitted" /\ outcome = "ok" /\ after
                           /\ req'[r].intent = req[r].intent /\ req'[r].from = req[r].from
                           /\ req'[r].brief = req[r].brief
      /\ outcome = "ok" /\ after => req'[r].at = "emitted"
  <2> DEFINE next == IF after THEN "emitted" ELSE "idle"
  <2>1. next \in Places /\ Call(r, outcome, next, "idle")
    BY PlaceFacts DEF EmitEvent
  <2>2. next = IF after THEN "emitted" ELSE "idle"
    OBVIOUS
  <2> HIDE DEF next, after
  <2> QED BY <2>1, <2>2, PlaceFacts, CallFacts
<1>5. /\ ~moves => entered' = entered /\ stage' = stage
      /\ moves => entered' = entered \cup {t} /\ stage' = t
      /\ cancelled' \in BOOLEAN
  BY <1>1, <1>2 DEF EmitEvent, eventVars, IInv, TypeOK, Moves, Stops, Verdicts, Request, Intents
<1>6. /\ unserved \subseteq unserved'
      /\ unserved' \subseteq unserved \cup {t}
      /\ unserved' = unserved \/ Enqueues(r)
      /\ outcome = "lost" /\ after => t \in unserved'
  BY <1>1 DEF EmitEvent
<1>7. req[r].intent \in Moves =>
        LET s == req[r].from
        IN  /\ t = Successor(s) /\ s \in 0..11 /\ t \in Stages /\ t - 1 = s
            /\ s = Configuration => req[r].intent = "advance"
            /\ s = Review <=> req[r].intent = "approve"
            /\ s = Monitor <=> req[r].intent \in Verdicts
            /\ s # Generation
  BY <1>1, <1>2, MoveFacts DEF Target, Request
<1>8. outcome \in {"ok", "lost"} <=> Effect(outcome)
  BY DEF Outcomes, Effect
<1>9. Enqueues(r) => req[r].intent \in Moves
  BY DEF Enqueues
<1>10. ((Enqueues(r) <=> Enqueues(r)') /\ Target(r)' = t) \/ req'[r] = Idle
  BY <1>1, <1>3, <1>4 DEF Enqueues, Target, Executed
<1> HIDE DEF after, moves
<1>11. TypeOK'
  <2>1. stage' \in Stages /\ entered' \subseteq Stages /\ unserved' \subseteq Stages
    BY <1>5, <1>6, <1>7, <1>9 DEF IInv, TypeOK, moves
  <2>2. held' \subseteq Questions
    BY <1>3 DEF IInv, TypeOK, OpenIn
  <2> QED BY <1>3, <1>4, <1>5, <2>1, <2>2 DEF IInv, TypeOK
<1>12. RequestsOK'
  <2>1. \A q \in Requests \ {r} : RequestOK(q)'
    BY <1>3, <1>4, <1>5, OthersKeep
  <2>2. RequestOK(r)'
    <3>1. CASE req'[r] = Idle
      BY <3>1, IdleFacts DEF RequestOK, PastStatus, PastGate
    <3>2. CASE req'[r] # Idle
      <4>1. req'[r].at = "emitted" /\ req'[r].from = req[r].from /\ req'[r].intent = req[r].intent
        BY <1>4, <3>2
      <4>2. Enqueues(r)' /\ Target(r)' \in entered'
        BY <1>4, <1>5, <1>8, <1>9, <1>10, <3>2 DEF after, moves
      <4>3. req[r].from \in entered' /\ held \subseteq held'
        BY <1>2, <1>3, <1>5
      <4> QED BY <1>2, <4>1, <4>2, <4>3 DEF RequestOK
    <3> QED BY <3>1, <3>2
  <2> QED BY <2>1, <2>2 DEF RequestsOK
<1>13. BriefsOK'
  <2>1. req'[r].brief \in {NoBrief, req[r].brief} /\ req'[r].at # "cleared"
    BY <1>4, IdleFacts
  <2>2. req'[r].brief # NoBrief => req'[r].at \in PastGate
    BY <1>4, IdleFacts DEF PastGate, PastStatus
  <2>3. minted \in Nat /\ NoBrief <= minted
    BY BoundsAssumption DEF IInv, TypeOK, NoBrief
  <2> QED BY <1>3, <1>4, <2>1, <2>2, <2>3 DEF IInv, BriefsOK
<1>14. EntryHasExecutor'
  <2>1. \A s \in entered \cap Executed : ExecutorFor(s)'
    BY <1>2, <1>3, <1>4, <1>6, ExecutorKept
  <2>2. ASSUME moves, t \in Executed PROVE ExecutorFor(t)'
    <3>1. Enqueues(r) /\ req[r].intent \in Moves
      BY <1>1, <2>2 DEF Enqueues, moves
    <3>2. CASE EnqueuesFirst(r)
      <4>1. t = Generation /\ Generation \in items
        BY <1>2, <1>7, <3>1, <3>2 DEF EnqueuesFirst, Successor, Review, Generation
      <4> QED BY <1>3, <4>1 DEF ExecutorFor, Served, Generation, Done
    <3>3. CASE ~EnqueuesFirst(r)
      <4>1. t \notin {Generation, CreativeQa}
        BY <1>7, <3>1, <3>3 DEF EnqueuesFirst, Successor, Review, Generation, CreativeQa
      <4>2. outcome = "ok" \/ outcome = "lost"
        BY <1>8, <2>2 DEF moves
      <4>3. t \in unserved' \/ (req'[r].at = "emitted" /\ Target(r)' = t)
        BY <1>4, <1>6, <1>10, <3>1, <3>3, <4>2, IdleFacts DEF after
      <4> QED BY <4>1, <4>3 DEF ExecutorFor
    <3> QED BY <3>2, <3>3
  <2>3. \A s \in entered' \cap Executed : ExecutorFor(s)'
    BY <1>5, <2>1, <2>2
  <2> QED BY <1>3, <2>3 DEF ExecutorFor, EntryHasExecutor, Executed
<1>15. EntriesOK'
  BY <1>3, <1>5 DEF IInv, EntriesOK, OpenIn
<1>16. StagesInOrder'
  BY <1>2, <1>5, <1>7 DEF IInv, StagesInOrder, moves
<1>17. NoEarlyExecutor'
  BY <1>3, <1>5 DEF IInv, NoEarlyExecutor
<1>18. HardGateHeld'
  <2> SUFFICES ASSUME NEW s \in LiveGates, Successor(s) \in entered' PROVE QuestionsOf(s) \subseteq held'
    BY DEF HardGateHeld
  <2>1. CASE Successor(s) \in entered
    BY <1>3, <2>1 DEF IInv, HardGateHeld
  <2>2. CASE moves /\ Successor(s) = t
    <3>1. s = req[r].from
      BY <1>7, <2>2, StageFacts DEF Successor, moves
    <3> QED BY <1>2, <1>3, <2>2, <3>1 DEF moves
  <2> QED BY <1>5, <2>1, <2>2
<1>19. BriefBeforeIdeation'
  <2> SUFFICES ASSUME ~operatorDriven, Ideation \in entered' PROVE brief \in posted
    BY <1>3 DEF BriefBeforeIdeation
  <2>1. CASE Ideation \in entered
    BY <2>1 DEF IInv, BriefBeforeIdeation
  <2>2. CASE moves /\ t = Ideation
    <3>1. req[r].from = Configuration /\ req[r].intent = "advance"
      BY <1>7, <2>2 DEF Ideation, Configuration, moves
    <3> QED BY <1>2, <3>1 DEF IInv, BriefsOK
  <2> QED BY <1>5, <2>1, <2>2
<1> QED BY <1>11, <1>12, <1>13, <1>14, <1>15, <1>16, <1>17, <1>18, <1>19 DEF IInv

LEMMA EnqueueExecutorInv ==
  ASSUME IInv, NEW r \in Requests, NEW outcome \in Outcomes, EnqueueExecutor(r, outcome)
  PROVE  IInv'
<1> DEFINE first == EnqueuesFirst(r)
<1>1. PICK t : t = Target(r)
  OBVIOUS
<1>2. /\ Enqueues(r) /\ req[r].at = IF first THEN "updated" ELSE "emitted"
      /\ req[r] \in Request
      /\ req[r].from \in entered /\ Accepts(req[r].intent, req[r].from)
      /\ req[r].intent \in Moves
      /\ req[r].intent \in Moves /\ req[r].from \in LiveGates => QuestionsOf(req[r].from) \subseteq held
      /\ ~first => t \in entered
  <2>1. Enqueues(r) /\ req[r].at = IF first THEN "updated" ELSE "emitted"
    BY DEF EnqueueExecutor
  <2>2. RequestOK(r) /\ req[r] \in Request /\ req[r].at \in PastGate \cap PastStatus
    BY <2>1 DEF IInv, TypeOK, RequestsOK, PastGate, PastStatus
  <2> QED BY <1>1, <2>1, <2>2 DEF RequestOK, Enqueues
<1>3. LET s == req[r].from
      IN  /\ t = Successor(s) /\ s \in 0..11 /\ t \in Stages /\ t - 1 = s
          /\ s = Review <=> req[r].intent = "approve"
          /\ s = Monitor <=> req[r].intent \in Verdicts
  BY <1>1, <1>2, MoveFacts DEF Target, Request
<1>4. /\ t = Generation <=> first
      /\ t = Done <=> req[r].intent \in Verdicts
  BY <1>3 DEF EnqueuesFirst, Successor, Review, Generation, Monitor, Done
<1>5. UNCHANGED <<stage, cancelled, entered, brief, operatorDriven, posted, minted, open, held>>
  BY DEF EnqueueExecutor, eventVars, rowVars, briefVars, gateVars
<1>6. /\ items' \in {items, items \cup {t}}
      /\ actions' \in {actions, actions \cup {req[r].intent}}
      /\ actions' # actions => req[r].intent \in Verdicts
      /\ outcome = "ok" => IF t = Done THEN actions' # {} ELSE t \in items'
      /\ unserved \subseteq unserved' /\ unserved' \subseteq unserved \cup {t}
      /\ outcome # "ok" /\ ~first => t \in unserved'
  BY <1>1, <1>4 DEF EnqueueExecutor, Effect
<1>7. /\ mishaps' \in 0..MaxMishaps
      /\ req' \in [Requests -> Request]
      /\ \A q \in Requests \ {r} : req'[q] = req[q]
      /\ req'[r] = Idle \/ /\ req'[r].at = "queued" /\ outcome = "ok" /\ first
                           /\ req'[r].intent = req[r].intent /\ req'[r].from = req[r].from
                           /\ req'[r].brief = req[r].brief
  <2> DEFINE next == IF first THEN "queued" ELSE "idle"
  <2>1. next \in Places /\ Call(r, outcome, next, "idle")
    BY PlaceFacts DEF EnqueueExecutor
  <2>2. next = IF first THEN "queued" ELSE "idle"
    OBVIOUS
  <2> HIDE DEF next, first
  <2> QED BY <2>1, <2>2, PlaceFacts, CallFacts
<1> HIDE DEF first
<1>8. TypeOK'
  BY <1>3, <1>5, <1>6, <1>7 DEF IInv, TypeOK
<1>9. RequestsOK'
  <2>1. \A q \in Requests \ {r} : RequestOK(q)'
    BY <1>5, <1>6, <1>7, OthersKeep
  <2>2. RequestOK(r)'
    <3>1. CASE req'[r] = Idle
      BY <3>1, IdleFacts DEF RequestOK, PastStatus, PastGate
    <3>2. CASE req'[r] # Idle
      <4>1. /\ req'[r].at = "queued"
            /\ req'[r].intent = req[r].intent /\ req'[r].from = req[r].from
        BY <1>7, <3>2
      <4>2. Generation \in items'
        BY <1>4, <1>6, <1>7, <3>2 DEF Generation, Done
      <4> QED BY <1>2, <1>5, <4>1, <4>2 DEF RequestOK
    <3> QED BY <3>1, <3>2
  <2> QED BY <2>1, <2>2 DEF RequestsOK
<1>10. BriefsOK'
  <2>1. req'[r].brief \in {NoBrief, req[r].brief} /\ req'[r].at # "cleared"
    BY <1>7, IdleFacts
  <2>2. req'[r].brief # NoBrief => req'[r].at \in PastGate
    BY <1>7, IdleFacts DEF PastGate, PastStatus
  <2>3. minted \in Nat /\ NoBrief <= minted
    BY BoundsAssumption DEF IInv, TypeOK, NoBrief
  <2> QED BY <1>5, <1>7, <2>1, <2>2, <2>3 DEF IInv, BriefsOK
<1>11. EntryHasExecutor'
  <2>1. req[r].at = "emitted" => \A s \in Stages : s = Target(r) => s \in unserved' \/ Served(s)'
    BY <1>1, <1>2, <1>6 DEF Served
  <2> QED BY <1>5, <1>6, <1>7, <2>1, ExecutorsKeep
<1>12. NoEarlyExecutor'
  <2>1. IF t = Generation THEN Review \in entered ELSE t = Done \/ t \in entered
    BY <1>2, <1>3, <1>4 DEF Successor, Generation, Review
  <2>2. t = Done => Done \in entered
    BY <1>2, <1>4 DEF Generation, Done
  <2>3. t \in items' /\ t \notin items => (t = Generation => Review \in entered) /\ (t # Generation => t \in entered)
    BY <2>1, <2>2
  <2> QED BY <1>4, <1>5, <1>6, <2>2, <2>3 DEF IInv, NoEarlyExecutor
<1>13. EntriesOK' /\ StagesInOrder' /\ HardGateHeld' /\ BriefBeforeIdeation'
  BY <1>5 DEF IInv, EntriesOK, OpenIn, StagesInOrder, HardGateHeld, BriefBeforeIdeation
<1> QED BY <1>8, <1>9, <1>10, <1>11, <1>12, <1>13 DEF IInv

LEMMA AutoAdvanceInv == ASSUME IInv, AutoAdvance PROVE IInv'
<1>1. /\ stage = Generation /\ stage \in entered
      /\ stage' = CreativeQa /\ entered' = entered \cup {CreativeQa}
      /\ items' = items \cup {CreativeQa}
      /\ held' = held \cup OpenIn(entered')
      /\ UNCHANGED <<cancelled, operatorDriven, brief, posted, minted, actions, unserved, open, req, mishaps>>
  BY DEF AutoAdvance, Status, briefVars, IInv, EntriesOK, Generation, Cancelled
<1>2. CreativeQa = 4 /\ Generation = 3 /\ Configuration = 0 /\ Ideation = 1 /\ Done = 12
  BY DEF CreativeQa, Generation, Configuration, Ideation, Done
<1>3. TypeOK'
  <2>1. CreativeQa \in Stages /\ held' \subseteq Questions
    BY <1>1, <1>2, StageFacts DEF IInv, TypeOK, OpenIn
  <2> QED BY <1>1, <2>1 DEF IInv, TypeOK
<1>4. RequestsOK'
  BY <1>1 DEF IInv, RequestsOK, RequestOK, Enqueues, Target, Mints, Executed
<1>5. BriefsOK' /\ BriefBeforeIdeation'
  BY <1>1, <1>2 DEF IInv, BriefsOK, BriefBeforeIdeation
<1>6. EntryHasExecutor'
  <2> SUFFICES ASSUME NEW s \in entered' \cap Executed PROVE ExecutorFor(s)'
    BY <1>1 DEF ExecutorFor, EntryHasExecutor, Executed
  <2>1. CASE s = CreativeQa
    BY <1>1, <1>2, <2>1 DEF ExecutorFor, Served
  <2>2. CASE s # CreativeQa
    BY <1>1, <2>2 DEF IInv, EntryHasExecutor, ExecutorFor, Served, Target
  <2> QED BY <2>1, <2>2
<1>7. EntriesOK' /\ StagesInOrder' /\ NoEarlyExecutor'
  BY <1>1, <1>2 DEF IInv, EntriesOK, OpenIn, StagesInOrder, NoEarlyExecutor
<1>8. HardGateHeld'
  <2>1. \A s \in LiveGates : Successor(s) # CreativeQa
    BY <1>2 DEF LiveGates, Successor, Copy, Compliance, SpecCheck, FinalizeAssets, LaunchHandoff
  <2> QED BY <1>1, <2>1 DEF IInv, HardGateHeld
<1> QED BY <1>3, <1>4, <1>5, <1>6, <1>7, <1>8 DEF IInv

\* What an answer that changes does not touch.
LEMMA GatesOnly ==
  ASSUME IInv, UNCHANGED <<eventVars, rowVars, briefVars, queueVars, req>>,
         mishaps' \in 0..MaxMishaps, open' \subseteq Questions, held' \subseteq Questions,
         held \subseteq held', \A q \in open' : q[1] \in entered => q \in held'
  PROVE  IInv'
<1> USE DEF eventVars, rowVars, briefVars, queueVars
<1>1. TypeOK' /\ EntriesOK'
  BY DEF IInv, TypeOK, EntriesOK, OpenIn
<1>2. RequestsOK'
  BY DEF IInv, RequestsOK, RequestOK, Enqueues, Target, Mints, Executed
<1>3. BriefsOK' /\ StagesInOrder' /\ NoEarlyExecutor' /\ HardGateHeld' /\ BriefBeforeIdeation'
  BY DEF IInv, BriefsOK, StagesInOrder, NoEarlyExecutor, HardGateHeld, BriefBeforeIdeation
<1>4. EntryHasExecutor'
  BY DEF IInv, EntryHasExecutor, Served, Target, Executed
<1> QED BY <1>1, <1>2, <1>3, <1>4 DEF IInv

LEMMA OpenGateInv == ASSUME IInv, NEW q \in Questions, OpenGate(q) PROVE IInv'
<1>1. /\ UNCHANGED <<eventVars, rowVars, briefVars, queueVars, req>> /\ mishaps' = mishaps
      /\ open' = open \cup {q}
      /\ held' = IF q[1] \in entered THEN held \cup {q} ELSE held
  BY DEF OpenGate
<1>2. open \subseteq Questions /\ held \subseteq Questions /\ mishaps \in 0..MaxMishaps
      /\ \A p \in open : p[1] \in entered => p \in held
  BY DEF IInv, TypeOK, EntriesOK, OpenIn
<1> QED BY <1>1, <1>2, GatesOnly

LEMMA CloseGateInv == ASSUME IInv, NEW q \in Questions, CloseGate(q) PROVE IInv'
<1>1. /\ UNCHANGED <<eventVars, rowVars, briefVars, queueVars, req>> /\ held' = held
      /\ open' = open \ {q} /\ Mishap(TRUE)
  BY DEF CloseGate
<1>2. open \subseteq Questions /\ held \subseteq Questions
      /\ \A p \in open : p[1] \in entered => p \in held
  BY DEF IInv, TypeOK, EntriesOK, OpenIn
<1>3. mishaps' \in 0..MaxMishaps
  BY <1>1, BoundsAssumption DEF Mishap, IInv, TypeOK
<1> QED BY <1>1, <1>2, <1>3, GatesOnly

LEMMA NextInv == IInv /\ [Next]_vars => IInv'
<1> SUFFICES ASSUME IInv, [Next]_vars PROVE IInv'
  OBVIOUS
<1>1. ASSUME NEW r \in Requests, RequestStep(r) PROVE IInv'
  <2>1. CASE Load(r)
    BY <2>1, LoadInv
  <2>2. ASSUME NEW intent \in Intents, CheckStatus(r, intent) PROVE IInv'
    BY <2>2, CheckStatusInv
  <2>3. CASE CheckGate(r)
    BY <2>3, CheckGateInv
  <2>4. ASSUME NEW outcome \in Outcomes,
               \/ InsertBrief(r, outcome) \/ UpdateRow(r, outcome) \/ Undo(r, outcome)
               \/ EmitEvent(r, outcome) \/ EnqueueExecutor(r, outcome)
        PROVE  IInv'
    BY <2>4, InsertBriefInv, UpdateRowInv, UndoInv, EmitEventInv, EnqueueExecutorInv
  <2> QED BY <1>1, <2>1, <2>2, <2>3, <2>4 DEF RequestStep
<1>2. CASE AutoAdvance
  BY <1>2, AutoAdvanceInv
<1>3. ASSUME NEW q \in Questions, OpenGate(q) \/ CloseGate(q) PROVE IInv'
  BY <1>3, OpenGateInv, CloseGateInv
<1>4. CASE UNCHANGED vars
  <2>1. /\ UNCHANGED <<eventVars, rowVars, briefVars, queueVars, req>>
        /\ mishaps' = mishaps /\ open' = open /\ held' = held
    BY <1>4 DEF vars, gateVars
  <2>2. open \subseteq Questions /\ held \subseteq Questions /\ mishaps \in 0..MaxMishaps
        /\ \A q \in open : q[1] \in entered => q \in held
    BY DEF IInv, TypeOK, EntriesOK, OpenIn
  <2> QED BY <2>1, <2>2, GatesOnly
<1> QED BY <1>1, <1>2, <1>3, <1>4 DEF Next

-----------------------------------------------------------------------------
(* The theorems.                                                           *)

\* The invariant holds, however many requests are served at the same time and
\* whichever of their calls are lost or fail.
THEOREM Invariance == Spec => []IInv
<1>1. Init => IInv
  BY InitIInv
<1>2. IInv /\ [Next]_vars => IInv'
  BY NextInv
<1> QED BY <1>1, <1>2, PTL DEF Spec

\* The status is a stage of the registry or cancelled, and a request is at one
\* of its places.
THEOREM StageMachineTyped == Spec => []TypeOK
<1>1. IInv => TypeOK
  BY DEF IInv
<1> QED BY <1>1, Invariance, PTL

\* No stage is skipped, although no request checks the status again when it
\* inserts its event.
THEOREM StagesInOrderHolds == Spec => []StagesInOrder
<1>1. IInv => StagesInOrder
  BY DEF IInv
<1> QED BY <1>1, Invariance, PTL

\* Every stage that was entered has its executor, or a request that is about to
\* enqueue it, or a request that was answered 5xx instead.
THEOREM EntryHasExecutorHolds == Spec => []EntryHasExecutor
<1>1. IInv => EntryHasExecutor
  BY DEF IInv
<1> QED BY <1>1, Invariance, PTL

\* No executor is queued before its stage is entered, except generation's, which
\* the review decision queues first.
THEOREM NoEarlyExecutorHolds == Spec => []NoEarlyExecutor
<1>1. IInv => NoEarlyExecutor
  BY DEF IInv
<1> QED BY <1>1, Invariance, PTL

\* The pipeline leaves a stage with a live gate only if each question of that gate
\* would have been answered yes at some time since the stage was entered, also when
\* no two of them would have been at the same time.
THEOREM HardGateHeldHolds == Spec => []HardGateHeld
<1>1. IInv => HardGateHeld
  BY DEF IInv
<1> QED BY <1>1, Invariance, PTL

\* Ideation finds the brief the pipeline refers to, whichever requests undo
\* theirs.
THEOREM BriefBeforeIdeationHolds == Spec => []BriefBeforeIdeation
<1>1. IInv => BriefBeforeIdeation
  BY DEF IInv
<1> QED BY <1>1, Invariance, PTL

=============================================================================
