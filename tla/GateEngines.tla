----------------------------- MODULE GateEngines ------------------------------
(***************************************************************************)
(* The engines that judge a creative, and the evidence they judge by.  The *)
(* agent hands in findings, never verdicts: labels of the rules of         *)
(* compliance, scores of the defects of an image, a status per placement   *)
(* of a video.  The worker measures what it can by itself and computes the *)
(* verdict.  A behaviour is about one creative and one of the engines; it  *)
(* chooses the facts at the start and collects the evidence step by step,  *)
(* so each state is one input of the engine.                               *)
(***************************************************************************)
EXTENDS Integers, Sequences

CONSTANTS
  Rules,           \* rules of compliance
  Confidences,     \* of a finding, in hundredths
  Defects,         \* vision items of the rubric
  Scores,          \* of an observation, in hundredths
  Sizes,           \* of an image file, in bytes
  Lengths,         \* of a video, in seconds
  Spots,           \* placements
  MaxFindings      \* bound on findings and observations

ASSUME EngineAssumption ==
  /\ Confidences \cup Scores \cup Sizes \cup Lengths \subseteq Nat
  /\ MaxFindings \in Nat

VARIABLES
  matter,      \* the engine: "text", "image" or "video", or "none"
  rule,        \* per rule: its data, and what the text says
  findings,    \* candidates of the agent, in the order of the call
  heard,       \* per rule: what its findings come to so far, "none" without one
  still,       \* what the worker measures of an image
  looks,       \* observations of the agent
  looked,      \* per defect: the score that counts, NoScore without one
  footage,     \* what ffprobe tells of a video
  asset,       \* its file: "none" yet, "bad" or "good"
  stored,      \* per placement: the status of spec_check
  blind        \* history: placements stored before there was a file

given == <<matter, rule, still, footage>>
engineVars == <<given, findings, heard, looks, looked, asset, stored, blind>>

Rank == [pass |-> 0, needs_review |-> 1, fail |-> 2]

\* The worst verdict of a set of options.
Worst(options) == CHOOSE v \in options : \A w \in options : Rank[w] <= Rank[v]

\* The verdict of a gate, from those of its parts; a part outside blocks cannot fail it.
Roll(of, blocks) ==
  IF \E x \in blocks : of[x] = "fail" THEN "fail"
  ELSE IF \E x \in DOMAIN of : of[x] = "needs_review" THEN "needs_review"
  ELSE "pass"

-----------------------------------------------------------------------------
(* Compliance.                                                             *)

MinConfidence == 70

\* said: the pattern's words are not in the text, are there, or are there and begin or
\* end in a sign that is no letter, where \b matches nothing (phrases of a client only).
RuleKinds ==
  {k \in [engine : {"deterministic", "llm", "both"}, severity : {"block", "warn"},
          applies : BOOLEAN, said : {"no", "plain", "marked"}] :
     k.said = "marked" => k.engine = "deterministic"}

\* A label that is none of the three counts as uncertain; only that of a violation
\* is read with its confidence.
Findings == [rule : Rules, label : {"violation"}, confidence : Confidences]
            \cup [rule : Rules, label : {"clear", "uncertain"}, confidence : {MinConfidence}]

\* Mutant: a later finding that clears the rule takes an earlier doubt back.
LastClears(so, f) ==
  IF f.label = "clear" THEN IF so = "fail" THEN so ELSE "pass"
  ELSE IF f.label = "violation" /\ f.confidence >= MinConfidence THEN "fail" ELSE "needs_review"

\* One step of adjudicate_confidence; the first sure violation is the last word.
Heed(so, f) ==
  IF so = "fail" THEN so
  ELSE IF f.label = "clear" THEN IF so = "none" THEN "pass" ELSE so
  ELSE IF f.label = "violation" /\ f.confidence >= MinConfidence THEN "fail" ELSE "needs_review"

\* The verdict of a rule: the worse of its two sides, and a doubt if neither has spoken.
RuleVerdict(r) ==
  LET pattern == IF rule[r].said = "plain" THEN "fail" ELSE "pass"
      sides == (IF rule[r].engine # "llm" THEN {pattern} ELSE {})
               \cup (IF rule[r].engine # "deterministic" /\ heard[r] # "none" THEN {heard[r]} ELSE {})
  IN  IF sides = {} THEN "needs_review" ELSE Worst(sides)

Applicable == {r \in Rules : rule[r].applies}
Blocking == {r \in Applicable : rule[r].severity = "block"}

TextVerdict == Roll([r \in Applicable |-> RuleVerdict(r)], Blocking)

-----------------------------------------------------------------------------
(* The rubric of an image.                                                 *)

MinBytes == 1024
MaxBytes == 15 * 1024 * 1024
PassScore == 70
FailScore == 40
NoScore == -1       \* no score: an uncertain label, or a score that is no number

ImageFacts ==
  [decodes : BOOLEAN, shippable : BOOLEAN, dims : {"meets", "below", "unknown ratio"},
   bytes : Sizes, overlay : {"none", "outside", "legible", "flat"}]

\* What the worker measures itself.
Measured ==
  [format |-> IF still.decodes /\ still.shippable THEN "pass" ELSE "fail",
   resolution |-> CASE ~still.decodes \/ still.dims = "below" -> "fail"
                    [] still.decodes /\ still.dims = "meets" -> "pass"
                    [] OTHER -> "needs_review",
   size |-> IF still.bytes \in MinBytes .. MaxBytes THEN "pass" ELSE "fail",
   overlay |-> CASE still.overlay = "none" -> "pass"
                 [] still.overlay # "none" /\ (~still.decodes \/ still.overlay = "flat") -> "fail"
                 [] still.decodes /\ still.overlay = "outside" -> "needs_review"
                 [] OTHER -> "pass"]

\* A score above 1 is taken for one of 100.
Resolve(score) ==
  IF score <= 100 THEN score ELSE IF score \div 100 > 100 THEN 100 ELSE score \div 100

Seen(d) ==
  CASE Resolve(looked[d]) >= PassScore -> "pass"
    [] Resolve(looked[d]) \in 0 .. FailScore -> "fail"
    [] OTHER -> "needs_review"

ImageVerdict ==
  Worst({Roll(Measured, DOMAIN Measured), Roll([d \in Defects |-> Seen(d)], Defects)})

-----------------------------------------------------------------------------
(* The facts of a video.  "mp4" stands for the three containers of its family. *)

Shapes == {"9:16", "1:1", "16:9"}
Unknown == -1       \* ffprobe tells no duration

\* A file with no video stream has no codec and no shape.
VideoFacts ==
  {v \in [container : {"none", "mp4", "webm"}, codec : {"none", "h264", "vp9"},
          shape : {"none", "9:16", "1:1"}, seconds : Lengths \cup {Unknown},
          pictures : BOOLEAN, sound : BOOLEAN, declared : Shapes \cup {"other"}] :
     ~v.pictures => v.codec = "none" /\ v.shape = "none"}

VideoVerdict ==
  Roll([pictures |-> IF footage.pictures THEN "pass" ELSE "fail",
        sound |-> IF footage.sound THEN "pass" ELSE "fail",
        duration |-> IF footage.seconds > 0 THEN "pass" ELSE "fail",
        resolution |-> CASE footage.shape = "none" -> "fail"
                         [] footage.shape # "none" /\ footage.declared = "other" -> "needs_review"
                         [] OTHER -> IF footage.shape = footage.declared THEN "pass" ELSE "fail"],
       {"pictures", "sound", "duration", "resolution"})

\* The placements there is a spec for; that of in_stream is no placement of the database.
SpecOf ==
  [reels |-> [ratio |-> "9:16", low |-> 3, high |-> 90],
   stories |-> [ratio |-> "9:16", low |-> 1, high |-> 60],
   feed |-> [ratio |-> "1:1", low |-> 3, high |-> 241]]

\* video_spec_verdict: every check passes, or the verdict is fail.
Conforms(p) ==
  /\ footage.container = "mp4" /\ footage.codec = "h264" /\ footage.sound
  /\ footage.shape = SpecOf[p].ratio
  /\ footage.seconds \in SpecOf[p].low .. SpecOf[p].high

\* The status that is stored: the agent's, unless the worker finds the asset in the wrong.
Backstop(p, claim) ==
  IF p \in DOMAIN SpecOf /\ asset # "none" /\ (asset = "bad" \/ ~Conforms(p)) THEN "fail" ELSE claim

-----------------------------------------------------------------------------
AnyRule == CHOOSE k \in RuleKinds : TRUE
AnyImage == CHOOSE i \in ImageFacts : TRUE
AnyVideo == CHOOSE v \in VideoFacts : TRUE

EngineInit ==
  /\ matter \in {"none", "text", "image", "video"}
  /\ rule \in IF matter = "text" THEN [Rules -> RuleKinds] ELSE {[r \in Rules |-> AnyRule]}
  /\ still \in IF matter = "image" THEN ImageFacts ELSE {AnyImage}
  /\ footage \in IF matter = "video" THEN VideoFacts ELSE {AnyVideo}
  /\ findings = <<>> /\ heard = [r \in Rules |-> "none"]
  /\ looks = <<>> /\ looked = [d \in Defects |-> NoScore]
  /\ asset = "none" /\ stored = [p \in Spots |-> "none"] /\ blind = {}

Find(f) ==
  /\ matter = "text" /\ Len(findings) < MaxFindings
  /\ findings' = Append(findings, f)
  /\ heard' = [heard EXCEPT ![f.rule] = Heed(@, f)]
  /\ UNCHANGED <<given, looks, looked, asset, stored, blind>>

\* The last observation of a defect is the one that counts.
Look(d, score) ==
  /\ matter = "image" /\ Len(looks) < MaxFindings
  /\ looks' = Append(looks, [defect |-> d, score |-> score])
  /\ looked' = [looked EXCEPT ![d] = score]
  /\ UNCHANGED <<given, findings, heard, asset, stored, blind>>

\* The file of the video is stored, and can be read or not.
StoreAsset(as) ==
  /\ matter = "video" /\ asset = "none"
  /\ asset' = as
  /\ UNCHANGED <<given, findings, heard, looks, looked, stored, blind>>

ReportSpot(p, claim) ==
  /\ matter = "video"
  /\ stored' = [stored EXCEPT ![p] = Backstop(p, claim)]
  /\ blind' = IF asset = "none" THEN blind \cup {p} ELSE blind \ {p}
  /\ UNCHANGED <<given, findings, heard, looks, looked, asset>>

EngineNext ==
  \/ \E f \in Findings : Find(f)
  \/ \E d \in Defects, score \in Scores \cup {NoScore} : Look(d, score)
  \/ \E as \in {"bad", "good"} : StoreAsset(as)
  \/ \E p \in Spots, claim \in {"pass", "warn", "fail"} : ReportSpot(p, claim)

EngineSpec == EngineInit /\ [][EngineNext]_engineVars
-----------------------------------------------------------------------------
(* Properties.                                                             *)

\* What the evidence says of a rule, whatever the order it came in.
Given(r) == {findings[n] : n \in {k \in DOMAIN findings : findings[k].rule = r}}
Asked(r) == rule[r].engine # "deterministic"
Caught(r) ==
  \/ rule[r].engine # "llm" /\ rule[r].said = "plain"
  \/ Asked(r) /\ \E f \in Given(r) : f.label = "violation" /\ f.confidence >= MinConfidence
Doubted(r) ==
  /\ ~Caught(r)
  /\ \/ rule[r].engine = "llm" /\ Given(r) = {}
     \/ Asked(r) /\ \E f \in Given(r) : f.label # "clear"

TextEarned ==
  TextVerdict = IF \E r \in Blocking : Caught(r) THEN "fail"
                ELSE IF \E r \in Applicable : Doubted(r) THEN "needs_review"
                ELSE "pass"

ImageEarned ==
  ImageVerdict = "pass" =>
    /\ still.decodes /\ still.shippable /\ still.dims = "meets"
    /\ still.bytes \in MinBytes .. MaxBytes /\ still.overlay \in {"none", "legible"}
    /\ \A d \in Defects : \E n \in DOMAIN looks :
         /\ looks[n].defect = d /\ Resolve(looks[n].score) >= PassScore
         /\ \A k \in n + 1 .. Len(looks) : looks[k].defect # d

VideoEarned ==
  /\ VideoVerdict = "pass" =>
       footage.pictures /\ footage.sound /\ footage.seconds > 0 /\ footage.shape = footage.declared
  /\ \A p \in (DOMAIN SpecOf \cap Spots) \ blind :
       stored[p] = "pass" => asset = "good" /\ Conforms(p)

\* No engine passes what its evidence does not: a finding of compliance decides by what it
\* is and never by its place among the others, a doubt or a rule nobody looked at holds
\* the gate unless it is of a rule that failed and does not block, an image passes on its
\* last observation of every defect and on all that is measured, and the agent's word
\* on a placement stands only if the file conforms, is not there yet, or has no spec
\* (compliance_engine, qa_engine and video_probe over gate_core, _spec_backstop_video).
PassIsEarned ==
  CASE matter = "text" -> TextEarned
    [] matter = "image" -> ImageEarned
    [] matter = "video" -> VideoEarned
    [] OTHER -> TRUE

-----------------------------------------------------------------------------
(* What the code says and does not do: TLC refutes each.                   *)

\* A doubt never silently passes (compliance_engine.py 40-41): not when more is found.
DoubtIsKept ==
  [][TextVerdict = "needs_review" /\ findings'[Len(findings')].label # "clear"
       => TextVerdict' # "pass"]_findings

\* What a client must not say is caught (compliance_engine.py 18-20).
SaidIsCaught ==
  \A r \in Blocking : rule[r].engine = "deterministic" /\ rule[r].said # "no" => TextVerdict = "fail"

\* Scores may be sent as 0..100 (qa_engine.py 625).
PercentIsRead == \A n \in 0 .. 100 : Resolve(100 * n) = n

\* The agent can never pass an asset that does not conform (operator_stage_tools.py 534-535).
NeverPassesUnfit ==
  \A p \in DOMAIN SpecOf \cap Spots : stored[p] = "pass" /\ asset = "good" => Conforms(p)
=============================================================================
