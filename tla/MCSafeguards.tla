---------------------------- MODULE MCSafeguards ----------------------------
(***************************************************************************)
(* Small instances of four safeguards of the worker: the approval of tool  *)
(* calls, the budget cap, the reconciliation of video renders and the      *)
(* engines that judge creatives.  They share no state, so a behaviour is   *)
(* about one of them, its focus, and leaves the others as they start.      *)
(***************************************************************************)
EXTENDS ApprovalGate, BudgetCap, KieRenders, GateEngines, FiniteSetsExt, TLC

CONSTANTS
  c1, c2, k1,                   \* ApprovalGate
  images, finals, clips, speech, redo,  \* BudgetCap
  r1, r2,                       \* KieRenders
  x1, x2, d1, d2                \* GateEngines

VARIABLES focus, absent

OneKey == c1 :> k1 @@ c2 :> k1
OneRetry == c1 :> 2 @@ c2 :> 1

Kinds ==
  images :> "batch" @@ finals :> "batch" @@ clips :> "broll" @@ speech :> "voice" @@ redo :> "tool"
Briefs ==
  images :> "image" @@ finals :> "image" @@ clips :> "video" @@ speech :> "video" @@ redo :> "image"
UnitCounts == images :> 1 @@ finals :> 1 @@ clips :> 2 @@ speech :> 2 @@ redo :> 1
RunCounts == images :> 1 @@ finals :> 1 @@ clips :> 2 @@ speech :> 2 @@ redo :> 1

\* The second rule is for the agent alone; what does not decode has no format; videos
\* are declared vertical or of a shape there is no rail for.
FewFacts ==
  /\ matter = "text" => rule[x2].applies /\ rule[x2].engine = "llm" /\ rule[x2].said = "no"
  /\ matter = "image" => still.decodes \/ still.shippable
  /\ matter = "video" => footage.declared \in {"9:16", "other"}

Only(module, next, others) == focus = module /\ next /\ UNCHANGED <<focus, absent, others>>

\* Some of the paid jobs do not run: three do, or the two that may run twice.
FewJobs ==
  {A \in kSubset(2, Jobs) : A \cap {clips, speech} # {}} \cup {{images, finals, redo}}
SomeAbsent == \A j \in absent : jobAt'[j] = "idle"

MCInit ==
  /\ focus \in {"approvals", "budget", "renders", "engines"}
  /\ absent \in IF focus = "budget" THEN FewJobs ELSE {{}}
  /\ BudgetInit /\ KieInit /\ ApprovalInit
  /\ focus # "approvals" => risky = {}
  /\ matter \in IF focus = "engines" THEN {"text", "image", "video"} ELSE {"none"}
  /\ EngineInit /\ FewFacts

MCNext ==
  \/ Only("approvals", ApprovalNext, <<budgetVars, kieVars, engineVars>>)
  \/ Only("budget", BudgetNext /\ SomeAbsent, <<approvalVars, kieVars, engineVars>>)
  \/ Only("renders", KieNext, <<approvalVars, budgetVars, engineVars>>)
  \/ Only("engines", EngineNext, <<approvalVars, budgetVars, kieVars>>)

MCSpec ==
  /\ MCInit
  /\ [][MCNext]_<<focus, absent, approvalVars, budgetVars, kieVars, engineVars>>
  /\ KieFairness
=============================================================================
