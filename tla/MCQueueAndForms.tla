-------------------------- MODULE MCQueueAndForms --------------------------
(***************************************************************************)
(* Small instances of the work queue, and of the two forms a manager fills *)
(* in before the first work of a pipeline is queued.  They share no state, *)
(* so a behaviour is about one of them, its focus, and leaves the others   *)
(* as they start.                                                          *)
(***************************************************************************)
EXTENDS MCWorkItemQueue, ConfigForm, PickBoard

CONSTANTS image, video, k1, k2, k3, Foci

VARIABLE focus

\* The format of a pipeline is both tracks, unless an edit chose one of them.
FormatOf(n) == IF n = 2 THEN {"video"} ELSE IF n = 3 THEN {"image"} ELSE {"image", "video"}

ConceptTrack(k) == IF k = k3 THEN video ELSE image

\* The page is opened on a row with both payloads or with none.
MCInit ==
  /\ focus \in Foci
  /\ Init /\ FormInit /\ BoardInit
  /\ IF focus = "configuration" THEN Has(draft, "image") <=> Has(draft, "video")
     ELSE Present(draft) = Parts

QueueStep == focus = "queue" /\ Next /\ UNCHANGED <<focus, formVars, boardVars>>
FormStep == focus = "configuration" /\ FormNext /\ UNCHANGED <<focus, vars, boardVars>>
BoardStep == focus = "ideation" /\ BoardNext /\ UNCHANGED <<focus, vars, formVars>>

MCNext == QueueStep \/ FormStep \/ BoardStep

MCSpec == MCInit /\ [][MCNext]_<<focus, vars, formVars, boardVars>>

\* For a run whose focus is the queue alone.
QueueFairSpec == MCSpec /\ Fairness
=============================================================================
