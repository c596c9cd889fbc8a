------------------------ MODULE MCGenerationAndPage ------------------------
(***************************************************************************)
(* Small instances of the generation stage of an operator, and of the page *)
(* that shows its events.  The page reads what the stage writes and writes *)
(* nothing itself, so a behaviour is about one of them, its focus.         *)
(***************************************************************************)
EXTENDS GenerationStage, LivePage

VARIABLE focus

AllThere == {}

\* No page is open while the stage is the focus.
PageClosed ==
  /\ written = {} /\ gates = 0 /\ shown = <<>> /\ pills = 0
  /\ source = [s \in Streams |-> None]
  /\ relay = [s \in Streams |-> [c \in Conns |-> "none"]]
  /\ timer = [s \in Streams |-> FALSE]
  /\ wire = [s \in Streams |-> <<>>]
  /\ queue = <<>> /\ asked = 0 /\ answer = {}
  /\ mounted = FALSE /\ upsets = 0

Only(part, next, others) == focus = part /\ next /\ UNCHANGED <<focus, others>>

MCInit ==
  /\ Init
  /\ \/ focus = "generation" /\ PageClosed
     \/ focus = "page" /\ PageInit

MCNext == Only("generation", Next, pageVars) \/ Only("page", PageNext, vars)

MCSpec ==
  MCInit /\ [][MCNext]_<<focus, vars, pageVars>> /\ Fairness /\ PageFairness
=============================================================================
