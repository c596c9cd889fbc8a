------------------------ MODULE MCGenerationAndGates ------------------------
(***************************************************************************)
(* Small instances of the generation stage of the worker, and of the gates *)
(* its creatives pass later.  They share no state, so a behaviour is about *)
(* one of them, its focus, and leaves the other as it starts.  The gates   *)
(* are explored twice: with copy that is rewritten and judged, and with    *)
(* reports of two placements that overlap.                                 *)
(***************************************************************************)
EXTENDS GenerationStage, ReviewGates, TLC

CONSTANTS ad1, ad2, v1, v2, feed, story, q1, q2, i1

VARIABLE focus

SomeGone == {<<ImageTrack, 1>>, <<1, 0>>}

OneEach == v1 :> ad1 @@ v2 :> ad2
Texts == v1 :> 2 @@ v2 :> 1

Rewrites ==
  /\ report'[q2].at = "new" /\ check'[ad1][feed] \in {"none", "pass"}
  /\ deciding' \subseteq Variants \X {"approved"}
  /\ \A c \in Creatives : check'[c][story] = "none" /\ check'[ad2][feed] = "none"
Overlaps == UNCHANGED text /\ judge'[i1].at = "new"

Only(part, next, others) == focus = part /\ next /\ UNCHANGED <<focus, others>>

MCInit ==
  /\ focus \in {"generation", "copy", "spec"}
  /\ Init /\ ReviewInit

MCNext ==
  \/ Only("generation", Next, reviewVars)
  \/ Only("copy", ReviewNext /\ Rewrites, vars)
  \/ Only("spec", ReviewNext /\ Overlaps, vars)

MCSpec == MCInit /\ [][MCNext]_<<focus, vars, reviewVars>> /\ Fairness
=============================================================================
