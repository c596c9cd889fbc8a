--------------------------- MODULE MCStageMachine ---------------------------
(* The stage machine of StageMachine on two concurrent requests.           *)
EXTENDS StageMachine, TLC

CONSTANT MaxLag  \* bound on the stages entered past the one a request leaves

Symmetry == Permutations(Requests)

\* No step after ideation reads a brief: runs that minted two are followed until
\* then.
SecondBriefEarly == minted = 2 => Review \notin entered

\* One question at most is answered before its stage is entered.
FewEarly == Cardinality({q \in open : q[1] \notin entered}) <= 1

ShortLag ==
  \A r \in Requests :
    req[r].at \notin {"idle", "loaded"} => req[r].from + 1 + MaxLag \notin entered

MCSpec == Init /\ [][Next /\ (SecondBriefEarly /\ FewEarly /\ ShortLag)']_vars
=============================================================================
