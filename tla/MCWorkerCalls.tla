--------------------------- MODULE MCWorkerCalls ---------------------------
(***************************************************************************)
(* Small instances of four things that run in the worker: its drains of    *)
(* the queue, when a row has a single attempt; the lease on a brief; the   *)
(* quality check; and the chats about a creative.  They share no state     *)
(* here, so a behaviour is about one of them, its focus, and leaves the    *)
(* others as they start.                                                   *)
(***************************************************************************)
EXTENDS MCWorkItemQueue, BriefLease, QualityCheck, ChatSessions

CONSTANTS a1, a2, a3, left, still, clip, h1, h2, other, t1, t2, t3, b1, s1, s2

VARIABLE focus

OneProcess == [a \in Acquires |-> left]

CallerOfEach == h1 :> "handler" @@ h2 :> "handler" @@ other :> "manager"
StillFirst == <<still, clip>>

\* Two messages and a click about one creative, and a message about another.
AboutWhich == t1 :> s1 @@ t2 :> s1 @@ t3 :> s2 @@ b1 :> s1
Session(x) == AboutWhich[x]

\* The call of the manager meets no upset, the handlers alone two at most.  The
\* time-out of a row that a handler left held is none.
FewUpsets ==
  renders' + deaths' + Cardinality({r \in rotated' : call'[r].at # "left"})
    <= IF call'[other].at = "new" THEN 2 ELSE 0

MCInit ==
  /\ focus \in {"queue", "lease", "quality", "chat"}
  /\ Init /\ LeaseInit /\ QualityInit /\ ChatInit
  /\ \A c \in Creatives : asset[c] = "good"
  /\ focus # "quality" => \A v \in Videos : film[v] = "rendering"

QueueStep == focus = "queue" /\ Next /\ UNCHANGED <<focus, leaseVars, qualityVars, chatVars>>
LeaseStep == focus = "lease" /\ LeaseNext /\ UNCHANGED <<focus, vars, qualityVars, chatVars>>
QualityStep ==
  /\ focus = "quality" /\ QualityNext /\ FewUpsets
  /\ UNCHANGED <<focus, vars, leaseVars, chatVars>>
ChatStep == focus = "chat" /\ ChatNext /\ UNCHANGED <<focus, vars, leaseVars, qualityVars>>

MCNext == QueueStep \/ LeaseStep \/ QualityStep \/ ChatStep

MCSpec ==
  /\ MCInit /\ [][MCNext]_<<focus, vars, leaseVars, qualityVars, chatVars>>
  /\ Fairness /\ LeaseFairness /\ QualityFairness /\ ChatFairness
=============================================================================
