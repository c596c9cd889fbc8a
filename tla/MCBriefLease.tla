---------------------------- MODULE MCBriefLease ----------------------------
(* Small instances of BriefLease for TLC. *)
EXTENDS BriefLease, TLC

CONSTANTS a1, a2, a3, a4, p1, p2

TwoProcesses == (a1 :> p1) @@ (a2 :> p1) @@ (a3 :> p1) @@ (a4 :> p2)
=============================================================================
