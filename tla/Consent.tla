------------------------------ MODULE Consent ------------------------------
(***************************************************************************)
(* What the approval gate promises, whatever is cached, retried, lost or   *)
(* restarted inside it: a question is asked once and settled once, and a   *)
(* tool call runs once, for an approval of a call that is the same to the  *)
(* operator, or unasked if its risk class allows that.                     *)
(***************************************************************************)
CONSTANTS Calls, Keys, KeyOf

VARIABLES ballot, ran, risky

consent == <<ballot, ran, risky>>

Init ==
  /\ ballot = [c \in Calls |-> "none"]
  /\ ran = {}
  /\ risky \in SUBSET Keys

Opened(c) == ballot[c] = "none" /\ ballot' = [ballot EXCEPT ![c] = "open"]

Run(c) == c \notin ran /\ ran' = ran \cup {c}

Ask(c) == Opened(c) /\ UNCHANGED <<ran, risky>>

Settle(c, verdict) ==
  /\ ballot[c] = "open"
  /\ ballot' = [ballot EXCEPT ![c] = verdict]
  /\ UNCHANGED <<ran, risky>>

RunApproved(c) ==
  /\ \E d \in Calls : KeyOf[d] = KeyOf[c] /\ ballot[d] = "approved"
  /\ Run(c)
  /\ UNCHANGED <<ballot, risky>>

\* The question may be written down all the same.
RunUnasked(c) ==
  /\ KeyOf[c] \notin risky
  /\ Run(c)
  /\ Opened(c) \/ UNCHANGED ballot
  /\ UNCHANGED risky

Next ==
  \E c \in Calls :
    \/ Ask(c) \/ RunApproved(c) \/ RunUnasked(c)
    \/ \E verdict \in {"approved", "denied"} : Settle(c, verdict)

Spec == Init /\ [][Next]_consent
=============================================================================
