----------------------------- MODULE WorkLedger -----------------------------
(***************************************************************************)
(* What the work_item queue promises its users, whatever crashes, retries, *)
(* cancels and rotations happen inside it: a row is added once, taken by   *)
(* at most one consumer, completed only while it is taken, and never taken *)
(* or waiting again once it is over.                                       *)
(***************************************************************************)
CONSTANTS Ids, Consumers, NoOne

VARIABLES phase, holder

ledger == <<phase, holder>>

Phases == {"none", "waiting", "taken", "completed", "closed"}

Init ==
  /\ phase = [i \in Ids |-> "none"]
  /\ holder = [i \in Ids |-> NoOne]

Add(i) ==
  /\ phase[i] = "none"
  /\ phase' = [phase EXCEPT ![i] = "waiting"]
  /\ UNCHANGED holder

Take(i, c) ==
  /\ phase[i] = "waiting"
  /\ phase' = [phase EXCEPT ![i] = "taken"]
  /\ holder' = [holder EXCEPT ![i] = c]

\* The holder finishes its work.
Complete(i) ==
  /\ phase[i] = "taken"
  /\ phase' = [phase EXCEPT ![i] = "completed"]
  /\ holder' = [holder EXCEPT ![i] = NoOne]

\* Rows failed, timed out or cancelled, several at once by a pipeline cancel.
\* An administrator may also void a row that is already over.
Close(rows) ==
  /\ \A i \in rows : phase[i] # "none"
  /\ phase' = [i \in Ids |-> IF i \in rows THEN "closed" ELSE phase[i]]
  /\ holder' = [i \in Ids |-> IF i \in rows THEN NoOne ELSE holder[i]]

Next ==
  \/ \E i \in Ids : Add(i) \/ Complete(i)
  \/ \E i \in Ids, c \in Consumers : Take(i, c)
  \/ \E rows \in SUBSET Ids : Close(rows)

Spec == Init /\ [][Next]_ledger
=============================================================================
