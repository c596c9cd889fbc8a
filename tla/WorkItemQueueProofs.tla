------------------------ MODULE WorkItemQueueProofs ------------------------
(***************************************************************************)
(* Proofs about the work_item queue, for every number of rows, consumers   *)
(* and watchdogs.                                                          *)
(*                                                                         *)
(* The argument: a step either adds one row under a new key, or moves      *)
(* every row along its life (RowMoves); rows that move keep RowOK.  What   *)
(* the processes remember of the table (a claim, a snapshot, a request)    *)
(* stays true of it because a row loses its token only by being closed,    *)
(* and a closed row stays closed.                                          *)
(***************************************************************************)
EXTENDS WorkItemQueue, FiniteSetTheorems, TLAPS

-----------------------------------------------------------------------------
(* The inductive invariant.                                                *)

\* What is true of every row by itself: a row is claimed at most once.
RowOK(r) ==
  /\ r.status = "absent" => r = AbsentRow
  /\ r.status # "absent" => r.root \in Roots
  /\ r.status = "queued" => r.attempt = 0
  /\ r.status \in Held => r.attempt = 1
  /\ (r.status \in Held) <=> (r.token # NoToken)
  /\ (r.status \in Held) <=> (r.owner # NoOne)
  /\ r.status = "running" => r.beat
  /\ r.status \in {"failed", "timed_out"} => r.error # "none"
  /\ MaxAttempts >= 2 => r.error # "max_attempts_exceeded"
  /\ r.key[1] = "retry" => r.key = <<"retry", r.parent, 2>>

RowsOK == \A i \in Ids : RowOK(row[i])

KeysUnique ==
  \A i, j \in Ids :
    (i # j /\ row[i].status # "absent" /\ row[j].status # "absent")
      => row[i].key # row[j].key

TokensMinted ==
  /\ \A i \in Ids : row[i].token <= minted
  /\ \A c \in Consumers : work[c].token <= minted

\* A consumer at work has a row and a token, and owns the row while they match.
WorkOK ==
  \A c \in Consumers :
    work[c].pc # "idle" =>
      /\ work[c].item \in Ids
      /\ work[c].token # NoToken
      /\ row[work[c].item].token = work[c].token => row[work[c].item].owner = c

\* A snapshot is of a held row, which has kept its token or is closed.
SnapshotOK(s) ==
  /\ s.token # NoToken
  /\ s.attempt = 1
  /\ row[s.item].token = s.token \/ row[s.item].status \in Terminal

DogOK ==
  \A w \in Watchdogs :
    /\ \A s \in dog[w].todo : SnapshotOK(s)
    /\ dog[w].pc = "requeueing" =>
         /\ dog[w].current \in Snapshots
         /\ dog[w].current.attempt = 1
         /\ row[dog[w].current.item].status \in Terminal

AdmittedOK ==
  \A request \in admitted :
    /\ request.key[1] # "retry"
    /\ request.parent # NoRow => row[request.parent].status \in Terminal

IInv ==
  /\ TypeOK
  /\ RowsOK
  /\ KeysUnique
  /\ ParentClosed
  /\ TokensMinted
  /\ WorkOK
  /\ DogOK
  /\ AdmittedOK

-----------------------------------------------------------------------------
(* How a step changes the table.                                           *)

Closes(r, q) ==
  \E status \in Terminal, error \in Errors :
    /\ r.status # "absent"
    /\ status \in {"failed", "timed_out"} => error # "none"
    /\ MaxAttempts >= 2 => error # "max_attempts_exceeded"
    /\ q = Closed(r, status, error)

Takes(r, q, token) ==
  \E c \in Consumers :
    /\ r.status = "queued"
    /\ q = [r EXCEPT !.status = "claimed", !.token = token,
                     !.owner = c, !.attempt = @ + 1]

Beats(r, q) ==
  /\ r.status \in Held
  /\ q = [r EXCEPT !.status = "running", !.beat = TRUE, !.stale = FALSE]

Ages(r, q) ==
  \/ r.status \in Held /\ q = [r EXCEPT !.stale = TRUE]
  \/ r.status = "queued" /\ q = [r EXCEPT !.due = TRUE]

RowMove(r, q, token) ==
  q = r \/ Closes(r, q) \/ Takes(r, q, token) \/ Beats(r, q) \/ Ages(r, q)

\* Every row moves; the one that is taken gets the next token.
RowMoves ==
  /\ row' \in [Ids -> Row]
  /\ \A i \in Ids : RowMove(row[i], row'[i], minted + 1)
  /\ minted' \in {minted, minted + 1}
  /\ \A i \in Ids : row'[i].token # row[i].token =>
       row'[i].token = NoToken \/ minted' = minted + 1

\* One row is added, under a new key, chained only to a closed row.
RowAdded ==
  \E i \in Ids, key \in Keys, root \in Roots, parent \in Ids \cup {NoRow},
     due \in BOOLEAN :
    /\ row[i].status = "absent"
    /\ ~HasKey(key)
    /\ key[1] = "retry" => key = <<"retry", parent, 2>>
    /\ parent # NoRow => row[parent].status \in Terminal
    /\ row' = [row EXCEPT ![i] = QueuedRow(key, root, parent, due)]
    /\ minted' = minted

\* A move keeps the row well formed, its identity, and what others know of it.
LEMMA MoveKeepsRow ==
  ASSUME NEW r \in Row, NEW q, NEW token \in Nat, token # NoToken,
         RowOK(r), RowMove(r, q, token)
  PROVE  /\ q \in Row
         /\ RowOK(q)
         /\ q.status = "absent" <=> r.status = "absent"
         /\ r.status \in Terminal => q.status \in Terminal
         /\ q.key = r.key /\ q.root = r.root /\ q.parent = r.parent
         /\ q.token \in {r.token, NoToken, token}
         /\ r.token # NoToken => q.token = r.token \/ q.status \in Terminal
         /\ (r.token # NoToken /\ q.token # NoToken) => q.owner = r.owner
         /\ q.token = token /\ r.token # token => r.status = "queued"
<1> USE ConsumersAssumption
<1>1. CASE q = r
  BY <1>1 DEF RowOK, Row, Held, Terminal
<1>2. CASE Closes(r, q)
  <2>1. PICK status \in Terminal, error \in Errors :
          /\ r.status # "absent"
          /\ status \in {"failed", "timed_out"} => error # "none"
          /\ MaxAttempts >= 2 => error # "max_attempts_exceeded"
          /\ q = Closed(r, status, error)
    BY <1>2 DEF Closes
  <2>0. /\ status \in Statuses
        /\ NoToken \in Nat
    BY DEF Statuses, NoToken
  <2>2. q \in Row
    BY <2>0, <2>1 DEF Closed, Row
  <2>3. /\ q.status = status /\ q.error = error
        /\ q.token = NoToken /\ q.owner = NoOne
        /\ q.attempt = r.attempt /\ q.key = r.key
        /\ q.root = r.root /\ q.parent = r.parent
    BY <2>1 DEF Closed, Row
  <2> QED
    BY <2>1, <2>2, <2>3 DEF RowOK, Held, Terminal, NoToken
<1>3. CASE Takes(r, q, token)
  <2>1. PICK c \in Consumers :
          /\ r.status = "queued"
          /\ q = [r EXCEPT !.status = "claimed", !.token = token,
                           !.owner = c, !.attempt = @ + 1]
    BY <1>3 DEF Takes
  <2>2. /\ q \in Row
        /\ q.status = "claimed" /\ q.error = r.error
        /\ q.token = token /\ q.owner = c
        /\ q.attempt = r.attempt + 1 /\ q.key = r.key
        /\ q.root = r.root /\ q.parent = r.parent
    <3>1. "claimed" \in Statuses
      BY DEF Statuses, Open, Held
    <3>2. r.attempt + 1 \in Nat
      BY DEF Row
    <3>3. q = [status |-> "claimed", attempt |-> r.attempt + 1, token |-> token,
               owner |-> c, beat |-> r.beat, stale |-> r.stale, due |-> r.due,
               error |-> r.error, key |-> r.key, root |-> r.root, parent |-> r.parent]
      BY <2>1 DEF Row
    <3> QED
      BY <3>1, <3>2, <3>3 DEF Row
  <2> QED
    BY <2>1, <2>2 DEF RowOK, Held, Terminal, NoToken
<1>4. CASE Beats(r, q)
  <2>1. /\ q \in Row
        /\ q.status = "running" /\ q.error = r.error /\ q.beat = TRUE
        /\ q.token = r.token /\ q.owner = r.owner
        /\ q.attempt = r.attempt /\ q.key = r.key
        /\ q.root = r.root /\ q.parent = r.parent
        /\ r.status \in Held
    BY <1>4 DEF Beats, Row, Held, Open, Statuses
  <2> QED
    BY <2>1 DEF RowOK, Held, Terminal, NoToken
<1>5. CASE Ages(r, q)
  <2>1. r.status \in Open
    BY <1>5 DEF Ages, Open
  <2>2. q = [r EXCEPT !.stale = TRUE] \/ q = [r EXCEPT !.due = TRUE]
    BY <1>5 DEF Ages
  <2>3. q \in Row
    BY <2>2 DEF Row
  <2>4. /\ q.status = r.status /\ q.error = r.error /\ q.beat = r.beat
        /\ q.token = r.token /\ q.owner = r.owner
        /\ q.attempt = r.attempt /\ q.key = r.key
        /\ q.root = r.root /\ q.parent = r.parent
    BY <2>2 DEF Row
  <2> QED
    BY <2>1, <2>3, <2>4 DEF RowOK, Held, Terminal, Open, NoToken
<1> QED
  BY <1>1, <1>2, <1>3, <1>4, <1>5 DEF RowMove

\* What the processes need to know of a step of the table.
TableStep ==
  /\ row' \in [Ids -> Row]
  /\ RowsOK'
  /\ KeysUnique'
  /\ ParentClosed'
  /\ minted' \in Nat /\ minted <= minted'
  /\ \A i \in Ids :
       /\ row[i].status \in Terminal => row'[i].status \in Terminal
       /\ row[i].token # NoToken =>
            row'[i].token = row[i].token \/ row'[i].status \in Terminal
       /\ (row[i].token # NoToken /\ row'[i].token # NoToken) =>
            row'[i].owner = row[i].owner
       /\ row'[i].token \in {row[i].token, NoToken, minted + 1}
       /\ row'[i].token <= minted'

LEMMA MovesAreTableSteps ==
  ASSUME IInv, RowMoves
  PROVE  TableStep
<1>1. row \in [Ids -> Row] /\ row' \in [Ids -> Row] /\ minted \in Nat /\ minted' \in Nat
  BY DEF IInv, TypeOK, RowMoves
<1>2. minted + 1 \in Nat /\ minted + 1 # NoToken /\ minted <= minted'
  BY <1>1 DEF NoToken, RowMoves
<1>3. ASSUME NEW i \in Ids
      PROVE  /\ RowOK(row'[i])
             /\ row'[i].status = "absent" <=> row[i].status = "absent"
             /\ row[i].status \in Terminal => row'[i].status \in Terminal
             /\ row'[i].key = row[i].key
             /\ row'[i].parent = row[i].parent
             /\ row'[i].token \in {row[i].token, NoToken, minted + 1}
             /\ row[i].token # NoToken =>
                  row'[i].token = row[i].token \/ row'[i].status \in Terminal
             /\ (row[i].token # NoToken /\ row'[i].token # NoToken) =>
                  row'[i].owner = row[i].owner
  <2>1. row[i] \in Row /\ RowOK(row[i]) /\ RowMove(row[i], row'[i], minted + 1)
    BY <1>1 DEF IInv, RowsOK, RowMoves
  <2> QED
    BY <1>2, <2>1, MoveKeepsRow
<1>4. RowsOK'
  BY <1>3 DEF RowsOK
<1>5. KeysUnique'
  BY <1>3 DEF KeysUnique, IInv
<1>6. ParentClosed'
  <2> SUFFICES ASSUME NEW i \in Ids, row'[i].parent # NoRow
               PROVE  row'[row'[i].parent].status \in Terminal
    BY DEF ParentClosed
  <2>1. row[i].parent \in Ids
    BY <1>1, <1>3 DEF Row
  <2> QED
    BY <1>3, <2>1 DEF ParentClosed, IInv
<1>7. \A i \in Ids : row'[i].token <= minted'
  <2> SUFFICES ASSUME NEW i \in Ids
               PROVE  row'[i].token <= minted'
    OBVIOUS
  <2>1. row[i].token <= minted /\ row[i].token \in Nat
    BY <1>1 DEF IInv, TokensMinted, Row
  <2>2. row'[i].token # row[i].token => row'[i].token = NoToken \/ minted' = minted + 1
    BY DEF RowMoves
  <2> QED
    BY <1>1, <1>2, <1>3, <2>1, <2>2 DEF NoToken
<1> QED
  BY <1>1, <1>2, <1>3, <1>4, <1>5, <1>6, <1>7 DEF TableStep

LEMMA AddingIsRowAdded ==
  ASSUME NEW i \in Ids, NEW key \in Keys, NEW root \in Roots, NEW parent \in Ids,
         row[i].status = "absent", ~HasKey(key), minted' = minted,
         key = <<"retry", parent, 2>>, row[parent].status \in Terminal,
         row' = [row EXCEPT ![i] = QueuedRow(key, root, parent, FALSE)]
  PROVE  RowAdded
<1>1. FALSE \in BOOLEAN /\ parent \in Ids \cup {NoRow}
  OBVIOUS
<1> QED
  BY <1>1, Zenon DEF RowAdded

LEMMA QueuedRowOK ==
  ASSUME NEW key \in Keys, NEW root \in Roots, NEW parent \in Ids \cup {NoRow},
         NEW due \in BOOLEAN,
         key[1] = "retry" => key = <<"retry", parent, 2>>
  PROVE  LET q == QueuedRow(key, root, parent, due) IN
         /\ q \in Row
         /\ RowOK(q)
         /\ q.status = "queued" /\ q.key = key /\ q.parent = parent
         /\ q.token = NoToken /\ q.owner = NoOne
<1> DEFINE q == QueuedRow(key, root, parent, due)
<1>2. "queued" \in Statuses /\ "none" \in Errors /\ NoToken \in Nat
  BY DEF Statuses, Open, Errors, NoToken
<1>3. q \in Row
  BY <1>2 DEF Row, QueuedRow
<1>4. RowOK(q)
  BY DEF RowOK, Held, QueuedRow
<1> QED
  BY <1>3, <1>4 DEF QueuedRow

LEMMA AdditionsAreTableSteps ==
  ASSUME IInv, RowAdded
  PROVE  TableStep
<1>1. PICK i \in Ids, key \in Keys, root \in Roots, parent \in Ids \cup {NoRow},
           due \in BOOLEAN :
        /\ row[i].status = "absent"
        /\ ~HasKey(key)
        /\ key[1] = "retry" => key = <<"retry", parent, 2>>
        /\ parent # NoRow => row[parent].status \in Terminal
        /\ row' = [row EXCEPT ![i] = QueuedRow(key, root, parent, due)]
        /\ minted' = minted
  BY DEF RowAdded
<1> DEFINE q == QueuedRow(key, root, parent, due)
<1>2. /\ q \in Row /\ RowOK(q)
      /\ q.status = "queued" /\ q.key = key /\ q.parent = parent
      /\ q.token = NoToken /\ q.owner = NoOne
  BY <1>1, QueuedRowOK
<1> HIDE DEF q
<1>3. row \in [Ids -> Row] /\ minted \in Nat /\ \A j \in Ids : row[j].token <= minted
  BY DEF IInv, TypeOK, TokensMinted
<1>4. row'[i] = q /\ \A j \in Ids \ {i} : row'[j] = row[j]
  BY <1>1, <1>3 DEF q
<1>5. row' \in [Ids -> Row]
  BY <1>1, <1>2, <1>3 DEF q
<1>6. RowsOK'
  BY <1>2, <1>4 DEF RowsOK, IInv
<1>7. KeysUnique'
  BY <1>1, <1>2, <1>4 DEF KeysUnique, HasKey, IInv
<1>8. row[i].token = NoToken
  BY <1>1 DEF IInv, RowsOK, RowOK, AbsentRow
<1>9. ParentClosed'
  <2> SUFFICES ASSUME NEW j \in Ids, row'[j].parent # NoRow
               PROVE  row'[row'[j].parent].status \in Terminal
    BY DEF ParentClosed
  <2>1. row'[j].parent \in Ids
    BY <1>5 DEF Row
  <2>2. row[row'[j].parent].status \in Terminal
    BY <1>1, <1>2, <1>4 DEF ParentClosed, IInv
  <2> QED
    BY <1>1, <1>4, <2>1, <2>2 DEF Terminal
<1>10. \A j \in Ids :
         /\ row[j].status \in Terminal => row'[j].status \in Terminal
         /\ row[j].token = row'[j].token
         /\ row[j].token # NoToken => row'[j].owner = row[j].owner
  BY <1>1, <1>2, <1>4, <1>8 DEF Terminal
<1> QED
  BY <1>1, <1>3, <1>5, <1>6, <1>7, <1>9, <1>10 DEF TableStep

LEMMA OneMoveIsTableStep ==
  ASSUME IInv, NEW i \in Ids, NEW q, row' = [row EXCEPT ![i] = q],
         RowMove(row[i], q, minted + 1),
         minted' \in {minted, minted + 1},
         q.token # row[i].token => q.token = NoToken \/ minted' = minted + 1
  PROVE  TableStep
<1>1. row \in [Ids -> Row] /\ minted \in Nat
  BY DEF IInv, TypeOK
<1>2. q \in Row
  <2>1. row[i] \in Row /\ RowOK(row[i]) /\ minted + 1 \in Nat /\ minted + 1 # NoToken
    BY <1>1 DEF IInv, RowsOK, NoToken
  <2> QED
    BY <2>1, MoveKeepsRow
<1>3. row' \in [Ids -> Row]
  BY <1>1, <1>2
<1>4. row'[i] = q /\ \A j \in Ids \ {i} : row'[j] = row[j]
  BY <1>1
<1>5. \A j \in Ids : RowMove(row[j], row'[j], minted + 1)
  BY <1>4 DEF RowMove
<1>6. RowMoves
  BY <1>3, <1>4, <1>5 DEF RowMoves
<1> QED
  BY <1>6, MovesAreTableSteps

LEMMA StillTableIsTableStep ==
  ASSUME IInv, UNCHANGED <<row, minted>>
  PROVE  TableStep
<1>1. row \in [Ids -> Row] /\ minted \in Nat /\ \A i \in Ids : row[i].token <= minted
  BY DEF IInv, TypeOK, TokensMinted
<1>2. RowsOK' /\ KeysUnique' /\ ParentClosed'
  BY DEF IInv, RowsOK, KeysUnique, ParentClosed
<1> QED
  BY <1>1, <1>2 DEF TableStep

-----------------------------------------------------------------------------
(* What a process remembers stays true across any step of the table.       *)

WorkOKFor(c) ==
  work[c].pc # "idle" =>
    /\ work[c].item \in Ids
    /\ work[c].token # NoToken
    /\ row[work[c].item].token = work[c].token => row[work[c].item].owner = c

LEMMA WorkKept ==
  ASSUME IInv, TableStep, NEW c \in Consumers,
         work'[c].item = work[c].item, work'[c].token = work[c].token,
         work'[c].pc # "idle" => work[c].pc # "idle"
  PROVE  WorkOKFor(c)' /\ work'[c].token <= minted'
<1>1. /\ work[c].token \in Nat /\ minted \in Nat /\ minted' \in Nat /\ minted <= minted'
      /\ work[c].token <= minted
  BY DEF IInv, TypeOK, Work, TokensMinted, TableStep
<1>2. work'[c].token <= minted'
  BY <1>1
<1>3. ASSUME work'[c].pc # "idle"
      PROVE  /\ work'[c].item \in Ids
             /\ work'[c].token # NoToken
             /\ row'[work'[c].item].token = work'[c].token =>
                  row'[work'[c].item].owner = c
  <2>1. /\ work[c].item \in Ids
        /\ work[c].token # NoToken
        /\ row[work[c].item].token = work[c].token => row[work[c].item].owner = c
    BY <1>3 DEF IInv, WorkOK
  <2>2. row'[work[c].item].token \in {row[work[c].item].token, NoToken, minted + 1}
    BY <2>1 DEF TableStep
  <2>3. (row[work[c].item].token # NoToken /\ row'[work[c].item].token # NoToken) =>
          row'[work[c].item].owner = row[work[c].item].owner
    BY <2>1 DEF TableStep
  <2> QED
    BY <1>1, <2>1, <2>2, <2>3
<1> QED
  BY <1>2, <1>3 DEF WorkOKFor

LEMMA SnapshotKept ==
  ASSUME IInv, TableStep, NEW s \in Snapshots, SnapshotOK(s)
  PROVE  SnapshotOK(s)'
<1>1. s.item \in Ids
  BY DEF Snapshots
<1>2. row[s.item].token = s.token \/ row[s.item].status \in Terminal
  BY DEF SnapshotOK
<1>3. row'[s.item].token = s.token \/ row'[s.item].status \in Terminal
  BY <1>1, <1>2 DEF TableStep, SnapshotOK
<1> QED
  BY <1>3 DEF SnapshotOK

DogOKFor(w) ==
  /\ \A s \in dog[w].todo : SnapshotOK(s)
  /\ dog[w].pc = "requeueing" =>
       /\ dog[w].current \in Snapshots
       /\ dog[w].current.attempt = 1
       /\ row[dog[w].current.item].status \in Terminal

LEMMA DogKept ==
  ASSUME IInv, TableStep, NEW w \in Watchdogs,
         dog'[w] = dog[w]
  PROVE  DogOKFor(w)'
<1>1. dog[w].todo \subseteq Snapshots /\ \A s \in dog[w].todo : SnapshotOK(s)
  BY DEF IInv, TypeOK, Dog, DogOK
<1>2. \A s \in dog'[w].todo : SnapshotOK(s)'
  BY <1>1, SnapshotKept
<1>3. ASSUME dog'[w].pc = "requeueing"
      PROVE  /\ dog'[w].current \in Snapshots
             /\ dog'[w].current.attempt = 1
             /\ row'[dog'[w].current.item].status \in Terminal
  <2>1. /\ dog[w].current \in Snapshots
        /\ dog[w].current.attempt = 1
        /\ row[dog[w].current.item].status \in Terminal
    BY <1>3 DEF IInv, DogOK
  <2>2. dog[w].current.item \in Ids
    BY <2>1 DEF Snapshots
  <2> QED
    BY <2>1, <2>2 DEF TableStep
<1> QED
  BY <1>2, <1>3 DEF DogOKFor

LEMMA AdmittedKept ==
  ASSUME IInv, TableStep, NEW request \in admitted
  PROVE  /\ request.key[1] # "retry"
         /\ request.parent # NoRow => row'[request.parent].status \in Terminal
<1>1. request.parent \in Ids \cup {NoRow}
  BY DEF IInv, TypeOK, Requests
<1> QED
  BY <1>1 DEF IInv, AdmittedOK, TableStep

\* A step of the table that leaves every process as it was.
LEMMA TableStepAlone ==
  ASSUME IInv, TableStep, UNCHANGED <<work, dog, admitted>>,
         cancelled' \subseteq Pipelines, faults' \in 0..MaxFaults
  PROVE  IInv'
<1>1. WorkOK' /\ \A c \in Consumers : work'[c].token <= minted'
  BY WorkKept DEF WorkOK, WorkOKFor
<1>2. DogOK'
  BY DogKept DEF DogOK, DogOKFor
<1>3. AdmittedOK'
  BY AdmittedKept DEF AdmittedOK
<1>4. TypeOK'
  BY DEF IInv, TypeOK, TableStep
<1> QED
  BY <1>1, <1>2, <1>3, <1>4 DEF IInv, TableStep, TokensMinted

\* A step of the table, taken by one consumer that then is idle.
LEMMA TableStepThenIdle ==
  ASSUME IInv, TableStep, NEW c \in Consumers,
         work' = [work EXCEPT ![c] = Idle],
         UNCHANGED <<dog, admitted, cancelled>>, faults' \in 0..MaxFaults
  PROVE  IInv'
<1>1. work \in [Consumers -> Work] /\ Idle \in Work /\ minted' \in Nat
  BY DEF IInv, TypeOK, Work, Idle, WorkStates, NoToken, TableStep
<1>2. work' \in [Consumers -> Work]
  BY <1>1
<1>3. \A d \in Consumers : WorkOKFor(d)' /\ work'[d].token <= minted'
  <2>1. WorkOKFor(c)' /\ work'[c].token <= minted'
    BY <1>1 DEF WorkOKFor, Idle, NoToken
  <2>2. ASSUME NEW d \in Consumers \ {c}
        PROVE  WorkOKFor(d)' /\ work'[d].token <= minted'
    <3>1. work'[d] = work[d]
      BY <1>1
    <3> QED
      BY <3>1, WorkKept
  <2> QED
    BY <2>1, <2>2
<1>4. DogOK'
  BY DogKept DEF DogOK, DogOKFor
<1>5. AdmittedOK'
  BY AdmittedKept DEF AdmittedOK
<1>6. TypeOK'
  BY <1>2 DEF IInv, TypeOK, TableStep
<1> QED
  BY <1>3, <1>4, <1>5, <1>6 DEF IInv, TableStep, TokensMinted, WorkOK, WorkOKFor

-----------------------------------------------------------------------------
(* The steps of the routes.                                                *)

\* The table, the consumers and the watchdogs stay; requests are admitted.
LEMMA AdmittingKeepsIInv ==
  ASSUME IInv, UNCHANGED <<row, work, dog, minted, cancelled, faults>>,
         NEW request \in Requests, admitted' = admitted \cup {request},
         request.key[1] # "retry",
         request.parent # NoRow => row[request.parent].status \in Terminal
  PROVE  IInv'
<1>1. TypeOK'
  BY DEF IInv, TypeOK
<1>2. /\ RowsOK' /\ KeysUnique' /\ ParentClosed' /\ TokensMinted'
      /\ WorkOK'
  BY DEF IInv, RowsOK, KeysUnique, ParentClosed, TokensMinted, WorkOK
<1>3. DogOK'
  BY DEF IInv, DogOK, SnapshotOK
<1>4. AdmittedOK'
  BY DEF IInv, AdmittedOK
<1> QED
  BY <1>1, <1>2, <1>3, <1>4 DEF IInv

LEMMA AdmitKeepsIInv ==
  ASSUME IInv, NEW k \in Roots, Admit(k)
  PROVE  IInv'
<1> DEFINE request == [key |-> <<"root", k, 0>>, root |-> k, parent |-> NoRow]
<1>1. request \in Requests
  BY DEF Requests, Keys
<1> QED
  BY <1>1, AdmittingKeepsIInv DEF Admit

LEMMA AdmitRedispatchKeepsIInv ==
  ASSUME IInv, NEW p \in Redispatchable, AdmitRedispatch(p)
  PROVE  IInv'
<1>1. PICK i \in LatestFailedDispatch(p) :
        admitted' = admitted \cup
          {[key |-> <<"redispatch", i, 0>>, root |-> row[i].root, parent |-> i]}
  BY DEF AdmitRedispatch
<1> DEFINE request == [key |-> <<"redispatch", i, 0>>, root |-> row[i].root, parent |-> i]
<1>2. i \in Ids /\ row[i].status \in {"failed", "timed_out"}
  BY DEF LatestFailedDispatch
<1>3. row[i].root \in Roots
  BY <1>2 DEF IInv, RowsOK, RowOK
<1>4. request \in Requests
  BY <1>2, <1>3 DEF Requests, Keys
<1> QED
  BY <1>1, <1>2, <1>4, AdmittingKeepsIInv DEF AdmitRedispatch, Terminal

LEMMA EnqueueKeepsIInv ==
  ASSUME IInv, NEW request \in admitted, Enqueue(request)
  PROVE  IInv'
<1>1. /\ request \in Requests
      /\ request.key[1] # "retry"
      /\ request.parent # NoRow => row[request.parent].status \in Terminal
  BY DEF IInv, TypeOK, AdmittedOK
<1>2. PICK i \in Fresh :
        row' = [row EXCEPT ![i] = QueuedRow(request.key, request.root, request.parent, TRUE)]
  BY DEF Enqueue, Insert
<1>3. RowAdded
  <2>1. request.key \in Keys /\ request.root \in Roots /\ request.parent \in Ids \cup {NoRow}
    BY <1>1 DEF Requests
  <2>2. i \in Ids /\ row[i].status = "absent"
    BY DEF Fresh
  <2> QED
    BY <1>1, <1>2, <2>1, <2>2 DEF RowAdded, Enqueue
<1>4. TableStep
  BY <1>3, AdditionsAreTableSteps
<1> QED
  BY <1>4, TableStepAlone DEF Enqueue, IInv, TypeOK

LEMMA CancelPipelineKeepsIInv ==
  ASSUME IInv, NEW p \in Pipelines, CancelPipeline(p)
  PROVE  IInv'
<1>1. row \in [Ids -> Row]
  BY DEF IInv, TypeOK
<1>2. ASSUME NEW i \in Ids
      PROVE  RowMove(row[i], row'[i], minted + 1)
  <2>1. row'[i] = row[i] \/ /\ row[i].status \in Open
                            /\ row'[i] = Closed(row[i], "cancelled", "pipeline_cancelled")
    BY DEF CancelPipeline
  <2>2. row[i].status \in Open => row[i].status # "absent"
    BY DEF Open, Held
  <2>3. "cancelled" \in Terminal /\ "pipeline_cancelled" \in Errors
    BY DEF Terminal, Errors
  <2> QED
    BY <2>1, <2>2, <2>3 DEF RowMove, Closes
<1>3. \A i \in Ids : row'[i] \in Row /\ row'[i].token \in {row[i].token, NoToken}
  <2> SUFFICES ASSUME NEW i \in Ids
               PROVE  row'[i] \in Row /\ row'[i].token \in {row[i].token, NoToken}
    OBVIOUS
  <2>1. row[i] \in Row /\ RowOK(row[i]) /\ minted + 1 \in Nat /\ minted + 1 # NoToken
    BY <1>1 DEF IInv, RowsOK, TypeOK, NoToken
  <2>2. row'[i] \in Row
    BY <1>2, <2>1, MoveKeepsRow
  <2>3. row'[i] = row[i] \/ row'[i] = Closed(row[i], "cancelled", "pipeline_cancelled")
    BY DEF CancelPipeline
  <2>4. Closed(row[i], "cancelled", "pipeline_cancelled").token = NoToken
    BY <2>1 DEF Closed, Row
  <2> QED
    BY <2>2, <2>3, <2>4
<1>4. RowMoves
  <2>1. row' = [i \in Ids |-> row'[i]]
    BY DEF CancelPipeline
  <2> QED
    BY <1>2, <1>3, <2>1 DEF RowMoves, CancelPipeline
<1>5. TableStep
  BY <1>4, MovesAreTableSteps
<1> QED
  BY <1>5, TableStepAlone DEF CancelPipeline, IInv, TypeOK

LEMMA CloseIsTableStep ==
  ASSUME IInv, NEW i \in Ids, NEW status \in Terminal, NEW error \in Errors,
         row[i].status # "absent", minted' = minted,
         status \in {"failed", "timed_out"} => error # "none",
         MaxAttempts >= 2 => error # "max_attempts_exceeded",
         row' = [row EXCEPT ![i] = Closed(row[i], status, error)]
  PROVE  TableStep
<1> DEFINE q == Closed(row[i], status, error)
<1>1. RowMove(row[i], q, minted + 1)
  BY DEF RowMove, Closes
<1>2. q.token = NoToken
  BY DEF IInv, TypeOK, Closed, Row
<1> HIDE DEF q
<1>3. row' = [row EXCEPT ![i] = q]
  BY DEF q
<1> QED
  BY <1>1, <1>2, <1>3, OneMoveIsTableStep

\* The token-scoped closing UPDATE, whether or not it matches the row.
LEMMA ScopedCloseIsTableStep ==
  ASSUME IInv, NEW i \in Ids, NEW token, token # NoToken,
         NEW status \in Terminal, NEW error \in Errors, minted' = minted,
         status \in {"failed", "timed_out"} => error # "none",
         MaxAttempts >= 2 => error # "max_attempts_exceeded",
         UpdateIfToken(i, token, Closed(row[i], status, error))
  PROVE  /\ TableStep
         /\ row[i].token = token => row'[i].status = status
<1>1. row \in [Ids -> Row]
  BY DEF IInv, TypeOK
<1>2. CASE row[i].token = token
  <2>1. row[i].status # "absent"
    BY <1>2 DEF IInv, RowsOK, RowOK, AbsentRow
  <2>2. row' = [row EXCEPT ![i] = Closed(row[i], status, error)]
    BY <1>1, <1>2 DEF UpdateIfToken
  <2>3. Closed(row[i], status, error).status = status
    BY <1>1 DEF Closed, Row
  <2> QED
    BY <1>1, <2>1, <2>2, <2>3, CloseIsTableStep
<1>3. CASE row[i].token # token
  <2>1. row' = row
    BY <1>1, <1>3 DEF UpdateIfToken
  <2> QED
    BY <1>3, <2>1, StillTableIsTableStep
<1> QED
  BY <1>2, <1>3

LEMMA CancelItemKeepsIInv ==
  ASSUME IInv, NEW i \in Ids, CancelItem(i)
  PROVE  IInv'
<1>1. row' = [row EXCEPT ![i] = Closed(row[i], "cancelled", "user_cancelled")]
  BY DEF CancelItem, IInv, TypeOK
<1>2. TableStep
  BY <1>1, CloseIsTableStep DEF CancelItem, Terminal, Errors
<1> QED
  BY <1>2, TableStepAlone DEF CancelItem, IInv, TypeOK

-----------------------------------------------------------------------------
(* The steps of the consumers and of time.                                 *)

LEMMA TakeIsTableStep ==
  ASSUME IInv, NEW c \in Consumers, NEW i \in Ids, TakeRow(c, i)
  PROVE  /\ TableStep
         /\ row'[i].owner = c /\ row'[i].token = minted + 1
         /\ minted' = minted + 1 /\ minted \in Nat
<1> DEFINE q == [row[i] EXCEPT !.status = "claimed", !.token = minted + 1,
                               !.owner = c, !.attempt = @ + 1]
<1>1. row \in [Ids -> Row] /\ minted \in Nat
  BY DEF IInv, TypeOK
<1>2. row' = [row EXCEPT ![i] = q]
  BY <1>1 DEF TakeRow
<1>3. q.token = minted + 1 /\ q.owner = c
  BY <1>1 DEF Row
<1>4. RowMove(row[i], q, minted + 1)
  BY DEF RowMove, Takes, TakeRow
<1>5. row'[i] = q /\ minted' = minted + 1
  BY <1>1, <1>2 DEF TakeRow
<1> HIDE DEF q
<1>6. TableStep
  BY <1>2, <1>4, <1>5, OneMoveIsTableStep
<1> QED
  BY <1>1, <1>3, <1>5, <1>6

LEMMA ClaimKeepsIInv ==
  ASSUME IInv, NEW c \in Consumers, NEW i \in Ids, Claim(c, i)
  PROVE  IInv'
<1>1. /\ TableStep
      /\ row'[i].owner = c /\ row'[i].token = minted + 1
      /\ minted' = minted + 1 /\ minted \in Nat
  BY TakeIsTableStep DEF Claim
<1>2. work \in [Consumers -> Work]
  BY DEF IInv, TypeOK
<1>3. /\ work'[c] = [pc |-> IF Drains[c] = "worker_stage" THEN "starting" ELSE "working",
                     item |-> i, token |-> minted + 1]
      /\ \A d \in Consumers \ {c} : work'[d] = work[d]
      /\ work' \in [Consumers -> Work]
  BY <1>1, <1>2 DEF Claim, Work, WorkStates
<1>4. \A d \in Consumers : WorkOKFor(d)' /\ work'[d].token <= minted'
  <2>1. WorkOKFor(c)' /\ work'[c].token <= minted'
    BY <1>1, <1>3 DEF WorkOKFor, NoToken
  <2> QED
    BY <1>1, <1>3, <2>1, WorkKept
<1>5. DogOK'
  BY <1>1, DogKept DEF DogOK, DogOKFor, Claim
<1>6. AdmittedOK'
  BY <1>1, AdmittedKept DEF AdmittedOK, Claim
<1>7. TypeOK'
  BY <1>1, <1>3 DEF IInv, TypeOK, TableStep, Claim
<1> QED
  BY <1>1, <1>4, <1>5, <1>6, <1>7 DEF IInv, TableStep, TokensMinted, WorkOK, WorkOKFor

LEMMA FaultType ==
  ASSUME TypeOK, Fault
  PROVE  faults' \in 0..MaxFaults
BY LimitsAssumption DEF TypeOK, Fault

LEMMA ClaimLostKeepsIInv ==
  ASSUME IInv, NEW c \in Consumers, NEW i \in Ids, ClaimLost(c, i)
  PROVE  IInv'
<1>1. TableStep
  BY TakeIsTableStep DEF ClaimLost
<1>2. faults' \in 0..MaxFaults
  BY FaultType DEF ClaimLost, IInv
<1> QED
  BY <1>1, <1>2, TableStepAlone DEF ClaimLost, IInv, TypeOK

\* A consumer whose token still matches works on a held row.
LEMMA HolderIsHeld ==
  ASSUME IInv, NEW c \in Consumers, HoldsClaim(c)
  PROVE  /\ work[c].item \in Ids
         /\ row[work[c].item].status \in Held
         /\ row[work[c].item].owner = c
BY DEF IInv, RowsOK, RowOK, WorkOK, HoldsClaim

LEMMA HeartbeatKeepsIInv ==
  ASSUME IInv, NEW c \in Consumers, Heartbeat(c)
  PROVE  IInv'
<1> DEFINE i == work[c].item
           q == [row[i] EXCEPT !.status = "running", !.beat = TRUE, !.stale = FALSE]
<1>1. i \in Ids /\ row[i].status \in Held
  BY HolderIsHeld DEF Heartbeat
<1>2. row \in [Ids -> Row] /\ work \in [Consumers -> Work]
  BY DEF IInv, TypeOK
<1>3. row' = [row EXCEPT ![i] = q]
  BY <1>1, <1>2 DEF Heartbeat
<1>4. q.token = row[i].token
  BY <1>1, <1>2 DEF Row
<1>5. RowMove(row[i], q, minted + 1)
  BY <1>1 DEF RowMove, Beats
<1> HIDE DEF q
<1>6. TableStep
  BY <1>1, <1>3, <1>4, <1>5, OneMoveIsTableStep DEF Heartbeat
<1>7. /\ work' \in [Consumers -> Work]
      /\ \A d \in Consumers : /\ work'[d].item = work[d].item
                              /\ work'[d].token = work[d].token
                              /\ work'[d].pc # "idle" => work[d].pc # "idle"
  BY <1>2 DEF Heartbeat, Work, WorkStates
<1>8. \A d \in Consumers : WorkOKFor(d)' /\ work'[d].token <= minted'
  BY <1>6, <1>7, WorkKept
<1>9. DogOK'
  BY <1>6, DogKept DEF DogOK, DogOKFor, Heartbeat
<1>10. AdmittedOK'
  BY <1>6, AdmittedKept DEF AdmittedOK, Heartbeat
<1>11. TypeOK'
  BY <1>6, <1>7 DEF IInv, TypeOK, TableStep, Heartbeat
<1> QED
  BY <1>6, <1>8, <1>9, <1>10, <1>11 DEF IInv, TableStep, TokensMinted, WorkOK, WorkOKFor

LEMMA HeartbeatRotatedKeepsIInv ==
  ASSUME IInv, NEW c \in Consumers, HeartbeatRotated(c)
  PROVE  IInv'
<1>1. TableStep
  BY StillTableIsTableStep DEF HeartbeatRotated
<1>2. work \in [Consumers -> Work] /\ faults \in 0..MaxFaults
  BY DEF IInv, TypeOK
<1>3. CASE work' = [work EXCEPT ![c] = Idle]
  BY <1>1, <1>2, <1>3, TableStepThenIdle DEF HeartbeatRotated
<1>4. CASE work[c].pc = "working" /\ work' = [work EXCEPT ![c] = [@ EXCEPT !.pc = "rotated"]]
  <2>1. /\ work' \in [Consumers -> Work]
        /\ \A d \in Consumers : /\ work'[d].item = work[d].item
                                /\ work'[d].token = work[d].token
                                /\ work'[d].pc # "idle" => work[d].pc # "idle"
    BY <1>2, <1>4 DEF Work, WorkStates
  <2>2. \A d \in Consumers : WorkOKFor(d)' /\ work'[d].token <= minted'
    BY <1>1, <2>1, WorkKept
  <2>3. DogOK'
    BY <1>1, DogKept DEF DogOK, DogOKFor, HeartbeatRotated
  <2>4. AdmittedOK'
    BY <1>1, AdmittedKept DEF AdmittedOK, HeartbeatRotated
  <2>5. TypeOK'
    BY <1>1, <2>1 DEF IInv, TypeOK, TableStep, HeartbeatRotated
  <2> QED
    BY <1>1, <2>2, <2>3, <2>4, <2>5 DEF IInv, TableStep, TokensMinted, WorkOK, WorkOKFor
<1> QED
  BY <1>3, <1>4 DEF HeartbeatRotated

LEMMA CompleteKeepsIInv ==
  ASSUME IInv, NEW c \in Consumers, Complete(c)
  PROVE  IInv'
<1>1. work[c].item \in Ids /\ work[c].token # NoToken
  BY DEF IInv, WorkOK, Complete
<1>2. /\ row[work[c].item].error \in Errors
      /\ MaxAttempts >= 2 => row[work[c].item].error # "max_attempts_exceeded"
  BY <1>1 DEF IInv, TypeOK, Row, RowsOK, RowOK
<1>3. TableStep
  BY <1>1, <1>2, ScopedCloseIsTableStep DEF Complete, Terminal
<1> QED
  BY <1>3, TableStepThenIdle DEF Complete, IInv, TypeOK

LEMMA FailKeepsIInv ==
  ASSUME IInv, NEW c \in Consumers, NEW error \in {"handler_error", "consumer_shutdown"},
         Fail(c, error)
  PROVE  IInv'
<1>1. work[c].item \in Ids /\ work[c].token # NoToken
  BY DEF IInv, WorkOK, Fail
<1>2. error \in Errors /\ error # "none" /\ error # "max_attempts_exceeded"
  BY DEF Errors
<1>3. TableStep
  BY <1>1, <1>2, ScopedCloseIsTableStep DEF Fail, Terminal
<1> QED
  BY <1>3, TableStepThenIdle DEF Fail, IInv, TypeOK

LEMMA DropRotatedKeepsIInv ==
  ASSUME IInv, NEW c \in Consumers, DropRotated(c)
  PROVE  IInv'
BY StillTableIsTableStep, TableStepThenIdle DEF DropRotated, IInv, TypeOK

LEMMA AbandonKeepsIInv ==
  ASSUME IInv, NEW c \in Consumers, Abandon(c)
  PROVE  IInv'
BY StillTableIsTableStep, TableStepThenIdle, FaultType DEF Abandon, IInv

LEMMA AgeIsTableStep ==
  ASSUME IInv, NEW i \in Ids, NEW q, Ages(row[i], q),
         row' = [row EXCEPT ![i] = q], minted' = minted
  PROVE  TableStep
<1>1. q.token = row[i].token
  BY DEF IInv, TypeOK, Row, Ages
<1>2. RowMove(row[i], q, minted + 1)
  BY DEF RowMove
<1> QED
  BY <1>1, <1>2, OneMoveIsTableStep

LEMMA HeartbeatAgesKeepsIInv ==
  ASSUME IInv, NEW i \in Ids, HeartbeatAges(i)
  PROVE  IInv'
<1>1. faults' \in 0..MaxFaults
  BY FaultType DEF HeartbeatAges, IInv, TypeOK
<1>2. /\ Ages(row[i], [row[i] EXCEPT !.stale = TRUE])
      /\ row' = [row EXCEPT ![i] = [row[i] EXCEPT !.stale = TRUE]]
  BY DEF HeartbeatAges, Ages, IInv, TypeOK
<1>3. TableStep
  BY <1>2, AgeIsTableStep DEF HeartbeatAges
<1> QED
  BY <1>1, <1>3, TableStepAlone DEF HeartbeatAges, IInv, TypeOK

LEMMA BackoffElapsesKeepsIInv ==
  ASSUME IInv, NEW i \in Ids, BackoffElapses(i)
  PROVE  IInv'
<1>1. /\ Ages(row[i], [row[i] EXCEPT !.due = TRUE])
      /\ row' = [row EXCEPT ![i] = [row[i] EXCEPT !.due = TRUE]]
  BY DEF BackoffElapses, Ages, IInv, TypeOK
<1>2. TableStep
  BY <1>1, AgeIsTableStep DEF BackoffElapses
<1> QED
  BY <1>2, TableStepAlone DEF BackoffElapses, IInv, TypeOK

-----------------------------------------------------------------------------
(* The steps of the watchdogs.                                             *)

\* A step of the table by watchdog w, whose own state is then as it should be.
LEMMA DogStepKeepsIInv ==
  ASSUME IInv, TableStep, NEW w \in Watchdogs, NEW d \in Dog,
         dog' = [dog EXCEPT ![w] = d],
         UNCHANGED <<work, admitted, cancelled>>, faults' \in 0..MaxFaults,
         DogOKFor(w)'
  PROVE  IInv'
<1>1. dog \in [Watchdogs -> Dog]
  BY DEF IInv, TypeOK
<1>2. DogOK'
  <2>1. \A v \in Watchdogs \ {w} : dog'[v] = dog[v]
    BY <1>1
  <2>2. \A v \in Watchdogs : DogOKFor(v)'
    BY <2>1, DogKept
  <2> QED
    BY <2>2 DEF DogOK, DogOKFor
<1>3. WorkOK' /\ \A c \in Consumers : work'[c].token <= minted'
  BY WorkKept DEF WorkOK, WorkOKFor
<1>4. AdmittedOK'
  BY AdmittedKept DEF AdmittedOK
<1>5. TypeOK'
  BY <1>1 DEF IInv, TypeOK, TableStep
<1> QED
  BY <1>2, <1>3, <1>4, <1>5 DEF IInv, TableStep, TokensMinted

\* The watchdog goes on with snapshots it already had.
LEMMA ContinueKeepsIInv ==
  ASSUME IInv, TableStep, NEW w \in Watchdogs, NEW todo \in SUBSET dog[w].todo,
         dog' = [dog EXCEPT ![w] = Continue(todo)],
         UNCHANGED <<work, admitted, cancelled>>, faults' \in 0..MaxFaults
  PROVE  IInv'
<1>1. dog \in [Watchdogs -> Dog] /\ dog[w].todo \subseteq Snapshots
  BY DEF IInv, TypeOK, Dog
<1>2. Continue(todo) \in Dog
  BY <1>1 DEF Continue, Dog, DogStates
<1>3. dog'[w].todo = todo /\ dog'[w].pc # "requeueing"
  BY <1>1 DEF Continue
<1>4. \A s \in todo : SnapshotOK(s)'
  BY <1>1, SnapshotKept DEF IInv, DogOK
<1>5. DogOKFor(w)'
  BY <1>3, <1>4 DEF DogOKFor
<1> QED
  BY <1>2, <1>5, DogStepKeepsIInv

LEMMA SelectKeepsIInv ==
  ASSUME IInv, NEW w \in Watchdogs, Select(w)
  PROVE  IInv'
<1>1. PICK batch \in SUBSET Stuck :
        dog' = [dog EXCEPT ![w] = Continue(
          {[item |-> i, token |-> row[i].token, attempt |-> row[i].attempt] : i \in batch})]
  BY DEF Select
<1> DEFINE todo ==
      {[item |-> i, token |-> row[i].token, attempt |-> row[i].attempt] : i \in batch}
<1>2. row \in [Ids -> Row] /\ dog \in [Watchdogs -> Dog]
  BY DEF IInv, TypeOK
<1>3. \A i \in batch : i \in Ids /\ row[i].status \in Held
  BY DEF Stuck
<1>4. todo \subseteq Snapshots
  BY <1>2, <1>3 DEF Snapshots, Row
<1>5. \A s \in todo : SnapshotOK(s)
  BY <1>3 DEF SnapshotOK, IInv, RowsOK, RowOK
<1>6. TableStep
  BY StillTableIsTableStep DEF Select
<1> HIDE DEF todo
<1>7. Continue(todo) \in Dog
  BY <1>4 DEF Continue, Dog, DogStates
<1>8. dog' = [dog EXCEPT ![w] = Continue(todo)]
  BY <1>1 DEF todo
<1>9. dog'[w].todo = todo /\ dog'[w].pc # "requeueing"
  BY <1>2, <1>8 DEF Continue
<1>10. \A s \in todo : SnapshotOK(s)'
  BY <1>4, <1>5, <1>6, SnapshotKept
<1>11. DogOKFor(w)'
  BY <1>9, <1>10 DEF DogOKFor
<1> QED
  BY <1>6, <1>7, <1>8, <1>11, DogStepKeepsIInv DEF Select, IInv, TypeOK

LEMMA TimeOutKeepsIInv ==
  ASSUME IInv, NEW w \in Watchdogs, TimeOut(w)
  PROVE  IInv'
<1>1. PICK s \in dog[w].todo :
        /\ UpdateIfToken(s.item, s.token,
             Closed(row[s.item], "timed_out", "heartbeat_stale"))
        /\ dog' = [dog EXCEPT ![w] =
             [pc |-> "requeueing", todo |-> @.todo \ {s}, current |-> s]]
  BY DEF TimeOut
<1> DEFINE d == [pc |-> "requeueing", todo |-> dog[w].todo \ {s}, current |-> s]
<1>2. /\ dog \in [Watchdogs -> Dog] /\ dog[w].todo \subseteq Snapshots
      /\ s \in Snapshots /\ SnapshotOK(s)
  BY DEF IInv, TypeOK, Dog, DogOK
<1>3. s.item \in Ids /\ s.token # NoToken
  BY <1>2 DEF Snapshots, SnapshotOK
<1>4. TableStep /\ (row[s.item].token = s.token => row'[s.item].status = "timed_out")
  BY <1>1, <1>3, ScopedCloseIsTableStep DEF TimeOut, Terminal, Errors
<1>5. row'[s.item].status \in Terminal
  BY <1>2, <1>3, <1>4 DEF SnapshotOK, TableStep, Terminal
<1>6. dog' = [dog EXCEPT ![w] = d] /\ d \in Dog
  BY <1>1, <1>2 DEF Dog, DogStates
<1>7. dog'[w] = d
  BY <1>2, <1>6
<1>8. \A t \in dog[w].todo \ {s} : SnapshotOK(t)'
  BY <1>2, <1>4, SnapshotKept DEF IInv, DogOK
<1>9. DogOKFor(w)'
  BY <1>2, <1>5, <1>7, <1>8 DEF DogOKFor, SnapshotOK
<1> HIDE DEF d
<1> QED
  BY <1>4, <1>6, <1>9, DogStepKeepsIInv DEF TimeOut, IInv, TypeOK

LEMMA DeadLetterKeepsIInv ==
  ASSUME IInv, NEW w \in Watchdogs, DeadLetter(w)
  PROVE  IInv'
<1>1. PICK s \in dog[w].todo :
        /\ s.attempt >= MaxAttempts
        /\ UpdateIfToken(s.item, s.token,
             Closed(row[s.item], "failed", "max_attempts_exceeded"))
        /\ dog' = [dog EXCEPT ![w] = Continue(@.todo \ {s})]
  BY DEF DeadLetter
<1>2. /\ dog \in [Watchdogs -> Dog] /\ s \in Snapshots /\ SnapshotOK(s)
  BY DEF IInv, TypeOK, Dog, DogOK
<1>3. s.item \in Ids /\ s.token # NoToken /\ s.attempt = 1
  BY <1>2 DEF Snapshots, SnapshotOK
<1>4. ~(MaxAttempts >= 2)
  BY <1>1, <1>3, LimitsAssumption
<1>5. TableStep
  BY <1>1, <1>3, <1>4, ScopedCloseIsTableStep DEF DeadLetter, Terminal, Errors
<1>6. dog' = [dog EXCEPT ![w] = Continue(dog[w].todo \ {s})]
  BY <1>1, <1>2
<1> QED
  BY <1>5, <1>6, ContinueKeepsIInv DEF DeadLetter, IInv, TypeOK

LEMMA RequeueKeepsIInv ==
  ASSUME IInv, NEW w \in Watchdogs, Requeue(w)
  PROVE  IInv'
<1> DEFINE s == dog[w].current
           key == <<"retry", s.item, s.attempt + 1>>
           root == row[s.item].root
<1>1. /\ dog \in [Watchdogs -> Dog]
      /\ s \in Snapshots /\ s.attempt = 1 /\ row[s.item].status \in Terminal
  BY DEF IInv, TypeOK, DogOK, Requeue
<1>2. s.item \in Ids /\ key = <<"retry", s.item, 2>>
  BY <1>1 DEF Snapshots
<1>3. Insert(key, root, s.item, FALSE)
  BY DEF Requeue
<1>4. ASSUME row' = row
      PROVE  TableStep
  <2>1. UNCHANGED <<row, minted>>
    BY <1>4 DEF Requeue
  <2> QED
    BY <2>1, StillTableIsTableStep
<1>5. ASSUME ~HasKey(key),
             \E i \in Fresh : row' = [row EXCEPT ![i] = QueuedRow(key, root, s.item, FALSE)]
      PROVE  TableStep
  <2>1. PICK i \in Fresh : row' = [row EXCEPT ![i] = QueuedRow(key, root, s.item, FALSE)]
    BY <1>5
  <2>2. i \in Ids /\ row[i].status = "absent"
    BY DEF Fresh
  <2>3. key \in Keys
    BY <1>2 DEF Keys
  <2>4. root \in Roots
    BY <1>1, <1>2 DEF IInv, RowsOK, RowOK, Terminal
  <2>5. minted' = minted
    BY DEF Requeue
  <2> HIDE DEF key, root, s
  <2>6. RowAdded
    BY <1>1, <1>2, <1>5, <2>1, <2>2, <2>3, <2>4, <2>5, AddingIsRowAdded
  <2> QED
    BY <2>6, AdditionsAreTableSteps
<1>6. TableStep
  BY <1>3, <1>4, <1>5 DEF Insert
<1>7. dog' = [dog EXCEPT ![w] = Continue(dog[w].todo)]
  BY <1>1 DEF Requeue
<1> QED
  BY <1>6, <1>7, ContinueKeepsIInv DEF Requeue, IInv, TypeOK

LEMMA SkipBadRowKeepsIInv ==
  ASSUME IInv, NEW w \in Watchdogs, SkipBadRow(w)
  PROVE  IInv'
<1>1. dog \in [Watchdogs -> Dog]
  BY DEF IInv, TypeOK
<1>2. PICK todo \in SUBSET dog[w].todo : dog' = [dog EXCEPT ![w] = Continue(todo)]
  BY <1>1 DEF SkipBadRow
<1>3. TableStep
  BY StillTableIsTableStep DEF SkipBadRow
<1>4. faults' \in 0..MaxFaults
  BY FaultType DEF SkipBadRow, IInv
<1> QED
  BY <1>2, <1>3, <1>4, ContinueKeepsIInv DEF SkipBadRow

LEMMA WatchdogCrashKeepsIInv ==
  ASSUME IInv, NEW w \in Watchdogs, WatchdogCrash(w)
  PROVE  IInv'
<1>1. TableStep
  BY StillTableIsTableStep DEF WatchdogCrash
<1>2. faults' \in 0..MaxFaults
  BY FaultType DEF WatchdogCrash, IInv
<1> QED
  BY <1>1, <1>2, ContinueKeepsIInv DEF WatchdogCrash

-----------------------------------------------------------------------------
(* The inductive invariant holds.                                          *)

LEMMA InitIInv == Init => IInv
<1> SUFFICES ASSUME Init
             PROVE  IInv
  OBVIOUS
<1>1. AbsentRow \in Row
  BY DEF AbsentRow, Row, Statuses, Errors, NoToken
<1>2. Idle \in Work /\ Continue({}) \in Dog
  BY DEF Idle, Work, WorkStates, NoToken, Continue, Dog, DogStates
<1>3. TypeOK
  BY <1>1, <1>2, LimitsAssumption DEF Init, TypeOK
<1>4. RowOK(AbsentRow)
  BY DEF RowOK, AbsentRow, Held, NoKey
<1>5. RowsOK /\ KeysUnique
  BY <1>4 DEF Init, RowsOK, KeysUnique, AbsentRow
<1>6. ParentClosed
  BY DEF Init, ParentClosed, AbsentRow
<1>7. TokensMinted
  BY DEF Init, TokensMinted, AbsentRow, Idle, NoToken
<1>8. WorkOK /\ DogOK /\ AdmittedOK
  BY DEF Init, WorkOK, DogOK, AdmittedOK, Idle, Continue
<1> QED
  BY <1>3, <1>5, <1>6, <1>7, <1>8 DEF IInv

LEMMA StutterKeepsIInv ==
  ASSUME IInv, UNCHANGED vars
  PROVE  IInv'
<1>1. TableStep
  BY StillTableIsTableStep DEF vars
<1> QED
  BY <1>1, TableStepAlone DEF vars, IInv, TypeOK

LEMMA NextKeepsIInv == IInv /\ [Next]_vars => IInv'
<1> SUFFICES ASSUME IInv, [Next]_vars
             PROVE  IInv'
  OBVIOUS
<1>1. CASE RouteStep
  BY <1>1, AdmitKeepsIInv, AdmitRedispatchKeepsIInv, EnqueueKeepsIInv,
     CancelPipelineKeepsIInv, CancelItemKeepsIInv DEF RouteStep
<1>2. ASSUME NEW c \in Consumers, ConsumerStep(c)
      PROVE  IInv'
  <2>1. CASE \E i \in Ids : Claim(c, i) \/ ClaimLost(c, i)
    BY <2>1, ClaimKeepsIInv, ClaimLostKeepsIInv
  <2>2. CASE Heartbeat(c) \/ HeartbeatRotated(c) \/ Complete(c)
    BY <2>2, HeartbeatKeepsIInv, HeartbeatRotatedKeepsIInv, CompleteKeepsIInv
  <2>3. CASE Fail(c, "handler_error") \/ Shutdown(c)
    BY <2>3, FailKeepsIInv DEF Shutdown
  <2>4. CASE DropRotated(c) \/ Abandon(c)
    BY <2>4, DropRotatedKeepsIInv, AbandonKeepsIInv
  <2> QED
    BY <1>2, <2>1, <2>2, <2>3, <2>4 DEF ConsumerStep
<1>3. CASE TimeStep
  BY <1>3, HeartbeatAgesKeepsIInv, BackoffElapsesKeepsIInv DEF TimeStep
<1>4. ASSUME NEW w \in Watchdogs, WatchdogStep(w)
      PROVE  IInv'
  BY <1>4, SelectKeepsIInv, TimeOutKeepsIInv, DeadLetterKeepsIInv, RequeueKeepsIInv,
     SkipBadRowKeepsIInv, WatchdogCrashKeepsIInv DEF WatchdogStep, Sweep
<1>5. CASE UNCHANGED vars
  BY <1>5, StutterKeepsIInv
<1> QED
  BY <1>1, <1>2, <1>3, <1>4, <1>5 DEF Next

THEOREM InductiveInvariant == Spec => []IInv
<1>1. Init => IInv
  BY InitIInv
<1>2. IInv /\ [Next]_vars => IInv'
  BY NextKeepsIInv
<1> QED
  BY <1>1, <1>2, PTL DEF Spec

-----------------------------------------------------------------------------
(* The invariants the runs check.                                          *)

\* Every reachable state of the queue is of its declared type.
THEOREM TypeCorrect == Spec => []TypeOK
<1>1. IInv => TypeOK
  BY DEF IInv
<1> QED
  BY <1>1, InductiveInvariant, PTL

\* No writer of the queue ever asks for a row that migration 0050's CHECK
\* constraints would reject.
THEOREM DbChecksAlwaysHold == Spec => []DbChecksHold
<1>1. IInv => DbChecksHold
  BY DEF IInv, RowsOK, RowOK, DbChecksHold
<1> QED
  BY <1>1, InductiveInvariant, PTL

\* No two consumers can both write one row under a claim token.
THEOREM SingleWriterHolds == Spec => []SingleWriter
<1>1. IInv => SingleWriter
  BY HolderIsHeld DEF SingleWriter
<1> QED
  BY <1>1, InductiveInvariant, PTL

\* A retry or redispatch never exists beside an open parent.
THEOREM ParentClosedHolds == Spec => []ParentClosed
<1>1. IInv => ParentClosed
  BY DEF IInv
<1> QED
  BY <1>1, InductiveInvariant, PTL

\* However many watchdogs sweep a row, it has at most one retry.
THEOREM OneRetryPerRowHolds == Spec => []OneRetryPerRow
<1>1. IInv => OneRetryPerRow
  <2> SUFFICES ASSUME IInv, NEW i \in Ids, NEW j \in Ids, i # j,
                      row[i].key[1] = "retry", row[j].key[1] = "retry"
               PROVE  row[i].parent # row[j].parent
    BY DEF OneRetryPerRow
  <2>1. row[i].key = <<"retry", row[i].parent, 2>> /\ row[j].key = <<"retry", row[j].parent, 2>>
    BY DEF IInv, RowsOK, RowOK
  <2>2. row[i].status # "absent" /\ row[j].status # "absent"
    BY DEF IInv, RowsOK, RowOK, AbsentRow, NoKey
  <2> QED
    BY <2>1, <2>2 DEF IInv, KeysUnique
<1> QED
  BY <1>1, InductiveInvariant, PTL

\* Allowed two attempts or more, the watchdog never dead-letters a row.
THEOREM DeadLetterUnreachable == Spec => []NeverDeadLettered
<1>1. IInv => NeverDeadLettered
  BY DEF IInv, RowsOK, RowOK, NeverDeadLettered
<1> QED
  BY <1>1, InductiveInvariant, PTL

-----------------------------------------------------------------------------
(* The queue implements its ledger.                                        *)

ledgerPhase  == [i \in Ids |-> Phase(row[i].status)]
ledgerHolder == [i \in Ids |-> row[i].owner]

LEMMA SamePhase ==
  ASSUME \A i \in Ids : /\ Phase(row'[i].status) = Phase(row[i].status)
                        /\ row'[i].owner = row[i].owner
  PROVE  UNCHANGED Ledger!ledger
BY DEF Ledger!ledger

LEMMA SameRows ==
  ASSUME row' = row
  PROVE  UNCHANGED Ledger!ledger
BY DEF Ledger!ledger

LEMMA AddStep ==
  ASSUME row \in [Ids -> Row], NEW i \in Fresh, NEW key, NEW root, NEW parent, NEW due,
         RowsOK, row' = [row EXCEPT ![i] = QueuedRow(key, root, parent, due)]
  PROVE  Ledger!Next
<1>1. i \in Ids /\ row[i].status = "absent" /\ row[i].owner = NoOne
  BY DEF Fresh, RowsOK, RowOK, AbsentRow
<1>2. row'[i].status = "queued" /\ row'[i].owner = NoOne
  BY <1>1 DEF QueuedRow
<1>3. \A j \in Ids \ {i} : row'[j] = row[j]
  OBVIOUS
<1>4. ledgerPhase' = [ledgerPhase EXCEPT ![i] = "waiting"] /\ ledgerPhase[i] = "none"
  BY <1>1, <1>2, <1>3 DEF ledgerPhase, Phase, Held
<1>5. UNCHANGED ledgerHolder
  BY <1>1, <1>2, <1>3 DEF ledgerHolder
<1>6. Ledger!Add(i)
  BY <1>4, <1>5 DEF Ledger!Add, ledgerPhase, ledgerHolder
<1> QED
  BY <1>1, <1>6 DEF Ledger!Next

LEMMA TakeStep ==
  ASSUME row \in [Ids -> Row], NEW c \in Consumers, NEW i \in Ids, TakeRow(c, i)
  PROVE  Ledger!Next
<1>1. /\ row[i].status = "queued"
      /\ row'[i].status = "claimed" /\ row'[i].owner = c
      /\ \A j \in Ids \ {i} : row'[j] = row[j]
  BY DEF TakeRow, Row
<1>2. ledgerPhase' = [ledgerPhase EXCEPT ![i] = "taken"] /\ ledgerPhase[i] = "waiting"
  BY <1>1 DEF ledgerPhase, Phase, Held
<1>3. ledgerHolder' = [ledgerHolder EXCEPT ![i] = c]
  BY <1>1 DEF ledgerHolder
<1>4. Ledger!Take(i, c)
  BY <1>2, <1>3 DEF Ledger!Take, ledgerPhase, ledgerHolder
<1> QED
  BY <1>4 DEF Ledger!Next

\* Any rows that exist are closed, with a status other than completed.
LEMMA CloseStep ==
  ASSUME row \in [Ids -> Row], NEW rows \in SUBSET Ids,
         \A i \in rows : /\ row[i].status # "absent"
                         /\ row'[i].status \in Terminal \ {"completed"}
                         /\ row'[i].owner = NoOne,
         \A i \in Ids \ rows : row'[i] = row[i]
  PROVE  Ledger!Next
<1>1. \A i \in rows : ledgerPhase[i] # "none"
  BY DEF ledgerPhase, Phase, Held
<1>2. ledgerPhase' = [i \in Ids |-> IF i \in rows THEN "closed" ELSE ledgerPhase[i]]
  BY DEF ledgerPhase, Phase, Held, Terminal
<1>3. ledgerHolder' = [i \in Ids |-> IF i \in rows THEN NoOne ELSE ledgerHolder[i]]
  BY DEF ledgerHolder
<1>4. Ledger!Close(rows)
  BY <1>1, <1>2, <1>3 DEF Ledger!Close, ledgerPhase, ledgerHolder
<1> QED
  BY <1>4 DEF Ledger!Next

LEMMA CompleteStep ==
  ASSUME row \in [Ids -> Row], NEW i \in Ids, row[i].status \in Held,
         NEW error, row' = [row EXCEPT ![i] = Closed(row[i], "completed", error)]
  PROVE  Ledger!Next
<1>1. /\ row'[i].status = "completed" /\ row'[i].owner = NoOne
      /\ \A j \in Ids \ {i} : row'[j] = row[j]
  BY DEF Closed, Row
<1>2. ledgerPhase' = [ledgerPhase EXCEPT ![i] = "completed"] /\ ledgerPhase[i] = "taken"
  BY <1>1 DEF ledgerPhase, Phase, Held
<1>3. ledgerHolder' = [ledgerHolder EXCEPT ![i] = NoOne]
  BY <1>1 DEF ledgerHolder
<1>4. Ledger!Complete(i)
  BY <1>2, <1>3 DEF Ledger!Complete, ledgerPhase, ledgerHolder
<1> QED
  BY <1>4 DEF Ledger!Next

\* A closing UPDATE, other than the completing one, closes its row or nothing.
LEMMA ScopedCloseStep ==
  ASSUME IInv, NEW i \in Ids, NEW token, token # NoToken,
         NEW status \in Terminal \ {"completed"}, NEW error,
         UpdateIfToken(i, token, Closed(row[i], status, error))
  PROVE  [Ledger!Next]_Ledger!ledger
<1>1. row \in [Ids -> Row]
  BY DEF IInv, TypeOK
<1>2. CASE row[i].token = token
  <2>1. row[i].status # "absent"
    BY <1>2 DEF IInv, RowsOK, RowOK, AbsentRow
  <2>2. /\ row'[i] = Closed(row[i], status, error)
        /\ \A j \in Ids \ {i} : row'[j] = row[j]
    BY <1>1, <1>2 DEF UpdateIfToken
  <2>3. row'[i].status = status /\ row'[i].owner = NoOne
    BY <1>1, <2>2 DEF Closed, Row
  <2>4. \A j \in {i} : /\ row[j].status # "absent"
                       /\ row'[j].status \in Terminal \ {"completed"}
                       /\ row'[j].owner = NoOne
    BY <2>1, <2>3
  <2>5. {i} \in SUBSET Ids
    OBVIOUS
  <2> QED
    BY <1>1, <2>2, <2>4, <2>5, CloseStep
<1>3. CASE row[i].token # token
  <2>1. row' = row
    BY <1>1, <1>3 DEF UpdateIfToken
  <2> QED
    BY <2>1, SameRows
<1> QED
  BY <1>2, <1>3

LEMMA InsertStep ==
  ASSUME IInv, NEW key, NEW root, NEW parent, NEW due, Insert(key, root, parent, due)
  PROVE  [Ledger!Next]_Ledger!ledger
<1>1. row \in [Ids -> Row] /\ RowsOK
  BY DEF IInv, TypeOK
<1>2. row' = row \/ \E i \in Fresh : row' = [row EXCEPT ![i] = QueuedRow(key, root, parent, due)]
  BY DEF Insert
<1> QED
  BY <1>1, <1>2, SameRows, AddStep

\* Every step of the queue is a step of the ledger, or none.
LEMMA NextStep ==
  ASSUME IInv, [Next]_vars
  PROVE  [Ledger!Next]_Ledger!ledger
<1> USE DEF IInv
<1>1. row \in [Ids -> Row] /\ work \in [Consumers -> Work] /\ dog \in [Watchdogs -> Dog]
  BY DEF TypeOK
<1>2. ASSUME RouteStep
      PROVE  [Ledger!Next]_Ledger!ledger
  <2>1. CASE row' = row
    BY <2>1, SameRows
  <2>2. ASSUME NEW request \in admitted, Enqueue(request)
        PROVE  [Ledger!Next]_Ledger!ledger
    BY <2>2, InsertStep DEF Enqueue
  <2>3. ASSUME NEW p \in Pipelines, CancelPipeline(p)
        PROVE  [Ledger!Next]_Ledger!ledger
    <3> DEFINE rows == {i \in Ids : row[i].status \in Open /\ PipelineOf[row[i].root] = p}
    <3>1. \A i \in rows : row'[i] = Closed(row[i], "cancelled", "pipeline_cancelled")
      BY <2>3 DEF CancelPipeline
    <3>2. ASSUME NEW i \in rows
          PROVE  /\ row[i].status # "absent"
                 /\ row'[i].status \in Terminal \ {"completed"}
                 /\ row'[i].owner = NoOne
      <4>1. row[i] \in Row /\ row[i].status \in Open
        BY <1>1
      <4>2. row'[i].status = "cancelled" /\ row'[i].owner = NoOne
        BY <3>1, <4>1 DEF Closed, Row
      <4> QED
        BY <4>1, <4>2 DEF Terminal, Open, Held
    <3>3. \A i \in Ids \ rows : row'[i] = row[i]
      BY <2>3 DEF CancelPipeline
    <3> QED
      BY <1>1, <3>2, <3>3, CloseStep
  <2>4. ASSUME NEW i \in Ids, CancelItem(i)
        PROVE  [Ledger!Next]_Ledger!ledger
    <3>1. /\ row'[i] = Closed(row[i], "cancelled", "user_cancelled")
          /\ \A j \in Ids \ {i} : row'[j] = row[j]
      BY <1>1, <2>4 DEF CancelItem
    <3>2. \A j \in {i} : /\ row[j].status # "absent"
                         /\ row'[j].status \in Terminal \ {"completed"}
                         /\ row'[j].owner = NoOne
      BY <1>1, <2>4, <3>1 DEF Closed, Row, Terminal, CancelItem
    <3>3. {i} \in SUBSET Ids
      OBVIOUS
    <3> QED
      BY <1>1, <3>1, <3>2, <3>3, CloseStep
  <2>5. \/ row' = row
        \/ \E request \in admitted : Enqueue(request)
        \/ \E p \in Pipelines : CancelPipeline(p)
        \/ \E i \in Ids : CancelItem(i)
    BY <1>2 DEF RouteStep, Admit, AdmitRedispatch
  <2> QED
    BY <2>1, <2>2, <2>3, <2>4, <2>5
<1>3. ASSUME NEW c \in Consumers, ConsumerStep(c)
      PROVE  [Ledger!Next]_Ledger!ledger
  <2>1. CASE \E i \in Ids : Claim(c, i) \/ ClaimLost(c, i)
    BY <1>1, <2>1, TakeStep DEF Claim, ClaimLost
  <2>2. CASE Heartbeat(c)
    <3> DEFINE i == work[c].item
    <3>1. i \in Ids /\ row[i].status \in Held
      BY <2>2, HolderIsHeld DEF Heartbeat
    <3>2. /\ row'[i].status = "running" /\ row'[i].owner = row[i].owner
          /\ \A j \in Ids \ {i} : row'[j] = row[j]
      BY <1>1, <2>2, <3>1 DEF Heartbeat, Row
    <3>3. \A j \in Ids : /\ Phase(row'[j].status) = Phase(row[j].status)
                         /\ row'[j].owner = row[j].owner
      BY <3>1, <3>2 DEF Phase, Held
    <3> QED
      BY <3>3, SamePhase
  <2>3. CASE Complete(c)
    <3>1. work[c].item \in Ids /\ work[c].token # NoToken
      BY <2>3 DEF WorkOK, Complete
    <3>2. CASE row[work[c].item].token = work[c].token
      <4>1. row[work[c].item].status \in Held
        BY <3>1, <3>2 DEF RowsOK, RowOK
      <4>2. row' = [row EXCEPT ![work[c].item] =
                      Closed(row[work[c].item], "completed", row[work[c].item].error)]
        BY <1>1, <2>3, <3>1, <3>2 DEF Complete, UpdateIfToken
      <4> QED
        BY <1>1, <3>1, <4>1, <4>2, CompleteStep
    <3>3. CASE row[work[c].item].token # work[c].token
      <4>1. row' = row
        BY <1>1, <2>3, <3>1, <3>3 DEF Complete, UpdateIfToken
      <4> QED
        BY <4>1, SameRows
    <3> QED
      BY <3>2, <3>3
  <2>4. ASSUME NEW error, Fail(c, error)
        PROVE  [Ledger!Next]_Ledger!ledger
    <3>1. work[c].item \in Ids /\ work[c].token # NoToken
      BY <2>4 DEF WorkOK, Fail
    <3> QED
      BY <2>4, <3>1, ScopedCloseStep DEF Fail, Terminal
  <2>5. CASE HeartbeatRotated(c) \/ DropRotated(c) \/ Abandon(c)
    <3>1. row' = row
      BY <2>5 DEF HeartbeatRotated, DropRotated, Abandon
    <3> QED
      BY <3>1, SameRows
  <2> QED
    BY <1>3, <2>1, <2>2, <2>3, <2>4, <2>5 DEF ConsumerStep, Shutdown
<1>4. ASSUME NEW i \in Ids, HeartbeatAges(i) \/ BackoffElapses(i)
      PROVE  [Ledger!Next]_Ledger!ledger
  <2>1. \A j \in Ids : row'[j].status = row[j].status /\ row'[j].owner = row[j].owner
    BY <1>1, <1>4 DEF HeartbeatAges, BackoffElapses, Row
  <2> QED
    BY <2>1, SamePhase
<1>5. ASSUME NEW w \in Watchdogs, WatchdogStep(w)
      PROVE  [Ledger!Next]_Ledger!ledger
  <2>1. \A s \in dog[w].todo : s.item \in Ids /\ s.token # NoToken
    BY <1>1 DEF Dog, Snapshots, DogOK, SnapshotOK
  <2>2. CASE TimeOut(w) \/ DeadLetter(w)
    <3>1. PICK s \in dog[w].todo, status \in {"timed_out", "failed"}, error \in Errors :
            UpdateIfToken(s.item, s.token, Closed(row[s.item], status, error))
      BY <2>2 DEF TimeOut, DeadLetter, Errors
    <3> QED
      BY <2>1, <3>1, ScopedCloseStep DEF Terminal
  <2>3. CASE Requeue(w)
    BY <2>3, InsertStep DEF Requeue
  <2>4. CASE row' = row
    BY <2>4, SameRows
  <2> QED
    BY <1>5, <2>2, <2>3, <2>4 DEF WatchdogStep, Sweep, Select, SkipBadRow, WatchdogCrash
<1>6. ASSUME UNCHANGED vars
      PROVE  [Ledger!Next]_Ledger!ledger
  BY <1>6, SameRows DEF vars
<1> QED
  BY <1>2, <1>3, <1>4, <1>5, <1>6 DEF Next, TimeStep

\* The queue implements its ledger: a row is added once, taken by at most one
\* consumer, completed only while it is taken, and never reopened.
THEOREM QueueImplementsLedger == Spec => ImplementsLedger
<1>1. Init => Ledger!Init
  BY DEF Init, Ledger!Init, AbsentRow, Phase, Held
<1>2. IInv /\ [Next]_vars => [Ledger!Next]_Ledger!ledger
  BY NextStep
<1> QED
  BY <1>1, <1>2, InductiveInvariant, PTL DEF Spec, ImplementsLedger, Ledger!Spec

-----------------------------------------------------------------------------
(* Without redispatch, retries follow each other and never fan out.        *)

HasRetry(i)   == \E j \in Ids : row[j].key = <<"retry", i, 2>>
HasRootRow(k) == \E j \in Ids : row[j].key = <<"root", k, 0>>

\* The rows of one root: the root row exists, and all of them but one have
\* been retried.  A row that has been retried is closed, which leaves one.
ChainOK ==
  /\ \A request \in admitted : request.key = <<"root", request.root, 0>>
  /\ \A i \in Ids : row[i].status # "absent" => HasRootRow(row[i].root)
  /\ \A i, j \in Ids :
       (/\ i # j /\ row[i].root = row[j].root
        /\ row[i].status # "absent" /\ row[j].status # "absent")
         => HasRetry(i) \/ HasRetry(j)

\* The step adds no row and changes none's key or root.
SameChain ==
  /\ \A i \in Ids : /\ row'[i].key = row[i].key
                    /\ row'[i].root = row[i].root
                    /\ row'[i].status = "absent" <=> row[i].status = "absent"

LEMMA RetriedIsClosed ==
  ASSUME IInv, NEW i \in Ids, HasRetry(i)
  PROVE  row[i].status \in Terminal
<1>1. PICK j \in Ids : row[j].key = <<"retry", i, 2>>
  BY DEF HasRetry
<1>2. row[j].key = <<"retry", row[j].parent, 2>>
  BY <1>1 DEF IInv, RowsOK, RowOK
<1>3. row[j].parent = i /\ i # NoRow
  BY <1>1, <1>2, IdsAssumption DEF NoRow
<1> QED
  BY <1>3 DEF IInv, ParentClosed

LEMMA ClosedKeepsChain ==
  ASSUME NEW r \in Row, r.status # "absent", NEW status \in Terminal, NEW error
  PROVE  LET q == Closed(r, status, error) IN
         q.key = r.key /\ q.root = r.root /\ q.status # "absent"
BY DEF Closed, Row, Terminal

LEMMA ScopedCloseKeepsChain ==
  ASSUME IInv, NEW i \in Ids, NEW token, token # NoToken,
         NEW status \in Terminal, NEW error,
         UpdateIfToken(i, token, Closed(row[i], status, error))
  PROVE  SameChain
<1>1. row \in [Ids -> Row]
  BY DEF IInv, TypeOK
<1>2. CASE row[i].token = token
  <2>1. row[i].status # "absent" /\ row[i] \in Row
    BY <1>1, <1>2 DEF IInv, RowsOK, RowOK, AbsentRow
  <2>2. /\ row'[i] = Closed(row[i], status, error)
        /\ \A j \in Ids \ {i} : row'[j] = row[j]
    BY <1>1, <1>2 DEF UpdateIfToken
  <2> QED
    BY <2>1, <2>2, ClosedKeepsChain DEF SameChain
<1>3. CASE row[i].token # token
  BY <1>1, <1>3 DEF UpdateIfToken, SameChain
<1> QED
  BY <1>2, <1>3

\* A row is added only by a route's enqueue and by the watchdog's requeue.
LEMMA OnlyInsertsAdd ==
  ASSUME IInv, [Next]_vars,
         ~\E request \in admitted : Enqueue(request),
         ~\E w \in Watchdogs : Requeue(w)
  PROVE  SameChain
<1> USE DEF IInv
<1>1. row \in [Ids -> Row] /\ dog \in [Watchdogs -> Dog]
  BY DEF TypeOK
<1>2. CASE row' = row
  BY <1>2 DEF SameChain
<1>3. ASSUME NEW p \in Pipelines, CancelPipeline(p)
      PROVE  SameChain
  <2> SUFFICES ASSUME NEW i \in Ids
               PROVE  /\ row'[i].key = row[i].key
                      /\ row'[i].root = row[i].root
                      /\ row'[i].status = "absent" <=> row[i].status = "absent"
    BY DEF SameChain
  <2>1. row'[i] = row[i] \/ /\ row[i].status \in Open
                            /\ row'[i] = Closed(row[i], "cancelled", "pipeline_cancelled")
    BY <1>3 DEF CancelPipeline
  <2>2. row[i].status \in Open => row[i].status # "absent"
    BY DEF Open, Held
  <2>3. "cancelled" \in Terminal /\ row[i] \in Row
    BY <1>1 DEF Terminal
  <2> QED
    BY <2>1, <2>2, <2>3, ClosedKeepsChain
<1>4. ASSUME NEW i \in Ids, CancelItem(i)
      PROVE  SameChain
  <2>1. /\ row'[i] = Closed(row[i], "cancelled", "user_cancelled")
        /\ \A j \in Ids \ {i} : row'[j] = row[j]
        /\ row[i].status # "absent" /\ row[i] \in Row
    BY <1>1, <1>4 DEF CancelItem
  <2>2. "cancelled" \in Terminal
    BY DEF Terminal
  <2> QED
    BY <2>1, <2>2, ClosedKeepsChain DEF SameChain
<1>5. ASSUME NEW c \in Consumers, NEW i \in Ids, TakeRow(c, i)
      PROVE  SameChain
  BY <1>1, <1>5 DEF TakeRow, Row, SameChain
<1>6. ASSUME NEW c \in Consumers, Heartbeat(c)
      PROVE  SameChain
  <2> DEFINE i == work[c].item
  <2>1. i \in Ids /\ row[i].status \in Held
    BY <1>6, HolderIsHeld DEF Heartbeat
  <2>2. /\ row'[i].status = "running" /\ row'[i].key = row[i].key /\ row'[i].root = row[i].root
        /\ \A j \in Ids \ {i} : row'[j] = row[j]
    BY <1>1, <1>6, <2>1 DEF Heartbeat, Row
  <2> QED
    BY <2>1, <2>2 DEF SameChain, Held
<1>7. ASSUME NEW c \in Consumers, NEW status \in Terminal, NEW error, work[c].pc # "idle",
             UpdateIfToken(work[c].item, work[c].token,
               Closed(row[work[c].item], status, error))
      PROVE  SameChain
  <2>1. work[c].item \in Ids /\ work[c].token # NoToken
    BY <1>7 DEF WorkOK
  <2> QED
    BY <1>7, <2>1, ScopedCloseKeepsChain
<1>8. ASSUME NEW i \in Ids, HeartbeatAges(i) \/ BackoffElapses(i)
      PROVE  SameChain
  BY <1>1, <1>8 DEF HeartbeatAges, BackoffElapses, Row, SameChain
<1>9. ASSUME NEW w \in Watchdogs, TimeOut(w) \/ DeadLetter(w)
      PROVE  SameChain
  <2>1. PICK s \in dog[w].todo, status \in {"timed_out", "failed"}, error \in Errors :
          UpdateIfToken(s.item, s.token, Closed(row[s.item], status, error))
    BY <1>9 DEF TimeOut, DeadLetter, Errors
  <2>2. s.item \in Ids /\ s.token # NoToken
    BY <1>1 DEF Dog, Snapshots, DogOK, SnapshotOK
  <2> QED
    BY <2>1, <2>2, ScopedCloseKeepsChain DEF Terminal
<1>10. ASSUME RouteStep
       PROVE  SameChain
  BY <1>2, <1>3, <1>4, <1>10 DEF RouteStep, Admit, AdmitRedispatch
<1>11. ASSUME NEW c \in Consumers, ConsumerStep(c)
       PROVE  SameChain
  <2>1. CASE Complete(c)
    BY <1>7, <2>1 DEF Complete, Terminal
  <2>2. CASE Fail(c, "handler_error") \/ Shutdown(c)
    BY <1>7, <2>2 DEF Fail, Shutdown, Terminal
  <2>3. CASE HeartbeatRotated(c) \/ DropRotated(c) \/ Abandon(c)
    BY <1>2, <2>3 DEF HeartbeatRotated, DropRotated, Abandon
  <2> QED
    BY <1>5, <1>6, <1>11, <2>1, <2>2, <2>3 DEF ConsumerStep, Claim, ClaimLost
<1>12. ASSUME NEW w \in Watchdogs, WatchdogStep(w)
       PROVE  SameChain
  BY <1>2, <1>9, <1>12 DEF WatchdogStep, Sweep, Select, SkipBadRow, WatchdogCrash
<1> QED
  BY <1>2, <1>8, <1>10, <1>11, <1>12 DEF Next, TimeStep, vars

LEMMA AdmittedAreRoots ==
  ASSUME Redispatchable = {}, ChainOK, [Next]_vars
  PROVE  \A request \in admitted' : request.key = <<"root", request.root, 0>>
<1>1. CASE admitted' = admitted
  BY <1>1 DEF ChainOK
<1>2. ASSUME NEW k \in Roots, Admit(k)
      PROVE  \A request \in admitted' : request.key = <<"root", request.root, 0>>
  BY <1>2 DEF Admit, ChainOK
<1>3. admitted' = admitted \/ \E k \in Roots : Admit(k)
  <2>1. CASE RouteStep
    BY <2>1 DEF RouteStep, Enqueue, CancelPipeline, CancelItem
  <2>2. CASE \E c \in Consumers : ConsumerStep(c)
    BY <2>2 DEF ConsumerStep, Claim, ClaimLost, Heartbeat, HeartbeatRotated,
       Complete, Fail, Shutdown, DropRotated, Abandon
  <2>3. CASE TimeStep \/ UNCHANGED vars
    BY <2>3 DEF TimeStep, HeartbeatAges, BackoffElapses, vars
  <2>4. CASE \E w \in Watchdogs : WatchdogStep(w)
    BY <2>4 DEF WatchdogStep, Sweep, Select, TimeOut, DeadLetter, Requeue,
       SkipBadRow, WatchdogCrash
  <2> QED
    BY <2>1, <2>2, <2>3, <2>4 DEF Next
<1> QED
  BY <1>1, <1>2, <1>3

\* Row n is added to the chain of its root.
LEMMA InsertKeepsChain ==
  ASSUME IInv, ChainOK, NEW n \in Fresh,
         row'[n].status = "queued",
         \A j \in Ids \ {n} : row'[j] = row[j],
         row'[n].key = <<"root", row'[n].root, 0>> \/ HasRootRow(row'[n].root),
         \A j \in Ids : (row[j].status # "absent" /\ row[j].root = row'[n].root)
                          => HasRetry(j) \/ row'[n].key = <<"retry", j, 2>>,
         \A request \in admitted' : request.key = <<"root", request.root, 0>>
  PROVE  ChainOK'
<1> DEFINE key == row'[n].key
           root == row'[n].root
<1>1. n \in Ids /\ row[n].status = "absent"
  BY DEF Fresh
<1>2. /\ row'[n].status = "queued" /\ row'[n].key = key /\ row'[n].root = root
      /\ \A j \in Ids \ {n} : row'[j] = row[j]
  OBVIOUS
<1>3. row[n].key = NoKey
  BY <1>1 DEF IInv, RowsOK, RowOK, AbsentRow
<1>4. \A j \in Ids : row[j].key # NoKey => row'[j].key = row[j].key
  BY <1>2, <1>3
<1>5. \A k : <<"root", k, 0>> # NoKey /\ <<"retry", k, 2>> # NoKey
  BY DEF NoKey
<1>6. \A i \in Ids : HasRetry(i) => \E j \in Ids : row'[j].key = <<"retry", i, 2>>
  BY <1>4, <1>5 DEF HasRetry
<1>7. \E j \in Ids : row'[j].key = <<"root", root, 0>>
  BY <1>1, <1>2, <1>4, <1>5 DEF HasRootRow
<1>8. ASSUME NEW i \in Ids, row'[i].status # "absent"
      PROVE  \E j \in Ids : row'[j].key = <<"root", row'[i].root, 0>>
  <2>1. CASE i = n
    BY <1>2, <1>7, <2>1
  <2>2. CASE i # n
    <3>1. row'[i] = row[i] /\ HasRootRow(row[i].root)
      BY <1>2, <1>8, <2>2 DEF ChainOK
    <3> QED
      BY <1>4, <1>5, <3>1 DEF HasRootRow
  <2> QED
    BY <2>1, <2>2
<1>9. ASSUME NEW j \in Ids, row[j].status # "absent", row[j].root = root
      PROVE  HasRetry(j)'
  <2>1. CASE HasRetry(j)
    BY <1>6, <2>1 DEF HasRetry
  <2>2. CASE key = <<"retry", j, 2>>
    BY <1>1, <1>2, <2>2 DEF HasRetry
  <2> QED
    BY <1>9, <2>1, <2>2
<1>12. ASSUME NEW i \in Ids, NEW j \in Ids, i # j, row'[i].root = row'[j].root,
              row'[i].status # "absent", row'[j].status # "absent"
       PROVE  HasRetry(i)' \/ HasRetry(j)'
  <2>1. CASE i = n
    BY <1>2, <1>9, <1>12, <2>1
  <2>2. CASE j = n
    BY <1>2, <1>9, <1>12, <2>2
  <2>3. CASE i # n /\ j # n
    <3>1. HasRetry(i) \/ HasRetry(j)
      BY <1>2, <1>12, <2>3 DEF ChainOK
    <3> QED
      BY <1>6, <3>1 DEF HasRetry
  <2> QED
    BY <2>1, <2>2, <2>3
<1> QED
  BY <1>8, <1>12 DEF ChainOK, HasRootRow

LEMMA NextKeepsChain ==
  ASSUME Redispatchable = {}, IInv, ChainOK, [Next]_vars
  PROVE  ChainOK'
<1>1. \A request \in admitted' : request.key = <<"root", request.root, 0>>
  BY AdmittedAreRoots
<1>2. row \in [Ids -> Row] /\ admitted \subseteq Requests /\ dog \in [Watchdogs -> Dog]
  BY DEF IInv, TypeOK
<1>3. CASE SameChain
  <2>1. \A j \in Ids : row'[j].key = row[j].key
    BY <1>3 DEF SameChain
  <2>2. \A i \in Ids : HasRetry(i) => HasRetry(i)'
    BY <2>1 DEF HasRetry
  <2>3. \A i \in Ids :
          row'[i].status # "absent" => \E j \in Ids : row'[j].key = <<"root", row'[i].root, 0>>
    BY <1>3, <2>1 DEF SameChain, ChainOK, HasRootRow
  <2>4. \A i, j \in Ids :
          (/\ i # j /\ row'[i].root = row'[j].root
           /\ row'[i].status # "absent" /\ row'[j].status # "absent")
            => HasRetry(i)' \/ HasRetry(j)'
    BY <1>3, <2>2 DEF SameChain, ChainOK
  <2> QED
    BY <1>1, <2>3, <2>4 DEF ChainOK, HasRootRow
<1>4. ASSUME NEW request \in admitted, Enqueue(request)
      PROVE  ChainOK'
  <2>1. request.key = <<"root", request.root, 0>> /\ ~HasKey(request.key)
    BY <1>4 DEF ChainOK, Enqueue
  <2>2. PICK n \in Fresh :
          row' = [row EXCEPT ![n] = QueuedRow(request.key, request.root, request.parent, TRUE)]
    BY <1>4 DEF Enqueue, Insert
  <2>3. \A j \in Ids : ~(row[j].status # "absent" /\ row[j].root = request.root)
    BY <2>1 DEF ChainOK, HasRootRow, HasKey
  <2>4. /\ row'[n].status = "queued"
        /\ row'[n].key = request.key /\ row'[n].root = request.root
        /\ \A j \in Ids \ {n} : row'[j] = row[j]
    BY <1>2, <2>2 DEF QueuedRow, Fresh
  <2> QED
    BY <1>1, <2>1, <2>3, <2>4, InsertKeepsChain
<1>5. ASSUME NEW w \in Watchdogs, Requeue(w), ~SameChain
      PROVE  ChainOK'
  <2> DEFINE item == dog[w].current.item
  <2>1. /\ item \in Ids /\ dog[w].current.attempt = 1
        /\ row[item].status \in Terminal
    BY <1>2, <1>5 DEF IInv, DogOK, Snapshots, Requeue
  <2>2. <<"retry", item, dog[w].current.attempt + 1>> = <<"retry", item, 2>>
    BY <2>1
  <2>3. row' # row
    BY <1>5 DEF SameChain
  <2>4. ~HasRetry(item)
    BY <1>5, <2>2, <2>3 DEF Requeue, Insert, HasRetry, HasKey
  <2>5. PICK n \in Fresh :
          row' = [row EXCEPT ![n] =
                    QueuedRow(<<"retry", item, 2>>, row[item].root, item, FALSE)]
    BY <1>5, <2>2, <2>3 DEF Requeue, Insert
  <2>6. row[item].status # "absent"
    BY <2>1 DEF Terminal
  <2>7. HasRootRow(row[item].root)
    BY <2>1, <2>6 DEF ChainOK
  <2>8. \A j \in Ids : (row[j].status # "absent" /\ row[j].root = row[item].root)
                         => HasRetry(j) \/ <<"retry", item, 2>> = <<"retry", j, 2>>
    BY <2>1, <2>4, <2>6 DEF ChainOK
  <2>9. /\ row'[n].status = "queued"
        /\ row'[n].key = <<"retry", item, 2>> /\ row'[n].root = row[item].root
        /\ \A j \in Ids \ {n} : row'[j] = row[j]
    BY <1>2, <2>5 DEF QueuedRow, Fresh
  <2> QED
    BY <1>1, <2>7, <2>8, <2>9, InsertKeepsChain
<1> QED
  BY <1>3, <1>4, <1>5, OnlyInsertsAdd

\* Without redispatch, a piece of work never has two open rows.
THEOREM OneOpenRowPerRootHolds ==
  ASSUME Redispatchable = {}
  PROVE  Spec => []OneOpenRowPerRoot
<1>1. Init => ChainOK
  BY DEF Init, ChainOK, AbsentRow
<1>2. IInv /\ ChainOK /\ [Next]_vars => ChainOK'
  BY NextKeepsChain
<1>3. IInv /\ ChainOK => OneOpenRowPerRoot
  <2> SUFFICES ASSUME IInv, ChainOK, NEW i \in Ids, NEW j \in Ids, i # j,
                      row[i].status \in Open, row[j].status \in Open,
                      row[i].root = row[j].root
               PROVE  FALSE
    BY DEF OneOpenRowPerRoot
  <2>1. HasRetry(i) \/ HasRetry(j)
    BY DEF ChainOK, Open, Held
  <2>2. row[i].status \in Terminal \/ row[j].status \in Terminal
    BY <2>1, RetriedIsClosed
  <2> QED
    BY <2>2 DEF Open, Held, Terminal
<1> QED
  BY <1>1, <1>2, <1>3, InductiveInvariant, PTL DEF Spec
=============================================================================
