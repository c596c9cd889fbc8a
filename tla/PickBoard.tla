----------------------------- MODULE PickBoard ------------------------------
(***************************************************************************)
(* The board of the ideation stage, where the manager picks concepts.  A   *)
(* click shows its pick at once and posts the whole list of its track; the *)
(* picks route reads the row, checks the stage, writes the lists of both   *)
(* tracks back, and checks the stage once more.  A request that fails      *)
(* takes the board back to what it showed before the click.  Continue      *)
(* posts the advance, which asks for a pick in every track.                *)
(***************************************************************************)
EXTENDS Naturals, FiniteSets

CONSTANTS
  Tracks,         \* tracks of the pipeline's format
  Concepts,
  TrackOf(_),     \* the track of a concept
  MaxClicks,      \* bound on clicks
  MaxRequests,    \* bound on their requests in flight at a time
  MaxPickFaults   \* bound on calls of the picks route that fail

ASSUME BoardAssumption ==
  /\ \A k \in Concepts : TrackOf(k) \in Tracks
  /\ {MaxClicks, MaxRequests, MaxPickFaults} \subseteq Nat

VARIABLES
  offered,      \* concepts there are
  board,        \* per track: the picks the page shows
  picks,        \* pipelines.picks
  requests,     \* of clicks: where each is, its list, the board before it, the row it read
  onward,       \* where the request of Continue is
  reviewed,     \* whether the pipeline has left ideation
  clicks, pickFaults,
  blurred,      \* history: tracks with a click that overlapped another one or failed late
  late          \* history: a click was on its way while the advance was

countVars == <<clicks, pickFaults>>
boardVars == <<offered, board, picks, requests, onward, reviewed, countVars, blurred, late>>

None == [t \in Tracks |-> {}]
Touched == {c.track : c \in requests}
Unwritten == {c \in requests : c.at \in {"sent", "loaded", "checked"}}

BoardInit ==
  /\ offered = {} /\ board = None /\ picks = None
  /\ requests = {}
  /\ onward = "none" /\ reviewed = FALSE
  /\ clicks = 0 /\ pickFaults = 0
  /\ blurred = {} /\ late = FALSE

-----------------------------------------------------------------------------
(* The page. *)

\* The row of a concept, written by a producer or a tool of the agent.
Offer(k) ==
  /\ k \notin offered
  /\ offered' = offered \cup {k}
  /\ UNCHANGED <<board, picks, requests, onward, reviewed, countVars, blurred, late>>

\* The concept joins the list of its track, or leaves it.
TogglePick(k) ==
  LET t == TrackOf(k)
      list == IF k \in board[t] THEN board[t] \ {k} ELSE board[t] \cup {k}
  IN  /\ k \in offered /\ ~reviewed
      /\ clicks < MaxClicks /\ Cardinality(requests) < MaxRequests
      /\ clicks' = clicks + 1
      /\ board' = [board EXCEPT ![t] = list]
      /\ requests' = {[c EXCEPT !.alone = FALSE] : c \in requests} \cup
                      {[number |-> clicks + 1, at |-> "sent", track |-> t, list |-> list,
                        before |-> board[t], read |-> None, heard |-> TRUE, alone |-> requests = {}]}
      /\ blurred' = IF requests = {} THEN blurred ELSE blurred \cup Touched \cup {t}
      /\ late' = (late \/ onward = "read")
      /\ UNCHANGED <<offered, picks, onward, reviewed, pickFaults>>

\* Mutant: a failed click is not taken back.
KeepShown(c) == board[c.track]

\* The list a failed click leaves on the board.
Reverted(c) == c.before

\* The answer.  A click that was alone leaves its track as the row has it, unless the
\* row was written and the answer was an error.
HearAnswer(c) ==
  LET t == c.track
      failed == c.at \in {"refused", "spoiled"}
  IN  /\ c.at \in {"stored", "refused", "spoiled"}
      /\ requests' = requests \ {c}
      /\ board' = IF failed /\ c.heard THEN [board EXCEPT ![t] = Reverted(c)] ELSE board
      /\ blurred' = IF c.at = "spoiled" THEN blurred \cup {t}
                    ELSE IF c.at = "stored" /\ c.alone THEN blurred \ {t}
                    ELSE blurred
      /\ UNCHANGED <<offered, picks, onward, reviewed, countVars, late>>

\* The page is left and opened again: it shows the row, and hears of no click before.
Reopen ==
  /\ ~reviewed
  /\ board' = picks
  /\ requests' = {[c EXCEPT !.heard = FALSE, !.alone = FALSE] : c \in requests}
  /\ blurred' = IF requests = {} THEN {} ELSE blurred \cup Touched
  /\ UNCHANGED <<offered, picks, onward, reviewed, countVars, late>>

-----------------------------------------------------------------------------
(* The picks route. *)

Turn(c, d) == requests' = (requests \ {c}) \cup {d}
Go(c, at) == Turn(c, [c EXCEPT !.at = at])

ReadPicks(c) ==
  /\ c.at = "sent"
  /\ Turn(c, [c EXCEPT !.at = "loaded", !.read = picks])
  /\ UNCHANGED <<offered, board, picks, onward, reviewed, countVars, blurred, late>>

\* The stage, and that the list is of concepts of the pipeline's brief.
CheckPicks(c) ==
  /\ c.at = "loaded"
  /\ Go(c, IF ~reviewed /\ c.list \subseteq offered THEN "checked" ELSE "refused")
  /\ UNCHANGED <<offered, board, picks, onward, reviewed, countVars, blurred, late>>

\* The track of the body is replaced, in the row as it was read.
WritePicks(c) ==
  /\ c.at = "checked"
  /\ picks' = [c.read EXCEPT ![c.track] = c.list]
  /\ Go(c, "written")
  /\ UNCHANGED <<offered, board, onward, reviewed, countVars, blurred, late>>

\* The stage once more: a 409 does not take the picks back.
Recheck(c) ==
  /\ c.at = "written"
  /\ Go(c, IF reviewed THEN "spoiled" ELSE "stored")
  /\ UNCHANGED <<offered, board, picks, onward, reviewed, countVars, blurred, late>>

\* A call fails; the update may have been applied.
PickFails(c) ==
  /\ pickFaults < MaxPickFaults
  /\ pickFaults' = pickFaults + 1
  /\ \/ c.at \in {"sent", "loaded", "checked"} /\ Go(c, "refused") /\ UNCHANGED picks
     \/ /\ c.at = "checked" /\ Go(c, "spoiled")
        /\ picks' = [c.read EXCEPT ![c.track] = c.list]
     \/ c.at = "written" /\ Go(c, "spoiled") /\ UNCHANGED picks
  /\ UNCHANGED <<offered, board, onward, reviewed, clicks, blurred, late>>

-----------------------------------------------------------------------------
(* Continue. *)

PostReview ==
  /\ \A t \in Tracks : board[t] # {}
  /\ ~reviewed /\ onward = "none"
  /\ onward' = "posted"
  /\ UNCHANGED <<offered, board, picks, requests, reviewed, countVars, blurred, late>>

\* Mutant: one track with picks is enough.
SomePicked == \E t \in Tracks : picks[t] # {}

EachPicked == \A t \in Tracks : picks[t] # {}

\* The gate, on the row as it is read.
ReadRowForReview ==
  /\ onward = "posted"
  /\ onward' = IF EachPicked THEN "read" ELSE "none"
  /\ late' = (Unwritten # {})
  /\ UNCHANGED <<offered, board, picks, requests, reviewed, countVars, blurred>>

\* The event.
EnterReview ==
  /\ onward = "read"
  /\ onward' = "entered" /\ reviewed' = TRUE
  /\ UNCHANGED <<offered, board, picks, requests, countVars, blurred, late>>

\* A call of the advance fails, and Continue may be clicked again.
ReviewFails ==
  /\ onward \in {"posted", "read"}
  /\ onward' = "none"
  /\ UNCHANGED <<offered, board, picks, requests, reviewed, countVars, blurred, late>>

-----------------------------------------------------------------------------
BoardNext ==
  \/ \E k \in Concepts : Offer(k) \/ TogglePick(k)
  \/ \E c \in requests : HearAnswer(c) \/ ReadPicks(c) \/ CheckPicks(c) \/ WritePicks(c) \/ Recheck(c) \/ PickFails(c)
  \/ Reopen
  \/ PostReview \/ ReadRowForReview \/ EnterReview \/ ReviewFails

BoardSpec == BoardInit /\ [][BoardNext]_boardVars

-----------------------------------------------------------------------------
(* Properties. *)

\* The row has the picks the board shows of every track no click is on its way for:
\* they part only by clicks that overlap, of whatever tracks, or by one that is written
\* and answered with an error.  A click that fails leaves them equal, and one that is
\* alone makes them so (togglePick, the picks route).
QuietTrackIsStored == ~reviewed => \A t \in Tracks \ (blurred \cup Touched) : picks[t] = board[t]

\* Review has a pick in every track, unless a click was on its way when the advance
\* read the row or came before its event (advanceFromIdeation).
ReviewHasPicks == reviewed => late \/ \A t \in Tracks : picks[t] # {}

-----------------------------------------------------------------------------
(* What the code says and does not do: TLC refutes each.                   *)

\* A track that is not in the body is left untouched (picks/route.ts 28-30).
OtherTrackUntouched ==
  [][\A c \in requests : WritePicks(c) => \A t \in Tracks \ {c.track} : picks'[t] = picks[t]]_boardVars

\* Picks do not bleed into other stages (picks/route.ts 31-32).
PicksLocked == [][reviewed => picks' = picks]_boardVars

\* The gate of review: at least one pick per active track (StageIdeation.tsx 49-51).
EveryTrackPicked == reviewed => \A t \in Tracks : picks[t] # {}
=============================================================================
