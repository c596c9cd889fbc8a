--------------------------- MODULE DashboardProofs ---------------------------
(***************************************************************************)
(* Theorems about the two forms a manager fills in, for any parts, tracks, *)
(* concepts and bounds.  Both rest on the same fact: what was read of the  *)
(* row and is about to be written back is still what the row has, except   *)
(* for what the history calls in doubt.                                    *)
(***************************************************************************)
EXTENDS ConfigForm, PickBoard, FiniteSetTheorems, TLAPS

-----------------------------------------------------------------------------
(* The board of picks.                                                     *)

Click == [number : Nat, at : {"sent", "loaded", "checked", "written", "stored", "refused", "spoiled"},
          track : Tracks, list : SUBSET Concepts, before : SUBSET Concepts,
          read : [Tracks -> SUBSET Concepts], heard : BOOLEAN, alone : BOOLEAN]

BoardTypeOK ==
  /\ offered \subseteq Concepts
  /\ board \in [Tracks -> SUBSET Concepts] /\ picks \in [Tracks -> SUBSET Concepts]
  /\ requests \subseteq Click
  /\ onward \in {"none", "posted", "read", "entered"}
  /\ reviewed = (onward = "entered")
  /\ clicks \in Nat /\ pickFaults \in Nat
  /\ blurred \subseteq Tracks /\ late \in BOOLEAN

\* Of two clicks that are on their way, neither is alone, and their tracks are in doubt.
ClicksOK ==
  \A c \in requests :
    IF c.alone THEN requests = {c} /\ c.heard ELSE c.track \in blurred

\* A click that is alone shows its list, and the row has the list before it until it
\* is written.
LoneClickOK ==
  \A c \in requests : c.alone =>
    /\ board[c.track] = c.list
    /\ c.at \in {"sent", "loaded", "checked", "refused"} /\ c.track \notin blurred =>
         picks[c.track] = c.before
    /\ c.at \in {"written", "stored"} => picks[c.track] = c.list

\* What a click will write back of the other tracks is what the row has.
ReadPicksOK ==
  \A c \in requests : c.at \in {"loaded", "checked"} =>
    \A t \in Tracks \ (blurred \cup {c.track}) : c.read[t] = picks[t]

\* Once the gate of review has read the row, no write is left but late ones.
GateOK ==
  onward \in {"read", "entered"} /\ ~late => Unwritten = {} /\ \A t \in Tracks : picks[t] # {}

BoardInv == BoardTypeOK /\ ClicksOK /\ LoneClickOK /\ ReadPicksOK /\ QuietTrackIsStored /\ GateOK

LEMMA BoardInitInv == BoardInit => BoardInv
<1> SUFFICES ASSUME BoardInit
             PROVE  BoardInv
    OBVIOUS
<1> USE DEF BoardInit
<1>1. BoardTypeOK
  BY DEF BoardTypeOK, None
<1>2. ClicksOK /\ LoneClickOK /\ ReadPicksOK
  BY DEF ClicksOK, LoneClickOK, ReadPicksOK
<1>3. QuietTrackIsStored /\ GateOK
  BY DEF QuietTrackIsStored, GateOK
<1> QED BY <1>1, <1>2, <1>3 DEF BoardInv

\* A step of a click leaves the others as they are.
LEMMA TurnedClick ==
  ASSUME NEW c \in requests, NEW d, Turn(c, d), NEW e \in requests'
  PROVE  e = d \/ (e \in requests /\ e # c)
BY DEF Turn

\* A click at work, from one place of the route to the next.
LEMMA GoKeepsTypes ==
  ASSUME BoardTypeOK, NEW c \in requests,
         NEW at \in {"sent", "loaded", "checked", "written", "stored", "refused", "spoiled"}
  PROVE  [c EXCEPT !.at = at] \in Click
BY DEF BoardTypeOK, Click

LEMMA OfferKeepsBoard ==
  ASSUME BoardInv, NEW k \in Concepts, Offer(k)
  PROVE  BoardInv'
<1> USE DEF BoardInv, Offer, countVars
<1>1. BoardTypeOK'
  BY DEF BoardTypeOK
<1>2. ClicksOK' /\ LoneClickOK' /\ ReadPicksOK'
  BY DEF ClicksOK, LoneClickOK, ReadPicksOK
<1>3. QuietTrackIsStored' /\ GateOK'
  BY DEF QuietTrackIsStored, GateOK, Touched, Unwritten
<1> QED BY <1>1, <1>2, <1>3

LEMMA TogglePickKeepsBoard ==
  ASSUME BoardInv, NEW k \in Concepts, TogglePick(k)
  PROVE  BoardInv'
<1> DEFINE t == TrackOf(k)
           list == IF k \in board[t] THEN board[t] \ {k} ELSE board[t] \cup {k}
           new == [number |-> clicks + 1, at |-> "sent", track |-> t, list |-> list,
                   before |-> board[t], read |-> None, heard |-> TRUE, alone |-> requests = {}]
<1>0. /\ ~reviewed
      /\ clicks' = clicks + 1
      /\ board' = [board EXCEPT ![t] = list]
      /\ requests' = {[c EXCEPT !.alone = FALSE] : c \in requests} \cup {new}
      /\ blurred' = IF requests = {} THEN blurred ELSE blurred \cup Touched \cup {t}
      /\ late' = (late \/ onward = "read")
      /\ UNCHANGED <<offered, picks, onward, reviewed, pickFaults>>
  BY DEF TogglePick
<1>1. t \in Tracks /\ BoardTypeOK /\ list \in SUBSET Concepts /\ board[t] \in SUBSET Concepts
  BY BoardAssumption DEF BoardInv, BoardTypeOK
<1>2. new \in Click
  BY <1>1 DEF Click, BoardTypeOK, None
<1>3. \A e \in requests' : e = new \/ \E c \in requests : e = [c EXCEPT !.alone = FALSE]
  BY <1>0
<1>4. \A c \in requests : /\ [c EXCEPT !.alone = FALSE] \in Click
                           /\ [c EXCEPT !.alone = FALSE].alone = FALSE
                           /\ [c EXCEPT !.alone = FALSE].at = c.at
                           /\ [c EXCEPT !.alone = FALSE].track = c.track
                           /\ [c EXCEPT !.alone = FALSE].read = c.read
  BY <1>1 DEF BoardTypeOK, Click
<1> HIDE DEF list
<1>5. CASE requests = {}
  <2>1. requests' = {new} /\ blurred' = blurred
    BY <1>0, <1>5
  <2>2. new.alone /\ new.heard /\ new.at = "sent" /\ new.track = t /\ new.list = list /\ new.before = board[t]
    BY <1>5
  <2> HIDE DEF new
  <2>3. BoardTypeOK'
    BY <1>0, <1>1, <1>2, <2>1 DEF BoardTypeOK
  <2>4. ClicksOK' /\ ReadPicksOK'
    BY <2>1, <2>2 DEF ClicksOK, ReadPicksOK
  <2>5. Touched' = {t} /\ Touched = {}
    BY <1>5, <2>1, <2>2 DEF Touched
  <2>6. QuietTrackIsStored'
    BY <1>0, <1>1, <2>1, <2>5 DEF BoardInv, BoardTypeOK, QuietTrackIsStored
  <2>7. LoneClickOK'
    BY <1>0, <1>1, <2>1, <2>2, <2>5 DEF BoardInv, BoardTypeOK, QuietTrackIsStored, LoneClickOK
  <2>8. GateOK'
    BY <1>0, <1>1 DEF GateOK, BoardTypeOK
  <2> QED BY <2>3, <2>4, <2>6, <2>7, <2>8 DEF BoardInv
<1>6. CASE requests # {}
  <2>1. blurred' = blurred \cup Touched \cup {t}
    BY <1>0, <1>6
  <2>2. ~new.alone /\ new.at = "sent" /\ new.track = t
    BY <1>6
  <2> HIDE DEF new
  <2>3. BoardTypeOK'
    <3>1. Touched \subseteq Tracks
      BY <1>1 DEF BoardTypeOK, Touched, Click
    <3>2. requests' \subseteq Click
      BY <1>2, <1>3, <1>4
    <3> QED BY <1>0, <1>1, <2>1, <3>1, <3>2 DEF BoardTypeOK
  <2>4. \A e \in requests' : ~e.alone /\ e.track \in blurred'
    <3>1. \A c \in requests : c.track \in Touched
      BY DEF Touched
    <3> QED BY <1>3, <1>4, <2>1, <2>2, <3>1
  <2>5. ClicksOK' /\ LoneClickOK'
    BY <2>4 DEF ClicksOK, LoneClickOK
  <2>6. ReadPicksOK'
    <3> SUFFICES ASSUME NEW e \in requests', e.at \in {"loaded", "checked"},
                        NEW u \in Tracks \ (blurred' \cup {e.track})
                 PROVE  e.read[u] = picks'[u]
        BY DEF ReadPicksOK
    <3>1. PICK c \in requests : e = [c EXCEPT !.alone = FALSE]
      BY <1>3, <2>2
    <3> QED BY <1>0, <1>4, <2>1, <3>1 DEF BoardInv, ReadPicksOK
  <2>7. Touched \subseteq Touched'
    BY <1>0, <1>4 DEF Touched
  <2>8. QuietTrackIsStored'
    BY <1>0, <1>1, <2>1, <2>7 DEF BoardInv, BoardTypeOK, QuietTrackIsStored
  <2>9. GateOK'
    BY <1>0, <1>1 DEF GateOK, BoardTypeOK
  <2> QED BY <2>3, <2>5, <2>6, <2>8, <2>9 DEF BoardInv
<1> QED BY <1>5, <1>6

LEMMA HearAnswerKeepsBoard ==
  ASSUME BoardInv, NEW c \in requests, HearAnswer(c)
  PROVE  BoardInv'
<1> DEFINE failed == c.at \in {"refused", "spoiled"}
<1>0. /\ c.at \in {"stored", "refused", "spoiled"}
      /\ requests' = requests \ {c}
      /\ board' = IF failed /\ c.heard THEN [board EXCEPT ![c.track] = c.before] ELSE board
      /\ blurred' = IF c.at = "spoiled" THEN blurred \cup {c.track}
                    ELSE IF c.at = "stored" /\ c.alone THEN blurred \ {c.track}
                    ELSE blurred
      /\ UNCHANGED <<offered, picks, onward, reviewed, clicks, pickFaults, late>>
  BY DEF HearAnswer, Reverted, countVars
<1>1. BoardTypeOK /\ c \in Click /\ c.track \in Tracks /\ c.before \in SUBSET Concepts
  BY DEF BoardInv, BoardTypeOK, Click
<1>2. BoardTypeOK'
  BY <1>0, <1>1 DEF BoardTypeOK
<1>3. c.alone => requests' = {}
  BY <1>0 DEF BoardInv, ClicksOK
<1>4. ~c.alone => \A e \in requests : ~e.alone
  BY DEF BoardInv, ClicksOK
<1>5. ~c.alone => blurred \subseteq blurred' /\ c.track \in blurred'
  BY <1>0 DEF BoardInv, ClicksOK
<1>6. ClicksOK' /\ LoneClickOK'
  BY <1>0, <1>3, <1>4, <1>5 DEF BoardInv, ClicksOK, LoneClickOK
<1>7. ReadPicksOK'
  BY <1>0, <1>3, <1>5 DEF BoardInv, ReadPicksOK
<1>8. QuietTrackIsStored'
  <2> SUFFICES ASSUME ~reviewed', NEW u \in Tracks \ (blurred' \cup Touched')
               PROVE  picks'[u] = board'[u]
      BY DEF QuietTrackIsStored
  <2>1. CASE u # c.track
    <3>1. u \notin Touched
      BY <1>0, <2>1 DEF Touched
    <3>2. u \notin blurred
      BY <1>0, <2>1
    <3> QED BY <1>0, <1>1, <2>1, <3>1, <3>2 DEF BoardInv, BoardTypeOK, QuietTrackIsStored
  <2>2. CASE u = c.track
    <3>1. c.alone /\ c.heard /\ c.at # "spoiled"
      BY <1>0, <1>5, <2>2 DEF BoardInv, ClicksOK
    <3>2. CASE c.at = "stored"
      BY <1>0, <2>2, <3>1, <3>2 DEF BoardInv, LoneClickOK
    <3>3. CASE c.at = "refused"
      BY <1>0, <1>1, <2>2, <3>1, <3>3 DEF BoardInv, BoardTypeOK, LoneClickOK
    <3> QED BY <1>0, <3>1, <3>2, <3>3
  <2> QED BY <2>1, <2>2
<1>9. GateOK'
  BY <1>0 DEF BoardInv, GateOK, Unwritten
<1> QED BY <1>2, <1>6, <1>7, <1>8, <1>9 DEF BoardInv

LEMMA ReopenKeepsBoard ==
  ASSUME BoardInv, Reopen
  PROVE  BoardInv'
<1>0. /\ board' = picks
      /\ requests' = {[c EXCEPT !.heard = FALSE, !.alone = FALSE] : c \in requests}
      /\ blurred' = IF requests = {} THEN {} ELSE blurred \cup Touched
      /\ UNCHANGED <<offered, picks, onward, reviewed, clicks, pickFaults, late>>
  BY DEF Reopen, countVars
<1>1. BoardTypeOK
  BY DEF BoardInv
<1>2. \A c \in requests : /\ [c EXCEPT !.heard = FALSE, !.alone = FALSE] \in Click
                           /\ [c EXCEPT !.heard = FALSE, !.alone = FALSE].alone = FALSE
                           /\ [c EXCEPT !.heard = FALSE, !.alone = FALSE].at = c.at
                           /\ [c EXCEPT !.heard = FALSE, !.alone = FALSE].track = c.track
                           /\ [c EXCEPT !.heard = FALSE, !.alone = FALSE].read = c.read
  BY <1>1 DEF BoardTypeOK, Click
<1>3. \A e \in requests' : \E c \in requests : e = [c EXCEPT !.heard = FALSE, !.alone = FALSE]
  BY <1>0
<1>4. BoardTypeOK'
  <2>1. Touched \subseteq Tracks
    BY <1>1 DEF BoardTypeOK, Touched, Click
  <2>2. requests' \subseteq Click
    BY <1>2, <1>3
  <2> QED BY <1>0, <1>1, <2>1, <2>2 DEF BoardTypeOK
<1>5. \A e \in requests' : ~e.alone /\ e.track \in blurred'
  <2>1. \A c \in requests : c.track \in Touched
    BY DEF Touched
  <2> SUFFICES ASSUME NEW e \in requests'
               PROVE  ~e.alone /\ e.track \in blurred'
      OBVIOUS
  <2>2. PICK c \in requests : e = [c EXCEPT !.heard = FALSE, !.alone = FALSE]
    BY <1>3
  <2>3. blurred' = blurred \cup Touched
    BY <1>0, <2>2
  <2>4. e.track = c.track /\ ~e.alone
    BY <1>2, <2>2
  <2>5. c.track \in Touched
    BY <2>1
  <2> QED BY <2>3, <2>4, <2>5
<1>6. ClicksOK' /\ LoneClickOK'
  BY <1>5 DEF ClicksOK, LoneClickOK
<1>7. ReadPicksOK'
  <2> SUFFICES ASSUME NEW e \in requests', e.at \in {"loaded", "checked"},
                      NEW u \in Tracks \ (blurred' \cup {e.track})
               PROVE  e.read[u] = picks'[u]
      BY DEF ReadPicksOK
  <2>1. PICK c \in requests : e = [c EXCEPT !.heard = FALSE, !.alone = FALSE]
    BY <1>3
  <2> QED BY <1>0, <1>2, <2>1 DEF BoardInv, ReadPicksOK
<1>8. QuietTrackIsStored'
  BY <1>0 DEF QuietTrackIsStored
<1>9. GateOK'
  <2>1. ASSUME Unwritten = {}, NEW e \in Unwritten'
        PROVE  FALSE
    <3>1. e \in requests' /\ e.at \in {"sent", "loaded", "checked"}
      BY <2>1 DEF Unwritten
    <3>2. PICK c \in requests : e = [c EXCEPT !.heard = FALSE, !.alone = FALSE]
      BY <1>3, <3>1
    <3>3. c \in Unwritten
      BY <1>2, <3>1, <3>2 DEF Unwritten
    <3> QED BY <2>1, <3>3
  <2> QED BY <1>0, <2>1 DEF BoardInv, GateOK
<1> QED BY <1>4, <1>6, <1>7, <1>8, <1>9 DEF BoardInv

\* What is the same after any step of the route.
OnlyRoute(c, d) ==
  /\ Turn(c, d) /\ d \in Click
  /\ d.track = c.track /\ d.list = c.list /\ d.before = c.before
  /\ d.heard = c.heard /\ d.alone = c.alone
  /\ UNCHANGED <<offered, board, onward, reviewed, clicks, blurred, late>>
  /\ pickFaults' \in Nat

BeforeWrite == {"sent", "loaded", "checked"}

\* A step of the route that does not write.
LEMMA RouteStepKeepsBoard ==
  ASSUME BoardInv, NEW c \in requests, NEW d, OnlyRoute(c, d), picks' = picks,
         d.at \in {"loaded", "checked"} =>
           d.read = picks \/ (c.at \in {"loaded", "checked"} /\ d.read = c.read),
         d.at \in BeforeWrite => c.at \in BeforeWrite,
         d.at = "refused" => c.at \in BeforeWrite,
         d.at \in {"written", "stored"} => c.at \in {"written", "stored"}
  PROVE  BoardInv'
<1> USE DEF OnlyRoute, BeforeWrite
<1>1. \A e \in requests' : e = d \/ (e \in requests /\ e # c)
  BY TurnedClick
<1>2. d \in requests' /\ (requests = {c} => requests' = {d})
  BY DEF Turn
<1>3. BoardTypeOK'
  <2>1. requests' \subseteq Click
    BY <1>1 DEF BoardInv, BoardTypeOK
  <2> QED BY <2>1 DEF BoardInv, BoardTypeOK
<1>4. ClicksOK'
  BY <1>1, <1>2 DEF BoardInv, ClicksOK
<1>5. LoneClickOK'
  BY <1>1 DEF BoardInv, LoneClickOK
<1>6. ReadPicksOK'
  BY <1>1 DEF BoardInv, ReadPicksOK
<1>7. Touched' = Touched
  <2>1. \A e \in requests : e.track \in Touched'
    BY <1>2 DEF Turn, Touched
  <2>2. \A e \in requests' : e.track \in Touched
    BY <1>1 DEF Touched
  <2> QED BY <2>1, <2>2 DEF Touched
<1>8. QuietTrackIsStored'
  BY <1>7 DEF BoardInv, QuietTrackIsStored
<1>9. GateOK'
  <2>1. \A e \in Unwritten' : e \in Unwritten \/ c \in Unwritten
    BY <1>1 DEF Unwritten
  <2> QED BY <2>1 DEF BoardInv, GateOK
<1> QED BY <1>3, <1>4, <1>5, <1>6, <1>8, <1>9 DEF BoardInv

\* The step that writes, whatever is answered.
LEMMA WriteKeepsBoard ==
  ASSUME BoardInv, NEW c \in requests, NEW d, OnlyRoute(c, d),
         c.at = "checked", d.at \in {"written", "spoiled"},
         picks' = [c.read EXCEPT ![c.track] = c.list]
  PROVE  BoardInv'
<1> USE DEF OnlyRoute
<1>1. \A e \in requests' : e = d \/ (e \in requests /\ e # c)
  BY TurnedClick
<1>2. d \in requests' /\ (requests = {c} => requests' = {d})
  BY DEF Turn
<1>0. BoardTypeOK /\ c \in Click
  BY DEF BoardInv, BoardTypeOK
<1>3. BoardTypeOK'
  <2>1. requests' \subseteq Click
    BY <1>0, <1>1 DEF BoardTypeOK
  <2>2. picks' \in [Tracks -> SUBSET Concepts]
    BY <1>0 DEF Click
  <2> QED BY <1>0, <2>1, <2>2 DEF BoardTypeOK
<1>4. ClicksOK'
  BY <1>1, <1>2 DEF BoardInv, ClicksOK
<1>5. \A u \in Tracks \ blurred : u # c.track => picks'[u] = picks[u]
  BY <1>0 DEF BoardInv, ReadPicksOK, Click
<1>6. picks'[c.track] = c.list
  BY <1>0 DEF Click
<1>7. ASSUME NEW e \in requests', e # d
      PROVE  ~c.alone /\ c.track \in blurred /\ ~e.alone
  BY <1>1, <1>7 DEF BoardInv, ClicksOK
<1>8. LoneClickOK'
  BY <1>6, <1>7 DEF BoardInv, LoneClickOK
<1>9. ReadPicksOK'
  <2> SUFFICES ASSUME NEW e \in requests', e.at \in {"loaded", "checked"},
                      NEW u \in Tracks \ (blurred' \cup {e.track})
               PROVE  e.read[u] = picks'[u]
      BY DEF ReadPicksOK
  <2>1. e \in requests /\ e # d
    BY <1>1
  <2>2. u # c.track
    BY <1>7, <2>1
  <2> QED BY <1>5, <2>1, <2>2 DEF BoardInv, ReadPicksOK
<1>10. Touched' = Touched /\ c.track \in Touched
  <2>1. \A e \in requests : e.track \in Touched'
    BY <1>2 DEF Turn, Touched
  <2>2. \A e \in requests' : e.track \in Touched
    BY <1>1 DEF Touched
  <2> QED BY <2>1, <2>2 DEF Touched
<1>11. QuietTrackIsStored'
  BY <1>5, <1>10 DEF BoardInv, QuietTrackIsStored
<1>12. GateOK'
  <2>1. c \in Unwritten
    BY DEF Unwritten
  <2> QED BY <2>1 DEF BoardInv, GateOK
<1> QED BY <1>3, <1>4, <1>8, <1>9, <1>11, <1>12 DEF BoardInv

LEMMA PicksRouteKeepsBoard ==
  ASSUME BoardInv, NEW c \in requests,
         ReadPicks(c) \/ CheckPicks(c) \/ WritePicks(c) \/ Recheck(c) \/ PickFails(c)
  PROVE  BoardInv'
<1> DEFINE went(at) == [c EXCEPT !.at = at]
           loaded == [c EXCEPT !.at = "loaded", !.read = picks]
<1>1. c \in Click /\ picks \in [Tracks -> SUBSET Concepts] /\ pickFaults \in Nat
  BY DEF BoardInv, BoardTypeOK
<1>2. loaded \in Click /\ loaded.at = "loaded" /\ loaded.read = picks /\ loaded.track = c.track
      /\ loaded.list = c.list /\ loaded.before = c.before /\ loaded.heard = c.heard
      /\ loaded.alone = c.alone
  BY <1>1 DEF Click
<1>3. \A at \in {"checked", "written", "stored", "refused", "spoiled"} :
        /\ went(at) \in Click /\ went(at).at = at /\ went(at).read = c.read
        /\ went(at).track = c.track /\ went(at).list = c.list /\ went(at).before = c.before
        /\ went(at).heard = c.heard /\ went(at).alone = c.alone
  BY <1>1 DEF Click
<1> HIDE DEF went, loaded
<1> USE DEF BeforeWrite, OnlyRoute, countVars
<1>4. CASE ReadPicks(c)
  <2>1. c.at = "sent" /\ OnlyRoute(c, loaded) /\ picks' = picks
    BY <1>1, <1>2, <1>4 DEF ReadPicks, loaded
  <2> QED BY <1>2, <2>1, RouteStepKeepsBoard
<1>5. CASE CheckPicks(c)
  <2>1. PICK at \in {"checked", "refused"} : Turn(c, went(at))
    BY <1>5 DEF CheckPicks, Go, went
  <2>2. c.at = "loaded" /\ OnlyRoute(c, went(at)) /\ picks' = picks
    BY <1>1, <1>3, <1>5, <2>1 DEF CheckPicks
  <2> QED BY <1>3, <2>1, <2>2, RouteStepKeepsBoard
<1>6. CASE WritePicks(c)
  <2>1. Turn(c, went("written"))
    BY <1>6 DEF WritePicks, Go, went
  <2>2. OnlyRoute(c, went("written")) /\ c.at = "checked"
        /\ picks' = [c.read EXCEPT ![c.track] = c.list]
    BY <1>1, <1>3, <1>6, <2>1 DEF WritePicks
  <2> QED BY <1>3, <2>2, WriteKeepsBoard
<1>7. CASE Recheck(c)
  <2>1. PICK at \in {"stored", "spoiled"} : Turn(c, went(at))
    BY <1>7 DEF Recheck, Go, went
  <2>2. c.at = "written" /\ OnlyRoute(c, went(at)) /\ picks' = picks
    BY <1>1, <1>3, <1>7, <2>1 DEF Recheck
  <2> QED BY <1>3, <2>1, <2>2, RouteStepKeepsBoard
<1>8. CASE PickFails(c)
  <2>1. pickFaults' \in Nat /\ UNCHANGED <<offered, board, onward, reviewed, clicks, blurred, late>>
    BY <1>1, <1>8 DEF PickFails
  <2>2. CASE c.at \in {"sent", "loaded", "checked"} /\ Go(c, "refused") /\ UNCHANGED picks
    <3>1. OnlyRoute(c, went("refused"))
      BY <1>3, <2>1, <2>2 DEF Go, went
    <3> QED BY <1>3, <2>2, <3>1, RouteStepKeepsBoard
  <2>3. CASE /\ c.at = "checked" /\ Go(c, "spoiled")
             /\ picks' = [c.read EXCEPT ![c.track] = c.list]
    <3>1. OnlyRoute(c, went("spoiled"))
      BY <1>3, <2>1, <2>3 DEF Go, went
    <3> QED BY <1>3, <2>3, <3>1, WriteKeepsBoard
  <2>4. CASE c.at = "written" /\ Go(c, "spoiled") /\ UNCHANGED picks
    <3>1. OnlyRoute(c, went("spoiled"))
      BY <1>3, <2>1, <2>4 DEF Go, went
    <3> QED BY <1>3, <2>4, <3>1, RouteStepKeepsBoard
  <2> QED BY <1>8, <2>2, <2>3, <2>4 DEF PickFails
<1> QED BY <1>4, <1>5, <1>6, <1>7, <1>8

LEMMA ContinueKeepsBoard ==
  ASSUME BoardInv, PostReview \/ ReadRowForReview \/ EnterReview \/ ReviewFails
  PROVE  BoardInv'
<1> USE DEF PostReview, ReadRowForReview, EnterReview, ReviewFails, EachPicked, countVars, BoardInv
<1>1. BoardTypeOK'
  BY DEF BoardTypeOK
<1>2. ClicksOK' /\ LoneClickOK' /\ ReadPicksOK'
  BY DEF ClicksOK, LoneClickOK, ReadPicksOK
<1>3. QuietTrackIsStored'
  BY DEF QuietTrackIsStored, Touched
<1>4. GateOK'
  BY DEF GateOK, Unwritten
<1> QED BY <1>1, <1>2, <1>3, <1>4

LEMMA BoardStep == BoardInv /\ [BoardNext]_boardVars => BoardInv'
<1> SUFFICES ASSUME BoardInv, [BoardNext]_boardVars
             PROVE  BoardInv'
    OBVIOUS
<1>1. ASSUME NEW k \in Concepts, Offer(k) \/ TogglePick(k)
      PROVE  BoardInv'
  BY <1>1, OfferKeepsBoard, TogglePickKeepsBoard
<1>2. ASSUME NEW c \in requests, HearAnswer(c)
      PROVE  BoardInv'
  BY <1>2, HearAnswerKeepsBoard
<1>3. ASSUME NEW c \in requests,
             ReadPicks(c) \/ CheckPicks(c) \/ WritePicks(c) \/ Recheck(c) \/ PickFails(c)
      PROVE  BoardInv'
  BY <1>3, PicksRouteKeepsBoard
<1>4. CASE Reopen
  BY <1>4, ReopenKeepsBoard
<1>5. CASE PostReview \/ ReadRowForReview \/ EnterReview \/ ReviewFails
  BY <1>5, ContinueKeepsBoard
<1>6. CASE UNCHANGED boardVars
  BY <1>6 DEF BoardInv, BoardTypeOK, ClicksOK, LoneClickOK, ReadPicksOK, QuietTrackIsStored, GateOK,
              boardVars, countVars, Touched, Unwritten
<1> QED BY <1>1, <1>2, <1>3, <1>4, <1>5, <1>6 DEF BoardNext

LEMMA BoardInductive == BoardSpec => []BoardInv
<1> QED BY BoardInitInv, BoardStep, PTL DEF BoardSpec

\* The row has the picks the board shows of every quiet track, whatever tracks, concepts
\* and clicks there are, and however often the route fails (togglePick, the picks route).
THEOREM QuietTrackIsStoredHolds == BoardSpec => []QuietTrackIsStored
<1>1. BoardInv => QuietTrackIsStored
  BY DEF BoardInv
<1> QED BY <1>1, BoardInductive, PTL

\* Review has a pick in every track, or a click came late (advanceFromIdeation).
THEOREM ReviewHasPicksHolds == BoardSpec => []ReviewHasPicks
<1>1. BoardInv => ReviewHasPicks
  BY DEF BoardInv, BoardTypeOK, GateOK, ReviewHasPicks
<1> QED BY <1>1, BoardInductive, PTL

-----------------------------------------------------------------------------
(* The form of the draft.                                                  *)

Edit == [part : Parts, content : Nat]
Save == [at : {"sent", "loaded", "checked", "stored", "refused"}, part : Parts,
         content : Nat, read : [Parts -> Nat]]
Advance == [at : {"none", "posted", "read", "minted"}, read : [Parts -> Nat],
            page : [Parts -> Nat], rested : SUBSET Parts]

FormTypeOK ==
  /\ edits \in Nat /\ saveFaults \in Nat
  /\ shown \in [Parts -> Nat] /\ draft \in [Parts -> Nat]
  /\ sound \subseteq Parts /\ unsure \subseteq Parts
  /\ timer \in Edit \cup {Nothing}
  /\ saves \subseteq Save
  /\ advance \in Advance

\* A content is the number of an edit that was made.
WithinEdits ==
  /\ \A p \in Parts : shown[p] <= edits /\ draft[p] <= edits
  /\ \A s \in saves : s.content <= edits /\ \A p \in Parts : s.read[p] <= edits
  /\ timer # Nothing => timer.content <= edits

\* A save of a part that is not in doubt is the only one there is; it has what the page
\* shows, unless that was edited since, and once it is stored the draft has it.
LoneSaveOK ==
  \A s \in saves : s.part \notin unsure =>
    /\ saves = {s}
    /\ s.part \in sound /\ s.part \notin Waiting => s.content = shown[s.part]
    /\ s.at = "stored" => draft[s.part] = s.content

\* What a save will write back of the other parts is what the draft has.
ReadDraftOK ==
  \A s \in saves : s.at \in {"loaded", "checked"} =>
    \A q \in Parts \ (unsure \cup {s.part}) : s.read[q] = draft[q]

AllRestedStored == \A p \in Rested : draft[p] = shown[p]

\* Of a part at rest when Continue was clicked, whatever is on its way is at least as
\* late as what the page showed.
NoOlder(p) ==
  /\ advance.page[p] <= edits
  /\ draft[p] >= advance.page[p]
  /\ \A s \in saves : s.part = p => s.content >= advance.page[p]
  /\ \A s \in saves : s.at \in {"loaded", "checked"} => s.read[p] >= advance.page[p]
  /\ timer # Nothing => (timer.part = p => timer.content >= advance.page[p])

AdvanceOK ==
  \A p \in advance.rested :
    /\ advance.at = "posted" => NoOlder(p)
    /\ advance.at \in {"read", "minted"} => advance.read[p] >= advance.page[p]

FormInv ==
  /\ FormTypeOK
  /\ WithinEdits
  /\ LoneSaveOK
  /\ ReadDraftOK
  /\ AllRestedStored
  /\ AdvanceOK

LEMMA FormInitInv == FormInit => FormInv
<1> SUFFICES ASSUME FormInit
             PROVE  FormInv
    OBVIOUS
<1> USE DEF FormInit
<1>1. /\ FormTypeOK
      /\ \A p \in Parts : draft[p] <= 1
  BY DEF FormTypeOK, Blank, NoAdvance, Advance, Present
<1>2. WithinEdits
  BY <1>1 DEF WithinEdits
<1>3. LoneSaveOK /\ ReadDraftOK /\ AllRestedStored /\ AdvanceOK
  BY DEF LoneSaveOK, ReadDraftOK, AllRestedStored, AdvanceOK, NoAdvance, Blank
<1> QED BY <1>1, <1>2, <1>3 DEF FormInv

\* What a step leaves alone when it is not about the database or Continue.
OnlyPage == UNCHANGED <<draft, advance, saveFaults>>

\* An edit that is not saved at once: its part is in doubt, does not validate or waits
\* behind the debounce, and no other part is less in doubt than before.
LEMMA EditKeepsForm ==
  ASSUME FormInv, NEW p \in Parts, OnlyPage, saves' = saves,
         edits' = edits + 1, shown' = [shown EXCEPT ![p] = edits + 1],
         sound' \subseteq sound \cup {p}, unsure \subseteq unsure', unsure' \subseteq Parts,
         timer' = timer \/ timer' = [part |-> p, content |-> edits + 1],
         p \in unsure' \/ p \notin sound' \/ p \in Waiting',
         Waiting \subseteq Waiting' \cup unsure' \cup {p}
  PROVE  FormInv'
<1> USE DEF OnlyPage
<1>0. FormTypeOK
  BY DEF FormInv
<1>1. FormTypeOK'
  BY <1>0 DEF FormTypeOK, Edit
<1>2. WithinEdits'
  <2>1. \A q \in Parts : shown'[q] <= edits' /\ draft'[q] <= edits'
    BY <1>0 DEF FormInv, FormTypeOK, WithinEdits
  <2>2. \A s \in saves' : s.content <= edits' /\ \A q \in Parts : s.read[q] <= edits'
    BY <1>0 DEF FormInv, FormTypeOK, WithinEdits, Save
  <2>3. timer' # Nothing => timer'.content <= edits'
    BY <1>0 DEF FormInv, FormTypeOK, WithinEdits, Edit
  <2> QED BY <2>1, <2>2, <2>3 DEF WithinEdits
<1>3. \A q \in Parts : q \notin unsure' /\ q \in sound' /\ q \notin Waiting' =>
        q # p /\ q \in sound /\ q \notin Waiting /\ shown'[q] = shown[q]
  BY <1>0 DEF FormTypeOK
<1>4. LoneSaveOK'
  BY <1>0, <1>3 DEF FormInv, FormTypeOK, LoneSaveOK, Save
<1>5. ReadDraftOK'
  BY DEF FormInv, ReadDraftOK
<1>6. AllRestedStored'
  BY <1>0, <1>3 DEF FormInv, FormTypeOK, AllRestedStored, Rested, Flying
<1>7. AdvanceOK'
  <2> SUFFICES ASSUME NEW q \in advance.rested, advance.at = "posted"
               PROVE  NoOlder(q)'
      BY DEF FormInv, AdvanceOK
  <2>1. NoOlder(q) /\ q \in Parts /\ advance.page[q] \in Nat
    BY <1>0 DEF FormInv, AdvanceOK, FormTypeOK, Advance
  <2> QED BY <1>0, <2>1 DEF NoOlder, FormTypeOK
<1> QED BY <1>1, <1>2, <1>4, <1>5, <1>6, <1>7 DEF FormInv

LEMMA UnsentEditKeepsForm ==
  ASSUME FormInv, (\E p \in Parts : EditUnsaved(p) \/ EditDebounced(p)) \/ EditRows
  PROVE  FormInv'
<1> USE DEF OnlyPage, Type, Waiting
<1>0. FormTypeOK
  BY DEF FormInv
<1>1. ASSUME NEW p \in Parts, EditUnsaved(p)
      PROVE  FormInv'
  BY <1>0, <1>1, EditKeepsForm DEF EditUnsaved, FormTypeOK
<1>2. CASE EditRows
  <2>1. "video" \in Parts
    BY DEF Parts, Payloads
  <2> QED BY <1>0, <1>2, <2>1, EditKeepsForm DEF EditRows, FormTypeOK
<1>3. ASSUME NEW p \in Parts, EditDebounced(p)
      PROVE  FormInv'
  <2>1. timer' = [part |-> p, content |-> edits + 1] /\ timer' # Nothing /\ Waiting' = {p}
    BY <1>0, <1>3, FormAssumption DEF EditDebounced, FormTypeOK
  <2>2. Waiting \subseteq Parts
    BY <1>0 DEF FormTypeOK, Edit
  <2> QED BY <1>0, <1>3, <2>1, <2>2, EditKeepsForm DEF EditDebounced, FormTypeOK
<1> QED BY <1>1, <1>2, <1>3

LEMMA PartsFinite == IsFiniteSet(Parts)
<1>1. Parts = ((({} \cup {"format"}) \cup {"client"}) \cup {"image"}) \cup {"video"}
  BY DEF Parts, Columns, Payloads
<1> QED BY <1>1, FS_EmptySet, FS_AddElement

\* What Send adds to the saves in flight.
LEMMA Sent ==
  ASSUME NEW ps \in SUBSET Parts, NEW n \in Nat, Send(ps, n)
  PROVE  /\ \A s \in saves' : \/ s \in saves
                              \/ /\ s \in Save /\ s.at = "sent" /\ s.part \in ps
                                 /\ s.content = n /\ s.read = Blank
         /\ saves \subseteq saves'
         /\ Flying' = Flying \cup ps
         /\ saves = {} /\ Cardinality(ps) = 1 => \A s \in saves' : saves' = {s}
<1> DEFINE new(p) == [at |-> "sent", part |-> p, content |-> n, read |-> Blank]
<1>1. saves' = saves \cup {new(p) : p \in ps}
  BY DEF Send
<1>2. \A p \in ps : /\ new(p) \in Save /\ new(p).at = "sent" /\ new(p).part = p
                     /\ new(p).content = n /\ new(p).read = Blank
  BY DEF Save, Blank
<1> HIDE DEF new
<1>3. \A s \in saves' : s \in saves \/ \E p \in ps : s = new(p)
  BY <1>1
<1>4. Flying' = Flying \cup ps
  BY <1>1, <1>2 DEF Flying
<1>5. ASSUME saves = {}, Cardinality(ps) = 1, NEW s \in saves'
      PROVE  saves' = {s}
  <2>1. IsFiniteSet(ps)
    BY PartsFinite, FS_Subset
  <2>2. PICK p : ps = {p}
    BY <1>5, <2>1, FS_Singleton
  <2>3. saves' = {new(p)}
    BY <1>1, <1>5, <2>2
  <2> QED BY <2>3
<1> QED BY <1>1, <1>2, <1>3, <1>4, <1>5

\* Saves are sent: of one part alone, with what the page shows, or all in doubt.
LEMMA SendKeepsForm ==
  ASSUME FormInv, OnlyPage, NEW ps \in SUBSET Parts, NEW n \in Nat, Send(ps, n),
         edits' \in Nat, edits <= edits', n <= edits',
         shown' \in [Parts -> Nat], \A p \in Parts : shown'[p] <= edits',
         \A p \in Parts \ (ps \cup unsure') : shown'[p] = shown[p],
         sound' \subseteq Parts, sound' \ (sound \cup ps) \subseteq unsure',
         timer' = Nothing, Waiting \ ps \subseteq unsure', unsure' \subseteq Parts,
         \/ /\ saves = {} /\ Cardinality(ps) = 1 /\ unsure \ ps \subseteq unsure'
            /\ \A p \in ps : shown'[p] = n
         \/ unsure \cup ps \cup Flying \subseteq unsure',
         \A p \in ps : advance.at = "posted" /\ p \in advance.rested => n >= advance.page[p]
  PROVE  FormInv'
<1> USE DEF OnlyPage
<1>0. FormTypeOK
  BY DEF FormInv
<1>a. \A s \in saves' : \/ s \in saves
                        \/ /\ s \in Save /\ s.at = "sent" /\ s.part \in ps
                           /\ s.content = n /\ s.read = Blank
  BY Sent
<1>b. Flying' = Flying \cup ps
  BY Sent
<1>c. saves = {} /\ Cardinality(ps) = 1 => \A s \in saves' : saves' = {s}
  BY Sent
<1>d. Waiting' = {}
  BY DEF Waiting
<1>1. FormTypeOK'
  BY <1>0, <1>a DEF FormTypeOK
<1>2. WithinEdits'
  <2>1. \A q \in Parts : shown'[q] <= edits' /\ draft'[q] <= edits'
    BY <1>0 DEF FormInv, FormTypeOK, WithinEdits
  <2>2. \A s \in saves' : s.content <= edits' /\ \A q \in Parts : s.read[q] <= edits'
    BY <1>0, <1>a DEF FormInv, FormTypeOK, WithinEdits, Save, Blank
  <2> QED BY <2>1, <2>2 DEF WithinEdits
<1>3. LoneSaveOK'
  <2> SUFFICES ASSUME NEW s \in saves', s.part \notin unsure'
               PROVE  /\ saves' = {s}
                      /\ s.part \in sound' /\ s.part \notin Waiting' => s.content = shown'[s.part]
                      /\ s.at = "stored" => draft'[s.part] = s.content
      BY DEF LoneSaveOK
  <2>1. s.part \in Flying \cup ps
    BY <1>b DEF Flying
  <2>2. saves = {} /\ Cardinality(ps) = 1 /\ \A p \in ps : shown'[p] = n
    BY <2>1
  <2> QED BY <1>a, <1>c, <2>2
<1>4. ReadDraftOK'
  <2> SUFFICES ASSUME NEW s \in saves', s.at \in {"loaded", "checked"},
                      NEW q \in Parts \ (unsure' \cup {s.part})
               PROVE  s.read[q] = draft'[q]
      BY DEF ReadDraftOK
  <2>1. s \in saves
    BY <1>a
  <2>2. unsure \subseteq unsure'
    BY <2>1
  <2> QED BY <2>1, <2>2 DEF FormInv, ReadDraftOK
<1>5. AllRestedStored'
  <2> SUFFICES ASSUME NEW q \in Rested'
               PROVE  draft'[q] = shown'[q]
      BY DEF AllRestedStored
  <2>1. q \notin ps /\ q \notin Flying /\ q \notin Waiting /\ q \notin unsure /\ q \in sound
        /\ q \notin unsure'
    BY <1>b DEF Rested
  <2>2. q \in Rested /\ q \in Parts
    BY <1>0, <2>1 DEF Rested, FormTypeOK
  <2> QED BY <2>1, <2>2 DEF FormInv, AllRestedStored
<1>6. AdvanceOK'
  <2> SUFFICES ASSUME NEW q \in advance.rested, advance.at = "posted"
               PROVE  NoOlder(q)'
      BY DEF FormInv, AdvanceOK
  <2>1. NoOlder(q) /\ q \in Parts /\ advance.page[q] \in Nat
    BY <1>0 DEF FormInv, AdvanceOK, FormTypeOK, Advance
  <2> QED BY <1>0, <1>a, <2>1 DEF NoOlder, FormTypeOK
<1> QED BY <1>1, <1>2, <1>3, <1>4, <1>5, <1>6 DEF FormInv

LEMMA SentEditKeepsForm ==
  ASSUME FormInv, \/ PickFormat
                  \/ \E ps, good \in SUBSET Payloads : Propose(ps, good)
                  \/ Fire
  PROVE  FormInv'
<1> USE DEF OnlyPage
<1>0. FormTypeOK /\ WithinEdits
  BY DEF FormInv
<1>1. Waiting \subseteq Parts
  BY <1>0 DEF FormTypeOK, Waiting, Edit
<1>2. Flying \subseteq Parts
  BY <1>0 DEF FormTypeOK, Flying, Save
<1>3. \A ps \in SUBSET Parts : Doubts(ps) \subseteq Parts
  BY <1>0, <1>2 DEF Doubts, FormTypeOK
<1>4. \A p \in Parts : advance.at = "posted" /\ p \in advance.rested => edits + 1 >= advance.page[p]
  BY <1>0 DEF FormInv, AdvanceOK, NoOlder, FormTypeOK, Advance
<1>5. ASSUME PickFormat
      PROVE  FormInv'
  <2> DEFINE n == edits + 1
             p == "format"
  <2>0. p \in Parts
    BY DEF Parts, Columns
  <2>1. /\ Send({p}, n) /\ edits' = n /\ shown' = [shown EXCEPT ![p] = n] /\ sound' = sound
        /\ timer' = Nothing /\ unsure' = Doubts({p}) \cup (Waiting \ {p}) /\ OnlyPage
    BY <1>5 DEF PickFormat, Type
  <2>2. n \in Nat /\ edits <= n /\ edits' \in Nat /\ n <= edits'
    BY <1>0, <2>1 DEF FormTypeOK
  <2>3. /\ shown' \in [Parts -> Nat] /\ \A q \in Parts : shown'[q] <= edits'
        /\ \A q \in Parts \ {p} : shown'[q] = shown[q]
        /\ \A q \in {p} : shown'[q] = n
    BY <1>0, <2>0, <2>1 DEF FormTypeOK, WithinEdits
  <2>4. {p} \in SUBSET Parts /\ unsure' \subseteq Parts /\ sound' \subseteq Parts
    BY <1>0, <1>1, <1>3, <2>0, <2>1 DEF FormTypeOK
  <2>5. \/ saves = {} /\ Cardinality({p}) = 1 /\ unsure \ {p} \subseteq unsure'
        \/ unsure \cup {p} \cup Flying \subseteq unsure'
    BY <2>1 DEF Doubts
  <2>6. \A q \in {p} : advance.at = "posted" /\ q \in advance.rested => n >= advance.page[q]
    BY <1>4, <2>0
  <2> HIDE DEF n, p
  <2> QED BY <2>1, <2>2, <2>3, <2>4, <2>5, <2>6, SendKeepsForm
<1>6. ASSUME NEW qs \in SUBSET Payloads, NEW good \in SUBSET Payloads, Propose(qs, good)
      PROVE  FormInv'
  <2> DEFINE n == edits + 1
             ps == {"format"} \cup {p \in good : Saveable(p)}
  <2>1. /\ Send(ps, n) /\ edits' = n /\ sound' = (sound \ qs) \cup good
        /\ shown' = [p \in Parts |-> IF p \in qs \cup {"format"} THEN n ELSE shown[p]]
        /\ timer' = Nothing /\ unsure' = Doubts(ps) \cup ((Waiting \cup qs) \ ps) /\ OnlyPage
        /\ good \subseteq qs
    BY <1>6 DEF Propose
  <2>2. n \in Nat /\ edits <= n /\ edits' \in Nat /\ n <= edits'
    BY <1>0, <2>1 DEF FormTypeOK
  <2>3. ps \in SUBSET Parts /\ ps \subseteq qs \cup {"format"}
    BY <2>1 DEF Parts, Columns
  <2>4. /\ shown' \in [Parts -> Nat] /\ \A q \in Parts : shown'[q] <= edits'
        /\ \A q \in Parts \ (ps \cup unsure') : shown'[q] = shown[q]
        /\ \A q \in ps : shown'[q] = n
    BY <1>0, <2>1, <2>3 DEF FormTypeOK, WithinEdits
  <2>5. unsure' \subseteq Parts /\ sound' \subseteq Parts
    BY <1>0, <1>1, <1>3, <2>1, <2>3 DEF FormTypeOK, Parts
  <2>6. \/ saves = {} /\ Cardinality(ps) = 1 /\ unsure \ ps \subseteq unsure'
        \/ unsure \cup ps \cup Flying \subseteq unsure'
    BY <2>1 DEF Doubts
  <2>7. \A q \in ps : advance.at = "posted" /\ q \in advance.rested => n >= advance.page[q]
    BY <1>4, <2>3
  <2>8. Waiting \ ps \subseteq unsure' /\ sound' \ (sound \cup ps) \subseteq unsure'
    BY <2>1
  <2> HIDE DEF n, ps
  <2> QED BY <2>1, <2>2, <2>3, <2>4, <2>5, <2>6, <2>7, <2>8, SendKeepsForm
<1>7. ASSUME Fire
      PROVE  FormInv'
  <2> DEFINE p == timer.part
             n == timer.content
  <2>1. /\ timer # Nothing /\ Send({p}, n) /\ timer' = Nothing
        /\ UNCHANGED <<edits, shown, sound>> /\ OnlyPage
        /\ unsure' = IF shown[p] = n THEN Doubts({p}) ELSE unsure \cup {p} \cup Flying
    BY <1>7 DEF Fire
  <2>2. p \in Parts /\ n \in Nat /\ n <= edits /\ Waiting = {p}
    BY <1>0, <2>1 DEF FormTypeOK, WithinEdits, Edit, Waiting
  <2>3. {p} \in SUBSET Parts /\ unsure' \subseteq Parts
    BY <1>0, <1>2, <1>3, <2>1, <2>2 DEF FormTypeOK
  <2>4. \/ /\ saves = {} /\ Cardinality({p}) = 1 /\ unsure \ {p} \subseteq unsure'
           /\ \A q \in {p} : shown'[q] = n
        \/ unsure \cup {p} \cup Flying \subseteq unsure'
    BY <2>1 DEF Doubts
  <2>5. \A q \in {p} : advance.at = "posted" /\ q \in advance.rested => n >= advance.page[q]
    BY <2>1 DEF FormInv, AdvanceOK, NoOlder
  <2>6. edits' \in Nat /\ edits <= edits' /\ n <= edits' /\ shown' \in [Parts -> Nat]
        /\ \A q \in Parts : shown'[q] <= edits'
        /\ sound' \subseteq Parts
    BY <1>0, <2>1, <2>2 DEF FormTypeOK, WithinEdits
  <2> HIDE DEF p, n
  <2> QED BY <2>1, <2>2, <2>3, <2>4, <2>5, <2>6, SendKeepsForm
<1> QED BY <1>5, <1>6, <1>7

LEMMA ReloadKeepsForm ==
  ASSUME FormInv, Reload
  PROVE  FormInv'
<1>0. /\ shown' = draft /\ sound' \subseteq Parts /\ timer' = Nothing
      /\ unsure' = IF saves = {} THEN {} ELSE unsure \cup Flying
      /\ UNCHANGED <<edits, saves, draft, advance, saveFaults>>
  BY DEF Reload, Present
<1>1. FormTypeOK /\ \A s \in saves : s.part \in Flying
  BY DEF FormInv, Flying
<1>2. FormTypeOK'
  BY <1>0, <1>1 DEF FormTypeOK, Flying, Save
<1>3. WithinEdits'
  BY <1>0 DEF FormInv, WithinEdits
<1>4. LoneSaveOK' /\ ReadDraftOK'
  BY <1>0, <1>1 DEF FormInv, LoneSaveOK, ReadDraftOK
<1>5. AllRestedStored'
  BY <1>0 DEF AllRestedStored
<1>6. AdvanceOK'
  BY <1>0 DEF FormInv, AdvanceOK, NoOlder
<1> QED BY <1>2, <1>3, <1>4, <1>5, <1>6 DEF FormInv

\* A save ends: what it stored is what the page shows, or its part is in doubt.
LEMMA AnswerKeepsForm ==
  ASSUME FormInv, NEW s \in saves, Hear(s) \/ Vanish(s)
  PROVE  FormInv'
<1>0. /\ saves' = saves \ {s}
      /\ UNCHANGED <<edits, shown, sound, timer, draft, advance, saveFaults>>
      /\ unsure' = unsure \/ unsure' = unsure \cup {s.part}
      /\ s.at = "stored" \/ s.part \in unsure'
  BY DEF Hear, Vanish, pageVars
<1>1. FormTypeOK /\ s \in Save
  BY DEF FormInv, FormTypeOK
<1>2. FormTypeOK'
  BY <1>0, <1>1 DEF FormTypeOK, Save
<1>3. WithinEdits' /\ ReadDraftOK'
  BY <1>0 DEF FormInv, WithinEdits, ReadDraftOK
<1>4. LoneSaveOK'
  BY <1>0 DEF FormInv, LoneSaveOK, Waiting
<1>5. AllRestedStored'
  <2> SUFFICES ASSUME NEW q \in Rested'
               PROVE  draft'[q] = shown'[q]
      BY DEF AllRestedStored
  <2>1. q \in sound /\ q \notin unsure /\ q \notin unsure' /\ q \notin Waiting
    BY <1>0 DEF Rested, Waiting
  <2>2. q \in Flying => q = s.part
    BY <1>0 DEF Rested, Flying
  <2>3. CASE q = s.part
    BY <1>0, <2>1, <2>3 DEF FormInv, LoneSaveOK
  <2>4. CASE q \notin Flying
    BY <1>0, <2>1, <2>4 DEF FormInv, AllRestedStored, Rested
  <2> QED BY <2>2, <2>3, <2>4
<1>6. AdvanceOK'
  BY <1>0 DEF FormInv, AdvanceOK, NoOlder
<1> QED BY <1>2, <1>3, <1>4, <1>5, <1>6 DEF FormInv

\* A save at work on the server, from one place to the next.
AtWork(s, t) ==
  /\ Becomes(s, t) /\ t \in Save /\ t.part = s.part /\ t.content = s.content
  /\ UNCHANGED <<edits, shown, sound, timer, advance, unsure>>
  /\ saveFaults' \in Nat

LEMMA AtWorkSaves ==
  ASSUME NEW s \in saves, NEW t, AtWork(s, t)
  PROVE  /\ \A r \in saves' : r = t \/ (r \in saves /\ r # s)
         /\ Flying' = Flying
         /\ saves = {s} => saves' = {t}
         /\ Waiting' = Waiting
         /\ Rested' = Rested
<1>1. \A r \in saves' : r = t \/ (r \in saves /\ r # s)
  BY DEF AtWork, Becomes
<1>2. t \in saves' /\ t.part = s.part /\ saves \ {s} \subseteq saves'
  BY DEF AtWork, Becomes
<1>3. Flying' = Flying
  <2>1. \A r \in saves : r.part \in Flying'
    BY <1>2 DEF Flying
  <2>2. \A r \in saves' : r.part \in Flying
    BY <1>1, <1>2 DEF Flying
  <2> QED BY <2>1, <2>2 DEF Flying
<1>4. Waiting' = Waiting
  BY DEF AtWork, Waiting
<1> QED BY <1>1, <1>3, <1>4 DEF AtWork, Becomes, Rested

\* A step of the route that does not write.
LEMMA SaveStepKeepsForm ==
  ASSUME FormInv, NEW s \in saves, NEW t, AtWork(s, t), draft' = draft,
         t.at # "stored",
         t.at \in {"loaded", "checked"} =>
           t.read = draft \/ (s.at \in {"loaded", "checked"} /\ t.read = s.read),
         t.read = draft \/ t.read = s.read \/ t.read = Blank
  PROVE  FormInv'
<1>0. FormTypeOK
  BY DEF FormInv
<1>a. \A r \in saves' : r = t \/ (r \in saves /\ r # s)
  BY AtWorkSaves
<1>1. FormTypeOK'
  BY <1>0, <1>a DEF FormTypeOK, AtWork
<1>2. WithinEdits'
  BY <1>0, <1>a DEF FormInv, FormTypeOK, WithinEdits, AtWork, Blank
<1>3. LoneSaveOK'
  BY <1>a, AtWorkSaves DEF FormInv, LoneSaveOK, AtWork
<1>4. ReadDraftOK'
  BY <1>a DEF FormInv, ReadDraftOK, AtWork
<1>5. AllRestedStored'
  BY AtWorkSaves DEF FormInv, AllRestedStored, AtWork
<1>6. AdvanceOK'
  <2> SUFFICES ASSUME NEW q \in advance.rested, advance.at = "posted"
               PROVE  NoOlder(q)'
      BY DEF FormInv, AdvanceOK, AtWork
  <2>1. NoOlder(q)
    BY DEF FormInv, AdvanceOK
  <2> QED BY <1>a, <2>1 DEF NoOlder, AtWork
<1> QED BY <1>1, <1>2, <1>3, <1>4, <1>5, <1>6 DEF FormInv

\* The step that writes, whatever is answered.
LEMMA MergeKeepsForm ==
  ASSUME FormInv, NEW s \in saves, NEW t, AtWork(s, t), s.at = "checked",
         t.at \in {"stored", "refused"}, t.read = Blank, draft' = Merged(s)
  PROVE  FormInv'
<1>0. FormTypeOK /\ s \in Save
  BY DEF FormInv, FormTypeOK
<1>a. \A r \in saves' : r = t \/ (r \in saves /\ r # s)
  BY AtWorkSaves
<1>b. /\ draft' \in [Parts -> Nat] /\ draft'[s.part] = s.content
      /\ \A q \in Parts : q # s.part => draft'[q] \in {s.read[q], draft[q]}
  BY <1>0 DEF Merged, Save, FormTypeOK
<1>c. \A q \in Parts \ unsure : q # s.part => draft'[q] = draft[q]
  BY <1>b DEF FormInv, ReadDraftOK
<1>1. FormTypeOK'
  BY <1>0, <1>a, <1>b DEF FormTypeOK, AtWork
<1>2. WithinEdits'
  BY <1>0, <1>a, <1>b DEF FormInv, FormTypeOK, WithinEdits, AtWork, Save, Blank
<1>d. \A r \in saves' : r # t => r.part \in unsure /\ s.part \in unsure
  BY <1>a DEF FormInv, LoneSaveOK
<1>3. LoneSaveOK'
  BY <1>a, <1>b, <1>d, AtWorkSaves DEF FormInv, LoneSaveOK, AtWork
<1>4. ReadDraftOK'
  BY <1>a, <1>c, <1>d DEF FormInv, ReadDraftOK, AtWork
<1>5. AllRestedStored'
  <2>1. s.part \notin Rested
    BY DEF Rested, Flying
  <2> QED BY <1>0, <1>c, <2>1, AtWorkSaves DEF FormInv, AllRestedStored, AtWork, Rested, FormTypeOK
<1>6. AdvanceOK'
  <2> SUFFICES ASSUME NEW q \in advance.rested, advance.at = "posted"
               PROVE  NoOlder(q)'
      BY DEF FormInv, AdvanceOK, AtWork
  <2>1. NoOlder(q) /\ q \in Parts
    BY <1>0 DEF FormInv, AdvanceOK, FormTypeOK, Advance
  <2> QED BY <1>a, <1>b, <2>1 DEF NoOlder, AtWork
<1> QED BY <1>1, <1>2, <1>3, <1>4, <1>5, <1>6 DEF FormInv

LEMMA ConfigRouteKeepsForm ==
  ASSUME FormInv, NEW s \in saves, ReadDraft(s) \/ CheckStage(s) \/ WriteDraft(s) \/ SaveFails(s)
  PROVE  FormInv'
<1> DEFINE went(at) == [s EXCEPT !.at = at, !.read = IF at = "checked" THEN @ ELSE Blank]
           loaded == [s EXCEPT !.at = "loaded", !.read = draft]
<1>1. s \in Save /\ draft \in [Parts -> Nat] /\ saveFaults \in Nat
  BY DEF FormInv, FormTypeOK
<1>2. loaded \in Save /\ loaded.at = "loaded" /\ loaded.read = draft /\ loaded.part = s.part
      /\ loaded.content = s.content
  BY <1>1 DEF Save
<1>3. \A at \in {"checked", "stored", "refused"} :
        /\ went(at) \in Save /\ went(at).at = at
        /\ went(at).read = IF at = "checked" THEN s.read ELSE Blank
        /\ went(at).part = s.part /\ went(at).content = s.content
  BY <1>1 DEF Save, Blank
<1> USE DEF AtWork, pageVars
<1>4. CASE ReadDraft(s)
  <2>1. AtWork(s, loaded) /\ draft' = draft
    BY <1>1, <1>2, <1>4 DEF ReadDraft
  <2> HIDE DEF loaded
  <2> QED BY <1>2, <2>1, SaveStepKeepsForm
<1>5. CASE CheckStage(s)
  <2>1. PICK at \in {"checked", "refused"} : Becomes(s, went(at))
    BY <1>5 DEF CheckStage, Place
  <2>2. s.at = "loaded" /\ AtWork(s, went(at)) /\ draft' = draft
    BY <1>1, <1>3, <1>5, <2>1 DEF CheckStage
  <2> HIDE DEF went
  <2> QED BY <1>3, <2>2, SaveStepKeepsForm
<1>6. CASE WriteDraft(s)
  <2>1. s.at = "checked" /\ AtWork(s, went("stored")) /\ draft' = Merged(s)
    BY <1>1, <1>3, <1>6 DEF WriteDraft, Place
  <2> HIDE DEF went
  <2> QED BY <1>3, <2>1, MergeKeepsForm
<1>7. CASE SaveFails(s)
  <2>1. /\ AtWork(s, went("refused"))
        /\ draft' = draft \/ (s.at = "checked" /\ draft' = Merged(s))
    BY <1>1, <1>3, <1>7 DEF SaveFails, Place
  <2> HIDE DEF went
  <2>2. CASE draft' = draft
    BY <1>3, <2>1, <2>2, SaveStepKeepsForm
  <2>3. CASE s.at = "checked" /\ draft' = Merged(s)
    BY <1>3, <2>1, <2>3, MergeKeepsForm
  <2> QED BY <2>1, <2>2, <2>3
<1> QED BY <1>4, <1>5, <1>6, <1>7

LEMMA AdvanceKeepsForm ==
  ASSUME FormInv, PressContinue \/ ReadForAdvance \/ Mint \/ Refuse
  PROVE  FormInv'
<1>0. /\ UNCHANGED <<edits, shown, sound, timer, saves, draft, saveFaults, unsure>>
      /\ FormTypeOK
  BY DEF PressContinue, ReadForAdvance, Mint, Refuse, pageVars, FormInv
<1>1. WithinEdits' /\ LoneSaveOK' /\ ReadDraftOK' /\ AllRestedStored'
  BY <1>0 DEF FormInv, WithinEdits, LoneSaveOK, ReadDraftOK, AllRestedStored, Rested, Flying, Waiting
<1>2. NoAdvance \in Advance
  BY DEF NoAdvance, Advance, Blank
<1>3. CASE PressContinue
  <2>1. /\ advance' \in Advance /\ advance'.at = "posted" /\ advance'.page = shown
        /\ advance'.rested = Rested
    BY <1>0, <1>2, <1>3 DEF PressContinue, NoAdvance, Advance, FormTypeOK, Rested
  <2>2. \A p \in Rested : p \in Parts /\ p \notin unsure /\ draft[p] = shown[p]
                          /\ shown[p] \in Nat /\ shown[p] <= edits
    BY <1>0 DEF FormInv, FormTypeOK, AllRestedStored, WithinEdits, Rested
  <2>3. \A p \in Rested, s \in saves : s.part # p
    BY DEF Rested, Flying
  <2>4. \A p \in Rested, s \in saves : s.at \in {"loaded", "checked"} => s.read[p] = draft[p]
    BY <2>2, <2>3 DEF FormInv, ReadDraftOK
  <2>5. \A p \in Rested : timer # Nothing => timer.part # p
    BY DEF Rested, Waiting
  <2>6. \A p \in Rested : NoOlder(p)'
    BY <1>0, <2>1, <2>2, <2>3, <2>4, <2>5 DEF NoOlder
  <2>7. AdvanceOK'
    BY <2>1, <2>6 DEF AdvanceOK
  <2>8. FormTypeOK'
    BY <1>0, <2>1 DEF FormTypeOK
  <2> QED BY <1>1, <2>7, <2>8 DEF FormInv
<1>4. CASE ReadForAdvance
  <2>1. /\ advance.at = "posted" /\ advance' \in Advance /\ advance'.at = "read"
        /\ advance'.read = draft /\ advance'.page = advance.page
        /\ advance'.rested = advance.rested
    BY <1>0, <1>4 DEF ReadForAdvance, Advance, FormTypeOK
  <2>2. AdvanceOK'
    BY <2>1 DEF FormInv, AdvanceOK, NoOlder
  <2>3. FormTypeOK'
    BY <1>0, <2>1 DEF FormTypeOK
  <2> QED BY <1>1, <2>2, <2>3 DEF FormInv
<1>5. CASE Mint
  <2>1. /\ advance.at = "read" /\ advance' \in Advance /\ advance'.at = "minted"
        /\ advance'.read = advance.read /\ advance'.page = advance.page
        /\ advance'.rested = advance.rested
    BY <1>0, <1>5 DEF Mint, Advance, FormTypeOK
  <2>2. AdvanceOK'
    BY <2>1 DEF FormInv, AdvanceOK
  <2>3. FormTypeOK'
    BY <1>0, <2>1 DEF FormTypeOK
  <2> QED BY <1>1, <2>2, <2>3 DEF FormInv
<1>6. CASE Refuse
  <2>1. AdvanceOK' /\ FormTypeOK'
    BY <1>0, <1>2, <1>6 DEF Refuse, AdvanceOK, NoAdvance, FormTypeOK
  <2> QED BY <1>1, <2>1 DEF FormInv
<1> QED BY <1>3, <1>4, <1>5, <1>6

LEMMA FormStep == FormInv /\ [FormNext]_formVars => FormInv'
<1> SUFFICES ASSUME FormInv, [FormNext]_formVars
             PROVE  FormInv'
    OBVIOUS
<1>1. CASE (\E p \in Parts : EditUnsaved(p) \/ EditDebounced(p)) \/ EditRows
  BY <1>1, UnsentEditKeepsForm
<1>2. CASE \/ PickFormat
           \/ \E ps, good \in SUBSET Payloads : Propose(ps, good)
           \/ Fire
  BY <1>2, SentEditKeepsForm
<1>3. CASE Reload
  BY <1>3, ReloadKeepsForm
<1>4. ASSUME NEW s \in saves, Hear(s) \/ Vanish(s)
      PROVE  FormInv'
  BY <1>4, AnswerKeepsForm
<1>5. ASSUME NEW s \in saves, ReadDraft(s) \/ CheckStage(s) \/ WriteDraft(s) \/ SaveFails(s)
      PROVE  FormInv'
  BY <1>5, ConfigRouteKeepsForm
<1>6. CASE PressContinue \/ ReadForAdvance \/ Mint \/ Refuse
  BY <1>6, AdvanceKeepsForm
<1>7. CASE UNCHANGED formVars
  BY <1>7 DEF FormInv, FormTypeOK, WithinEdits, LoneSaveOK, ReadDraftOK, AllRestedStored, AdvanceOK,
              NoOlder, formVars, pageVars, Rested, Flying, Waiting
<1> QED BY <1>1, <1>2, <1>3, <1>4, <1>5, <1>6, <1>7 DEF FormNext

LEMMA FormInductive == FormSpec => []FormInv
<1> QED BY FormInitInv, FormStep, PTL DEF FormSpec

\* The draft has what the page shows of every part whose saves are over and not in doubt,
\* for any parts and edits, and any failures of the config route (useAutosave).
THEOREM RestedIsStoredHolds == FormSpec => []RestedIsStored
<1>1. FormInv => RestedIsStored
  BY DEF FormInv, AllRestedStored, RestedIsStored
<1> QED BY <1>1, FormInductive, PTL

\* The briefs have, of every part at rest at the click, what the page showed or a later
\* edit, whatever was in flight (the advance route).
THEOREM BriefHasWhatRestedHolds == FormSpec => []BriefHasWhatRested
<1>1. FormInv => BriefHasWhatRested
  BY DEF FormInv, AdvanceOK, BriefHasWhatRested
<1> QED BY <1>1, FormInductive, PTL
=============================================================================
