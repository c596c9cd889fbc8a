----------------------------- MODULE ConfigForm -----------------------------
(***************************************************************************)
(* The form of the configuration stage and the draft it saves by itself.   *)
(* Each edit that validates puts a save of its part behind a debounce of   *)
(* one second; there is one timer, and one AbortController for the save in *)
(* flight.  The config route reads the row, checks the stage and writes    *)
(* the merged draft back, three calls to the database.  An abort cuts the  *)
(* browser off: a save that has reached the server is carried out all the  *)
(* same.  Continue posts the advance, which mints the briefs from the      *)
(* draft it reads; its other calls are those of StageMachine.              *)
(*                                                                         *)
(* A content is the number of the edit that wrote it, 1 for what the row   *)
(* had when the page was opened and 0 for nothing: a part and a content    *)
(* name a save.                                                            *)
(***************************************************************************)
EXTENDS Naturals, FiniteSets

CONSTANTS
  TracksChosen(_),  \* the tracks of the format that an edit chose
  Nothing,
  MaxEdits,       \* bound on edits and proposals
  MaxSaves,       \* bound on saves in flight at a time
  MaxSaveFaults   \* bound on calls of the config route that fail

Payloads == {"image", "video"}
\* What a save writes only if it is its own: the payloads are merged.
Columns == {"format", "client"}
Parts == Columns \cup Payloads

ASSUME FormAssumption ==
  /\ Nothing \notin [part : Parts, content : Nat]
  /\ {MaxEdits, MaxSaves, MaxSaveFaults} \subseteq Nat

VARIABLES
  edits,        \* edits made
  shown,        \* per part: its content on the page
  sound,        \* parts whose fields on the page validate, the client once one is chosen
  timer,        \* the save behind the debounce, or Nothing
  saves,        \* saves in flight: where each is, its patch, the draft it read
  latest,       \* the save the page listens to, or Nothing
  draft,        \* config_draft, and the columns of the client and of the format
  advance,      \* the request of Continue: the draft it read and, for the
                \* properties, the page and the parts at rest when it was clicked
  configured,   \* whether the pipeline has left configuration
  saveFaults,
  unsure        \* history: parts whose last edit was not sent, or whose save was dropped,
                \* overlapped or failed

pageVars == <<edits, shown, sound, timer>>
formVars == <<pageVars, saves, latest, draft, advance, configured, saveFaults, unsure>>

Blank == [p \in Parts |-> 0]
NoAdvance == [at |-> "none", read |-> Blank, page |-> Blank, rested |-> {}]

Name(s) == [part |-> s.part, content |-> s.content]
Flying == {s.part : s \in saves}
Waiting == IF timer = Nothing THEN {} ELSE {timer.part}

Has(content, p) == content[p] > 0
Present(content) == {p \in Parts : Has(content, p)}
Active(content) == {p \in Payloads : p \in TracksChosen(content["format"])}

\* A payload of the video is null until a client is chosen.
Saveable(p) == p = "video" => "client" \in sound
Valid(p) == p \in sound /\ Saveable(p)

\* The page of a pipeline: a new one has a format, and neither a client nor a payload.
FormInit ==
  /\ edits = 1
  /\ draft \in [Parts -> {0, 1}]
  /\ Has(draft, "format") /\ (Has(draft, "video") => Has(draft, "client"))
  /\ shown = draft /\ sound = Present(draft)
  /\ timer = Nothing
  /\ saves = {} /\ latest = Nothing
  /\ advance = NoAdvance /\ configured = FALSE
  /\ saveFaults = 0 /\ unsure = {}

-----------------------------------------------------------------------------
(* The page. *)

\* Saves of the parts in ps are sent, the format first and the video last; each aborts
\* the one before, and the last is listened to.
Send(ps, content) ==
  /\ Cardinality(saves) + Cardinality(ps) <= MaxSaves
  /\ saves' = saves \cup {[at |-> "sent", part |-> p, content |-> content, read |-> Blank] : p \in ps}
  /\ \E last \in ps :
       /\ last = "format" => ps = {"format"}
       /\ "video" \in ps => last = "video"
       /\ latest' = [part |-> last, content |-> content]

\* What sending ps leaves unsure: nothing of a save that is alone.
Doubts(ps) ==
  IF saves = {} /\ Cardinality(ps) = 1 THEN unsure \ ps ELSE unsure \cup ps \cup Flying

\* The fields of a track are there when the format has it.
Type(p) ==
  /\ p \in Payloads => p \in Active(shown)
  /\ ~configured /\ edits <= MaxEdits
  /\ edits' = edits + 1
  /\ shown' = [shown EXCEPT ![p] = edits + 1]

\* An edit that does not validate, or of the video when there is no client, is not
\* saved and leaves the timer alone; choosing the client later does not save it.
EditUnsaved(p) ==
  /\ p \in Payloads
  /\ Type(p)
  /\ \/ sound' = sound \ {p}
     \/ sound' = sound \cup {p} /\ ~Saveable(p)
  /\ unsure' = unsure \cup {p}
  /\ UNCHANGED <<timer, saves, latest, draft, advance, configured, saveFaults>>

\* A row of the video brief is added or removed: nothing is saved, whether or not
\* what is left validates.
EditRows ==
  /\ Type("video")
  /\ sound' \in {sound \ {"video"}, sound \cup {"video"}}
  /\ unsure' = unsure \cup {"video"}
  /\ UNCHANGED <<timer, saves, latest, draft, advance, configured, saveFaults>>

\* A field, or the client; the timer there is is cleared, whatever part it was to save.
EditDebounced(p) ==
  /\ p # "format" /\ Saveable(p)
  /\ Type(p)
  /\ sound' = sound \cup {p}
  /\ timer' = [part |-> p, content |-> edits + 1]
  /\ unsure' = unsure \cup (Waiting \ {p})
  /\ UNCHANGED <<saves, latest, draft, advance, configured, saveFaults>>

\* A choice of the format is saved without the debounce.
PickFormat ==
  /\ Type("format")
  /\ Send({"format"}, edits + 1)
  /\ timer' = Nothing
  /\ unsure' = Doubts({"format"}) \cup (Waiting \ {"format"})
  /\ UNCHANGED <<sound, draft, advance, configured, saveFaults>>

\* The agent's proposal fills the format and the payloads of ps, those of good with
\* fields that validate, and saves at once what can be saved.
Propose(ps, good) ==
  LET sent == {"format"} \cup {p \in good : Saveable(p)} IN
  /\ ps \subseteq Payloads /\ good \subseteq ps
  /\ ~configured /\ edits <= MaxEdits
  /\ edits' = edits + 1
  /\ shown' = [p \in Parts |-> IF p \in ps \cup {"format"} THEN edits + 1 ELSE shown[p]]
  /\ sound' = (sound \ ps) \cup good
  /\ Send(sent, edits + 1)
  /\ timer' = Nothing
  /\ unsure' = Doubts(sent) \cup ((Waiting \cup ps) \ sent)
  /\ UNCHANGED <<draft, advance, configured, saveFaults>>

Fire ==
  /\ timer # Nothing
  /\ Send({timer.part}, timer.content)
  /\ timer' = Nothing
  /\ unsure' = IF shown[timer.part] = timer.content THEN Doubts({timer.part})
                ELSE unsure \cup {timer.part} \cup Flying
  /\ UNCHANGED <<edits, shown, sound, draft, advance, configured, saveFaults>>

\* The page is left and opened again: it shows the draft.
Reload ==
  /\ ~configured
  /\ shown' = draft /\ sound' = Present(draft)
  /\ timer' = Nothing /\ latest' = Nothing
  /\ unsure' = IF saves = {} THEN {} ELSE unsure \cup Flying
  /\ UNCHANGED <<edits, saves, draft, advance, configured, saveFaults>>

\* The answer; that of an aborted save is not heard.
Hear(s) ==
  /\ s.at \in {"stored", "refused"}
  /\ saves' = saves \ {s}
  /\ latest' = IF latest = Name(s) THEN Nothing ELSE latest
  /\ unsure' = IF s.at = "refused" THEN unsure \cup {s.part} ELSE unsure
  /\ UNCHANGED <<pageVars, draft, advance, configured, saveFaults>>

\* An aborted save that had not reached the server.
Vanish(s) ==
  /\ s.at = "sent" /\ latest # Name(s)
  /\ saves' = saves \ {s}
  /\ unsure' = unsure \cup {s.part}
  /\ UNCHANGED <<pageVars, latest, draft, advance, configured, saveFaults>>

-----------------------------------------------------------------------------
(* The config route. *)

Becomes(s, t) == saves' = (saves \ {s}) \cup {t}
\* What was read is kept as long as it is used.
Place(s, at) == Becomes(s, [s EXCEPT !.at = at, !.read = IF at = "checked" THEN @ ELSE Blank])

ReadDraft(s) ==
  /\ s.at = "sent"
  /\ Becomes(s, [s EXCEPT !.at = "loaded", !.read = draft])
  /\ UNCHANGED <<pageVars, latest, draft, advance, configured, saveFaults, unsure>>

CheckStage(s) ==
  /\ s.at = "loaded"
  /\ Place(s, IF configured THEN "refused" ELSE "checked")
  /\ UNCHANGED <<pageVars, latest, draft, advance, configured, saveFaults, unsure>>

\* Mutant: the patch becomes the draft.
PatchAlone(s) == [Blank EXCEPT ![s.part] = s.content]

\* mergeDraft, on the payloads as they were read; a column changes only by a save of it.
Merged(s) ==
  [p \in Parts |-> IF p = s.part THEN s.content
                   ELSE IF p \in Columns THEN draft[p]
                   ELSE s.read[p]]

WriteDraft(s) ==
  /\ s.at = "checked"
  /\ draft' = Merged(s)
  /\ Place(s, "stored")
  /\ UNCHANGED <<pageVars, latest, advance, configured, saveFaults, unsure>>

\* A call fails, or the update is applied and answered with an error.
SaveFails(s) ==
  /\ saveFaults < MaxSaveFaults
  /\ s.at \in {"sent", "loaded", "checked"}
  /\ saveFaults' = saveFaults + 1
  /\ draft' = draft \/ (s.at = "checked" /\ draft' = Merged(s))
  /\ Place(s, "refused")
  /\ UNCHANGED <<pageVars, latest, advance, configured, unsure>>

-----------------------------------------------------------------------------
(* Continue. *)

\* Parts whose save is over and was not in doubt.
Rested == sound \ (unsure \cup Waiting \cup Flying)

\* The button asks for a client, and that the payloads of the format validate; it does
\* not flush the timer.
PressContinue ==
  /\ "client" \in sound /\ \A p \in Active(shown) : Valid(p)
  /\ ~configured /\ advance.at = "none"
  /\ advance' = [NoAdvance EXCEPT !.at = "posted", !.page = shown, !.rested = Rested]
  /\ UNCHANGED <<pageVars, saves, latest, draft, configured, saveFaults, unsure>>

\* Mutant: the briefs are minted from the draft the pipeline was created with.
ReadCreated ==
  /\ advance.at = "posted"
  /\ advance' = [advance EXCEPT !.at = "read", !.read = Blank]
  /\ UNCHANGED <<pageVars, saves, latest, draft, configured, saveFaults, unsure>>

\* A row without a client, or without a payload of its format, is refused.
ReadForAdvance ==
  /\ advance.at = "posted"
  /\ {"client"} \cup Active(draft) \subseteq Present(draft)
  /\ advance' = [advance EXCEPT !.at = "read", !.read = draft]
  /\ UNCHANGED <<pageVars, saves, latest, draft, configured, saveFaults, unsure>>

\* The briefs, with the payloads that were read, and the event.
Mint ==
  /\ advance.at = "read"
  /\ advance' = [advance EXCEPT !.at = "minted"]
  /\ configured' = TRUE
  /\ UNCHANGED <<pageVars, saves, latest, draft, saveFaults, unsure>>

\* The advance is answered with an error, and may be clicked again.
Refuse ==
  /\ advance.at \in {"posted", "read"}
  /\ advance' = NoAdvance
  /\ UNCHANGED <<pageVars, saves, latest, draft, configured, saveFaults, unsure>>

-----------------------------------------------------------------------------
FormNext ==
  \/ \E p \in Parts : EditUnsaved(p) \/ EditDebounced(p)
  \/ EditRows \/ PickFormat
  \/ \E ps, good \in SUBSET Payloads : Propose(ps, good)
  \/ Fire \/ Reload
  \/ \E s \in saves : Hear(s) \/ Vanish(s) \/ ReadDraft(s) \/ CheckStage(s) \/ WriteDraft(s) \/ SaveFails(s)
  \/ PressContinue \/ ReadForAdvance \/ Mint \/ Refuse

FormSpec == FormInit /\ [][FormNext]_formVars

-----------------------------------------------------------------------------
(* Properties. *)

\* The draft is what the page shows, part by part, once nothing of the part is on its
\* way.  An edit is lost only if it could not be saved when it was made (it did not
\* validate, or was to the video and there was no client) or was to rows, if another
\* part was edited within its second, if its save overlapped another one, or if the save
\* failed.  Whatever happened before, the next save of a part that is alone puts it right
\* (useAutosave, toVideoPayload, the config route).
RestedIsStored == ~configured => \A p \in Rested : draft[p] = shown[p]

\* The briefs have, of every part that was at rest when Continue was clicked, what the
\* page showed, or a later edit: nothing in flight at the click takes it back.
BriefHasWhatRested ==
  advance.at = "minted" => \A p \in advance.rested : advance.read[p] >= advance.page[p]

-----------------------------------------------------------------------------
(* What the code says and does not do: TLC refutes each.                   *)

\* Successive autosaves don't obliterate each other (StageConfiguration.tsx 56-57).
SavesKept ==
  [][\A s \in saves : WriteDraft(s) => \A p \in Parts \ {s.part} : draft'[p] = draft[p]]_formVars

\* The form autosaves as you go (StageConfiguration.tsx 661): what can be saved has been.
AutosavesAsYouGo ==
  ~configured /\ timer = Nothing /\ saves = {} /\ saveFaults = 0 =>
    \A p \in Parts : Valid(p) => draft[p] = shown[p]

\* The latest payload always wins (StageConfiguration.tsx 312-313).
LatestWins == [][\A p \in Parts : draft'[p] >= draft[p]]_formVars

\* The Continue gate validates the current form state (StageConfiguration.tsx 46-48):
\* the briefs are of what it validated.
BriefIsTheForm == advance.at = "minted" => advance.read = advance.page

\* The status guard protects against late autosaves (StageConfiguration.tsx 57-58).
DraftLocked == [][configured => draft' = draft]_formVars
=============================================================================
