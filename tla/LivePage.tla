------------------------------ MODULE LivePage ------------------------------
(***************************************************************************)
(* The open page of a pipeline.  The server renders it from the rows it    *)
(* reads: the timeline of pipeline_events and the gates of the creatives.  *)
(* Two hooks keep it current, each over a stream of its own that the relay *)
(* /api/realtime feeds from the change feed of the database:               *)
(*                                                                         *)
(*   - "timeline" (usePipelineEvents) queues each new row for 200 ms and   *)
(*     folds what it queued into the list that is shown;                   *)
(*   - "detail" (PipelineDetailRealtime) asks the router for a refresh:    *)
(*     the server reads the newest rows again, 50 of them (PageSize), and  *)
(*     the answer replaces the list.                                       *)
(*                                                                         *)
(* A row is its place in the order of the timeline (created_at, then id);  *)
(* rows commit in any order, and none is updated or deleted (migration     *)
(* 0041 revokes both, so the hook's handlers of them never run).  How long *)
(* a stream waits before it connects again is left out with the clock.     *)
(* The database and its feed, and the router, are external.                *)
(***************************************************************************)
EXTENDS Integers, FiniteSets, Sequences, Functions

CONSTANTS
  Rows,         \* the rows of pipeline_events written while the page is open
  PageSize,     \* how many rows the server reads
  MaxUpsets     \* bounds the lost connections and the refreshes others ask for

ASSUME PageAssumption == /\ Rows \subseteq Nat \ {0} /\ IsFiniteSet(Rows)
                         /\ PageSize \in Nat /\ MaxUpsets \in Nat

Streams == {"timeline", "detail"}
Conns == 1..(MaxUpsets + 1)
None == 0

\* What the relay sends of its own: a named event that fires onerror, and a
\* change of a row that is not of the timeline.
Failure == -1
OtherChange == -2

Tables == {"pipelines", "pipeline_events", "creative_stage_state"}

\* The tables a stream asks for, and those the relay takes from a request: it
\* drops a table that is not on its list and serves the rest.
Wanted(s) == IF s = "timeline" THEN {"pipeline_events"} ELSE Tables
Subscribable == {"pipelines", "pipeline_events"}
Relayed(s) == Wanted(s) \cap Subscribable

VARIABLES
  written,      \* rows of the timeline in the database
  gates,        \* how often a gate of a creative has changed
  relay,        \* per stream and connection: the channel the server holds
  source,       \* per stream: the connection the browser holds, or None
  timer,        \* per stream: a reconnect is scheduled
  wire,         \* per stream: what was sent on its connection and is not heard
  queue,        \* the rows that wait for the flush, in the order of the Map
  shown,        \* the timeline on the screen
  pills,        \* the version of the gates on the screen
  asked,        \* refreshes the router has still to start
  answer,       \* at most one: what the server read for the refresh under way
  mounted,
  upsets

pageVars == <<written, gates, relay, source, timer, wire, queue, shown, pills,
              asked, answer, mounted, upsets>>

Channel == {"none", "joining", "live", "broken", "gone"}

PageTypeOK ==
  /\ written \subseteq Rows /\ gates \in 0..1 /\ pills \in 0..gates
  /\ relay \in [Streams -> [Conns -> Channel]]
  /\ source \in [Streams -> Conns \cup {None}]
  /\ timer \in [Streams -> BOOLEAN] /\ mounted \in BOOLEAN
  /\ \A s \in Streams : Range(wire[s]) \subseteq Rows \cup {Failure, OtherChange}
  /\ Range(queue) \cup Range(shown) \subseteq written
  /\ asked \in Nat /\ upsets \in 0..MaxUpsets
  /\ Cardinality(answer) <= 1
  /\ \A a \in answer : a.rows \subseteq written /\ a.gates \in 0..gates

\* A row is old when the server leaves it out: there are PageSize newer ones.
Old(r) == Cardinality({q \in written : q > r}) >= PageSize
Newest == {r \in written : ~Old(r)}

\* The rows in their order: the one at place i has i - 1 before it.
Ascending(rows) ==
  [i \in 1..Cardinality(rows) |->
     CHOOSE r \in rows : Cardinality({q \in rows : q < r}) = i - 1]

\* The page as it is first painted: the rows were read a moment ago, and both
\* hooks have just opened their first connection.
PageInit ==
  /\ written = {} /\ gates = 0
  /\ relay = [s \in Streams |-> [c \in Conns |-> IF c = 1 THEN "joining" ELSE "none"]]
  /\ source = [s \in Streams |-> 1]
  /\ timer = [s \in Streams |-> FALSE]
  /\ wire = [s \in Streams |-> <<>>]
  /\ queue = <<>> /\ shown = <<>> /\ pills = 0
  /\ asked = 0 /\ answer = {}
  /\ mounted = TRUE /\ upsets = 0

Live(s) == source[s] # None /\ relay[s][source[s]] = "live"
Used(s) == {c \in Conns : relay[s][c] # "none"}

\* A commit reaches the streams that are live and whose relay took its table.
Announce(table, message) ==
  wire' = [s \in Streams |->
             IF Live(s) /\ table \in Relayed(s) THEN Append(wire[s], message) ELSE wire[s]]

-----------------------------------------------------------------------------
(* The database, the relay and the network. *)

WriteRow(r) ==
  /\ r \notin written
  /\ written' = written \cup {r}
  /\ Announce("pipeline_events", r)
  /\ UNCHANGED <<gates, relay, source, timer, queue, shown, pills, asked, answer, mounted, upsets>>

ChangeGate ==
  /\ gates = 0 /\ gates' = 1
  /\ Announce("creative_stage_state", OtherChange)
  /\ UNCHANGED <<written, relay, source, timer, queue, shown, pills, asked, answer, mounted, upsets>>

Subscribed(s, c) ==
  /\ relay[s][c] = "joining"
  /\ relay' = [relay EXCEPT ![s][c] = "live"]
  /\ UNCHANGED <<written, gates, source, timer, wire, queue, shown, pills, asked, answer, mounted, upsets>>

\* The feed gives the channel up: the relay tells the browser and keeps the
\* channel until the browser is gone.
ChannelFails(s) ==
  /\ upsets < MaxUpsets /\ upsets' = upsets + 1
  /\ source[s] # None /\ relay[s][source[s]] \in {"joining", "live"}
  /\ relay' = [relay EXCEPT ![s][source[s]] = "broken"]
  /\ wire' = [wire EXCEPT ![s] = Append(@, Failure)]
  /\ UNCHANGED <<written, gates, source, timer, queue, shown, pills, asked, answer, mounted>>

\* Mutant: a channel that has failed is not torn down.
TeardownLive(s, c) ==
  /\ relay[s][c] \in {"joining", "live"} /\ source[s] # c
  /\ relay' = [relay EXCEPT ![s][c] = "gone"]
  /\ UNCHANGED <<written, gates, source, timer, wire, queue, shown, pills, asked, answer, mounted, upsets>>

\* The server sees that the browser is gone: teardown.
Teardown(s, c) ==
  /\ relay[s][c] \in {"joining", "live", "broken"} /\ source[s] # c
  /\ relay' = [relay EXCEPT ![s][c] = "gone"]
  /\ UNCHANGED <<written, gates, source, timer, wire, queue, shown, pills, asked, answer, mounted, upsets>>

-----------------------------------------------------------------------------
(* useRealtimeStream. *)

\* onerror: close what is open, whatever is still on its way, and connect later.
OnError(s) ==
  /\ source' = [source EXCEPT ![s] = None]
  /\ timer' = [timer EXCEPT ![s] = TRUE]
  /\ wire' = [wire EXCEPT ![s] = <<>>]

ConnectionLost(s) ==
  /\ upsets < MaxUpsets /\ upsets' = upsets + 1
  /\ source[s] # None
  /\ OnError(s)
  /\ UNCHANGED <<written, gates, relay, queue, shown, pills, asked, answer, mounted>>

HearFailure(s) ==
  /\ wire[s] # <<>> /\ Head(wire[s]) = Failure
  /\ OnError(s)
  /\ UNCHANGED <<written, gates, relay, queue, shown, pills, asked, answer, mounted, upsets>>

Connect(s) ==
  /\ timer[s] /\ \E c \in Conns :
       /\ c = Cardinality(Used(s)) + 1
       /\ relay' = [relay EXCEPT ![s][c] = "joining"]
       /\ source' = [source EXCEPT ![s] = c]
  /\ timer' = [timer EXCEPT ![s] = FALSE]
  /\ UNCHANGED <<written, gates, wire, queue, shown, pills, asked, answer, mounted, upsets>>

\* The queue of the timeline holds one callback per row, the first keeps its place.
QueueRow ==
  /\ wire["timeline"] # <<>> /\ Head(wire["timeline"]) \in Rows
  /\ queue' = LET r == Head(wire["timeline"])
              IN  IF r \in Range(queue) THEN queue ELSE Append(queue, r)
  /\ wire' = [wire EXCEPT !["timeline"] = Tail(@)]
  /\ UNCHANGED <<written, gates, relay, source, timer, shown, pills, asked, answer, mounted, upsets>>

AskForRefresh ==
  /\ wire["detail"] # <<>> /\ Head(wire["detail"]) # Failure
  /\ asked' = asked + 1
  /\ wire' = [wire EXCEPT !["detail"] = Tail(@)]
  /\ UNCHANGED <<written, gates, relay, source, timer, queue, shown, pills, answer, mounted, upsets>>

-----------------------------------------------------------------------------
(* usePipelineEvents and the router. *)

\* The callbacks run one after the other, each on the list as it is by then: what is
\* shown already changes nothing, and what is new takes its place.
AppendChronologically(list, rows) ==
  IF rows \subseteq Range(list) THEN list ELSE Ascending(Range(list) \cup rows)

Flush ==
  /\ queue # <<>> /\ queue' = <<>>
  /\ shown' = AppendChronologically(shown, Range(queue))
  /\ UNCHANGED <<written, gates, relay, source, timer, wire, pills, asked, answer, mounted, upsets>>

\* An action of the operator elsewhere on the page ends in router.refresh().
OthersAsk ==
  /\ upsets < MaxUpsets /\ upsets' = upsets + 1
  /\ mounted /\ asked' = asked + 1
  /\ UNCHANGED <<written, gates, relay, source, timer, wire, queue, shown, pills, answer, mounted>>

\* The router runs one refresh at a time.
ReadForRefresh ==
  /\ asked > 0 /\ answer = {}
  /\ asked' = asked - 1
  /\ answer' = {[rows |-> Newest, gates |-> gates]}
  /\ UNCHANGED <<written, gates, relay, source, timer, wire, queue, shown, pills, mounted, upsets>>

\* Mutants: the list is seeded once only; a new seed starts a new queue.
ReseedNever ==
  /\ \E a \in answer : pills' = a.gates
  /\ answer' = {}
  /\ UNCHANGED <<written, gates, relay, source, timer, wire, queue, shown, asked, mounted, upsets>>

ReseedQueue ==
  /\ \E a \in answer : shown' = Ascending(a.rows) /\ pills' = a.gates
  /\ answer' = {} /\ queue' = <<>>
  /\ UNCHANGED <<written, gates, relay, source, timer, wire, asked, mounted, upsets>>

\* The answer replaces the list, and what waits in the queue stays there.
Reseed ==
  /\ \E a \in answer : shown' = Ascending(a.rows) /\ pills' = a.gates
  /\ answer' = {}
  /\ UNCHANGED <<written, gates, relay, source, timer, wire, queue, asked, mounted, upsets>>

Unmount ==
  /\ mounted /\ mounted' = FALSE
  /\ source' = [s \in Streams |-> None]
  /\ timer' = [s \in Streams |-> FALSE]
  /\ wire' = [s \in Streams |-> <<>>]
  /\ queue' = <<>> /\ asked' = 0 /\ answer' = {}
  /\ UNCHANGED <<written, gates, relay, shown, pills, upsets>>

Browser ==
  \/ \E s \in Streams : HearFailure(s) \/ Connect(s)
  \/ QueueRow \/ AskForRefresh \/ Flush \/ ReadForRefresh \/ Reseed

Server ==
  \E s \in Streams, c \in Conns : Subscribed(s, c) \/ Teardown(s, c)

PageNext ==
  \/ Browser \/ Server \/ Unmount \/ OthersAsk \/ ChangeGate
  \/ \E r \in Rows : WriteRow(r)
  \/ \E s \in Streams : ChannelFails(s) \/ ConnectionLost(s)

\* Timers fire, messages arrive and the router answers, as long as there are any;
\* the server joins the feed, and sees a browser that is gone.
PageFairness == WF_pageVars(Browser) /\ WF_pageVars(Server)

PageSpec == PageInit /\ [][PageNext]_pageVars /\ PageFairness

-----------------------------------------------------------------------------
(* Properties. *)

\* However its streams were lost, a page that stays open gets them back, and the
\* server holds in the end no channel but those the page listens to.
StreamsSettle ==
  <>[](/\ mounted => \A s \in Streams : Live(s)
       /\ \A s \in Streams : \A c \in Used(s) : source[s] = c \/ relay[s][c] = "gone")

\* A row that the timeline has heard of is shown: the flush and the refresh
\* between them lose none that waits, unless the page is closed.
HeardIsShown ==
  [][\A r \in Range(queue) : mounted' => r \in Range(queue') \cup Range(shown')]_pageVars

\* A row that was there when a refresh was asked for comes to be shown and stays
\* so until it is old: no answer on its way and no flush takes it away again.
RefreshedRowStays ==
  \A r \in Rows : (r \in written /\ asked > 0) ~> [](mounted => Old(r) \/ r \in Range(shown))

\* What the code does not promise, and TLC refutes: a row once shown goes on being
\* shown until it is old (an answer read before the row replaces the list); every row is shown in
\* the end (none of the streams was live when it was written); and a gate that
\* changes is shown in the end (the relay drops the table of the gates).
NothingVanishes ==
  [][mounted' => \A r \in Range(shown) : Old(r)' \/ r \in Range(shown')]_pageVars
EveryRowShown == \A r \in Rows : r \in written ~> (mounted => Old(r) \/ r \in Range(shown))
GateChangeShown == gates = 1 ~> (mounted => pills = 1)
=============================================================================
