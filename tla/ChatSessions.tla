---------------------------- MODULE ChatSessions ----------------------------
(***************************************************************************)
(* The chats about a creative and their Stop button.  A chat runs          *)
(* `hermes chat` in the agent's container and streams what it prints; the  *)
(* session is the creative, so two tabs, or a message sent right after a   *)
(* Stop, are two streams of one session.  The bridge of the worker keeps   *)
(* one entry per session, the exec an abort has to signal (_active_execs). *)
(*                                                                         *)
(* Stop cuts the stream in the browser and posts an abort; the cut reaches *)
(* the worker through the proxy in its own time.  Each await of the bridge *)
(* separates two steps; what runs between two awaits is one step.  Docker  *)
(* and Hermes are external: an exec ends by itself or when it is signalled.*)
(***************************************************************************)
EXTENDS FiniteSets

CONSTANTS
  Chats,        \* streams, one per message sent
  Stops,        \* clicks on Stop
  SessionOf(_), \* the creative a stream, or a click, is about
  Nobody        \* no exec

ASSUME ChatAssumption == Nobody \notin Chats /\ IsFiniteSet(Chats \cup Stops)

Sessions == {SessionOf(c) : c \in Chats}

VARIABLES
  stream,       \* per stream: what chat_stream is doing
  exec,         \* per stream: its process in the container
  active,       \* per session: the exec of the entry, or Nobody
  abort,        \* per click: where its abort is, and the exec it found
  signalled     \* the execs that were sent SIGTERM

chatVars == <<stream, exec, active, abort, signalled>>

\* "cut": the browser has gone and the worker has not noticed.
StreamAt == {"new", "reading", "cut", "done"}
AbortAt == {"new", "sent", "inspect", "kill", "forget", "yes", "no"}

ChatTypeOK ==
  /\ stream \in [Chats -> StreamAt]
  /\ exec \in [Chats -> {"none", "running", "exited"}]
  /\ active \in [Sessions -> Chats \cup {Nobody}]
  /\ abort \in [Stops -> [at : AbortAt, found : Chats \cup {Nobody}]]
  /\ signalled \subseteq Chats

ChatInit ==
  /\ stream = [c \in Chats |-> "new"]
  /\ exec = [c \in Chats |-> "none"]
  /\ active = [s \in Sessions |-> Nobody]
  /\ abort = [a \in Stops |-> [at |-> "new", found |-> Nobody]]
  /\ signalled = {}

-----------------------------------------------------------------------------
(* chat_stream. *)

\* exec_create and the entry; a creation that fails ends the stream.
OpenStream(c) ==
  /\ stream[c] = "new"
  /\ \/ /\ stream' = [stream EXCEPT ![c] = "reading"]
        /\ exec' = [exec EXCEPT ![c] = "running"]
        /\ active' = [active EXCEPT ![SessionOf(c)] = c]
     \/ stream' = [stream EXCEPT ![c] = "done"] /\ UNCHANGED <<exec, active>>
  /\ UNCHANGED <<abort, signalled>>

\* The finally of the stream, whoever wrote the entry.
Forget(c) == active' = [active EXCEPT ![SessionOf(c)] = Nobody]

\* The output ends, the docker call raises, or the worker sees the cut.
CloseStream(c) ==
  /\ stream[c] \in {"reading", "cut"}
  /\ stream' = [stream EXCEPT ![c] = "done"]
  /\ Forget(c)
  /\ UNCHANGED <<exec, abort, signalled>>

Exit(c) ==
  /\ exec[c] = "running"
  /\ exec' = [exec EXCEPT ![c] = "exited"]
  /\ UNCHANGED <<stream, active, abort, signalled>>

Disconnect(c) ==
  /\ stream[c] = "reading"
  /\ stream' = [stream EXCEPT ![c] = "cut"]
  /\ UNCHANGED <<exec, active, abort, signalled>>

-----------------------------------------------------------------------------
(* Stop and abort. *)

Goto(a, at, found) == abort' = [abort EXCEPT ![a] = [at |-> at, found |-> found]]

\* The click cuts a stream of its session and sends the abort.
Stop(a) ==
  /\ abort[a].at = "new"
  /\ \E c \in Chats :
       /\ SessionOf(c) = SessionOf(a) /\ stream[c] = "reading"
       /\ stream' = [stream EXCEPT ![c] = "cut"]
  /\ Goto(a, "sent", Nobody)
  /\ UNCHANGED <<exec, active, signalled>>

FindExec(a) ==
  /\ abort[a].at = "sent"
  /\ LET found == active[SessionOf(a)]
     IN  Goto(a, IF found = Nobody THEN "no" ELSE "inspect", found)
  /\ UNCHANGED <<stream, exec, active, signalled>>

Drop(a, answer) ==
  /\ active' = [active EXCEPT ![SessionOf(a)] = Nobody]
  /\ Goto(a, answer, abort[a].found)

\* exec_inspect gives the process, or none when it has exited; it may fail.
Inspect(a) ==
  /\ abort[a].at = "inspect"
  /\ \/ exec[abort[a].found] = "running" /\ Goto(a, "kill", abort[a].found) /\ UNCHANGED active
     \/ Drop(a, "no")
  /\ UNCHANGED <<stream, exec, signalled>>

\* The signal is delivered, or the call fails.
Kill(a) ==
  /\ abort[a].at = "kill"
  /\ \/ /\ signalled' = signalled \cup {abort[a].found}
        /\ Goto(a, "forget", abort[a].found) /\ UNCHANGED active
     \/ Drop(a, "no") /\ UNCHANGED signalled
  /\ UNCHANGED <<stream, exec>>

Confirm(a) ==
  /\ abort[a].at = "forget"
  /\ Drop(a, "yes")
  /\ UNCHANGED <<stream, exec, signalled>>

ChatNext ==
  \/ \E c \in Chats : OpenStream(c) \/ CloseStream(c) \/ Exit(c) \/ Disconnect(c)
  \/ \E a \in Stops : Stop(a) \/ FindExec(a) \/ Inspect(a) \/ Kill(a) \/ Confirm(a)

\* A call that was begun goes on; a stream whose process has ended, or whose
\* browser has left, is closed.  A chat that nobody stops may run for ever.
ChatFairness ==
  /\ WF_chatVars(\E a \in Stops : FindExec(a) \/ Inspect(a) \/ Kill(a) \/ Confirm(a))
  /\ WF_chatVars(\E c \in Chats : (stream[c] = "cut" \/ exec[c] = "exited") /\ CloseStream(c))

ChatSpec == ChatInit /\ [][ChatNext]_chatVars /\ ChatFairness

-----------------------------------------------------------------------------
(* Properties. *)

\* What the code does not promise, and TLC refutes: that a stream which is being
\* read can be aborted (another stream of the session has closed and dropped its
\* entry); that the abort of a Stop spares a stream nobody stopped (the next
\* message took the entry first); and that a stopped exec is signalled (the cut
\* stream has dropped its own entry before the abort looks).
ReadIsAbortable == \A c \in Chats : stream[c] = "reading" => active[SessionOf(c)] # Nobody
StopSparesOthers == \A c \in signalled : stream[c] # "reading"
StopEndsExec ==
  \A a \in Stops, c \in Chats :
    (abort[a].at = "sent" /\ stream[c] = "cut" /\ SessionOf(a) = SessionOf(c))
      ~> (exec[c] = "exited")
=============================================================================
