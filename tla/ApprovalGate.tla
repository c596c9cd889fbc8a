---------------------------- MODULE ApprovalGate ----------------------------
(***************************************************************************)
(* The gate in front of the agent's tools.  Hermes calls the plugin's      *)
(* pre_tool_call hook before it runs a tool; the hook probes the approval  *)
(* mode, looks in its cache of earlier approvals, and otherwise posts to   *)
(* the worker and waits while a handler of the worker polls the row of     *)
(* approvals that the operator decides in the dashboard.                   *)
(*                                                                         *)
(* Three processes: the plugin (hook, cached, remembered), the worker      *)
(* (handlers, slots) and the operator (Decide, Cancel, SetMode).  The      *)
(* tables approvals (row) and approval_mode (mode) are shared.             *)
(***************************************************************************)
EXTENDS Naturals, FiniteSets

CONSTANTS
  Calls,           \* tool calls the policy answers ask_operator for
  Keys,            \* (session, tool, hash of the arguments)
  KeyOf,           \* the key of each call: two calls may repeat one another
  MaxConcurrent,   \* MAX_CONCURRENT, the handlers that may wait at a time
  MaxTries,        \* bound: hooks run for each tool-call id
  MaxFaults,       \* bound: lost connections, failed reads, worker restarts
  MaxModeChanges   \* bound: changes of the approval mode

ASSUME ApprovalAssumption ==
  /\ KeyOf \in [Calls -> Keys]
  /\ MaxConcurrent \in Nat
  /\ MaxTries \in [Calls -> Nat]
  /\ MaxFaults \in Nat
  /\ MaxModeChanges \in Nat
  /\ IsFiniteSet(Calls)

VARIABLES
  risky,       \* the keys of the risk classes that AUTO_APPROVE never covers
  row,         \* approvals: the status of the row of each call
  mode,        \* approval_mode: the name, and which change set it
  over,        \* the changes whose AUTO_APPROVE window has ended
  cached,      \* the plugin's copy of the mode, and whether it is under 5 s old
  remembered,  \* the plugin's cache of approvals
  hook,        \* where the hook of each call stands
  seen,        \* the mode state the hook of each call holds
  via,         \* what let the call through
  tries,       \* the hooks run for each call
  handlers,    \* <<call, try>> of each handler in the poll loop
  slots,       \* _active_count
  faults

approvalVars == <<risky, row, mode, over, cached, remembered, hook, seen, via,
                  tries, handlers, slots, faults>>

Closed == {"approved", "rejected", "expired", "cancelled"}
Waiting == {"probing", "probed", "auto", "halt", "ask", "waiting"}
ModeStates == [name : {"ASK", "AUTO_APPROVE", "HALT"}, at : 0..MaxModeChanges]

\* _DEFAULT_ASK and the seed row alike: acting on an empty cache is acting on it
DefaultAsk == [name |-> "ASK", at |-> 0]

ApprovalInit ==
  /\ risky \in SUBSET Keys
  /\ row = [c \in Calls |-> "none"]
  /\ mode = DefaultAsk
  /\ over = {}
  /\ cached = [state |-> DefaultAsk, fresh |-> FALSE]
  /\ remembered = {}
  /\ hook = [c \in Calls |-> "new"]
  /\ seen = [c \in Calls |-> DefaultAsk]
  /\ via = [c \in Calls |-> "none"]
  /\ tries = [c \in Calls |-> 0]
  /\ handlers = {}
  /\ slots = 0
  /\ faults = 0

-----------------------------------------------------------------------------
(* The hook: the mode.                                                     *)

\* Mutant: the stored mode, window or not.
StoredMode(s) == s.name

\* A window that has ended counts as ASK, from the plugin's copy alone.
EffectiveMode(s) ==
  IF s.name = "AUTO_APPROVE" /\ s.at \in over THEN "ASK" ELSE s.name

\* Mutant: AUTO_APPROVE covers every risk class.
CourseAnyRisk(c, s) ==
  CASE EffectiveMode(s) = "HALT" -> "halt"
    [] EffectiveMode(s) = "AUTO_APPROVE" -> "auto"
    [] OTHER -> "ask"

Course(c, s) ==
  CASE EffectiveMode(s) = "HALT" -> "halt"
    [] EffectiveMode(s) = "AUTO_APPROVE" /\ KeyOf[c] \notin risky -> "auto"
    [] OTHER -> "ask"

Goto(c, pc) == hook' = [hook EXCEPT ![c] = pc]

\* The mode state the hook of c holds, until it is on its way.
Hold(c, s) == seen' = [seen EXCEPT ![c] = s]

\* Hermes runs the hook, again if it retries a blocked call under its id.
Dispatch(c) ==
  /\ hook[c] \in {"new", "blocked"}
  /\ tries[c] < MaxTries[c]
  /\ tries' = [tries EXCEPT ![c] = @ + 1]
  /\ Hold(c, cached.state)
  /\ Goto(c, IF cached.fresh THEN Course(c, cached.state) ELSE "probing")
  /\ UNCHANGED <<risky, row, mode, over, cached, remembered, via, handlers,
                 slots, faults>>

\* The worker reads the mode for the probe of a hook ...
ProbeRead(c) ==
  /\ hook[c] = "probing"
  /\ Hold(c, mode)
  /\ Goto(c, "probed")
  /\ UNCHANGED <<risky, row, mode, over, cached, remembered, via, tries,
                 handlers, slots, faults>>

\* ... and the hook keeps what it was told, over what another hook has kept since.
Learn(c) ==
  /\ hook[c] = "probed"
  /\ cached' = [state |-> seen[c], fresh |-> TRUE]
  /\ Goto(c, Course(c, seen[c]))
  /\ UNCHANGED <<risky, row, mode, over, remembered, seen, via, tries,
                 handlers, slots, faults>>

\* A probe that fails leaves the hook with the copy it found, however old.
ProbeFails(c) ==
  /\ hook[c] = "probing"
  /\ Goto(c, Course(c, seen[c]))
  /\ UNCHANGED <<risky, row, mode, over, cached, remembered, seen, via, tries,
                 handlers, slots, faults>>

-----------------------------------------------------------------------------
(* The worker: the row and the handler that waits for it.                  *)

\* A free slot is taken; the row is inserted unless it is there; a row that
\* waits is polled by this handler too.
Admit(c) ==
  /\ slots < MaxConcurrent
  /\ row[c] \in {"none", "pending"}
  /\ row' = [row EXCEPT ![c] = "pending"]
  /\ handlers' = handlers \cup {<<c, tries[c]>>}
  /\ slots' = slots + 1

\* The hook gets its answer; only an approval is remembered.
Answer(c, ok) ==
  /\ Goto(c, IF ok THEN "allowed" ELSE "blocked")
  /\ via' = [via EXCEPT ![c] = IF ok THEN "verdict" ELSE @]
  /\ remembered' = IF ok THEN remembered \cup {KeyOf[c]} ELSE remembered

\* A handler leaves the loop: its slot is released and the hook that waits for
\* it, if one still does, gets the answer.
Finish(h, ok) ==
  /\ handlers' = handlers \ {h}
  /\ slots' = IF slots > 0 THEN slots - 1 ELSE 0
  /\ IF hook[h[1]] = "waiting" /\ tries[h[1]] = h[2]
       THEN Answer(h[1], ok)
       ELSE UNCHANGED <<hook, via, remembered>>

\* A poll finds the row closed.
PollRow(h) ==
  /\ row[h[1]] \in Closed
  /\ Finish(h, row[h[1]] = "approved")
  /\ UNCHANGED <<risky, row, mode, over, cached, seen, tries, faults>>

\* Mutant: the expiry is written whatever the row says.
ExpireAnyway(c) == row' = [row EXCEPT ![c] = "expired"]

\* The expiry write touches only a row that is still pending.
MarkExpired(c) == row' = [row EXCEPT ![c] = IF @ = "pending" THEN "expired" ELSE @]

\* The deadline: the answer is a rejection, whatever the row says by now.
Timeout(h) ==
  /\ MarkExpired(h[1])
  /\ Finish(h, FALSE)
  /\ UNCHANGED <<risky, mode, over, cached, seen, tries, faults>>

Fault == faults < MaxFaults /\ faults' = faults + 1

\* A read of the row fails, or the expiry write does: the hook is answered
\* with an error or a rejection, and the row stays as it is.
PollRowFails(h) ==
  /\ Fault
  /\ Finish(h, FALSE)
  /\ UNCHANGED <<risky, row, mode, over, cached, seen, tries>>

\* The worker restarts: its handlers are gone and their connections break.
WorkerCrash ==
  /\ Fault
  /\ handlers' = {}
  /\ slots' = 0
  /\ hook' = [c \in Calls |-> IF hook[c] = "waiting" THEN "blocked" ELSE hook[c]]
  /\ UNCHANGED <<risky, row, mode, over, cached, remembered, seen, via, tries>>

-----------------------------------------------------------------------------
(* The hook: the three ways on.                                            *)

\* AUTO_APPROVE lets the call through and HALT stops it.  Either is written
\* to approvals by a post with a timeout of one second whose failure, or
\* refusal, is ignored.
WriteAutoDecision(c) ==
  /\ \/ hook[c] = "auto" /\ Goto(c, "allowed") /\ via' = [via EXCEPT ![c] = "auto"]
     \/ hook[c] = "halt" /\ Goto(c, "blocked") /\ UNCHANGED via
  /\ Admit(c) \/ UNCHANGED <<row, handlers, slots>>
  /\ Hold(c, DefaultAsk)
  /\ UNCHANGED <<risky, mode, over, cached, remembered, tries, faults>>

UseRemembered(c) ==
  /\ hook[c] = "ask"
  /\ KeyOf[c] \in remembered
  /\ Goto(c, "allowed")
  /\ via' = [via EXCEPT ![c] = "cache"]
  /\ Hold(c, DefaultAsk)
  /\ UNCHANGED <<risky, row, mode, over, cached, remembered, tries, handlers,
                 slots, faults>>

\* The post is admitted, or answered from a row that is closed already, or
\* refused for want of a slot or a worker, which blocks the call.
PostApproval(c) ==
  /\ hook[c] = "ask"
  /\ KeyOf[c] \notin remembered
  /\ \/ Admit(c) /\ Goto(c, "waiting") /\ UNCHANGED <<via, remembered>>
     \/ /\ slots < MaxConcurrent
        /\ row[c] \in Closed
        /\ Answer(c, row[c] = "approved")
        /\ UNCHANGED <<row, handlers, slots>>
     \/ Goto(c, "blocked") /\ UNCHANGED <<via, remembered, row, handlers, slots>>
  /\ Hold(c, DefaultAsk)
  /\ UNCHANGED <<risky, mode, over, cached, tries, faults>>

\* The connection breaks: the plugin fails closed, the handler polls on.
ConnectionLost(c) ==
  /\ Fault
  /\ hook[c] = "waiting"
  /\ Goto(c, "blocked")
  /\ UNCHANGED <<risky, row, mode, over, cached, remembered, seen, via, tries,
                 handlers, slots>>

-----------------------------------------------------------------------------
(* The operator, and time.                                                 *)

Decide(c) ==
  /\ row[c] = "pending"
  /\ \E d \in {"approved", "rejected"} : row' = [row EXCEPT ![c] = d]
  /\ UNCHANGED <<risky, mode, over, cached, remembered, hook, seen, via, tries,
                 handlers, slots, faults>>

Cancel(c) ==
  /\ row[c] = "pending"
  /\ row' = [row EXCEPT ![c] = "cancelled"]
  /\ UNCHANGED <<risky, mode, over, cached, remembered, hook, seen, via, tries,
                 handlers, slots, faults>>

SetMode ==
  /\ mode.at < MaxModeChanges
  /\ \E name \in {"ASK", "AUTO_APPROVE", "HALT"} :
       mode' = [name |-> name, at |-> mode.at + 1]
  /\ UNCHANGED <<risky, row, over, cached, remembered, hook, seen, via, tries,
                 handlers, slots, faults>>

WindowEnds ==
  /\ mode.name = "AUTO_APPROVE" \/ cached.state.name = "AUTO_APPROVE"
  /\ \E n \in {mode.at, cached.state.at} \ (over \cup {0}) : over' = over \cup {n}
  /\ UNCHANGED <<risky, row, mode, cached, remembered, hook, seen, via, tries,
                 handlers, slots, faults>>

CacheAges ==
  /\ cached.fresh
  /\ cached' = [cached EXCEPT !.fresh = FALSE]
  /\ UNCHANGED <<risky, row, mode, over, remembered, hook, seen, via, tries,
                 handlers, slots, faults>>

\* The half hour of an entry is over, or the plugin restarts.
Forget(k) ==
  /\ k \in remembered
  /\ remembered' = remembered \ {k}
  /\ UNCHANGED <<risky, row, mode, over, cached, hook, seen, via, tries,
                 handlers, slots, faults>>

-----------------------------------------------------------------------------
HookStep(c) ==
  \/ ProbeRead(c) \/ Learn(c) \/ ProbeFails(c)
  \/ WriteAutoDecision(c) \/ UseRemembered(c) \/ PostApproval(c)

HandlerStep(h) == PollRow(h) \/ Timeout(h)

ApprovalNext ==
  \/ \E c \in Calls : \/ Dispatch(c) \/ HookStep(c) \/ ConnectionLost(c)
                      \/ Decide(c) \/ Cancel(c)
  \/ \E h \in handlers : HandlerStep(h) \/ PollRowFails(h)
  \/ WorkerCrash \/ SetMode \/ WindowEnds \/ CacheAges
  \/ \E k \in Keys : Forget(k)

ApprovalSpec == ApprovalInit /\ [][ApprovalNext]_approvalVars

-----------------------------------------------------------------------------
(* Properties.                                                             *)

ApprovalTypeOK ==
  /\ risky \in SUBSET Keys
  /\ row \in [Calls -> {"none", "pending"} \cup Closed]
  /\ mode \in ModeStates
  /\ over \in SUBSET (0..MaxModeChanges)
  /\ cached \in [state : ModeStates, fresh : BOOLEAN]
  /\ remembered \in SUBSET Keys
  /\ hook \in [Calls -> {"new", "allowed", "blocked"} \cup Waiting]
  /\ seen \in [Calls -> ModeStates]
  /\ via \in [Calls -> {"none", "auto", "cache", "verdict"}]
  /\ tries \in [Calls -> Nat]
  /\ handlers \in SUBSET (Calls \X Nat)
  /\ slots \in Nat
  /\ faults \in 0..MaxFaults

\* A tool call runs only for a reason: an approval of its own row, a
\* remembered approval of a call with the same session, tool and arguments, or
\* AUTO_APPROVE, which never lets a spend or external-write call through.
AllowedIsApproved ==
  \A c \in Calls : hook[c] = "allowed" =>
    \/ via[c] = "auto" /\ KeyOf[c] \notin risky
    \/ via[c] = "verdict" /\ row[c] = "approved"
    \/ via[c] = "cache" /\ \E d \in Calls : KeyOf[d] = KeyOf[c] /\ row[d] = "approved"

\* Without faults a prompt the operator sees has a handler that waits for it:
\* nothing is asked that nobody listens to.
PendingIsAwaited ==
  faults = 0 => \A c \in Calls : row[c] = "pending" => \E h \in handlers : h[1] = c

\* Every way out of a handler gives its slot back: the count is that of the
\* handlers, across errors, lost connections and restarts, and never above
\* the cap.
SlotsExact == slots = Cardinality(handlers) /\ slots <= MaxConcurrent

\* What the operator decided, cancelled or let expire is never rewritten: not
\* by the expiry of a handler, not by the post of a retry.
DecisionFinal ==
  [][\A c \in Calls : row[c] \in Closed => row'[c] = row[c]]_row

\* The gate implements its promise: a row is asked for and settled once, and a call
\* runs once, for an approval of its own row or of an equal call's, or under
\* AUTO_APPROVE if its risk class allows that.
Ballot(status) ==
  CASE status = "none"     -> "none"
    [] status = "pending"  -> "open"
    [] status = "approved" -> "approved"
    [] OTHER               -> "denied"

Promise == INSTANCE Consent WITH
  ballot <- [c \in Calls |-> Ballot(row[c])],
  ran    <- {c \in Calls : hook[c] = "allowed"}

\* Every step of the hook, the worker and the operator is a step of the promise, or
\* leaves it unchanged.
ImplementsConsent == Promise!Spec

\* No call is let through by a window that has ended, although the plugin may
\* act on a copy of the mode that was replaced long ago.
AutoEndsWithWindow ==
  [][\A c \in Calls : hook'[c] = "auto" /\ hook[c] # "auto" =>
       seen'[c].name = "AUTO_APPROVE" /\ seen'[c].at \notin over]_hook

=============================================================================
