------------------------- MODULE ApprovalGateProofs -------------------------
(***************************************************************************)
(* Theorems about ApprovalGate, for any calls, keys and bounds.  An        *)
(* approval that lets a call through, at once or by the plugin's cache, is *)
(* an approved row, and rows that are closed stay as they are; a slot is   *)
(* given back once because a hook posts once under its try.                *)
(***************************************************************************)
EXTENDS ApprovalGate, FiniteSetTheorems, TLAPS

\* What the plugin remembers, an operator approved.
RememberedApproved ==
  \A k \in remembered : \E d \in Calls : KeyOf[d] = k /\ row[d] = "approved"

\* A hook is on the automatic way only if its key allows it.
AutoCovered == \A c \in Calls : hook[c] = "auto" => KeyOf[c] \notin risky

\* A hook that has yet to post has no handler under its try, nor a later one.
Unposted == {"probing", "probed", "auto", "halt", "ask"}
PostsOnce ==
  /\ \A h \in handlers : h[2] <= tries[h[1]]
  /\ \A c \in Calls : hook[c] \in Unposted => <<c, tries[c]>> \notin handlers
  /\ IsFiniteSet(handlers)

Gate == RememberedApproved /\ AutoCovered /\ AllowedIsApproved

ApprovalInv ==
  /\ ApprovalTypeOK
  /\ Gate
  /\ PendingIsAwaited
  /\ PostsOnce
  /\ SlotsExact

-----------------------------------------------------------------------------
(* What the pieces of the actions do.                                      *)

\* A hook that posts adds the handler of its own try.
LEMMA AdmitEffect ==
  ASSUME ApprovalTypeOK, NEW c \in Calls, Admit(c)
  PROVE  /\ row' \in [Calls -> {"none", "pending"} \cup Closed]
         /\ row'[c] = "pending"
         /\ \A d \in Calls : d # c => row'[d] = row[d]
         /\ \A d \in Calls : row'[d] = "approved" <=> row[d] = "approved"
         /\ <<c, tries[c]>> \in Calls \X Nat
         /\ handlers' = handlers \cup {<<c, tries[c]>>}
         /\ handlers' \in SUBSET (Calls \X Nat)
         /\ slots < MaxConcurrent
         /\ slots' = slots + 1
         /\ slots' \in Nat
<1>1. <<c, tries[c]>> \in Calls \X Nat
  BY DEF ApprovalTypeOK
<1> QED
  BY <1>1 DEF Admit, ApprovalTypeOK, Closed

\* An answer allows or blocks one call and may remember its key.
LEMMA AnswerEffect ==
  ASSUME ApprovalTypeOK, NEW c \in Calls, NEW ok \in BOOLEAN, Answer(c, ok)
  PROVE  /\ hook' \in [Calls -> {"new", "allowed", "blocked"} \cup Waiting]
         /\ via' \in [Calls -> {"none", "auto", "cache", "verdict"}]
         /\ remembered' \in SUBSET Keys
         /\ \A d \in Calls : d # c => hook'[d] = hook[d]
         /\ hook'[c] \in {"allowed", "blocked"}
<1>1. remembered' \in SUBSET Keys
  BY ApprovalAssumption DEF Answer, ApprovalTypeOK
<1>2. via' \in [Calls -> {"none", "auto", "cache", "verdict"}]
  BY DEF Answer, ApprovalTypeOK
<1> QED
  BY <1>1, <1>2 DEF Answer, Goto, ApprovalTypeOK, Waiting

\* A handler that leaves may answer its own call.
LEMMA FinishEffect ==
  ASSUME ApprovalTypeOK, NEW h \in handlers, NEW ok \in BOOLEAN, Finish(h, ok)
  PROVE  /\ hook' \in [Calls -> {"new", "allowed", "blocked"} \cup Waiting]
         /\ via' \in [Calls -> {"none", "auto", "cache", "verdict"}]
         /\ remembered' \in SUBSET Keys
         /\ handlers' = handlers \ {h}
         /\ handlers' \in SUBSET (Calls \X Nat)
         /\ slots' = IF slots > 0 THEN slots - 1 ELSE 0
         /\ slots' \in Nat
         /\ \A d \in Calls : hook'[d] # hook[d] => hook'[d] \in {"allowed", "blocked"}
<1>1. h[1] \in Calls
  BY DEF ApprovalTypeOK
<1>2. CASE hook[h[1]] = "waiting" /\ tries[h[1]] = h[2]
  <2>1. Answer(h[1], ok)
    BY <1>2 DEF Finish
  <2> QED
    BY <1>1, <2>1, AnswerEffect DEF Finish, ApprovalTypeOK
<1>3. CASE ~(hook[h[1]] = "waiting" /\ tries[h[1]] = h[2])
  BY <1>3 DEF Finish, ApprovalTypeOK
<1> QED
  BY <1>2, <1>3

-----------------------------------------------------------------------------
(* The steps.                                                              *)

\* Every step keeps the types.
LEMMA TypeStep == ApprovalTypeOK /\ [ApprovalNext]_approvalVars => ApprovalTypeOK'
<1> SUFFICES ASSUME ApprovalTypeOK, [ApprovalNext]_approvalVars
             PROVE  ApprovalTypeOK'
    OBVIOUS
<1> USE ApprovalAssumption DEF ApprovalTypeOK, ModeStates, Closed, Waiting
<1>1. ASSUME NEW c \in Calls, Dispatch(c)
       PROVE  ApprovalTypeOK'
  BY <1>1 DEF Dispatch, Goto, Hold, Course, EffectiveMode
<1>2. ASSUME NEW c \in Calls, ProbeRead(c)
       PROVE  ApprovalTypeOK'
  BY <1>2 DEF ProbeRead, Goto, Hold
<1>3. ASSUME NEW c \in Calls, Learn(c)
       PROVE  ApprovalTypeOK'
  BY <1>3 DEF Learn, Goto, Course, EffectiveMode
<1>4. ASSUME NEW c \in Calls, ProbeFails(c)
       PROVE  ApprovalTypeOK'
  BY <1>4 DEF ProbeFails, Goto, Course, EffectiveMode
<1>5. ASSUME NEW c \in Calls, WriteAutoDecision(c)
       PROVE  ApprovalTypeOK'
  <2>1. hook' \in [Calls -> {"new", "allowed", "blocked"} \cup Waiting] /\ via' \in [Calls -> {"none", "auto", "cache", "verdict"}]
    BY <1>5 DEF WriteAutoDecision, Goto
  <2>2. seen' \in [Calls -> ModeStates]
    BY <1>5 DEF WriteAutoDecision, Hold, DefaultAsk
  <2>3. CASE Admit(c)
    BY <1>5, <2>1, <2>2, <2>3, AdmitEffect DEF WriteAutoDecision
  <2>4. CASE UNCHANGED <<row, handlers, slots>>
    BY <1>5, <2>1, <2>2, <2>4 DEF WriteAutoDecision
  <2> QED
    BY <1>5, <2>3, <2>4 DEF WriteAutoDecision
<1>6. ASSUME NEW c \in Calls, UseRemembered(c)
       PROVE  ApprovalTypeOK'
  <2>1. hook' \in [Calls -> {"new", "allowed", "blocked"} \cup Waiting] /\ via' \in [Calls -> {"none", "auto", "cache", "verdict"}]
    BY <1>6 DEF UseRemembered, Goto
  <2>2. seen' \in [Calls -> ModeStates]
    BY <1>6 DEF UseRemembered, Hold, DefaultAsk
  <2> QED
    BY <1>6, <2>1, <2>2 DEF UseRemembered
<1>7. ASSUME NEW c \in Calls, PostApproval(c)
       PROVE  ApprovalTypeOK'
  <2>1. seen' \in [Calls -> ModeStates]
    BY <1>7 DEF PostApproval, Hold, DefaultAsk
  <2>2. CASE Admit(c) /\ Goto(c, "waiting") /\ UNCHANGED <<via, remembered>>
    BY <1>7, <2>1, <2>2, AdmitEffect DEF PostApproval, Goto
  <2>3. CASE Answer(c, row[c] = "approved") /\ UNCHANGED <<row, handlers, slots>>
    BY <1>7, <2>1, <2>3, AnswerEffect DEF PostApproval
  <2>4. CASE Goto(c, "blocked") /\ UNCHANGED <<via, remembered, row, handlers, slots>>
    BY <1>7, <2>1, <2>4 DEF PostApproval, Goto
  <2> QED
    BY <1>7, <2>2, <2>3, <2>4 DEF PostApproval
<1>8. ASSUME NEW c \in Calls, ConnectionLost(c)
       PROVE  ApprovalTypeOK'
  BY <1>8 DEF ConnectionLost, Fault, Goto
<1>9. ASSUME NEW c \in Calls, Decide(c)
       PROVE  ApprovalTypeOK'
  BY <1>9 DEF Decide
<1>10. ASSUME NEW c \in Calls, Cancel(c)
       PROVE  ApprovalTypeOK'
  BY <1>10 DEF Cancel
<1>11. ASSUME NEW h \in handlers, PollRow(h)
       PROVE  ApprovalTypeOK'
  BY <1>11, FinishEffect DEF PollRow
<1>12. ASSUME NEW h \in handlers, Timeout(h)
       PROVE  ApprovalTypeOK'
  <2>1. row' \in [Calls -> {"none", "pending"} \cup Closed]
    BY <1>12 DEF Timeout, MarkExpired
  <2> QED
    BY <1>12, <2>1, FinishEffect DEF Timeout
<1>13. ASSUME NEW h \in handlers, PollRowFails(h)
       PROVE  ApprovalTypeOK'
  <2>1. faults' \in 0..MaxFaults
    BY <1>13 DEF PollRowFails, Fault
  <2> QED
    BY <1>13, <2>1, FinishEffect DEF PollRowFails
<1>14. CASE WorkerCrash
  BY <1>14 DEF WorkerCrash, Fault
<1>15. CASE SetMode
  BY <1>15 DEF SetMode
<1>16. CASE WindowEnds
  BY <1>16 DEF WindowEnds
<1>17. CASE CacheAges
  BY <1>17 DEF CacheAges
<1>18. ASSUME NEW k \in Keys, Forget(k)
       PROVE  ApprovalTypeOK'
  BY <1>18 DEF Forget
<1>19. CASE UNCHANGED approvalVars
  BY <1>19 DEF approvalVars
<1> QED
  BY <1>1, <1>2, <1>3, <1>4, <1>5, <1>6, <1>7, <1>8, <1>9, <1>10, <1>11, <1>12, <1>13, <1>14, <1>15, <1>16, <1>17, <1>18, <1>19
     DEF ApprovalNext, HookStep, HandlerStep

\* Every step keeps the reasons for which calls run: an approved row stays approved.
LEMMA GateStep == ApprovalTypeOK /\ Gate /\ [ApprovalNext]_approvalVars => Gate'
<1> SUFFICES ASSUME ApprovalTypeOK /\ Gate, [ApprovalNext]_approvalVars
             PROVE  Gate'
    OBVIOUS
<1> USE ApprovalAssumption DEF ApprovalTypeOK, ModeStates, Closed, Waiting, Gate, RememberedApproved, AutoCovered, AllowedIsApproved
<1>1. ASSUME NEW c \in Calls, Dispatch(c)
       PROVE  Gate'
  BY <1>1 DEF Dispatch, Goto, Hold, Course, EffectiveMode
<1>2. ASSUME NEW c \in Calls, ProbeRead(c)
       PROVE  Gate'
  BY <1>2 DEF ProbeRead, Goto, Hold
<1>3. ASSUME NEW c \in Calls, Learn(c)
       PROVE  Gate'
  BY <1>3 DEF Learn, Goto, Course, EffectiveMode
<1>4. ASSUME NEW c \in Calls, ProbeFails(c)
       PROVE  Gate'
  BY <1>4 DEF ProbeFails, Goto, Course, EffectiveMode
<1>5. ASSUME NEW c \in Calls, WriteAutoDecision(c)
       PROVE  Gate'
  BY <1>5 DEF WriteAutoDecision, Goto, Hold, Admit
<1>6. ASSUME NEW c \in Calls, UseRemembered(c)
       PROVE  Gate'
  BY <1>6 DEF UseRemembered, Goto, Hold
<1>7. ASSUME NEW c \in Calls, PostApproval(c)
       PROVE  Gate'
  BY <1>7 DEF PostApproval, Goto, Hold, Admit, Answer
<1>8. ASSUME NEW c \in Calls, ConnectionLost(c)
       PROVE  Gate'
  BY <1>8 DEF ConnectionLost, Fault, Goto
<1>9. ASSUME NEW c \in Calls, Decide(c)
       PROVE  Gate'
  BY <1>9 DEF Decide
<1>10. ASSUME NEW c \in Calls, Cancel(c)
       PROVE  Gate'
  BY <1>10 DEF Cancel
<1>11. ASSUME NEW h \in handlers, PollRow(h)
       PROVE  Gate'
  BY <1>11 DEF PollRow, Finish, Answer, Goto
<1>12. ASSUME NEW h \in handlers, Timeout(h)
       PROVE  Gate'
  BY <1>12 DEF Timeout, MarkExpired, Finish, Answer, Goto
<1>13. ASSUME NEW h \in handlers, PollRowFails(h)
       PROVE  Gate'
  BY <1>13 DEF PollRowFails, Fault, Finish, Answer, Goto
<1>14. CASE WorkerCrash
  BY <1>14 DEF WorkerCrash, Fault
<1>15. CASE SetMode
  BY <1>15 DEF SetMode
<1>16. CASE WindowEnds
  BY <1>16 DEF WindowEnds
<1>17. CASE CacheAges
  BY <1>17 DEF CacheAges
<1>18. ASSUME NEW k \in Keys, Forget(k)
       PROVE  Gate'
  BY <1>18 DEF Forget
<1>19. CASE UNCHANGED approvalVars
  BY <1>19 DEF approvalVars
<1> QED
  BY <1>1, <1>2, <1>3, <1>4, <1>5, <1>6, <1>7, <1>8, <1>9, <1>10, <1>11, <1>12, <1>13, <1>14, <1>15, <1>16, <1>17, <1>18, <1>19
     DEF ApprovalNext, HookStep, HandlerStep

\* Without faults, the handlers of a row go only once it is closed.
LEMMA AwaitedStep == ApprovalTypeOK /\ PendingIsAwaited /\ [ApprovalNext]_approvalVars => PendingIsAwaited'
<1> SUFFICES ASSUME ApprovalTypeOK /\ PendingIsAwaited, [ApprovalNext]_approvalVars
             PROVE  PendingIsAwaited'
    OBVIOUS
<1> USE ApprovalAssumption DEF ApprovalTypeOK, ModeStates, Closed, Waiting, PendingIsAwaited
<1>1. ASSUME NEW c \in Calls, Dispatch(c)
       PROVE  PendingIsAwaited'
  BY <1>1 DEF Dispatch, Goto, Hold, Course, EffectiveMode
<1>2. ASSUME NEW c \in Calls, ProbeRead(c)
       PROVE  PendingIsAwaited'
  BY <1>2 DEF ProbeRead, Goto, Hold
<1>3. ASSUME NEW c \in Calls, Learn(c)
       PROVE  PendingIsAwaited'
  BY <1>3 DEF Learn, Goto, Course, EffectiveMode
<1>4. ASSUME NEW c \in Calls, ProbeFails(c)
       PROVE  PendingIsAwaited'
  BY <1>4 DEF ProbeFails, Goto, Course, EffectiveMode
<1>5. ASSUME NEW c \in Calls, WriteAutoDecision(c)
       PROVE  PendingIsAwaited'
  <2>1. CASE Admit(c)
    <3>1. \A h \in handlers : h \in handlers'
      BY <2>1 DEF Admit
    <3>2. <<c, tries[c]>> \in handlers' /\ <<c, tries[c]>>[1] = c
      BY <2>1 DEF Admit
    <3>3. \A d \in Calls : d # c => row'[d] = row[d]
      BY <2>1 DEF Admit
    <3> QED
      BY <1>5, <3>1, <3>2, <3>3 DEF WriteAutoDecision
  <2>2. CASE UNCHANGED <<row, handlers, slots>>
    BY <1>5, <2>2 DEF WriteAutoDecision
  <2> QED
    BY <1>5, <2>1, <2>2 DEF WriteAutoDecision
<1>6. ASSUME NEW c \in Calls, UseRemembered(c)
       PROVE  PendingIsAwaited'
  BY <1>6 DEF UseRemembered, Goto, Hold
<1>7. ASSUME NEW c \in Calls, PostApproval(c)
       PROVE  PendingIsAwaited'
  <2>1. CASE Admit(c)
    <3>1. \A h \in handlers : h \in handlers'
      BY <2>1 DEF Admit
    <3>2. <<c, tries[c]>> \in handlers' /\ <<c, tries[c]>>[1] = c
      BY <2>1 DEF Admit
    <3>3. \A d \in Calls : d # c => row'[d] = row[d]
      BY <2>1 DEF Admit
    <3> QED
      BY <1>7, <3>1, <3>2, <3>3 DEF PostApproval
  <2>2. CASE UNCHANGED <<row, handlers, slots>>
    BY <1>7, <2>2 DEF PostApproval
  <2> QED
    BY <1>7, <2>1, <2>2 DEF PostApproval
<1>8. ASSUME NEW c \in Calls, ConnectionLost(c)
       PROVE  PendingIsAwaited'
  BY <1>8 DEF ConnectionLost, Fault, Goto
<1>9. ASSUME NEW c \in Calls, Decide(c)
       PROVE  PendingIsAwaited'
  BY <1>9 DEF Decide
<1>10. ASSUME NEW c \in Calls, Cancel(c)
       PROVE  PendingIsAwaited'
  BY <1>10 DEF Cancel
<1>11. ASSUME NEW h \in handlers, PollRow(h)
       PROVE  PendingIsAwaited'
  BY <1>11 DEF PollRow, Finish, Answer, Goto
<1>12. ASSUME NEW h \in handlers, Timeout(h)
       PROVE  PendingIsAwaited'
  BY <1>12 DEF Timeout, MarkExpired, Finish, Answer, Goto
<1>13. ASSUME NEW h \in handlers, PollRowFails(h)
       PROVE  PendingIsAwaited'
  BY <1>13 DEF PollRowFails, Fault, Finish, Answer, Goto
<1>14. CASE WorkerCrash
  BY <1>14 DEF WorkerCrash, Fault
<1>15. CASE SetMode
  BY <1>15 DEF SetMode
<1>16. CASE WindowEnds
  BY <1>16 DEF WindowEnds
<1>17. CASE CacheAges
  BY <1>17 DEF CacheAges
<1>18. ASSUME NEW k \in Keys, Forget(k)
       PROVE  PendingIsAwaited'
  BY <1>18 DEF Forget
<1>19. CASE UNCHANGED approvalVars
  BY <1>19 DEF approvalVars
<1> QED
  BY <1>1, <1>2, <1>3, <1>4, <1>5, <1>6, <1>7, <1>8, <1>9, <1>10, <1>11, <1>12, <1>13, <1>14, <1>15, <1>16, <1>17, <1>18, <1>19
     DEF ApprovalNext, HookStep, HandlerStep

\* A try posts once.
LEMMA PostsOnceStep == ApprovalTypeOK /\ PostsOnce /\ [ApprovalNext]_approvalVars => PostsOnce'
<1> SUFFICES ASSUME ApprovalTypeOK /\ PostsOnce, [ApprovalNext]_approvalVars
             PROVE  PostsOnce'
    OBVIOUS
<1> USE ApprovalAssumption DEF ApprovalTypeOK, ModeStates, Closed, Waiting, PostsOnce, Unposted
<1>1. ASSUME NEW c \in Calls, Dispatch(c)
       PROVE  PostsOnce'
  BY <1>1, FS_AddElement, FS_RemoveElement, FS_EmptySet DEF Dispatch, Goto, Hold, Course, EffectiveMode
<1>2. ASSUME NEW c \in Calls, ProbeRead(c)
       PROVE  PostsOnce'
  BY <1>2, FS_AddElement, FS_RemoveElement, FS_EmptySet DEF ProbeRead, Goto, Hold
<1>3. ASSUME NEW c \in Calls, Learn(c)
       PROVE  PostsOnce'
  BY <1>3, FS_AddElement, FS_RemoveElement, FS_EmptySet DEF Learn, Goto, Course, EffectiveMode
<1>4. ASSUME NEW c \in Calls, ProbeFails(c)
       PROVE  PostsOnce'
  BY <1>4, FS_AddElement, FS_RemoveElement, FS_EmptySet DEF ProbeFails, Goto, Course, EffectiveMode
<1>5. ASSUME NEW c \in Calls, WriteAutoDecision(c)
       PROVE  PostsOnce'
  <2>1. \A d \in Calls : hook'[d] \in Unposted => hook[d] \in Unposted /\ d # c
    BY <1>5 DEF WriteAutoDecision, Goto
  <2>2. hook[c] \in Unposted
    BY <1>5 DEF WriteAutoDecision
  <2>3. CASE Admit(c)
    <3>1. handlers' = handlers \cup {<<c, tries[c]>>} /\ tries' = tries
      BY <1>5, <2>3 DEF WriteAutoDecision, Admit
    <3>2. IsFiniteSet(handlers')
      BY <3>1, FS_AddElement
    <3>3. \A h \in handlers' : h[2] <= tries'[h[1]]
      BY <3>1
    <3>4. \A d \in Calls : hook'[d] \in Unposted => <<d, tries[d]>> \notin handlers'
      BY <2>1, <3>1
    <3> QED
      BY <3>1, <3>2, <3>3, <3>4
  <2>4. CASE UNCHANGED <<row, handlers, slots>>
    BY <1>5, <2>1, <2>4 DEF WriteAutoDecision
  <2> QED
    BY <1>5, <2>3, <2>4 DEF WriteAutoDecision
<1>6. ASSUME NEW c \in Calls, UseRemembered(c)
       PROVE  PostsOnce'
  BY <1>6, FS_AddElement, FS_RemoveElement, FS_EmptySet DEF UseRemembered, Goto, Hold
<1>7. ASSUME NEW c \in Calls, PostApproval(c)
       PROVE  PostsOnce'
  <2>1. \A d \in Calls : hook'[d] \in Unposted => hook[d] \in Unposted /\ d # c
    BY <1>7 DEF PostApproval, Goto, Answer
  <2>3. CASE Admit(c)
    <3>1. handlers' = handlers \cup {<<c, tries[c]>>} /\ tries' = tries
      BY <1>7, <2>3 DEF PostApproval, Admit
    <3>2. IsFiniteSet(handlers')
      BY <3>1, FS_AddElement
    <3>3. \A h \in handlers' : h[2] <= tries'[h[1]]
      BY <3>1
    <3>4. \A d \in Calls : hook'[d] \in Unposted => <<d, tries[d]>> \notin handlers'
      BY <2>1, <3>1
    <3> QED
      BY <3>1, <3>2, <3>3, <3>4
  <2>4. CASE UNCHANGED <<row, handlers, slots>>
    BY <1>7, <2>1, <2>4 DEF PostApproval
  <2> QED
    BY <1>7, <2>3, <2>4 DEF PostApproval
<1>8. ASSUME NEW c \in Calls, ConnectionLost(c)
       PROVE  PostsOnce'
  BY <1>8, FS_AddElement, FS_RemoveElement, FS_EmptySet DEF ConnectionLost, Fault, Goto
<1>9. ASSUME NEW c \in Calls, Decide(c)
       PROVE  PostsOnce'
  BY <1>9, FS_AddElement, FS_RemoveElement, FS_EmptySet DEF Decide
<1>10. ASSUME NEW c \in Calls, Cancel(c)
       PROVE  PostsOnce'
  BY <1>10, FS_AddElement, FS_RemoveElement, FS_EmptySet DEF Cancel
<1>11. ASSUME NEW h \in handlers, PollRow(h)
       PROVE  PostsOnce'
  BY <1>11, FS_AddElement, FS_RemoveElement, FS_EmptySet DEF PollRow, Finish, Answer, Goto
<1>12. ASSUME NEW h \in handlers, Timeout(h)
       PROVE  PostsOnce'
  BY <1>12, FS_AddElement, FS_RemoveElement, FS_EmptySet DEF Timeout, MarkExpired, Finish, Answer, Goto
<1>13. ASSUME NEW h \in handlers, PollRowFails(h)
       PROVE  PostsOnce'
  BY <1>13, FS_AddElement, FS_RemoveElement, FS_EmptySet DEF PollRowFails, Fault, Finish, Answer, Goto
<1>14. CASE WorkerCrash
  BY <1>14, FS_AddElement, FS_RemoveElement, FS_EmptySet DEF WorkerCrash, Fault
<1>15. CASE SetMode
  BY <1>15, FS_AddElement, FS_RemoveElement, FS_EmptySet DEF SetMode
<1>16. CASE WindowEnds
  BY <1>16, FS_AddElement, FS_RemoveElement, FS_EmptySet DEF WindowEnds
<1>17. CASE CacheAges
  BY <1>17, FS_AddElement, FS_RemoveElement, FS_EmptySet DEF CacheAges
<1>18. ASSUME NEW k \in Keys, Forget(k)
       PROVE  PostsOnce'
  BY <1>18, FS_AddElement, FS_RemoveElement, FS_EmptySet DEF Forget
<1>19. CASE UNCHANGED approvalVars
  BY <1>19 DEF approvalVars
<1> QED
  BY <1>1, <1>2, <1>3, <1>4, <1>5, <1>6, <1>7, <1>8, <1>9, <1>10, <1>11, <1>12, <1>13, <1>14, <1>15, <1>16, <1>17, <1>18, <1>19
     DEF ApprovalNext, HookStep, HandlerStep

\* The count of the slots follows the set of the handlers.
LEMMA SlotsStep == ApprovalTypeOK /\ PostsOnce /\ SlotsExact /\ [ApprovalNext]_approvalVars => SlotsExact'
<1> SUFFICES ASSUME ApprovalTypeOK /\ PostsOnce /\ SlotsExact, [ApprovalNext]_approvalVars
             PROVE  SlotsExact'
    OBVIOUS
<1> USE ApprovalAssumption DEF ApprovalTypeOK, ModeStates, Closed, Waiting, PostsOnce, Unposted, SlotsExact
<1>1. ASSUME NEW c \in Calls, Dispatch(c)
       PROVE  SlotsExact'
  BY <1>1, FS_AddElement, FS_RemoveElement, FS_EmptySet, FS_CardinalityType DEF Dispatch, Goto, Hold, Course, EffectiveMode
<1>2. ASSUME NEW c \in Calls, ProbeRead(c)
       PROVE  SlotsExact'
  BY <1>2, FS_AddElement, FS_RemoveElement, FS_EmptySet, FS_CardinalityType DEF ProbeRead, Goto, Hold
<1>3. ASSUME NEW c \in Calls, Learn(c)
       PROVE  SlotsExact'
  BY <1>3, FS_AddElement, FS_RemoveElement, FS_EmptySet, FS_CardinalityType DEF Learn, Goto, Course, EffectiveMode
<1>4. ASSUME NEW c \in Calls, ProbeFails(c)
       PROVE  SlotsExact'
  BY <1>4, FS_AddElement, FS_RemoveElement, FS_EmptySet, FS_CardinalityType DEF ProbeFails, Goto, Course, EffectiveMode
<1>5. ASSUME NEW c \in Calls, WriteAutoDecision(c)
       PROVE  SlotsExact'
  <2>1. CASE Admit(c)
    <3>1. <<c, tries[c]>> \notin handlers
      BY <1>5 DEF WriteAutoDecision
    <3>2. handlers' = handlers \cup {<<c, tries[c]>>} /\ slots < MaxConcurrent /\ slots' = slots + 1
      BY <2>1 DEF Admit
    <3>3. Cardinality(handlers') = Cardinality(handlers) + 1
      BY <3>1, <3>2, FS_AddElement
    <3> QED
      BY <3>2, <3>3
  <2>2. CASE UNCHANGED <<row, handlers, slots>>
    BY <2>2
  <2> QED
    BY <1>5, <2>1, <2>2 DEF WriteAutoDecision
<1>6. ASSUME NEW c \in Calls, UseRemembered(c)
       PROVE  SlotsExact'
  BY <1>6, FS_AddElement, FS_RemoveElement, FS_EmptySet, FS_CardinalityType DEF UseRemembered, Goto, Hold
<1>7. ASSUME NEW c \in Calls, PostApproval(c)
       PROVE  SlotsExact'
  <2>1. CASE Admit(c)
    <3>1. <<c, tries[c]>> \notin handlers
      BY <1>7 DEF PostApproval
    <3>2. handlers' = handlers \cup {<<c, tries[c]>>} /\ slots < MaxConcurrent /\ slots' = slots + 1
      BY <2>1 DEF Admit
    <3>3. Cardinality(handlers') = Cardinality(handlers) + 1
      BY <3>1, <3>2, FS_AddElement
    <3> QED
      BY <3>2, <3>3
  <2>2. CASE UNCHANGED <<row, handlers, slots>>
    BY <2>2
  <2> QED
    BY <1>7, <2>1, <2>2 DEF PostApproval
<1>8. ASSUME NEW c \in Calls, ConnectionLost(c)
       PROVE  SlotsExact'
  BY <1>8, FS_AddElement, FS_RemoveElement, FS_EmptySet, FS_CardinalityType DEF ConnectionLost, Fault, Goto
<1>9. ASSUME NEW c \in Calls, Decide(c)
       PROVE  SlotsExact'
  BY <1>9, FS_AddElement, FS_RemoveElement, FS_EmptySet, FS_CardinalityType DEF Decide
<1>10. ASSUME NEW c \in Calls, Cancel(c)
       PROVE  SlotsExact'
  BY <1>10, FS_AddElement, FS_RemoveElement, FS_EmptySet, FS_CardinalityType DEF Cancel
<1>11. ASSUME NEW h \in handlers, PollRow(h)
       PROVE  SlotsExact'
  <2>1. handlers' = handlers \ {h} /\ slots' = IF slots > 0 THEN slots - 1 ELSE 0
    BY <1>11 DEF PollRow, Finish
  <2>2. Cardinality(handlers') = Cardinality(handlers) - 1
    BY <2>1, FS_RemoveElement
  <2>3. Cardinality(handlers) \in Nat /\ Cardinality(handlers') \in Nat
    BY <2>1, FS_CardinalityType, FS_RemoveElement
  <2> QED
    BY <2>1, <2>2, <2>3
<1>12. ASSUME NEW h \in handlers, Timeout(h)
       PROVE  SlotsExact'
  <2>1. handlers' = handlers \ {h} /\ slots' = IF slots > 0 THEN slots - 1 ELSE 0
    BY <1>12 DEF Timeout, Finish
  <2>2. Cardinality(handlers') = Cardinality(handlers) - 1
    BY <2>1, FS_RemoveElement
  <2>3. Cardinality(handlers) \in Nat /\ Cardinality(handlers') \in Nat
    BY <2>1, FS_CardinalityType, FS_RemoveElement
  <2> QED
    BY <2>1, <2>2, <2>3
<1>13. ASSUME NEW h \in handlers, PollRowFails(h)
       PROVE  SlotsExact'
  <2>1. handlers' = handlers \ {h} /\ slots' = IF slots > 0 THEN slots - 1 ELSE 0
    BY <1>13 DEF PollRowFails, Finish
  <2>2. Cardinality(handlers') = Cardinality(handlers) - 1
    BY <2>1, FS_RemoveElement
  <2>3. Cardinality(handlers) \in Nat /\ Cardinality(handlers') \in Nat
    BY <2>1, FS_CardinalityType, FS_RemoveElement
  <2> QED
    BY <2>1, <2>2, <2>3
<1>14. CASE WorkerCrash
  BY <1>14, FS_AddElement, FS_RemoveElement, FS_EmptySet, FS_CardinalityType DEF WorkerCrash, Fault
<1>15. CASE SetMode
  BY <1>15, FS_AddElement, FS_RemoveElement, FS_EmptySet, FS_CardinalityType DEF SetMode
<1>16. CASE WindowEnds
  BY <1>16, FS_AddElement, FS_RemoveElement, FS_EmptySet, FS_CardinalityType DEF WindowEnds
<1>17. CASE CacheAges
  BY <1>17, FS_AddElement, FS_RemoveElement, FS_EmptySet, FS_CardinalityType DEF CacheAges
<1>18. ASSUME NEW k \in Keys, Forget(k)
       PROVE  SlotsExact'
  BY <1>18, FS_AddElement, FS_RemoveElement, FS_EmptySet, FS_CardinalityType DEF Forget
<1>19. CASE UNCHANGED approvalVars
  BY <1>19 DEF approvalVars
<1> QED
  BY <1>1, <1>2, <1>3, <1>4, <1>5, <1>6, <1>7, <1>8, <1>9, <1>10, <1>11, <1>12, <1>13, <1>14, <1>15, <1>16, <1>17, <1>18, <1>19
     DEF ApprovalNext, HookStep, HandlerStep

-----------------------------------------------------------------------------
(* The theorems.                                                           *)

\* The initial states satisfy the invariant.
LEMMA ApprovalInitOK == ApprovalInit => ApprovalInv
<1>1. ApprovalInit => ApprovalTypeOK
  BY ApprovalAssumption DEF ApprovalInit, ApprovalTypeOK, ModeStates, DefaultAsk
<1>2. ApprovalInit => PostsOnce /\ SlotsExact
  BY ApprovalAssumption, FS_EmptySet DEF ApprovalInit, PostsOnce, SlotsExact
<1>3. ApprovalInit => Gate /\ PendingIsAwaited
  BY DEF ApprovalInit, Gate, RememberedApproved, AutoCovered, AllowedIsApproved,
         PendingIsAwaited
<1> QED
  BY <1>1, <1>2, <1>3 DEF ApprovalInv

\* The invariant holds of every reachable state.
THEOREM ApprovalInvariant == ApprovalSpec => []ApprovalInv
<1>1. ApprovalInv /\ [ApprovalNext]_approvalVars => ApprovalInv'
  BY TypeStep, GateStep, AwaitedStep, PostsOnceStep, SlotsStep DEF ApprovalInv
<1> QED
  BY <1>1, ApprovalInitOK, PTL DEF ApprovalSpec

\* The type invariant, for any calls and bounds.
THEOREM ApprovalTyped == ApprovalSpec => []ApprovalTypeOK
<1>1. ApprovalInv => ApprovalTypeOK
  BY DEF ApprovalInv
<1> QED
  BY <1>1, ApprovalInvariant, PTL

\* No call runs without its own approval, that of a repetition, or a mode
\* that covers it.
THEOREM AllowedIsApprovedHolds == ApprovalSpec => []AllowedIsApproved
<1>1. ApprovalInv => AllowedIsApproved
  BY DEF ApprovalInv, Gate
<1> QED
  BY <1>1, ApprovalInvariant, PTL

\* Without faults, every pending row has its handler.
THEOREM PendingIsAwaitedHolds == ApprovalSpec => []PendingIsAwaited
<1>1. ApprovalInv => PendingIsAwaited
  BY DEF ApprovalInv
<1> QED
  BY <1>1, ApprovalInvariant, PTL

\* The slots taken are the handlers, at most MAX_CONCURRENT.
THEOREM SlotsExactHolds == ApprovalSpec => []SlotsExact
<1>1. ApprovalInv => SlotsExact
  BY DEF ApprovalInv
<1> QED
  BY <1>1, ApprovalInvariant, PTL

\* A row that is closed stays as it is.
LEMMA ClosedStays ==
  ASSUME ApprovalTypeOK, [ApprovalNext]_approvalVars, NEW d \in Calls, row[d] \in Closed
  PROVE  row'[d] = row[d]
<1> USE DEF ApprovalTypeOK, Closed
<1>1. ASSUME NEW c \in Calls, Admit(c)
      PROVE  row'[d] = row[d]
  BY <1>1 DEF Admit
<1>2. ASSUME NEW h \in handlers, Timeout(h)
      PROVE  row'[d] = row[d]
  BY <1>2 DEF Timeout, MarkExpired
<1>3. ASSUME NEW c \in Calls, Decide(c) \/ Cancel(c)
      PROVE  row'[d] = row[d]
  BY <1>3 DEF Decide, Cancel
<1>4. CASE UNCHANGED row
  BY <1>4
<1>5. ASSUME NEW c \in Calls, HookStep(c)
      PROVE  row'[d] = row[d]
  BY <1>1, <1>4, <1>5 DEF HookStep, ProbeRead, Learn, ProbeFails, WriteAutoDecision,
                          UseRemembered, PostApproval
<1>6. ASSUME NEW h \in handlers, PollRow(h) \/ PollRowFails(h)
      PROVE  row'[d] = row[d]
  BY <1>4, <1>6 DEF PollRow, PollRowFails
<1>7. CASE WorkerCrash \/ SetMode \/ WindowEnds \/ CacheAges
  BY <1>4, <1>7 DEF WorkerCrash, SetMode, WindowEnds, CacheAges
<1>8. CASE UNCHANGED approvalVars
  BY <1>4, <1>8 DEF approvalVars
<1>9. ASSUME NEW c \in Calls, Dispatch(c) \/ ConnectionLost(c)
      PROVE  row'[d] = row[d]
  BY <1>4, <1>9 DEF Dispatch, ConnectionLost
<1>10. ASSUME NEW k \in Keys, Forget(k)
       PROVE  row'[d] = row[d]
  BY <1>4, <1>10 DEF Forget
<1> QED
  BY <1>2, <1>3, <1>5, <1>6, <1>7, <1>8, <1>9, <1>10 DEF ApprovalNext, HandlerStep

\* A decision, a cancel and an expiry are final.
THEOREM DecisionFinalHolds == ApprovalSpec => DecisionFinal
<1>1. ApprovalTypeOK /\ [ApprovalNext]_approvalVars
        => [\A c \in Calls : row[c] \in Closed => row'[c] = row[c]]_row
  BY ClosedStays
<1> QED
  BY <1>1, ApprovalTyped, PTL DEF ApprovalSpec, DecisionFinal

\* A hook takes the automatic way in the three steps that choose a course.
LEMMA AutoOnlyInWindow ==
  ASSUME ApprovalTypeOK, [ApprovalNext]_approvalVars,
         NEW d \in Calls, hook'[d] = "auto", hook[d] # "auto"
  PROVE  seen'[d].name = "AUTO_APPROVE" /\ seen'[d].at \notin over
<1> USE DEF ApprovalTypeOK, Waiting
<1>1. ASSUME NEW c \in Calls, Dispatch(c) \/ Learn(c) \/ ProbeFails(c)
      PROVE  seen'[d].name = "AUTO_APPROVE" /\ seen'[d].at \notin over
  BY <1>1 DEF Dispatch, Learn, ProbeFails, Goto, Hold, Course, EffectiveMode
<1>2. ASSUME NEW c \in Calls, ProbeRead(c) \/ WriteAutoDecision(c) \/ UseRemembered(c)
      PROVE  FALSE
  BY <1>2 DEF ProbeRead, WriteAutoDecision, UseRemembered, Goto
<1>3. ASSUME NEW c \in Calls, PostApproval(c) \/ ConnectionLost(c)
      PROVE  FALSE
  BY <1>3 DEF PostApproval, ConnectionLost, Answer, Goto
<1>4. ASSUME NEW h \in handlers, HandlerStep(h) \/ PollRowFails(h)
      PROVE  FALSE
  <2>1. \A ok \in BOOLEAN : ~Finish(h, ok)
    BY FinishEffect
  <2> QED
    BY <1>4, <2>1 DEF HandlerStep, PollRow, Timeout, PollRowFails
<1>5. CASE WorkerCrash
  BY <1>5 DEF WorkerCrash
<1>6. CASE UNCHANGED hook
  BY <1>6
<1>7. ASSUME NEW c \in Calls, Decide(c) \/ Cancel(c)
      PROVE  FALSE
  BY <1>7 DEF Decide, Cancel
<1>8. CASE SetMode \/ WindowEnds \/ CacheAges
  BY <1>8 DEF SetMode, WindowEnds, CacheAges
<1>9. ASSUME NEW k \in Keys, Forget(k)
      PROVE  FALSE
  BY <1>9 DEF Forget
<1>10. CASE UNCHANGED approvalVars
  BY <1>10 DEF approvalVars
<1> QED
  BY <1>1, <1>2, <1>3, <1>4, <1>5, <1>7, <1>8, <1>9, <1>10 DEF ApprovalNext, HookStep

\* A window that has ended lets nothing through, however old the plugin's copy.
THEOREM AutoEndsWithWindowHolds == ApprovalSpec => AutoEndsWithWindow
<1>1. ApprovalTypeOK /\ [ApprovalNext]_approvalVars
        => [\A c \in Calls : hook'[c] = "auto" /\ hook[c] # "auto" =>
              seen'[c].name = "AUTO_APPROVE" /\ seen'[c].at \notin over]_hook
  BY AutoOnlyInWindow
<1> QED
  BY <1>1, ApprovalTyped, PTL DEF ApprovalSpec, AutoEndsWithWindow

-----------------------------------------------------------------------------
(* The gate implements its promise.                                        *)

\* A row that is inserted, or was there and open.
LEMMA AdmitOpens ==
  ASSUME ApprovalTypeOK, NEW c \in Calls, Admit(c)
  PROVE  Promise!Opened(c) \/ UNCHANGED [d \in Calls |-> Ballot(row[d])]
<1> USE DEF ApprovalTypeOK, Admit, Ballot, Promise!Opened
<1>1. CASE row[c] = "none"
  BY <1>1
<1>2. CASE row[c] = "pending"
  BY <1>2
<1> QED
  BY <1>1, <1>2

\* A hook that moves without letting its call through.
LEMMA MovesOn ==
  ASSUME ApprovalTypeOK, NEW c \in Calls, NEW pc, Goto(c, pc),
         hook[c] # "allowed", pc # "allowed"
  PROVE  UNCHANGED {d \in Calls : hook[d] = "allowed"}
BY DEF ApprovalTypeOK, Goto

\* A hook that lets its call through.
LEMMA LetsThrough ==
  ASSUME ApprovalTypeOK, NEW c \in Calls, Goto(c, "allowed"), hook[c] # "allowed"
  PROVE  Promise!Run(c)
BY DEF ApprovalTypeOK, Goto, Promise!Run

\* The answer of a row: the call runs for an approval, and only then.
LEMMA AnswerKeeps ==
  ASSUME ApprovalTypeOK, NEW c \in Calls, NEW ok \in BOOLEAN, Answer(c, ok),
         hook[c] # "allowed", UNCHANGED <<row, risky>>, ok => row[c] = "approved"
  PROVE  [Promise!Next]_(Promise!consent)
<1>1. UNCHANGED [d \in Calls |-> Ballot(row[d])]
  BY DEF Ballot
<1>2. CASE ok
  <2>1. Promise!Run(c)
    BY <1>2, LetsThrough DEF Answer
  <2>2. Promise!RunApproved(c)
    BY <1>1, <1>2, <2>1 DEF Promise!RunApproved, Ballot
  <2> QED
    BY <2>2 DEF Promise!Next
<1>3. CASE ~ok
  <2>1. UNCHANGED {d \in Calls : hook[d] = "allowed"}
    BY <1>3, MovesOn DEF Answer
  <2> QED
    BY <1>1, <2>1 DEF Promise!consent
<1> QED
  BY <1>2, <1>3

\* Every step of the gate is a step of the promise, or leaves it unchanged.
LEMMA PromiseStep ==
  ApprovalTypeOK /\ Gate /\ [ApprovalNext]_approvalVars => [Promise!Next]_(Promise!consent)
<1> SUFFICES ASSUME ApprovalTypeOK /\ Gate, [ApprovalNext]_approvalVars
             PROVE  [Promise!Next]_(Promise!consent)
    OBVIOUS
<1>. USE DEF ApprovalTypeOK
<1>a. ASSUME UNCHANGED <<row, hook, risky>>
      PROVE  [Promise!Next]_(Promise!consent)
  BY <1>a DEF Promise!consent, Ballot
<1>b. ASSUME NEW c \in Calls, NEW pc, Goto(c, pc), hook[c] # "allowed", pc # "allowed",
             UNCHANGED <<row, risky>>
      PROVE  [Promise!Next]_(Promise!consent)
  BY <1>b, MovesOn DEF Promise!consent, Ballot
<1>1. ASSUME NEW c \in Calls, Dispatch(c) \/ ProbeRead(c) \/ Learn(c) \/ ProbeFails(c) \/ ConnectionLost(c)
      PROVE  [Promise!Next]_(Promise!consent)
  <2>1. \A s : Course(c, s) # "allowed"
    BY DEF Course, EffectiveMode
  <2> QED
    BY <1>1, <1>b, <2>1 DEF Dispatch, ProbeRead, Learn, ProbeFails, ConnectionLost
<1>2. ASSUME NEW c \in Calls, WriteAutoDecision(c)
      PROVE  [Promise!Next]_(Promise!consent)
  <2>1. Promise!Opened(c) \/ UNCHANGED [d \in Calls |-> Ballot(row[d])]
    BY <1>2, AdmitOpens DEF WriteAutoDecision, Ballot
  <2>2. CASE hook[c] = "auto"
    <3>1. KeyOf[c] \notin risky
      BY <2>2 DEF Gate, AutoCovered
    <3>2. Promise!Run(c)
      BY <1>2, <2>2, LetsThrough DEF WriteAutoDecision
    <3>3. Promise!RunUnasked(c)
      BY <1>2, <2>1, <3>1, <3>2 DEF Promise!RunUnasked, WriteAutoDecision
    <3> QED
      BY <3>3 DEF Promise!Next
  <2>3. CASE hook[c] = "halt"
    <3>1. UNCHANGED <<{d \in Calls : hook[d] = "allowed"}, risky>>
      BY <1>2, <2>3, MovesOn DEF WriteAutoDecision
    <3> QED
      BY <2>1, <3>1 DEF Promise!Ask, Promise!Next, Promise!consent
  <2> QED
    BY <1>2, <2>2, <2>3 DEF WriteAutoDecision
<1>3. ASSUME NEW c \in Calls, UseRemembered(c)
      PROVE  [Promise!Next]_(Promise!consent)
  <2>1. \E d \in Calls : KeyOf[d] = KeyOf[c] /\ Ballot(row[d]) = "approved"
    BY <1>3 DEF UseRemembered, Gate, RememberedApproved, Ballot
  <2>2. Promise!Run(c)
    BY <1>3, LetsThrough DEF UseRemembered
  <2>3. Promise!RunApproved(c)
    BY <1>3, <2>1, <2>2 DEF UseRemembered, Promise!RunApproved, Ballot
  <2> QED
    BY <2>3 DEF Promise!Next
<1>4. ASSUME NEW c \in Calls, PostApproval(c)
      PROVE  [Promise!Next]_(Promise!consent)
  <2>1. CASE Admit(c) /\ Goto(c, "waiting")
    <3>1. UNCHANGED <<{d \in Calls : hook[d] = "allowed"}, risky>>
      BY <1>4, <2>1, MovesOn DEF PostApproval
    <3> QED
      BY <2>1, <3>1, AdmitOpens DEF Promise!Ask, Promise!Next, Promise!consent
  <2>2. CASE Answer(c, row[c] = "approved") /\ UNCHANGED row
    BY <1>4, <2>2, AnswerKeeps DEF PostApproval
  <2>3. CASE Goto(c, "blocked") /\ UNCHANGED row
    BY <1>4, <2>3, <1>b DEF PostApproval
  <2> QED
    BY <1>4, <2>1, <2>2, <2>3 DEF PostApproval
<1>5. ASSUME NEW c \in Calls, Decide(c) \/ Cancel(c)
      PROVE  [Promise!Next]_(Promise!consent)
  <2>1. PICK d \in {"approved", "rejected", "cancelled"} :
          row[c] = "pending" /\ row' = [row EXCEPT ![c] = d] /\ UNCHANGED <<hook, risky>>
    BY <1>5 DEF Decide, Cancel
  <2>2. Promise!Settle(c, Ballot(d))
    BY <2>1 DEF Promise!Settle, Ballot
  <2> QED
    BY <2>2 DEF Promise!Next, Ballot
<1>6. ASSUME NEW h \in handlers, PollRow(h) \/ PollRowFails(h)
      PROVE  [Promise!Next]_(Promise!consent)
  <2>1. PICK ok \in BOOLEAN : Finish(h, ok) /\ (ok => row[h[1]] = "approved") /\ UNCHANGED <<row, risky>>
    BY <1>6 DEF PollRow, PollRowFails
  <2>2. CASE hook[h[1]] = "waiting" /\ tries[h[1]] = h[2]
    BY <2>1, <2>2, AnswerKeeps DEF Finish
  <2>3. CASE ~(hook[h[1]] = "waiting" /\ tries[h[1]] = h[2])
    BY <2>1, <2>3, <1>a DEF Finish
  <2> QED
    BY <2>2, <2>3
<1>7. ASSUME NEW h \in handlers, Timeout(h)
      PROVE  [Promise!Next]_(Promise!consent)
  <2>1. h[1] \in Calls
    OBVIOUS
  <2>2. UNCHANGED <<{d \in Calls : hook[d] = "allowed"}, risky>>
    BY <1>7, <2>1, MovesOn DEF Timeout, Finish, Answer
  <2>3. CASE row[h[1]] = "pending"
    <3>1. Promise!Settle(h[1], "denied")
      BY <1>7, <2>1, <2>2, <2>3 DEF Timeout, MarkExpired, Promise!Settle, Ballot
    <3> QED
      BY <2>1, <3>1 DEF Promise!Next
  <2>4. CASE row[h[1]] # "pending"
    BY <1>7, <2>1, <2>2, <2>4 DEF Timeout, MarkExpired, Promise!consent, Ballot
  <2> QED
    BY <2>3, <2>4
<1>8. CASE WorkerCrash
  BY <1>8 DEF WorkerCrash, Promise!consent, Ballot
<1>9. CASE SetMode \/ WindowEnds \/ CacheAges
  BY <1>9, <1>a DEF SetMode, WindowEnds, CacheAges
<1>10. ASSUME NEW k \in Keys, Forget(k)
       PROVE  [Promise!Next]_(Promise!consent)
  BY <1>10, <1>a DEF Forget
<1>11. CASE UNCHANGED approvalVars
  BY <1>11, <1>a DEF approvalVars
<1> QED
  BY <1>1, <1>2, <1>3, <1>4, <1>5, <1>6, <1>7, <1>8, <1>9, <1>10, <1>11
     DEF ApprovalNext, HookStep, HandlerStep

\* The gate implements its promise: a row is settled once, and a call runs once, for
\* an approval of its own or an equal call's row, or under a mode that covers it.
THEOREM GateImplementsConsent == ApprovalSpec => ImplementsConsent
<1>1. ApprovalInit => Promise!Init
  BY DEF ApprovalInit, Promise!Init, Ballot
<1>2. ApprovalInv /\ [ApprovalNext]_approvalVars => [Promise!Next]_(Promise!consent)
  BY PromiseStep DEF ApprovalInv
<1> QED
  BY <1>1, <1>2, ApprovalInvariant, PTL DEF ApprovalSpec, ImplementsConsent, Promise!Spec
=============================================================================
