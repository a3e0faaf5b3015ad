------------------------- MODULE AgentApprovalProofs -------------------------
(***************************************************************************)
(* Theorems about AgentRuns, for any number of runs and cancel requests,   *)
(* and about AgentApproval, which adds cards, questions and tool calls to  *)
(* it, for any number of these.                                            *)
(*                                                                         *)
(* Runs.  The critical sections of the session service leave a session in  *)
(* memory whose last status is that of the row; RunsInv says how the       *)
(* statuses of the records, that last status and the goroutines belong     *)
(* together.                                                               *)
(*                                                                         *)
(* Approvals.  The steps of the runs leave the selection rows alone, so    *)
(* the proofs are about the actions that touch card, ask, call or spent.   *)
(* SpendInv says who may be about to spend a card; AtMostOneSpend is not   *)
(* inductive without it, because it does not say that a call which is      *)
(* executing is alone and has not spent yet.                               *)
(*                                                                         *)
(* The last part shows that the rows implement ApprovedSpend.  PromiseInv  *)
(* adds what the phase of a card depends on: only a claimed card has an    *)
(* outcome, and none while the holder of the claim is executing            *)
(* (OutcomeInv).                                                           *)
(*                                                                         *)
(* Composition.  Every step of AgentApproval is a step of AgentRuns or     *)
(* leaves its variables alone, so what is proved of the runs holds among   *)
(* the cards too; with it, an agent that waits or spends is the one run    *)
(* the session records (RunsAreComposed, OneAgentSpends).                  *)
(***************************************************************************)
EXTENDS AgentApproval, TLAPS

-----------------------------------------------------------------------------
(* Runs.                                                                   *)


\* What the row of the session may hold.
SavedType == [acp : MaybeRun, lastStatus : RunStatus \cup {"none", "paused"}]

\* Memory and row tell the same story: one record at most says running, and
\* the last status says so as well.
RecordsAgree ==
  /\ ~loaded => session = EmptySession
  /\ loaded => session.lastStatus = saved.lastStatus
  /\ \A r, q \in Active(session) : r = q
  /\ saved.lastStatus = "running" <=> Active(session) # {}

\* A run has no record before StartRun.
NewRunsHaveNoRecord ==
  \A r \in Runs : work[r] \in {"idle", "admitted"} => session.status[r] = "absent"

RunsInv ==
  /\ RunsTypeOK
  /\ RecordsAgree
  /\ NewRunsHaveNoRecord
  /\ ExecutingRunIsOnRecord
  /\ NothingSurvivesClose

-----------------------------------------------------------------------------
(* Sessions and critical sections.                                         *)

\* The first half of each method reads the records in memory and the last
\* status of the row.
LEMMA CurrentFacts ==
  ASSUME RunsTypeOK, RecordsAgree
  PROVE  /\ Current \in SessionType
         /\ Current.status = session.status
         /\ Current.lastStatus = saved.lastStatus
         /\ FromRow \in SessionType
         /\ FromRow.status = [r \in Runs |-> "absent"]
         /\ FromRow.lastStatus = saved.lastStatus
<1>1. /\ FromRow \in SessionType
      /\ FromRow.status = [r \in Runs |-> "absent"]
      /\ FromRow.lastStatus = saved.lastStatus
  <2>1. saved.acp \in MaybeRun /\ saved.lastStatus \in RunStatus \cup {"none", "paused"}
    BY DEF RunsTypeOK
  <2>2. 0 \in Int /\ -1 \in Int /\ None \in MaybeRun
    BY DEF MaybeRun
  <2>3. FromRow = [EmptySession EXCEPT !.acp = saved.acp,
                     !.turns = IF saved.acp = None THEN 0 ELSE -1,
                     !.lastStatus = saved.lastStatus]
    BY DEF FromRow
  <2>4. EmptySession \in SessionType /\ EmptySession.status = [r \in Runs |-> "absent"]
    BY <2>2 DEF EmptySession, SessionType
  <2> QED BY <2>1, <2>2, <2>3, <2>4 DEF SessionType
<1>2. EmptySession.status = [r \in Runs |-> "absent"]
  BY DEF EmptySession
<1> QED BY <1>1, <1>2 DEF RunsTypeOK, RecordsAgree, Current

\* A method that changed no record.
Unrecorded ==
  /\ loaded' /\ session' \in SessionType /\ saved' \in SavedType
  /\ session'.status = session.status
  /\ session'.lastStatus = saved.lastStatus
  /\ saved'.lastStatus = saved.lastStatus

LEMMA KeepCurrent ==
  ASSUME RunsTypeOK, RecordsAgree, Keep(Current)
  PROVE  Unrecorded
  BY CurrentFacts DEF Keep, Unrecorded, RunsTypeOK, SavedType

\* A method that stores the session it leaves.
LEMMA Persisted ==
  ASSUME NEW s \in SessionType, Persist(s)
  PROVE  /\ loaded' /\ session' = s
         /\ saved' \in SavedType
         /\ saved'.lastStatus = s.lastStatus
  BY DEF Persist, Row, SessionType, SavedType

\* Without a change to the records they still agree.
LEMMA UnrecordedAgree ==
  ASSUME RecordsAgree, Unrecorded
  PROVE  RecordsAgree'
  BY DEF RecordsAgree, Unrecorded, Active

\* The record of one run changes from running to another status, or the run is
\* started while none is active.
LEMMA FinishedFacts ==
  ASSUME RunsTypeOK, RecordsAgree, NEW r \in Runs, NEW v \in Terminal, FinishRun(r, v)
  PROVE  /\ loaded' /\ session' \in SessionType
         /\ saved' \in SavedType
         /\ RecordsAgree'
         /\ fate' \in [Runs -> RunStatus \cup {"none", "paused"}]
         /\ \A q \in Runs : q # r => session'.status[q] = session.status[q]
         /\ session'.status[r] = IF session.status[r] = "running" THEN v ELSE session.status[r]
<1>1. v \in RunStatus /\ v # "running" /\ Terminal \subseteq RunStatus
  BY DEF Terminal, RunStatus
<1>2. CASE session.status[r] = "running"
  <2> DEFINE s == FinishedSession(Current, r, v)
  <2>1. /\ s \in SessionType /\ s.lastStatus = v
        /\ s.status = [session.status EXCEPT ![r] = v]
    BY <1>1, CurrentFacts DEF FinishedSession, SessionType, MaybeRun
  <2>2. Persist(s) /\ fate' = [fate EXCEPT ![r] = v]
    BY <1>2, CurrentFacts DEF FinishRun, Terminal
  <2>3. /\ loaded' /\ session' = s /\ saved'.lastStatus = v
        /\ saved' \in SavedType
    BY <2>1, <2>2, Persisted
  <2>4. /\ \A q \in Runs : q # r => session'.status[q] = session.status[q]
        /\ session'.status[r] = v
    BY <2>1, <2>3 DEF RunsTypeOK, SessionType
  <2>5. Active(session') = {}
    BY <1>1, <1>2, <2>4 DEF RecordsAgree, Active
  <2>6. RecordsAgree'
    BY <1>1, <2>1, <2>3, <2>5 DEF RecordsAgree, Active
  <2>7. fate' \in [Runs -> RunStatus \cup {"none", "paused"}]
    BY <1>1, <2>2 DEF RunsTypeOK
  <2> HIDE DEF s
  <2> QED BY <1>2, <2>1, <2>3, <2>4, <2>6, <2>7
<1>3. CASE session.status[r] # "running"
  <2>1. /\ Keep(Current)
        /\ \/ fate' = [fate EXCEPT ![r] = Current.status[r]] /\ Current.status[r] \in Terminal
           \/ fate' = [fate EXCEPT ![r] = Current.lastStatus]
    BY <1>3, CurrentFacts DEF FinishRun
  <2>2. Unrecorded /\ RecordsAgree'
    BY <2>1, KeepCurrent, UnrecordedAgree
  <2>3. Current.lastStatus \in RunStatus \cup {"none", "paused"}
    BY CurrentFacts DEF SessionType
  <2>4. fate' \in [Runs -> RunStatus \cup {"none", "paused"}]
    BY <1>1, <2>1, <2>3 DEF RunsTypeOK
  <2> QED BY <1>3, <2>2, <2>4 DEF Unrecorded
<1> QED BY <1>2, <1>3

-----------------------------------------------------------------------------
(* Initial states and steps.                                               *)

LEMMA RunsInitInv == RunsInit => RunsInv
<1> SUFFICES ASSUME RunsInit PROVE RunsInv
  OBVIOUS
<1>1. EmptySession \in SessionType /\ \A r \in Runs : EmptySession.status[r] = "absent"
  BY DEF EmptySession, SessionType, MaybeRun
<1>2. Row(EmptySession) = [acp |-> None, lastStatus |-> "none"]
  BY DEF Row, EmptySession
<1>3. EmptySession.lastStatus = "none"
  BY DEF EmptySession
<1>4. RunsTypeOK
  BY <1>1, <1>2 DEF RunsInit, RunsTypeOK, WorkStates, MaybeRun
<1>5. RecordsAgree
  BY <1>1, <1>2, <1>3 DEF RunsInit, RecordsAgree, Active
<1> QED BY <1>1, <1>4, <1>5
        DEF RunsInit, RunsInv, NewRunsHaveNoRecord, ExecutingRunIsOnRecord, Executing,
            NothingSurvivesClose

\* The session is not touched.
LEMMA UntouchedAgree ==
  ASSUME RecordsAgree, UNCHANGED sessionVars
  PROVE  RecordsAgree'
  BY DEF RecordsAgree, sessionVars, Active

\* Steps of a goroutine or of its request handler between two critical sections,
\* and of Close.
LEMMA QuietStep ==
  ASSUME RunsInv,
         \/ \E r \in Runs : BeginLifecycleWork(r) \/ SpawnRun(r) \/ RunnerReturns(r)
                              \/ NotifyTerminal(r)
         \/ \E c \in Cancels : OnCancelled(c)
         \/ BeginClose \/ FinishClose
  PROVE  RunsInv' /\ session' = session
<1> USE DEF RunsInv
<1>1. CASE \E r \in Runs : BeginLifecycleWork(r)
  <2> PICK r \in Runs : BeginLifecycleWork(r) BY <1>1
  <2> USE DEF BeginLifecycleWork, Goto
  <2>1. RunsTypeOK' BY DEF RunsTypeOK, WorkStates, sessionVars
  <2>2. RecordsAgree' BY UntouchedAgree
  <2>3. NewRunsHaveNoRecord' /\ ExecutingRunIsOnRecord'
    BY DEF NewRunsHaveNoRecord, ExecutingRunIsOnRecord, Executing, RunsTypeOK, sessionVars
  <2>4. NothingSurvivesClose'
    BY DEF NothingSurvivesClose, AcceptsWork
  <2> QED BY <2>1, <2>2, <2>3, <2>4 DEF sessionVars
<1>2. CASE \E r \in Runs : SpawnRun(r)
  <2> PICK r \in Runs : SpawnRun(r) BY <1>2
  <2> USE DEF SpawnRun, Goto
  <2>1. RunsTypeOK' BY DEF RunsTypeOK, WorkStates, sessionVars
  <2>2. RecordsAgree' BY UntouchedAgree
  <2>3. NewRunsHaveNoRecord' /\ ExecutingRunIsOnRecord'
    BY DEF NewRunsHaveNoRecord, ExecutingRunIsOnRecord, Executing, RunsTypeOK, sessionVars
  <2>4. NothingSurvivesClose'
    BY DEF NothingSurvivesClose, InProgress, RunsTypeOK
  <2> QED BY <2>1, <2>2, <2>3, <2>4 DEF sessionVars
<1>3. CASE \E r \in Runs : RunnerReturns(r)
  <2> PICK r \in Runs : RunnerReturns(r) BY <1>3
  <2>1. /\ work[r] = "running" /\ UNCHANGED <<sessionVars, ctxDone, startAcp, fate, closing, cancel>>
        /\ \E pc \in {"storing", "finishing", "clearing"} : work' = [work EXCEPT ![r] = pc]
    BY DEF RunnerReturns, RunnerSucceeds, RunnerFails, RunnerPanics, Goto
  <2>2. RunsTypeOK'
    <3>1. CASE RunnerSucceeds(r)
      <4>1. CASE work' = [work EXCEPT ![r] = "storing"]
        BY <3>1, <4>1, <2>1, NoneAssumption
           DEF RunnerSucceeds, Goto, RunsTypeOK, WorkStates, sessionVars, MaybeRun
      <4>2. CASE work' = [work EXCEPT ![r] = "finishing"]
        BY <3>1, <4>2, <2>1
           DEF RunnerSucceeds, Goto, RunsTypeOK, WorkStates, sessionVars, Terminal
      <4> QED BY <3>1, <4>1, <4>2 DEF RunnerSucceeds, Goto
    <3>2. CASE RunnerFails(r)
      BY <3>2, <2>1 DEF RunnerFails, Goto, RunsTypeOK, WorkStates, sessionVars, Terminal
    <3>3. CASE RunnerPanics(r)
      BY <3>3, <2>1 DEF RunnerPanics, Goto, RunsTypeOK, WorkStates, sessionVars, Terminal
    <3> QED BY <3>1, <3>2, <3>3 DEF RunnerReturns
  <2>3. RecordsAgree' BY <2>1, UntouchedAgree
  <2>4. NewRunsHaveNoRecord' /\ ExecutingRunIsOnRecord'
    BY <2>1 DEF NewRunsHaveNoRecord, ExecutingRunIsOnRecord, Executing, RunsTypeOK, sessionVars
  <2>5. NothingSurvivesClose'
    BY <2>1 DEF NothingSurvivesClose, InProgress, RunsTypeOK
  <2> QED BY <2>1, <2>2, <2>3, <2>4, <2>5 DEF sessionVars
<1>4. CASE \E r \in Runs : NotifyTerminal(r)
  <2> PICK r \in Runs : NotifyTerminal(r) BY <1>4
  <2> USE DEF NotifyTerminal, Goto
  <2>1. RunsTypeOK' BY DEF RunsTypeOK, WorkStates, sessionVars, MaybeRun
  <2>2. RecordsAgree' BY UntouchedAgree
  <2>3. NewRunsHaveNoRecord' /\ ExecutingRunIsOnRecord'
    BY DEF NewRunsHaveNoRecord, ExecutingRunIsOnRecord, Executing, RunsTypeOK, sessionVars
  <2>4. NothingSurvivesClose'
    BY DEF NothingSurvivesClose, InProgress, RunsTypeOK
  <2> QED BY <2>1, <2>2, <2>3, <2>4 DEF sessionVars
<1>5. CASE (\E c \in Cancels : OnCancelled(c)) \/ BeginClose \/ FinishClose
  <2>1. /\ UNCHANGED <<sessionVars, work, ctxDone, startAcp, result, verdict, fate>>
        /\ \/ closing' = closing
           \/ closing' = "closing"
           \/ closing' = "closed" /\ \A r \in Runs : ~InProgress(r)
    BY <1>5 DEF OnCancelled, BeginClose, FinishClose, workVars
  <2>2. /\ closing' \in {"open", "closing", "closed"}
        /\ cancel' \in [Cancels -> [pc : {"idle", "cancelled", "read"}, run : MaybeRun]]
    BY <1>5 DEF OnCancelled, BeginClose, FinishClose, RunsTypeOK, MaybeRun
  <2>3. RunsTypeOK' BY <2>1, <2>2 DEF RunsTypeOK, sessionVars
  <2>4. RecordsAgree' BY <2>1, UntouchedAgree
  <2>5. NewRunsHaveNoRecord' /\ ExecutingRunIsOnRecord'
    BY <2>1 DEF NewRunsHaveNoRecord, ExecutingRunIsOnRecord, Executing, sessionVars
  <2>6. NothingSurvivesClose'
    BY <2>1 DEF NothingSurvivesClose, InProgress
  <2> QED BY <2>1, <2>3, <2>4, <2>5, <2>6 DEF sessionVars
<1> QED BY <1>1, <1>2, <1>3, <1>4, <1>5

\* Critical sections that change no record: a refused message, the ACP session,
\* the status read by a cancel request, hydration.
LEMMA UnrecordedStep ==
  ASSUME RunsInv,
         \/ \E r \in Runs : StartRun(r) /\ ~MayStart(Current)
         \/ \E r \in Runs : ClearACPSessionID(r) \/ SetACPSessionState(r)
         \/ \E c \in Cancels : ReadCancelledStatus(c)
         \/ CachePersistedSessionIfAbsent
  PROVE  RunsInv' /\ session'.status = session.status
<1> USE DEF RunsInv
<1>1. CASE \E r \in Runs : StartRun(r) /\ ~MayStart(Current)
  <2> PICK r \in Runs : StartRun(r) /\ ~MayStart(Current) BY <1>1
  <2>1. Keep(Current) /\ ctxDone' = [ctxDone EXCEPT ![r] = TRUE] /\ work[r] = "admitted"
        /\ work' = [work EXCEPT ![r] = "ended"]
        /\ UNCHANGED <<startAcp, result, verdict, fate, closing, cancel>>
    BY DEF StartRun, Goto
  <2>2. Unrecorded /\ RecordsAgree'
    BY <2>1, KeepCurrent, UnrecordedAgree
  <2>3. RunsTypeOK' BY <2>1, <2>2 DEF RunsTypeOK, WorkStates, Unrecorded, SavedType
  <2>4. NewRunsHaveNoRecord' /\ ExecutingRunIsOnRecord'
    BY <2>1, <2>2 DEF NewRunsHaveNoRecord, ExecutingRunIsOnRecord, Executing, RunsTypeOK, Unrecorded
  <2>5. NothingSurvivesClose'
    BY <2>1 DEF NothingSurvivesClose, InProgress, RunsTypeOK
  <2> QED BY <2>2, <2>3, <2>4, <2>5 DEF Unrecorded
<1>2. CASE \E r \in Runs : ClearACPSessionID(r)
  <2> PICK r \in Runs : ClearACPSessionID(r) BY <1>2
  <2> DEFINE s == [Current EXCEPT !.acp = None, !.turns = 0]
  <2>1. /\ s \in SessionType /\ s.status = session.status /\ s.lastStatus = saved.lastStatus
    <3>1. /\ Current \in SessionType /\ Current.status = session.status
          /\ Current.lastStatus = saved.lastStatus /\ None \in MaybeRun /\ 0 \in Int
      BY CurrentFacts DEF MaybeRun
    <3>2. \A c \in SessionType, a \in MaybeRun, n \in Int :
            LET d == [c EXCEPT !.acp = a, !.turns = n]
            IN  d \in SessionType /\ d.status = c.status /\ d.lastStatus = c.lastStatus
      BY DEF SessionType
    <3> QED BY ONLY <3>1, <3>2, Zenon
  <2>2. /\ Persist(s) /\ work[r] = "clearing" /\ work' = [work EXCEPT ![r] = "finishing"]
        /\ UNCHANGED <<ctxDone, startAcp, result, verdict, fate, closing, cancel>>
    BY DEF ClearACPSessionID, Goto
  <2>3. Unrecorded
    BY <2>1, <2>2, Persisted DEF Unrecorded
  <2> HIDE DEF s
  <2>4. RecordsAgree' BY <2>3, UnrecordedAgree
  <2>5. RunsTypeOK' BY <2>2, <2>3 DEF RunsTypeOK, WorkStates, Unrecorded, SavedType
  <2>6. NewRunsHaveNoRecord' /\ ExecutingRunIsOnRecord'
    BY <2>2, <2>3 DEF NewRunsHaveNoRecord, ExecutingRunIsOnRecord, Executing, RunsTypeOK, Unrecorded
  <2>7. NothingSurvivesClose'
    BY <2>2 DEF NothingSurvivesClose, InProgress, RunsTypeOK
  <2> QED BY <2>3, <2>4, <2>5, <2>6, <2>7 DEF Unrecorded
<1>3. CASE \E r \in Runs : SetACPSessionState(r)
  <2> PICK r \in Runs : SetACPSessionState(r) BY <1>3
  <2>1. /\ work[r] = "storing" /\ work' = [work EXCEPT ![r] = "finishing"]
        /\ \E v \in {"completed", "failed"} : verdict' = [verdict EXCEPT ![r] = v]
        /\ UNCHANGED <<ctxDone, startAcp, result, fate, closing, cancel>>
    BY DEF SetACPSessionState, Goto
  <2>2. result[r] \in MaybeRun
    BY <2>1 DEF RunsTypeOK
  <2>3. Unrecorded
    <3> DEFINE n == IF Current.acp = result[r] /\ Current.turns >= 0 THEN Current.turns + 1 ELSE 1
               s == [Current EXCEPT !.acp = result[r], !.turns = n, !.runAcp[r] = result[r]]
    <3>1. CASE Keep(Current)
      BY <3>1, KeepCurrent
    <3>2. CASE Persist(s)
      <4>1. Current.turns \in Int
        BY CurrentFacts DEF SessionType
      <4>2. n \in Int
        BY <4>1
      <4>3. s \in SessionType /\ s.status = session.status /\ s.lastStatus = saved.lastStatus
        <5> HIDE DEF n
        <5> QED BY <2>2, <4>2, CurrentFacts DEF SessionType
      <4> HIDE DEF s
      <4> QED BY <3>2, <4>3, Persisted DEF Unrecorded
    <3> QED BY <3>1, <3>2 DEF SetACPSessionState
  <2>4. RecordsAgree' BY <2>3, UnrecordedAgree
  <2>5. RunsTypeOK' BY <2>1, <2>3 DEF RunsTypeOK, WorkStates, Unrecorded, SavedType, Terminal
  <2>6. NewRunsHaveNoRecord' /\ ExecutingRunIsOnRecord'
    BY <2>1, <2>3 DEF NewRunsHaveNoRecord, ExecutingRunIsOnRecord, Executing, RunsTypeOK, Unrecorded
  <2>7. NothingSurvivesClose'
    BY <2>1 DEF NothingSurvivesClose, InProgress, RunsTypeOK
  <2> QED BY <2>3, <2>4, <2>5, <2>6, <2>7 DEF Unrecorded
<1>4. CASE (\E c \in Cancels : ReadCancelledStatus(c)) \/ CachePersistedSessionIfAbsent
  <2>1. Keep(Current) /\ UNCHANGED <<work, ctxDone, startAcp, result, verdict, fate, closing>>
    BY <1>4 DEF ReadCancelledStatus, CachePersistedSessionIfAbsent, workVars, Current
  <2>2. cancel' \in [Cancels -> [pc : {"idle", "cancelled", "read"}, run : MaybeRun]]
    <3>1. Current.root \in MaybeRun
      BY CurrentFacts DEF SessionType
    <3> QED BY <1>4, <3>1 DEF ReadCancelledStatus, CachePersistedSessionIfAbsent, RunsTypeOK
  <2>3. Unrecorded /\ RecordsAgree'
    BY <2>1, KeepCurrent, UnrecordedAgree
  <2>4. RunsTypeOK' BY <2>1, <2>2, <2>3 DEF RunsTypeOK, Unrecorded, SavedType
  <2>5. NewRunsHaveNoRecord' /\ ExecutingRunIsOnRecord'
    BY <2>1, <2>3 DEF NewRunsHaveNoRecord, ExecutingRunIsOnRecord, Executing, Unrecorded
  <2>6. NothingSurvivesClose'
    BY <2>1 DEF NothingSurvivesClose, InProgress
  <2> QED BY <2>3, <2>4, <2>5, <2>6 DEF Unrecorded
<1> QED BY <1>1, <1>2, <1>3, <1>4

\* A run is accepted while none is active.
LEMMA AcceptStep ==
  ASSUME RunsInv, NEW r \in Runs, StartRun(r), MayStart(Current)
  PROVE  /\ RunsInv' /\ Active(session') = {r}
         /\ \A q \in Runs : session.status[q] \in Terminal => session'.status[q] = session.status[q]
<1> USE DEF RunsInv
<1>1. /\ work[r] = "admitted" /\ work' = [work EXCEPT ![r] = "accepted"]
      /\ UNCHANGED <<ctxDone, result, verdict, fate, closing, cancel>>
  BY DEF StartRun, Goto
<1> DEFINE s == Rotated(Current)
           n == [s EXCEPT !.root = r, !.lastStatus = "running", !.status[r] = "running"]
<1>2. s \in SessionType /\ s.status = session.status
  <2>1. \A c \in SessionType, a \in MaybeRun, i \in Int :
          LET d == [c EXCEPT !.acp = a, !.turns = i]
          IN  d \in SessionType /\ d.status = c.status
    BY DEF SessionType
  <2>2. Current \in SessionType /\ Current.status = session.status /\ None \in MaybeRun /\ 0 \in Int
    BY CurrentFacts DEF MaybeRun
  <2>3. LET d == [Current EXCEPT !.acp = None, !.turns = 0]
        IN  d \in SessionType /\ d.status = Current.status
    BY ONLY <2>1, <2>2, Zenon
  <2>4. s = Current \/ s = [Current EXCEPT !.acp = None, !.turns = 0]
    BY DEF Rotated
  <2> HIDE DEF s
  <2> QED BY ONLY <2>2, <2>3, <2>4, Zenon
<1>3. Persist(n) /\ startAcp' = [startAcp EXCEPT ![r] = s.acp]
  BY DEF StartRun
<1> HIDE DEF s
<1>4. /\ n \in SessionType /\ n.lastStatus = "running"
      /\ n.status = [session.status EXCEPT ![r] = "running"]
  BY <1>2 DEF SessionType, RunStatus, MaybeRun
<1>5. loaded' /\ session' = n /\ saved' \in SavedType /\ saved'.lastStatus = "running"
  BY <1>3, <1>4, Persisted
<1>6. Active(session) = {} /\ session.status[r] = "absent"
  BY <1>1, CurrentFacts DEF StartRun, MayStart, Active, NewRunsHaveNoRecord
<1> HIDE DEF n
<1>7. \A q \in Runs : session'.status[q] = IF q = r THEN "running" ELSE session.status[q]
  BY <1>4, <1>5 DEF RunsTypeOK, SessionType
<1>8. Active(session') = {r}
  BY <1>6, <1>7 DEF Active
<1>9. RecordsAgree'
  BY <1>4, <1>5, <1>8 DEF RecordsAgree
<1>10. RunsTypeOK'
  <2>1. s.acp \in MaybeRun
    BY <1>2 DEF SessionType
  <2> QED BY <1>1, <1>3, <1>4, <1>5, <2>1 DEF RunsTypeOK, WorkStates, SavedType
<1>11. NewRunsHaveNoRecord' /\ ExecutingRunIsOnRecord'
  BY <1>1, <1>5, <1>7 DEF NewRunsHaveNoRecord, ExecutingRunIsOnRecord, Executing, RunsTypeOK
<1>12. NothingSurvivesClose'
  BY <1>1 DEF NothingSurvivesClose, InProgress, RunsTypeOK
<1> QED BY <1>6, <1>7, <1>8, <1>9, <1>10, <1>11, <1>12 DEF Terminal

\* A run ends: the record says so unless it said something final before.
LEMMA FinishStep ==
  ASSUME RunsInv, NEW r \in Runs, FailPreparation(r) \/ FinishGoroutineRun(r)
  PROVE  /\ RunsInv' /\ Active(session') \subseteq Active(session) \ {r}
         /\ \A q \in Runs : session.status[q] \in Terminal => session'.status[q] = session.status[q]
<1> USE DEF RunsInv
<1>1. /\ work[r] \in {"accepted", "finishing"}
      /\ \E pc \in {"ended", "notifying"} : work' = [work EXCEPT ![r] = pc]
      /\ ctxDone' \in [Runs -> BOOLEAN] /\ \A q \in Runs : q # r => ctxDone'[q] = ctxDone[q]
      /\ UNCHANGED <<startAcp, result, verdict, closing, cancel>>
  BY DEF FailPreparation, FinishGoroutineRun, Goto, RunsTypeOK
<1>2. PICK v \in Terminal : FinishRun(r, v)
  BY DEF FailPreparation, FinishGoroutineRun, RunsTypeOK, Terminal
<1>3. /\ loaded' /\ session' \in SessionType /\ saved' \in SavedType /\ RecordsAgree'
      /\ fate' \in [Runs -> RunStatus \cup {"none", "paused"}]
      /\ \A q \in Runs : q # r => session'.status[q] = session.status[q]
      /\ session'.status[r] = IF session.status[r] = "running" THEN v ELSE session.status[r]
  BY <1>2, FinishedFacts
<1>4. RunsTypeOK'
  <2>1. /\ work' \in [Runs -> WorkStates] /\ work'[r] \in {"ended", "notifying"}
        /\ \A q \in Runs : q # r => work'[q] = work[q]
    BY <1>1 DEF RunsTypeOK, WorkStates
  <2> QED BY <1>1, <1>3, <2>1 DEF RunsTypeOK, SavedType
<1>5. NewRunsHaveNoRecord'
  BY <1>1, <1>3 DEF NewRunsHaveNoRecord, RunsTypeOK
<1>6. ExecutingRunIsOnRecord'
  BY <1>1, <1>3 DEF ExecutingRunIsOnRecord, Executing, RunsTypeOK
<1>7. NothingSurvivesClose'
  BY <1>1 DEF NothingSurvivesClose, InProgress, RunsTypeOK
<1>8. Active(session') \subseteq Active(session) \ {r}
  BY <1>3 DEF Active, Terminal
<1> QED BY <1>3, <1>4, <1>5, <1>6, <1>7, <1>8 DEF Terminal

\* A cancel request settles the records and stops the goroutines of the active
\* runs; if there is none, it drops the records.
LEMMA CancelStep ==
  ASSUME RunsInv, NEW c \in Cancels, CancelRun(c)
  PROVE  /\ RunsInv' /\ Active(session') = {}
         /\ \A q \in Runs : session.status[q] \in Terminal =>
              session'.status[q] \in {session.status[q], "absent"}
<1> USE DEF RunsInv
<1>0. UNCHANGED <<work, startAcp, result, verdict, fate, closing>>
  BY DEF CancelRun
<1>1. CASE loaded /\ Active(session) # {}
  <2> DEFINE s == CancelledSession(session)
  <2>1. /\ Persist(s) /\ ctxDone' = [r \in Runs |-> ctxDone[r] \/ r \in Active(session)]
        /\ cancel' = [cancel EXCEPT ![c].pc = "cancelled"]
    BY <1>1 DEF CancelRun
  <2>2. /\ s \in SessionType /\ s.lastStatus = "cancelled"
        /\ s.status = [r \in Runs |-> IF r \in Active(session) THEN "cancelled" ELSE session.status[r]]
    BY DEF CancelledSession, RunsTypeOK, SessionType, RunStatus, Terminal
  <2>3. loaded' /\ session' = s /\ saved' \in SavedType /\ saved'.lastStatus = "cancelled"
    BY <2>1, <2>2, Persisted
  <2> HIDE DEF s
  <2>4. \A r \in Runs : session'.status[r] =
          IF session.status[r] = "running" THEN "cancelled" ELSE session.status[r]
    BY <2>2, <2>3 DEF Active
  <2>5. Active(session') = {}
    BY <2>4 DEF Active
  <2>6. RecordsAgree'
    BY <2>2, <2>3, <2>5 DEF RecordsAgree
  <2>7. ctxDone' \in [Runs -> BOOLEAN]
        /\ \A r \in Runs : ctxDone'[r] <=> ctxDone[r] \/ session.status[r] = "running"
    BY <2>1 DEF RunsTypeOK, Active
  <2>8. RunsTypeOK'
    BY <1>0, <2>1, <2>2, <2>3, <2>7 DEF RunsTypeOK, SavedType
  <2>9. NewRunsHaveNoRecord' /\ NothingSurvivesClose'
    BY <1>0, <2>4 DEF NewRunsHaveNoRecord, NothingSurvivesClose, InProgress
  <2>10. ExecutingRunIsOnRecord'
    BY <1>0, <2>7 DEF ExecutingRunIsOnRecord, Executing
  <2> QED BY <2>4, <2>5, <2>6, <2>8, <2>9, <2>10 DEF Terminal
<1>2. CASE ~(loaded /\ Active(session) # {})
  <2>1. Keep(FromRow) /\ UNCHANGED <<ctxDone, cancel>>
    BY <1>2 DEF CancelRun
  <2>2. /\ loaded' /\ session' \in SessionType /\ saved' = saved
        /\ session'.lastStatus = saved.lastStatus
        /\ \A r \in Runs : session'.status[r] = "absent"
    BY <2>1, CurrentFacts DEF Keep
  <2>3. Active(session) = {}
    <3>1. CASE ~loaded
      BY <3>1 DEF RecordsAgree, EmptySession, Active
    <3> QED BY <1>2, <3>1
  <2>4. Active(session') = {}
    BY <2>2 DEF Active
  <2>5. RecordsAgree'
    BY <2>2, <2>3, <2>4 DEF RecordsAgree
  <2>6. RunsTypeOK' BY <1>0, <2>1, <2>2 DEF RunsTypeOK
  <2>7. NewRunsHaveNoRecord' /\ NothingSurvivesClose'
    BY <1>0, <2>2 DEF NewRunsHaveNoRecord, NothingSurvivesClose, InProgress
  <2>8. ExecutingRunIsOnRecord'
    BY <1>0, <2>1, <2>3 DEF ExecutingRunIsOnRecord, Executing, Active
  <2> QED BY <2>2, <2>4, <2>5, <2>6, <2>7, <2>8
<1> QED BY <1>1, <1>2

\* The boot leaves no record, no goroutine, and no row that says running.
LEMMA RestartStep ==
  ASSUME RunsInv, Restart
  PROVE  RunsInv' /\ \A q \in Runs : session'.status[q] = "absent"
<1> USE DEF RunsInv, Restart
<1>1. /\ EmptySession \in SessionType
      /\ \A r \in Runs : EmptySession.status[r] = "absent"
  BY DEF EmptySession, SessionType, MaybeRun
<1>2. /\ saved' \in SavedType /\ saved'.lastStatus # "running"
  BY DEF RunsTypeOK, SavedType, Reconciled
<1>3. /\ work' \in [Runs -> {"idle", "ended"}]
      /\ \A r \in Runs : work'[r] # "idle" => work'[r] = "ended"
  BY DEF InProgress, RunsTypeOK
<1>4. RunsTypeOK'
  BY <1>1, <1>2, <1>3 DEF RunsTypeOK, WorkStates, SavedType, MaybeRun
<1>5. RecordsAgree'
  BY <1>1, <1>2 DEF RecordsAgree, Active
<1>6. NewRunsHaveNoRecord' /\ ExecutingRunIsOnRecord' /\ NothingSurvivesClose'
  BY <1>1, <1>3 DEF NewRunsHaveNoRecord, ExecutingRunIsOnRecord, Executing, NothingSurvivesClose
<1> QED BY <1>1, <1>4, <1>5, <1>6

\* Each step keeps the invariant, and no terminal status is replaced by another.
LEMMA RunsStep ==
  ASSUME RunsInv, [RunsNext]_runVars
  PROVE  /\ RunsInv'
         /\ \A r \in Runs : session.status[r] \in Terminal =>
              session'.status[r] \in {session.status[r], "absent"}
<1>1. CASE UNCHANGED runVars
  <2>1. UNCHANGED <<sessionVars, work, ctxDone, startAcp, result, verdict, fate, closing, cancel>>
    BY <1>1 DEF runVars, workVars
  <2>2. RunsTypeOK' BY <2>1 DEF RunsInv, RunsTypeOK, sessionVars
  <2>3. RecordsAgree' BY <2>1, UntouchedAgree DEF RunsInv
  <2> QED BY <2>1, <2>2, <2>3
          DEF RunsInv, sessionVars, NewRunsHaveNoRecord, ExecutingRunIsOnRecord, Executing,
              NothingSurvivesClose, InProgress
<1>2. CASE \/ \E r \in Runs : BeginLifecycleWork(r) \/ SpawnRun(r) \/ RunnerReturns(r)
                                \/ NotifyTerminal(r)
           \/ \E c \in Cancels : OnCancelled(c)
           \/ BeginClose \/ FinishClose
  BY <1>2, QuietStep
<1>3. CASE \/ \E r \in Runs : StartRun(r) /\ ~MayStart(Current)
           \/ \E r \in Runs : ClearACPSessionID(r) \/ SetACPSessionState(r)
           \/ \E c \in Cancels : ReadCancelledStatus(c)
           \/ CachePersistedSessionIfAbsent
  BY <1>3, UnrecordedStep
<1>4. CASE \E r \in Runs : StartRun(r) /\ MayStart(Current)
  BY <1>4, AcceptStep
<1>5. CASE \E r \in Runs : FailPreparation(r) \/ FinishGoroutineRun(r)
  BY <1>5, FinishStep
<1>6. CASE \E c \in Cancels : CancelRun(c)
  BY <1>6, CancelStep
<1>7. CASE Restart
  BY <1>7, RestartStep
<1> QED BY <1>1, <1>2, <1>3, <1>4, <1>5, <1>6, <1>7 DEF RunsNext, GoroutineStep

-----------------------------------------------------------------------------
(* Theorems.                                                               *)

\* The strengthening is an invariant.
THEOREM RunsInvariant == RunsSpec => []RunsInv
<1>1. RunsInv /\ [RunsNext]_runVars => RunsInv'
  BY RunsStep
<1> QED BY <1>1, RunsInitInv, PTL DEF RunsSpec

\* Values keep their types; who is about to hand over a result has one.
THEOREM RunsTypes == RunsSpec => []RunsTypeOK
<1>1. RunsInv => RunsTypeOK
  BY DEF RunsInv
<1> QED BY <1>1, RunsInvariant, PTL

\* A run that nobody stopped has the record through which it can be cancelled.
THEOREM ExecutingRunsAreOnRecord == RunsSpec => []ExecutingRunIsOnRecord
<1>1. RunsInv => ExecutingRunIsOnRecord
  BY DEF RunsInv
<1> QED BY <1>1, RunsInvariant, PTL

\* Two agents never work in one session at once.
THEOREM OneAgentHolds == RunsSpec => []OneAgentAtATime
<1>1. RunsInv => OneAgentAtATime
  BY DEF RunsInv, RecordsAgree, ExecutingRunIsOnRecord, Active, OneAgentAtATime
<1> QED BY <1>1, RunsInvariant, PTL

\* The row says "running" exactly while a run is active.
THEOREM RowIsTrue == RunsSpec => []RowSaysRunningIffActive
<1>1. RunsInv => RowSaysRunningIffActive
  <2> SUFFICES ASSUME RunsInv PROVE RowSaysRunningIffActive
    OBVIOUS
  <2>1. ~loaded => Active(session) = {}
    BY DEF RunsInv, RecordsAgree, EmptySession, Active
  <2> QED BY <2>1 DEF RunsInv, RecordsAgree, RowSaysRunningIffActive
<1> QED BY <1>1, RunsInvariant, PTL

\* When Close has returned, no goroutine of a run is left.
THEOREM CloseWaits == RunsSpec => []NothingSurvivesClose
<1>1. RunsInv => NothingSurvivesClose
  BY DEF RunsInv
<1> QED BY <1>1, RunsInvariant, PTL

\* A run that reached a terminal status keeps it while it is on record.
THEOREM FatesAreFinal == RunsSpec => RunFateIsFinal
<1>1. RunsInv /\ [RunsNext]_runVars =>
        [\A r \in Runs : session.status[r] \in Terminal =>
           session'.status[r] \in {session.status[r], "absent"}]_runVars
  BY RunsStep
<1> QED BY <1>1, RunsInvariant, PTL DEF RunsSpec, RunFateIsFinal

\* The goroutine of the run is out and has not finished the run.
Drives(r) == work[r] \in {"accepted", "running", "clearing", "storing", "finishing"}

\* The converse of ExecutingRunIsOnRecord, with or without a cancelled context: a
\* record says running only while there is a goroutine that will finish it.
RunningIsDriven == \A r \in Runs : session.status[r] = "running" => Drives(r)

LEMMA DrivenStep ==
  ASSUME RunsInv, RunningIsDriven, [RunsNext]_runVars
  PROVE  RunningIsDriven'
<1>0. work \in [Runs -> WorkStates]
  BY DEF RunsInv, RunsTypeOK
<1> DEFINE Kept == session'.status = session.status
<1>1. CASE UNCHANGED runVars
  BY <1>1 DEF runVars, workVars, sessionVars, RunningIsDriven, Drives
<1>2. ASSUME NEW r \in Runs, BeginLifecycleWork(r) \/ SpawnRun(r) \/ NotifyTerminal(r)
                             \/ (StartRun(r) /\ ~MayStart(Current))
                             \/ ClearACPSessionID(r) \/ SetACPSessionState(r)
      PROVE  RunningIsDriven'
  <2>1. Kept
    BY <1>2, QuietStep, UnrecordedStep
  <2>2. \/ work[r] \in {"idle", "admitted", "notifying"}
        \/ \E pc \in {"running", "finishing"} : work' = [work EXCEPT ![r] = pc]
    BY <1>2 DEF BeginLifecycleWork, SpawnRun, NotifyTerminal, StartRun, ClearACPSessionID,
                SetACPSessionState, Goto
  <2>3. \E pc : work' = [work EXCEPT ![r] = pc]
    BY <1>2 DEF BeginLifecycleWork, SpawnRun, NotifyTerminal, StartRun, ClearACPSessionID,
                SetACPSessionState, Goto
  <2> QED BY <1>0, <2>1, <2>2, <2>3 DEF RunningIsDriven, Drives
<1>3. ASSUME NEW r \in Runs, RunnerReturns(r) PROVE RunningIsDriven'
  <2>1. Kept
    BY <1>3, QuietStep
  <2>2. \E pc \in {"storing", "finishing", "clearing"} : work' = [work EXCEPT ![r] = pc]
    BY <1>3 DEF RunnerReturns, RunnerSucceeds, RunnerFails, RunnerPanics, Goto
  <2> QED BY <1>0, <2>1, <2>2 DEF RunningIsDriven, Drives
<1>4. CASE \/ \E c \in Cancels : OnCancelled(c) \/ ReadCancelledStatus(c)
           \/ BeginClose \/ FinishClose \/ CachePersistedSessionIfAbsent
  <2>1. Kept
    BY <1>4, QuietStep, UnrecordedStep
  <2>2. work' = work
    BY <1>4 DEF OnCancelled, ReadCancelledStatus, BeginClose, FinishClose,
                CachePersistedSessionIfAbsent, workVars
  <2> QED BY <2>1, <2>2 DEF RunningIsDriven, Drives
<1>5. ASSUME NEW r \in Runs, StartRun(r), MayStart(Current) PROVE RunningIsDriven'
  <2>1. Active(session') = {r}
    BY <1>5, AcceptStep
  <2>2. work' = [work EXCEPT ![r] = "accepted"]
    BY <1>5 DEF StartRun, Goto
  <2> QED BY <1>0, <2>1, <2>2 DEF RunningIsDriven, Drives, Active
<1>6. ASSUME NEW r \in Runs, FailPreparation(r) \/ FinishGoroutineRun(r) PROVE RunningIsDriven'
  <2>1. Active(session') \subseteq Active(session) \ {r}
    BY <1>6, FinishStep
  <2>2. \A q \in Runs : q # r => work'[q] = work[q]
    BY <1>0, <1>6 DEF FailPreparation, FinishGoroutineRun, Goto
  <2> QED BY <2>1, <2>2 DEF RunningIsDriven, Drives, Active
<1>7. ASSUME NEW c \in Cancels, CancelRun(c) PROVE RunningIsDriven'
  BY <1>7, CancelStep DEF RunningIsDriven, Active
<1>8. CASE Restart
  BY <1>8, RestartStep DEF RunningIsDriven
<1> QED BY <1>1, <1>2, <1>3, <1>4, <1>5, <1>6, <1>7, <1>8 DEF RunsNext, GoroutineStep

\* Whatever cancels, reloads and restarts do, no record is left running without
\* a goroutine that will settle it.
THEOREM RunningRunsAreDriven == RunsSpec => []RunningIsDriven
<1>1. RunsInit => RunningIsDriven
  BY DEF RunsInit, EmptySession, RunningIsDriven
<1>2. RunsInv /\ RunningIsDriven /\ [RunsNext]_runVars => RunningIsDriven'
  BY DrivenStep
<1> QED BY <1>1, <1>2, RunsInvariant, PTL DEF RunsSpec

-----------------------------------------------------------------------------
(* Approvals: who may be about to spend a card.                            *)


\* A call that passed the claim and has not answered.
Holds(c) == call[c].pc \in {"executing", "completing"}

\* Calls in flight are authorised; at most one holds the claim of a card; a
\* holder that has not executed has not spent; unclaimed cards are unspent.
SpendInv ==
  /\ \A c \in Calls : call[c].pc # "idle" => Authorizes(call[c].card, call[c].run)
  /\ \A c \in Calls : Holds(c) => card[call[c].card].claimed
  /\ \A c \in Calls : call[c].pc = "executing" => spent[call[c].card] = 0
  /\ \A c, d \in Calls : Holds(c) /\ Holds(d) /\ call[c].card = call[d].card => c = d
  /\ \A s \in Cards : card[s].claimed => card[s].status = "submitted"
  /\ \A s \in Cards : ~card[s].claimed => spent[s] = 0
  /\ \A s \in Cards : spent[s] <= 1

ApprovalInv == ApprovalTypeOK /\ SpendInv

-----------------------------------------------------------------------------
(* Lemmas about the updates of rows and tool calls.                        *)

\* A status update of rows yields rows and changes nothing else in them.
LEMMA SetStatusRows ==
  ASSUME CardTypeOK, NEW S \in SUBSET Cards, NEW st \in CardStatus,
         card' = SetStatus(S, st), \A s \in S : card[s].status # "unused"
  PROVE  /\ CardTypeOK'
         /\ \A s \in Cards :
              /\ card'[s].status = IF s \in S THEN st ELSE card[s].status
              /\ card'[s].run = card[s].run
              /\ card'[s].claimed = card[s].claimed
              /\ card'[s].outcome = card[s].outcome
  BY DEF SetStatus, CardTypeOK, SelectionRow

\* The settling updates are status updates of a set of pending rows.
Settles(S, st) ==
  /\ S \in SUBSET Cards
  /\ \A s \in S : Pending(s)
  /\ st \in CardStatus \ {"unused", "pending"}
  /\ card' = SetStatus(S, st)

LEMMA DecisionForStatus ==
  ASSUME NEW s, NEW answer \in Decided \cup {"cancelled"}
  PROVE  DecisionFor(s, answer) \in CardStatus \ {"unused", "pending"}
  BY DEF DecisionFor, CardStatus, Decided

\* Steps that leave the rows alone or settle pending ones, and nothing else;
\* all but the user's decision refuse them.
Settling ==
  /\ card' = card \/ \E T, st : Settles(T, st)
  /\ UNCHANGED <<call, spent>>

Refusing ==
  /\ card' = card \/ \E T, st : Settles(T, st) /\ st \notin Decided
  /\ UNCHANGED <<call, spent>>

LEMMA RefusingSteps ==
  ASSUME \/ \E r \in Runs : HandleTerminalRun(r)
         \/ \E c \in Cancels : SettleCancelled(c)
         \/ \E S \in SUBSET Cards : SweepExpired(S)
         \/ \E k \in Asks : FindReusable(k)
  PROVE  Refusing
<1>1. ASSUME NEW r \in Runs, HandleTerminalRun(r) PROVE Refusing
  <2>1. Settles(PendingOf(r), "cancelled") \/ Settles(PendingOf(r), "expired")
    BY <1>1 DEF HandleTerminalRun, CancelPendingByRun, ExpirePendingByRun, Settles,
                PendingOf, CardStatus
  <2> QED BY <1>1, <2>1 DEF HandleTerminalRun, Refusing, Decided
<1>2. ASSUME NEW c \in Cancels, SettleCancelled(c) PROVE Refusing
  <2>1. card' = card \/ Settles(PendingOf(cancel[c].run), "cancelled")
    BY <1>2 DEF SettleCancelled, CancelPendingByRun, Settles, PendingOf, CardStatus
  <2> QED BY <1>2, <2>1 DEF SettleCancelled, Refusing, Decided
<1>3. ASSUME NEW S \in SUBSET Cards, SweepExpired(S) PROVE Refusing
  <2>1. Settles(S, "expired")
    BY <1>3 DEF SweepExpired, Settles, Due, CardStatus
  <2> QED BY <1>3, <2>1 DEF SweepExpired, Refusing, Decided
<1>4. ASSUME NEW k \in Asks, FindReusable(k) PROVE Refusing
  <2>1. Settles(Due, "expired")
    BY <1>4 DEF FindReusable, Settles, Due, CardStatus
  <2> QED BY <1>4, <2>1 DEF FindReusable, Refusing, Decided
<1> QED BY <1>1, <1>2, <1>3, <1>4

LEMMA SettlingSteps ==
  ASSUME \/ \E r \in Runs : HandleTerminalRun(r)
         \/ \E c \in Cancels : SettleCancelled(c)
         \/ \E S \in SUBSET Cards : SweepExpired(S)
         \/ \E k \in Asks : FindReusable(k)
         \/ \E s \in Cards : Decide(s)
  PROVE  Settling
<1>1. ASSUME NEW s \in Cards, Decide(s) PROVE Settling
  <2>1. PICK answer \in Decided \cup {"cancelled"} :
          card' = SetStatus({s}, DecisionFor(s, answer))
    BY <1>1 DEF Decide
  <2>2. Settles({s}, DecisionFor(s, answer))
    BY <1>1, <2>1, DecisionForStatus DEF Decide, Settles
  <2> QED BY <1>1, <2>2 DEF Decide, Settling
<1>2. Refusing => Settling
  BY DEF Refusing, Settling
<1> QED BY <1>1, <1>2, RefusingSteps

\* What settling means for one row.
LEMMA SettledRows ==
  ASSUME CardTypeOK, NEW T, NEW st, Settles(T, st)
  PROVE  /\ CardTypeOK'
         /\ \A s \in Cards :
              /\ ~Pending(s) => card'[s] = card[s]
              /\ card'[s].status = IF s \in T THEN st ELSE card[s].status
              /\ card'[s].run = card[s].run
              /\ card'[s].claimed = card[s].claimed
              /\ card'[s].outcome = card[s].outcome
<1>1. \A s \in T : card[s].status # "unused"
  BY DEF Settles, Pending
<1>2. \A s \in Cards : ~Pending(s) => card'[s] = card[s]
  BY DEF Settles, SetStatus
<1> QED BY <1>1, <1>2, SetStatusRows DEF Settles, CardStatus

\* A tool call that moves on keeps its run and its card.
LEMMA CallAtCall ==
  ASSUME CallTypeOK, NEW c \in Calls, NEW pc \in CallStates,
         call[c].pc # "idle", CallAt(c, pc)
  PROVE  /\ CallTypeOK'
         /\ call'[c].pc = pc
         /\ \A d \in Calls : call'[d].run = call[d].run /\ call'[d].card = call[d].card
         /\ \A d \in Calls : d # c => call'[d].pc = call[d].pc
  BY DEF CallTypeOK, CallAt, ToolCall

\* A tool call that answers is idle again, and the others are unchanged.
LEMMA AnswerCall ==
  ASSUME CallTypeOK, NEW c \in Calls, Answer(c)
  PROVE  /\ CallTypeOK'
         /\ call'[c].pc = "idle"
         /\ \A d \in Calls : d # c => call'[d] = call[d]
  BY DEF CallTypeOK, Answer, NoCall, ToolCall, CallStates, MaybeRun

\* What is true of a card after one of its fields was written.
LEMMA RowUpdate ==
  ASSUME CardTypeOK, NEW s \in Cards, NEW row \in SelectionRow,
         row.status # "unused" => row.run \in Runs,
         card' = [card EXCEPT ![s] = row]
  PROVE  /\ CardTypeOK'
         /\ card'[s] = row
         /\ \A t \in Cards : t # s => card'[t] = card[t]
  BY DEF CardTypeOK

\* Each action is reduced to the one row and the one call it writes.
LEMMA PassTTLRow ==
  ASSUME CardTypeOK, NEW s \in Cards, PassTTL(s)
  PROVE  /\ CardTypeOK'
         /\ \A t \in Cards : /\ card'[t].status = card[t].status
                             /\ card'[t].run = card[t].run
                             /\ card'[t].claimed = card[t].claimed
                             /\ card'[t].outcome = card[t].outcome
  BY DEF PassTTL, CardTypeOK, SelectionRow

LEMMA CreateRow ==
  ASSUME CardTypeOK, AskTypeOK, NEW k \in Asks, Create(k)
  PROVE  /\ CardTypeOK'
         /\ AskTypeOK'
         /\ \E s \in Cards : /\ card[s].status = "unused"
                             /\ card'[s].status = "pending"
                             /\ ~card'[s].claimed
                             /\ card'[s].outcome = "none"
                             /\ \A t \in Cards : t # s => card'[t] = card[t]
<1> DEFINE row == [status |-> "pending", run |-> ask[k].run, question |-> ask[k].question,
                   due |-> FALSE, claimed |-> FALSE, outcome |-> "none"]
<1>1. PICK s \in Cards : card[s].status = "unused" /\ card' = [card EXCEPT ![s] = row]
  BY DEF Create
<1>2. row \in SelectionRow /\ row.run \in Runs
  BY DEF Create, AskTypeOK, SelectionRow, CardStatus, MaybeRun
<1>3. AskTypeOK'
  BY DEF Create, NoAsk, AskTypeOK, AskCall, MaybeRun
<1>4. row.status = "pending" /\ ~row.claimed /\ row.outcome = "none"
  OBVIOUS
<1> HIDE DEF row
<1> QED BY <1>1, <1>2, <1>3, <1>4, RowUpdate

LEMMA ClaimRow ==
  ASSUME CardTypeOK, NEW c \in Calls, Claim(c), call[c].card \in Cards
  PROVE  /\ CardTypeOK'
         /\ \/ Answer(c) /\ card' = card
            \/ /\ Claimable(call[c].card, call[c].run)
               /\ CallAt(c, "executing")
               /\ card'[call[c].card].claimed
               /\ card'[call[c].card].status = card[call[c].card].status
               /\ card'[call[c].card].run = card[call[c].card].run
               /\ card'[call[c].card].outcome = card[call[c].card].outcome
               /\ \A t \in Cards : t # call[c].card => card'[t] = card[t]
<1> DEFINE s == call[c].card
           row == [card[s] EXCEPT !.claimed = TRUE]
<1>1. CASE Answer(c) /\ card' = card
  BY <1>1 DEF CardTypeOK
<1>2. CASE Claimable(s, call[c].run) /\ CallAt(c, "executing") /\ card' = [card EXCEPT ![s] = row]
  <2>1. /\ row \in SelectionRow
        /\ row.claimed /\ row.status = card[s].status /\ row.run = card[s].run
        /\ row.outcome = card[s].outcome
    BY DEF CardTypeOK, SelectionRow
  <2>2. row.status # "unused" => row.run \in Runs
    BY <2>1 DEF CardTypeOK
  <2>3. s \in Cards
    OBVIOUS
  <2>4. card' = [card EXCEPT ![s] = row]
    BY <1>2
  <2> HIDE DEF row
  <2>5. CardTypeOK' /\ card'[s] = row /\ \A t \in Cards : t # s => card'[t] = card[t]
    BY <2>1, <2>2, <2>3, <2>4, RowUpdate
  <2> QED BY <1>2, <2>1, <2>5
<1> QED BY <1>1, <1>2 DEF Claim

LEMMA CompleteRow ==
  ASSUME CardTypeOK, CallTypeOK, NEW c \in Calls, CompleteGenerationUse(c)
  PROVE  /\ CardTypeOK'
         /\ \A t \in Cards : /\ card'[t].status = card[t].status
                             /\ card'[t].run = card[t].run
                             /\ card'[t].claimed = card[t].claimed
         /\ \/ card' = card
            \/ /\ card[call[c].card].claimed
               /\ card[call[c].card].outcome = "none"
               /\ card'[call[c].card].outcome = "stored"
               /\ \A t \in Cards : t # call[c].card => card'[t] = card[t]
<1>1. call[c].card \in Cards
  BY DEF CompleteGenerationUse, CallTypeOK
<1> QED BY <1>1 DEF CompleteGenerationUse, CardTypeOK, SelectionRow

-----------------------------------------------------------------------------
(* The type invariant.                                                     *)

LEMMA TypeInit == Init => ApprovalTypeOK
  BY DEF Init, ApprovalTypeOK, CardTypeOK, SelectionRow, AskTypeOK, AskCall, CallTypeOK,
         ToolCall, CallStates, NoAsk, NoCall, CardStatus, MaybeRun

LEMMA TypeStep == ApprovalTypeOK /\ [Next]_approvalVars => ApprovalTypeOK'
<1> SUFFICES ASSUME ApprovalTypeOK, [Next]_approvalVars PROVE ApprovalTypeOK'
  OBVIOUS
<1> USE DEF ApprovalTypeOK
<1>1. CASE UNCHANGED cardVars
  BY <1>1 DEF cardVars, CardTypeOK, AskTypeOK, CallTypeOK
<1>2. ASSUME Settling PROVE CardTypeOK' /\ CallTypeOK' /\ (spent \in [Cards -> Nat])'
  BY <1>2, SettledRows DEF Settling, CallTypeOK, CardTypeOK
<1>3. ASSUME NEW k \in Asks, FindReusable(k) PROVE ApprovalTypeOK'
  <2>1. Settling
    BY <1>3, SettlingSteps
  <2>2. CASE ask' = ask
    BY <1>2, <2>1, <2>2 DEF AskTypeOK
  <2>3. ASSUME NEW r \in Runs, NEW q \in Questions,
               ask' = [ask EXCEPT ![k] = [pc |-> "creating", run |-> r, question |-> q]]
        PROVE  AskTypeOK'
    BY <2>3 DEF AskTypeOK, AskCall, MaybeRun
  <2> QED BY <1>2, <1>3, <2>1, <2>2, <2>3 DEF FindReusable
<1>4. ASSUME NEW s \in Cards, PassTTL(s) PROVE ApprovalTypeOK'
  BY <1>4, PassTTLRow DEF PassTTL, AskTypeOK, CallTypeOK
<1>5. ASSUME NEW k \in Asks, Create(k) PROVE ApprovalTypeOK'
  BY <1>5, CreateRow DEF Create, CallTypeOK
<1>6. ASSUME NEW c \in Calls, PrepareGeneration(c) PROVE ApprovalTypeOK'
  <2>1. PICK r \in Runs, s \in Cards :
          call' = [call EXCEPT ![c] = [pc |-> "reading", run |-> r, card |-> s]]
    BY <1>6 DEF PrepareGeneration
  <2>2. CallTypeOK'
    BY <2>1 DEF CallTypeOK, ToolCall, CallStates, MaybeRun
  <2> QED BY <1>6, <2>2 DEF PrepareGeneration, CardTypeOK, AskTypeOK
<1>7. ASSUME NEW c \in Calls, ReadClaim(c) PROVE ApprovalTypeOK'
  <2>1. CallTypeOK'
    BY <1>7, CallAtCall, AnswerCall DEF ReadClaim, CallStates
  <2> QED BY <1>7, <2>1 DEF ReadClaim, CardTypeOK, AskTypeOK
<1>8. ASSUME NEW c \in Calls, Claim(c) PROVE ApprovalTypeOK'
  <2>1. CallTypeOK'
    BY <1>8, CallAtCall, AnswerCall DEF Claim, CallStates
  <2>2. CardTypeOK'
    BY <1>8, ClaimRow DEF Claim, CallTypeOK
  <2> QED BY <1>8, <2>1, <2>2 DEF Claim, AskTypeOK
<1>9. ASSUME NEW c \in Calls, Execute(c) PROVE ApprovalTypeOK'
  <2>1. CallTypeOK'
    BY <1>9, CallAtCall DEF Execute, CallStates
  <2>2. (spent \in [Cards -> Nat])'
    BY <1>9 DEF Execute
  <2> QED BY <1>9, <2>1, <2>2 DEF Execute, CardTypeOK, AskTypeOK
<1>10. ASSUME NEW c \in Calls, CompleteGenerationUse(c) PROVE ApprovalTypeOK'
  <2>1. CallTypeOK'
    BY <1>10, AnswerCall DEF CompleteGenerationUse
  <2>2. CardTypeOK'
    BY <1>10, CompleteRow
  <2> QED BY <1>10, <2>1, <2>2 DEF CompleteGenerationUse, AskTypeOK
<1>11. CASE Crash
  <2>1. AskTypeOK' /\ CallTypeOK'
    BY <1>11 DEF Crash, NoAsk, NoCall, AskTypeOK, CallTypeOK, AskCall, ToolCall, CallStates,
                 MaybeRun
  <2> QED BY <1>11, <2>1 DEF Crash, CardTypeOK
<1>12. ASSUME Settling, ask' = ask PROVE ApprovalTypeOK'
  BY <1>2, <1>12 DEF AskTypeOK
<1>13. ASSUME NEW r \in Runs, HandleTerminalRun(r) PROVE ApprovalTypeOK'
  BY <1>12, <1>13, SettlingSteps DEF HandleTerminalRun
<1>14. ASSUME NEW c \in Cancels, SettleCancelled(c) PROVE ApprovalTypeOK'
  BY <1>12, <1>14, SettlingSteps DEF SettleCancelled
<1>15. ASSUME NEW S \in SUBSET Cards, SweepExpired(S) PROVE ApprovalTypeOK'
  BY <1>12, <1>15, SettlingSteps DEF SweepExpired
<1>16. ASSUME NEW s \in Cards, Decide(s) PROVE ApprovalTypeOK'
  BY <1>12, <1>16, SettlingSteps DEF Decide
<1> QED
  BY <1>1, <1>3, <1>4, <1>5, <1>6, <1>7, <1>8, <1>9, <1>10, <1>11, <1>13, <1>14, <1>15,
     <1>16 DEF Next, approvalVars, cardVars

\* The selection rows and the tool calls keep the types of their Go fields, for
\* every number of runs, cards and concurrent calls (ApprovalTypeOK).
THEOREM ApprovalTypes == Spec => []ApprovalTypeOK
  BY TypeInit, TypeStep, PTL DEF Spec

-----------------------------------------------------------------------------
(* Who may spend a card.                                                   *)

LEMMA SpendInit == Init => SpendInv
  BY DEF Init, SpendInv, NoCall, Holds, Authorizes

\* Steps after which every call is where it was or idle, nothing was spent, no
\* claim moved and what was submitted still is.
LEMMA SpendKept ==
  ASSUME ApprovalTypeOK, SpendInv, spent' = spent,
         \A c \in Calls : call'[c] = call[c] \/ call'[c].pc = "idle",
         \A s \in Cards : card'[s].claimed = card[s].claimed,
         \A s \in Cards : card[s].status = "submitted" =>
                            card'[s].status = "submitted" /\ card'[s].run = card[s].run
  PROVE  SpendInv'
<1> USE DEF SpendInv
<1>1. \A c \in Calls : call'[c].pc # "idle" =>
        /\ call'[c] = call[c]
        /\ call[c].card \in Cards
        /\ Authorizes(call[c].card, call[c].run)
  BY DEF ApprovalTypeOK, CallTypeOK
<1>2. (\A c \in Calls : call[c].pc # "idle" => Authorizes(call[c].card, call[c].run))'
  BY <1>1 DEF Authorizes
<1>3. (\A c \in Calls : Holds(c) => card[call[c].card].claimed)'
  BY <1>1 DEF Holds
<1>4. (\A c \in Calls : call[c].pc = "executing" => spent[call[c].card] = 0)'
  BY <1>1
<1>5. (\A c, d \in Calls : Holds(c) /\ Holds(d) /\ call[c].card = call[d].card => c = d)'
  BY <1>1 DEF Holds
<1> QED BY <1>2, <1>3, <1>4, <1>5

\* Steps that only move call c to pc, outside the claim.
LEMMA SpendMoved ==
  ASSUME ApprovalTypeOK, SpendInv, spent' = spent, card' = card,
         NEW c \in Calls, call'[c].pc \in {"reading", "claiming"},
         Authorizes(call'[c].card, call'[c].run),
         \A d \in Calls : d # c => call'[d] = call[d]
  PROVE  SpendInv'
<1> USE DEF SpendInv
<1>1. (\A d \in Calls : call[d].pc # "idle" => Authorizes(call[d].card, call[d].run))'
  BY DEF Authorizes
<1>2. \A d \in Calls : Holds(d)' => d # c /\ call'[d] = call[d] /\ Holds(d)
  BY DEF Holds
<1>3. (\A d \in Calls : Holds(d) => card[call[d].card].claimed)'
  BY <1>2
<1>4. (\A d \in Calls : call[d].pc = "executing" => spent[call[d].card] = 0)'
  BY <1>2 DEF Holds
<1>5. (\A b, d \in Calls : Holds(b) /\ Holds(d) /\ call[b].card = call[d].card => b = d)'
  BY <1>2
<1> QED BY <1>1, <1>3, <1>4, <1>5

LEMMA SpendStep == ApprovalInv /\ [Next]_approvalVars => SpendInv'
<1> SUFFICES ASSUME ApprovalTypeOK, SpendInv, [Next]_approvalVars PROVE SpendInv'
  BY DEF ApprovalInv
<1>1. CASE UNCHANGED cardVars
  BY <1>1, SpendKept DEF cardVars
<1>2. ASSUME Settling PROVE SpendInv'
  <2>1. \A s \in Cards : card'[s].claimed = card[s].claimed
    BY <1>2, SettledRows DEF Settling, ApprovalTypeOK
  <2>2. \A s \in Cards : card[s].status = "submitted" => card'[s] = card[s]
    BY <1>2, SettledRows DEF Settling, ApprovalTypeOK, Pending
  <2> QED BY <1>2, <2>1, <2>2, SpendKept DEF Settling
<1>3. ASSUME NEW s \in Cards, PassTTL(s) PROVE SpendInv'
  <2>1. UNCHANGED <<call, spent>>
    BY <1>3 DEF PassTTL
  <2> QED BY <1>3, <2>1, PassTTLRow, SpendKept DEF ApprovalTypeOK
<1>4. ASSUME NEW k \in Asks, Create(k) PROVE SpendInv'
  <2>1. UNCHANGED <<call, spent>>
    BY <1>4 DEF Create
  <2>2. PICK s \in Cards : /\ card[s].status = "unused"
                           /\ card'[s].status = "pending"
                           /\ card'[s].claimed = FALSE
                           /\ \A t \in Cards : t # s => card'[t] = card[t]
    BY <1>4, CreateRow DEF ApprovalTypeOK, CardTypeOK, SelectionRow
  <2>3. card[s].claimed = FALSE
    BY <2>2 DEF SpendInv, ApprovalTypeOK, CardTypeOK, SelectionRow
  <2> QED BY <2>1, <2>2, <2>3, SpendKept
<1>5. ASSUME NEW c \in Calls, PrepareGeneration(c) PROVE SpendInv'
  <2>1. PICK r \in Runs, s \in Cards :
          /\ Authorizes(s, r)
          /\ call' = [call EXCEPT ![c] = [pc |-> "reading", run |-> r, card |-> s]]
    BY <1>5 DEF PrepareGeneration
  <2>2. /\ call'[c].pc = "reading" /\ call'[c].run = r /\ call'[c].card = s
        /\ \A d \in Calls : d # c => call'[d] = call[d]
    BY <2>1 DEF ApprovalTypeOK, CallTypeOK
  <2>3. spent' = spent /\ card' = card
    BY <1>5 DEF PrepareGeneration
  <2>4. Authorizes(call'[c].card, call'[c].run)
    BY <2>1, <2>2
  <2> QED BY <2>2, <2>3, <2>4, SpendMoved
<1>6. ASSUME NEW c \in Calls, ReadClaim(c) PROVE SpendInv'
  <2>1. spent' = spent /\ card' = card
    BY <1>6 DEF ReadClaim
  <2>2. CASE Answer(c)
    BY <2>1, <2>2, AnswerCall, SpendKept DEF ApprovalTypeOK
  <2>3. CASE CallAt(c, "claiming") /\ Authorizes(call[c].card, call[c].run)
    <3>1. /\ call'[c].pc = "claiming"
          /\ call'[c].run = call[c].run /\ call'[c].card = call[c].card
          /\ \A d \in Calls : d # c => call'[d] = call[d]
      BY <2>3 DEF CallAt, ApprovalTypeOK, CallTypeOK, ToolCall
    <3>2. Authorizes(call'[c].card, call'[c].run)
      BY <2>3, <3>1
    <3> QED BY <2>1, <3>1, <3>2, SpendMoved
  <2> QED BY <1>6, <2>2, <2>3 DEF ReadClaim
<1>7. ASSUME NEW c \in Calls, Claim(c) PROVE SpendInv'
  <2>1. call[c].card \in Cards /\ call[c].pc = "claiming" /\ spent' = spent
    BY <1>7 DEF Claim, ApprovalTypeOK, CallTypeOK
  <2>2. CASE Answer(c) /\ card' = card
    BY <2>1, <2>2, AnswerCall, SpendKept DEF ApprovalTypeOK
  <2>3. CASE /\ Claimable(call[c].card, call[c].run)
             /\ CallAt(c, "executing")
             /\ card'[call[c].card].claimed
             /\ card'[call[c].card].status = card[call[c].card].status
             /\ card'[call[c].card].run = card[call[c].card].run
             /\ \A t \in Cards : t # call[c].card => card'[t] = card[t]
    <3> USE DEF SpendInv
    <3>1. /\ call'[c].pc = "executing"
          /\ call'[c].run = call[c].run /\ call'[c].card = call[c].card
          /\ \A d \in Calls : d # c => call'[d] = call[d]
      BY <2>3 DEF CallAt, ApprovalTypeOK, CallTypeOK, ToolCall
    <3>2. \A d \in Calls : Holds(d) => call[d].card # call[c].card
      BY <2>3 DEF Claimable
    <3>3. \A t \in Cards : /\ card'[t].status = card[t].status /\ card'[t].run = card[t].run
                           /\ card[t].claimed => card'[t].claimed
      BY <2>3
    <3>4. \A d \in Calls : call[d].pc # "idle" => call[d].card \in Cards
      BY DEF ApprovalTypeOK, CallTypeOK
    <3>5. (\A d \in Calls : call[d].pc # "idle" => Authorizes(call[d].card, call[d].run))'
      BY <2>1, <3>1, <3>3, <3>4 DEF Authorizes
    <3>6. (\A d \in Calls : Holds(d) => card[call[d].card].claimed)'
      BY <2>3, <3>1, <3>3, <3>4 DEF Holds
    <3>7. (\A d \in Calls : call[d].pc = "executing" => spent[call[d].card] = 0)'
      BY <2>1, <2>3, <3>1 DEF Claimable
    <3>8. (\A b, d \in Calls : Holds(b) /\ Holds(d) /\ call[b].card = call[d].card => b = d)'
      BY <3>1, <3>2 DEF Holds
    <3>9. (\A t \in Cards : card[t].claimed => card[t].status = "submitted")'
      BY <2>3 DEF Claimable, Authorizes
    <3>10. (\A t \in Cards : ~card[t].claimed => spent[t] = 0)'
      BY <2>1, <3>3
    <3>11. (\A t \in Cards : spent[t] <= 1)'
      BY <2>1
    <3> QED BY <3>5, <3>6, <3>7, <3>8, <3>9, <3>10, <3>11
  <2> QED BY <1>7, <2>1, <2>2, <2>3, ClaimRow DEF ApprovalTypeOK
<1>8. ASSUME NEW c \in Calls, Execute(c) PROVE SpendInv'
  <2> USE DEF SpendInv
  <2>1. call[c].card \in Cards /\ call[c].pc = "executing" /\ card' = card
    BY <1>8 DEF Execute, ApprovalTypeOK, CallTypeOK
  <2>2. /\ call'[c].pc = "completing"
        /\ call'[c].run = call[c].run /\ call'[c].card = call[c].card
        /\ \A d \in Calls : d # c => call'[d] = call[d]
    BY <1>8 DEF Execute, CallAt, ApprovalTypeOK, CallTypeOK, ToolCall
  <2>3. /\ \A t \in Cards : t # call[c].card => spent'[t] = spent[t]
        /\ spent'[call[c].card] <= 1
    BY <1>8, <2>1 DEF Execute, ApprovalTypeOK
  <2>4. \A d \in Calls : Holds(d)' => Holds(d) /\ call'[d].card = call[d].card
                                      /\ call'[d].run = call[d].run
    BY <2>1, <2>2 DEF Holds
  <2>5. (\A d \in Calls : call[d].pc # "idle" => Authorizes(call[d].card, call[d].run))'
    BY <2>1, <2>2 DEF Authorizes
  <2>6. (\A d \in Calls : Holds(d) => card[call[d].card].claimed)'
    BY <2>1, <2>4
  <2>7. \A d \in Calls : call'[d].pc = "executing" =>
          call[d].card \in Cards /\ call[d].card # call[c].card
    BY <2>1, <2>2 DEF Holds, ApprovalTypeOK, CallTypeOK
  <2>8. (\A d \in Calls : call[d].pc = "executing" => spent[call[d].card] = 0)'
    BY <2>2, <2>3, <2>7
  <2>9. (\A b, d \in Calls : Holds(b) /\ Holds(d) /\ call[b].card = call[d].card => b = d)'
    BY <2>4
  <2>10. (\A t \in Cards : ~card[t].claimed => spent[t] = 0)'
    BY <2>1, <2>3 DEF Holds
  <2>11. (\A t \in Cards : spent[t] <= 1)'
    BY <2>3
  <2> QED BY <2>1, <2>5, <2>6, <2>8, <2>9, <2>10, <2>11
<1>9. ASSUME NEW c \in Calls, CompleteGenerationUse(c) PROVE SpendInv'
  <2>1. Answer(c) /\ spent' = spent
    BY <1>9 DEF CompleteGenerationUse
  <2> QED BY <1>9, <2>1, AnswerCall, CompleteRow, SpendKept DEF ApprovalTypeOK
<1>10. CASE Crash
  <2>1. card' = card /\ spent' = spent /\ \A c \in Calls : call'[c].pc = "idle"
    BY <1>10 DEF Crash, NoCall
  <2> QED BY <2>1, SpendKept
<1> QED
  BY <1>1, <1>2, <1>3, <1>4, <1>5, <1>6, <1>7, <1>8, <1>9, <1>10, SettlingSteps
     DEF Next, approvalVars, cardVars

\* The type invariant and SpendInv together are inductive: at every moment at most
\* one tool call holds the claim of a card, and it has not spent it twice.
THEOREM ApprovalInvariant == Spec => []ApprovalInv
  BY TypeInit, TypeStep, SpendInit, SpendStep, PTL DEF Spec, ApprovalInv

\* Across any number of concurrent tool calls, retries and restarts a confirmed
\* card pays for at most one request to the provider (AtMostOneSpend).
THEOREM OneSpendPerCard == Spec => []AtMostOneSpend
<1>1. ApprovalInv => AtMostOneSpend
  BY DEF ApprovalInv, SpendInv, AtMostOneSpend
<1> QED BY <1>1, ApprovalInvariant, PTL

\* Whatever is sent to the provider was submitted by the user and is claimed in
\* the database (SpendWasApprovedAndClaimed).
THEOREM SpendIsApproved == Spec => []SpendWasApprovedAndClaimed
<1>1. ApprovalInv => SpendWasApprovedAndClaimed
  BY DEF ApprovalInv, ApprovalTypeOK, CardTypeOK, SelectionRow, SpendInv,
         SpendWasApprovedAndClaimed
<1> QED BY <1>1, ApprovalInvariant, PTL

-----------------------------------------------------------------------------
(* Decisions.                                                              *)

\* Only Decide, Create and the settling steps write the status of a row; the
\* others keep the status and the run of every row.
LEMMA RowSteps ==
  ASSUME ApprovalTypeOK, [Next]_approvalVars
  PROVE  \/ \A s \in Cards : card'[s].status = card[s].status /\ card'[s].run = card[s].run
         \/ \E k \in Asks : Create(k)
         \/ \E s \in Cards : Decide(s)
         \/ Refusing
<1> DEFINE Same == \A s \in Cards : card'[s].status = card[s].status /\ card'[s].run = card[s].run
<1>1. CASE card' = card
  BY <1>1
<1>2. ASSUME NEW s \in Cards, PassTTL(s) PROVE Same
  BY <1>2, PassTTLRow DEF ApprovalTypeOK
<1>3. ASSUME NEW c \in Calls, Claim(c) PROVE Same
  <2>1. call[c].card \in Cards
    BY <1>3 DEF Claim, ApprovalTypeOK, CallTypeOK
  <2> QED BY <1>3, <2>1, ClaimRow DEF ApprovalTypeOK
<1>4. ASSUME NEW c \in Calls, CompleteGenerationUse(c) PROVE Same
  BY <1>4, CompleteRow DEF ApprovalTypeOK
<1>5. ASSUME NEW c \in Calls, PrepareGeneration(c) \/ ReadClaim(c) \/ Execute(c) PROVE card' = card
  BY <1>5 DEF PrepareGeneration, ReadClaim, Execute
<1>6. CASE Crash \/ UNCHANGED cardVars
  BY <1>6 DEF Crash, cardVars
<1> QED
  BY <1>1, <1>2, <1>3, <1>4, <1>5, <1>6, RefusingSteps DEF Next, approvalVars, cardVars

\* A row that left pending keeps its status and its run whatever happens next
\* (DecisionIsFinal).
THEOREM DecisionsAreFinal == Spec => DecisionIsFinal
<1> DEFINE Final ==
      \A s \in Cards : card[s].status \notin {"unused", "pending"} =>
        card'[s].status = card[s].status /\ card'[s].run = card[s].run
<1>1. ASSUME ApprovalTypeOK, [Next]_approvalVars PROVE Final
  <2>1. ASSUME NEW k \in Asks, Create(k) PROVE Final
    BY <1>1, <2>1, CreateRow DEF ApprovalTypeOK
  <2>2. ASSUME Settling PROVE Final
    BY <1>1, <2>2, SettledRows DEF Settling, ApprovalTypeOK, Pending
  <2>3. Refusing => Settling
    BY DEF Refusing, Settling
  <2> QED BY <1>1, <2>1, <2>2, <2>3, RowSteps, SettlingSteps
<1> HIDE DEF Final
<1>2. ApprovalTypeOK /\ [Next]_approvalVars => [Final]_approvalVars
  BY <1>1
<1>3. Spec => [][Final]_approvalVars
  BY <1>2, ApprovalTypes, PTL DEF Spec
<1> QED BY <1>3 DEF Final, DecisionIsFinal

Guarded ==
  \A s \in Cards :
    /\ card[s].status \notin Decided
    /\ card'[s].status \in Decided
    => /\ loaded' /\ session'.status[card[s].run] = "running"
       /\ card[s].run \in Runs

\* Only Decide makes a row decided, and it looks at the run of the card.
LEMMA GuardedStep ==
  ASSUME ApprovalTypeOK, [Next]_approvalVars
  PROVE  Guarded
<1>1. ASSUME NEW k \in Asks, Create(k) PROVE Guarded
  BY <1>1, CreateRow DEF Guarded, ApprovalTypeOK, Decided
<1>2. ASSUME Refusing PROVE Guarded
  BY <1>2, SettledRows DEF Guarded, Refusing, ApprovalTypeOK
<1>3. ASSUME NEW s \in Cards, Decide(s) PROVE Guarded
  <2>1. PICK answer \in Decided \cup {"cancelled"} :
          card' = SetStatus({s}, DecisionFor(s, answer))
    BY <1>3 DEF Decide
  <2>2. loaded' /\ session' = Current /\ card[s].run \in Runs
    BY <1>3 DEF Decide, Keep, Pending, ApprovalTypeOK, CardTypeOK
  <2>3. \A t \in Cards : t # s => card'[t] = card[t]
    BY <2>1 DEF SetStatus
  <2>4. card'[s].status = DecisionFor(s, answer)
    BY <2>1, DecisionForStatus DEF SetStatus, ApprovalTypeOK, CardTypeOK, SelectionRow
  <2>5. DecisionFor(s, answer) \in Decided => Current.status[card[s].run] = "running"
    BY DEF DecisionFor, Decided
  <2> QED BY <2>2, <2>3, <2>4, <2>5 DEF Guarded
<1> QED BY <1>1, <1>2, <1>3, RowSteps DEF Guarded

\* No row becomes decided but by Decide while the run that asked is running
\* (DecisionNeedsLiveRun).
THEOREM DecisionsNeedLiveRuns == Spec => DecisionNeedsLiveRun
<1> DEFINE Live == \A s \in Cards :
                     /\ card[s].status \notin Decided
                     /\ card'[s].status \in Decided
                     => loaded' /\ session'.status[card[s].run] = "running"
<1>1. ApprovalTypeOK /\ [Next]_approvalVars => [Live]_approvalVars
  BY GuardedStep DEF Guarded
<1>2. Spec => [][Live]_approvalVars
  BY <1>1, ApprovalTypes, PTL DEF Spec
<1> QED BY <1>2 DEF DecisionNeedsLiveRun

-----------------------------------------------------------------------------
(* The composition: what holds of the runs alone holds with the cards.     *)

LEMMA ComposedStep ==
  ASSUME [Next]_approvalVars
  PROVE  [RunsNext]_runVars
<1>1. ASSUME NEW r \in Runs, HandleTerminalRun(r) PROVE RunsNext
  BY <1>1 DEF HandleTerminalRun, RunsNext, GoroutineStep
<1>2. ASSUME NEW c \in Cancels, SettleCancelled(c) PROVE RunsNext
  BY <1>2 DEF SettleCancelled, RunsNext
<1>3. ASSUME NEW s \in Cards, Decide(s) PROVE [RunsNext]_runVars
  <2>1. Keep(Current) /\ UNCHANGED <<workVars, closing, cancel>>
    BY <1>3 DEF Decide
  <2>2. CASE ~loaded
    BY <2>1, <2>2 DEF Current, CachePersistedSessionIfAbsent, RunsNext
  <2>3. CASE loaded
    <3>1. UNCHANGED <<loaded, session, saved>> \/ CachePersistedSessionIfAbsent
      BY <2>1, <2>3 DEF Current, Keep
    <3> QED BY <2>1, <3>1 DEF runVars, sessionVars, RunsNext
  <2> QED BY <2>2, <2>3
<1>4. CASE RunOnlyStep
  BY <1>4 DEF RunOnlyStep, RunsNext, GoroutineStep
<1>5. CASE Crash
  BY <1>5 DEF Crash, RunsNext
<1>6. CASE UNCHANGED runVars
  BY <1>6
<1>7. CASE \/ \E s \in Cards : PassTTL(s)
           \/ \E S \in SUBSET Cards : SweepExpired(S)
           \/ \E k \in Asks : FindReusable(k) \/ Create(k)
           \/ \E c \in Calls : \/ PrepareGeneration(c) \/ ReadClaim(c) \/ Claim(c)
                               \/ Execute(c) \/ CompleteGenerationUse(c)
  BY <1>7 DEF PassTTL, SweepExpired, FindReusable, Create, PrepareGeneration, ReadClaim, Claim,
              Execute, CompleteGenerationUse
<1> QED BY <1>1, <1>2, <1>3, <1>4, <1>5, <1>6, <1>7 DEF Next, approvalVars

\* The session service with its cards and tool calls behaves as the session
\* service: whatever holds of the runs of AgentRuns holds here.
THEOREM RunsAreComposed == Spec => RunsSpec
<1>1. Init => RunsInit
  BY DEF Init
<1>2. [Next]_approvalVars => [RunsNext]_runVars
  BY ComposedStep
<1> QED BY <1>1, <1>2, PTL DEF Spec, RunsSpec

\* Also with users who decide, handlers that settle cards and tools that spend
\* them, two agents never work in one session at once.
THEOREM OneAgentSpends == Spec => []OneAgentAtATime
  BY RunsAreComposed, OneAgentHolds, PTL

\* The decision reaches an agent: a card becomes decided only while the goroutine
\* of the run that asked is out and has yet to finish the run.
DecisionIsAwaited ==
  [][\A s \in Cards :
       /\ card[s].status \notin Decided
       /\ card'[s].status \in Decided
       => \E r \in Runs : card[s].run = r /\ Drives(r)']_approvalVars

\* No click is recorded as a decision for an agent that is gone, also when the
\* session was loaded anew from the row or the server was started again.
THEOREM DecisionsAreAwaited == Spec => DecisionIsAwaited
<1> DEFINE Awaited == \A s \in Cards :
                        /\ card[s].status \notin Decided
                        /\ card'[s].status \in Decided
                        => \E r \in Runs : card[s].run = r /\ Drives(r)'
<1>1. ASSUME ApprovalTypeOK, RunningIsDriven', [Next]_approvalVars PROVE Awaited
  <2>1. Guarded
    BY <1>1, GuardedStep
  <2> QED BY <1>1, <2>1 DEF Guarded, RunningIsDriven, Drives
<1>2. ApprovalTypeOK /\ RunningIsDriven' /\ [Next]_approvalVars => [Awaited]_approvalVars
  BY <1>1
<1>3. Spec => [][Awaited]_approvalVars
  BY <1>2, ApprovalTypes, RunsAreComposed, RunningRunsAreDriven, PTL DEF Spec
<1> QED BY <1>3 DEF DecisionIsAwaited

-----------------------------------------------------------------------------
(* Refinement: the protocol keeps the promise of ApprovedSpend.            *)

\* Who may store an outcome: only a claim has one, and not before the holder of
\* the claim has sent its request.
OutcomeInv ==
  /\ \A s \in Cards : card[s].outcome # "none" => card[s].claimed
  /\ \A c \in Calls : call[c].pc = "executing" => card[call[c].card].outcome = "none"

PromiseInv == ApprovalInv /\ OutcomeInv

LEMMA OutcomeInit == Init => OutcomeInv
  BY DEF Init, OutcomeInv, NoCall

\* Steps that store no outcome and take no claim away keep OutcomeInv, unless a
\* call starts executing.
LEMMA OutcomeKept ==
  ASSUME ApprovalInv, OutcomeInv,
         \A s \in Cards : card'[s].outcome = card[s].outcome,
         \A s \in Cards : card[s].claimed => card'[s].claimed,
         \A c \in Calls : call'[c].pc = "executing" =>
                            call[c].pc = "executing" /\ call'[c].card = call[c].card
  PROVE  OutcomeInv'
<1>1. \A c \in Calls : call[c].pc = "executing" => call[c].card \in Cards
  BY DEF ApprovalInv, ApprovalTypeOK, CallTypeOK
<1> QED BY <1>1 DEF OutcomeInv

LEMMA OutcomeStep == PromiseInv /\ [Next]_approvalVars => OutcomeInv'
<1> SUFFICES ASSUME ApprovalInv, OutcomeInv, [Next]_approvalVars PROVE OutcomeInv'
  BY DEF PromiseInv
<1>0. CardTypeOK /\ CallTypeOK /\ AskTypeOK /\ SpendInv
  BY DEF ApprovalInv, ApprovalTypeOK
<1>1. CASE UNCHANGED cardVars
  BY <1>1, OutcomeKept DEF cardVars
<1>2. ASSUME Settling PROVE OutcomeInv'
  <2>1. /\ \A s \in Cards : /\ card'[s].outcome = card[s].outcome
                            /\ card'[s].claimed = card[s].claimed
        /\ call' = call
    BY <1>0, <1>2, SettledRows DEF Settling
  <2> QED BY <2>1, OutcomeKept
<1>3. ASSUME NEW s \in Cards, PassTTL(s) PROVE OutcomeInv'
  <2>1. call' = call
    BY <1>3 DEF PassTTL
  <2> QED BY <1>0, <1>3, <2>1, PassTTLRow, OutcomeKept
<1>4. ASSUME NEW k \in Asks, Create(k) PROVE OutcomeInv'
  <2>1. call' = call
    BY <1>4 DEF Create
  <2>2. PICK s \in Cards : /\ card[s].status = "unused"
                           /\ card'[s].outcome = "none"
                           /\ \A t \in Cards : t # s => card'[t] = card[t]
    BY <1>0, <1>4, CreateRow
  <2>3. ~card[s].claimed /\ card[s].outcome = "none"
    BY <1>0, <2>2 DEF SpendInv, OutcomeInv
  <2> QED BY <2>1, <2>2, <2>3, OutcomeKept
<1>5. ASSUME NEW c \in Calls, PrepareGeneration(c) PROVE OutcomeInv'
  <2>1. /\ card' = card
        /\ call'[c].pc = "reading"
        /\ \A d \in Calls : d # c => call'[d] = call[d]
    BY <1>0, <1>5 DEF PrepareGeneration, CallTypeOK
  <2> QED BY <2>1, OutcomeKept
<1>6. ASSUME NEW c \in Calls, ReadClaim(c) PROVE OutcomeInv'
  <2>1. /\ card' = card
        /\ call'[c].pc # "executing"
        /\ \A d \in Calls : d # c => call'[d] = call[d]
    BY <1>0, <1>6 DEF ReadClaim, CallAt, Answer, NoCall, CallTypeOK, ToolCall
  <2> QED BY <2>1, OutcomeKept
<1>7. ASSUME NEW c \in Calls, Claim(c) PROVE OutcomeInv'
  <2>1. call[c].card \in Cards /\ call[c].pc = "claiming"
    BY <1>0, <1>7 DEF Claim, CallTypeOK
  <2>2. CASE Answer(c) /\ card' = card
    BY <1>0, <2>2, AnswerCall, OutcomeKept
  <2>3. CASE /\ Claimable(call[c].card, call[c].run)
             /\ CallAt(c, "executing")
             /\ card'[call[c].card].claimed
             /\ card'[call[c].card].outcome = card[call[c].card].outcome
             /\ \A t \in Cards : t # call[c].card => card'[t] = card[t]
    <3>1. /\ call'[c].card = call[c].card
          /\ \A d \in Calls : d # c => call'[d] = call[d]
      BY <1>0, <2>3 DEF CallAt, CallTypeOK, ToolCall
    <3>2. card[call[c].card].outcome = "none"
      BY <2>1, <2>3 DEF Claimable, OutcomeInv
    <3>3. \A d \in Calls : call[d].pc = "executing" => call[d].card \in Cards
      BY <1>0 DEF CallTypeOK
    <3> QED BY <2>1, <2>3, <3>1, <3>2, <3>3 DEF OutcomeInv
  <2> QED BY <1>0, <1>7, <2>1, <2>2, <2>3, ClaimRow
<1>8. ASSUME NEW c \in Calls, Execute(c) PROVE OutcomeInv'
  <2>1. /\ card' = card
        /\ call'[c].pc = "completing"
        /\ \A d \in Calls : d # c => call'[d] = call[d]
    BY <1>0, <1>8 DEF Execute, CallAt, CallTypeOK, ToolCall
  <2> QED BY <2>1, OutcomeKept
<1>9. ASSUME NEW c \in Calls, CompleteGenerationUse(c) PROVE OutcomeInv'
  <2>1. /\ call'[c].pc = "idle"
        /\ \A d \in Calls : d # c => call'[d] = call[d]
    BY <1>0, <1>9, AnswerCall DEF CompleteGenerationUse
  <2>2. CASE card' = card
    BY <2>1, <2>2, OutcomeKept
  <2>3. CASE /\ card[call[c].card].claimed
             /\ \A t \in Cards : t # call[c].card => card'[t] = card[t]
    <3>1. \A d \in Calls : d # c /\ call[d].pc = "executing" =>
            call[d].card \in Cards /\ call[d].card # call[c].card
      BY <1>0, <1>9 DEF CompleteGenerationUse, SpendInv, Holds, CallTypeOK
    <3>2. \A t \in Cards : card'[t].claimed = card[t].claimed
      BY <1>0, <1>9, CompleteRow
    <3> QED BY <2>1, <2>3, <3>1, <3>2 DEF OutcomeInv
  <2> QED BY <1>0, <1>9, <2>2, <2>3, CompleteRow
<1>10. CASE Crash
  <2>1. card' = card /\ \A c \in Calls : call'[c].pc = "idle"
    BY <1>10 DEF Crash, NoCall
  <2> QED BY <2>1, OutcomeKept
<1> QED
  BY <1>1, <1>2, <1>3, <1>4, <1>5, <1>6, <1>7, <1>8, <1>9, <1>10, SettlingSteps
     DEF Next, approvalVars, cardVars

\* The inductive invariant of the refinement: the claims and outcomes of the
\* selection rows agree with their status.
THEOREM PromiseInvariant == Spec => []PromiseInv
  BY OutcomeInit, OutcomeStep, ApprovalInvariant, PTL DEF Spec, PromiseInv

PhaseMap == [s \in Cards |-> PhaseOf(s)]

LEMMA PhaseFacts ==
  ASSUME CardTypeOK, NEW s \in Cards
  PROVE  /\ card[s].status = "unused" <=> PhaseOf(s) = "unasked"
         /\ Pending(s) <=> PhaseOf(s) = "asked"
         /\ card[s].status \in {"cancelled", "expired", "selected"} <=> PhaseOf(s) = "refused"
         /\ card[s].status = "submitted" =>
              /\ card[s].outcome = "stored" => PhaseOf(s) = "closed"
              /\ card[s].outcome = "none" /\ card[s].claimed => PhaseOf(s) = "claimed"
              /\ card[s].outcome = "none" /\ ~card[s].claimed => PhaseOf(s) = "approved"
<1>1. /\ card[s].status \in CardStatus
      /\ card[s].outcome \in {"none", "stored"}
  BY DEF CardTypeOK, SelectionRow
<1> QED BY <1>1 DEF PhaseOf, Pending, CardStatus, Decided

\* A card whose status, claim and outcome are the same is in the same phase.
LEMMA SamePhase ==
  ASSUME NEW s \in Cards, card'[s].status = card[s].status,
         card'[s].claimed = card[s].claimed, card'[s].outcome = card[s].outcome
  PROVE  PhaseOf(s)' = PhaseOf(s)
  BY DEF PhaseOf

\* One card moves and the others stay.
LEMMA OnePhase ==
  ASSUME NEW s \in Cards, NEW to, PhaseOf(s)' = to,
         \A t \in Cards : t # s => card'[t] = card[t]
  PROVE  PhaseMap' = [PhaseMap EXCEPT ![s] = to]
<1>1. \A t \in Cards : t # s => PhaseOf(t)' = PhaseOf(t)
  BY SamePhase
<1> QED BY <1>1 DEF PhaseMap

LEMMA StutterRefines ==
  ASSUME \A s \in Cards : /\ card'[s].status = card[s].status
                          /\ card'[s].claimed = card[s].claimed
                          /\ card'[s].outcome = card[s].outcome
  PROVE  PhaseMap' = PhaseMap
  BY SamePhase DEF PhaseMap

\* Whatever settles cards without deciding them refuses a set of asked ones.
LEMMA RefusingRefines ==
  ASSUME PromiseInv, Refusing
  PROVE  \/ \E S \in SUBSET Cards : Promise!Refuse(S)
         \/ UNCHANGED <<PhaseMap, spent>>
<1>0. CardTypeOK /\ spent' = spent
  BY DEF PromiseInv, ApprovalInv, ApprovalTypeOK, Refusing
<1>1. CASE card' = card
  BY <1>0, <1>1, StutterRefines
<1>2. ASSUME NEW T, NEW st, Settles(T, st), st \notin Decided PROVE Promise!Refuse(T)
  <2>1. /\ T \in SUBSET Cards /\ \A s \in T : Pending(s)
        /\ st \in {"cancelled", "expired"}
    BY <1>2 DEF Settles, CardStatus, Decided
  <2>2. /\ CardTypeOK'
        /\ \A s \in Cards : /\ ~Pending(s) => card'[s] = card[s]
                            /\ card'[s].status = IF s \in T THEN st ELSE card[s].status
                            /\ card'[s].claimed = card[s].claimed
                            /\ card'[s].outcome = card[s].outcome
    BY <1>0, <1>2, SettledRows
  <2>3. \A s \in T : PhaseMap[s] = "asked"
    BY <1>0, <2>1, PhaseFacts DEF PhaseMap
  <2>4. \A s \in Cards : s \in T => PhaseOf(s)' = "refused"
    BY <2>1, <2>2 DEF PhaseOf
  <2>5. \A s \in Cards : s \notin T => PhaseOf(s)' = PhaseOf(s)
    BY <2>2, SamePhase
  <2>6. PhaseMap' = [s \in Cards |-> IF s \in T THEN "refused" ELSE PhaseMap[s]]
    BY <2>4, <2>5 DEF PhaseMap
  <2> QED BY <1>0, <2>3, <2>6 DEF Promise!Refuse, PhaseMap
<1>3. \A T, st : Settles(T, st) => T \in SUBSET Cards
  BY DEF Settles
<1> QED BY <1>1, <1>2, <1>3 DEF Refusing

LEMMA CreateRefines ==
  ASSUME PromiseInv, NEW k \in Asks, Create(k)
  PROVE  \E s \in Cards : Promise!Ask(s)
<1>0. CardTypeOK /\ AskTypeOK /\ spent' = spent
  BY DEF PromiseInv, ApprovalInv, ApprovalTypeOK, Create
<1>1. PICK s \in Cards : /\ card[s].status = "unused"
                         /\ card'[s].status = "pending"
                         /\ \A t \in Cards : t # s => card'[t] = card[t]
  BY <1>0, CreateRow
<1>2. PhaseOf(s) = "unasked" /\ PhaseOf(s)' = "asked"
  BY <1>1 DEF PhaseOf
<1> QED BY <1>0, <1>1, <1>2, OnePhase DEF Promise!Ask, Promise!Move, PhaseMap

\* The user approves, or what he answers refuses the card.
LEMMA DecideRefines ==
  ASSUME PromiseInv, NEW s \in Cards, Decide(s)
  PROVE  Promise!Approve(s) \/ Promise!Refuse({s})
<1>0. CardTypeOK /\ Pending(s) /\ spent' = spent
  BY DEF PromiseInv, ApprovalInv, ApprovalTypeOK, Decide
<1>1. PICK answer \in Decided \cup {"cancelled"} : card' = SetStatus({s}, DecisionFor(s, answer))
  BY DEF Decide
<1> DEFINE st == DecisionFor(s, answer)
<1>2. st \in {"cancelled", "expired", "selected", "submitted"}
  BY DecisionForStatus DEF CardStatus, Decided
<1> HIDE DEF st
<1>3. /\ \A t \in Cards : t # s => card'[t] = card[t]
      /\ card'[s] = [card[s] EXCEPT !.status = st]
      /\ card[s] \in SelectionRow
  BY <1>0, <1>1 DEF SetStatus, CardTypeOK, st
<1>4. /\ card'[s].status = st
      /\ card'[s].claimed = card[s].claimed /\ card'[s].outcome = card[s].outcome
  BY <1>3 DEF SelectionRow
<1>5. ~card[s].claimed /\ card[s].outcome = "none"
  BY <1>0 DEF PromiseInv, ApprovalInv, SpendInv, OutcomeInv, Pending
<1>6. PhaseMap[s] = "asked"
  BY <1>0, PhaseFacts DEF PhaseMap
<1>7. CASE st = "submitted"
  <2>1. PhaseOf(s)' = "approved"
    BY <1>4, <1>5, <1>7 DEF PhaseOf
  <2> QED BY <1>0, <1>3, <1>6, <2>1, OnePhase DEF Promise!Approve, Promise!Move, PhaseMap
<1>8. CASE st # "submitted"
  <2>1. PhaseOf(s)' = "refused"
    BY <1>2, <1>4, <1>8 DEF PhaseOf
  <2>2. PhaseMap' = [PhaseMap EXCEPT ![s] = "refused"]
    BY <1>3, <2>1, OnePhase
  <2>3. PhaseMap' = [t \in Cards |-> IF t \in {s} THEN "refused" ELSE PhaseMap[t]]
    BY <2>2 DEF PhaseMap
  <2> QED BY <1>0, <1>6, <2>3 DEF Promise!Refuse, PhaseMap
<1> QED BY <1>7, <1>8

LEMMA ClaimRefines ==
  ASSUME PromiseInv, NEW c \in Calls, Claim(c)
  PROVE  (\E s \in Cards : Promise!Claim(s)) \/ UNCHANGED <<PhaseMap, spent>>
<1>0. /\ CardTypeOK /\ call[c].card \in Cards /\ spent' = spent
  BY DEF PromiseInv, ApprovalInv, ApprovalTypeOK, CallTypeOK, Claim
<1>1. CASE card' = card
  BY <1>0, <1>1, StutterRefines
<1>2. CASE /\ Claimable(call[c].card, call[c].run)
           /\ card'[call[c].card].claimed
           /\ card'[call[c].card].status = card[call[c].card].status
           /\ card'[call[c].card].outcome = card[call[c].card].outcome
           /\ \A t \in Cards : t # call[c].card => card'[t] = card[t]
  <2>1. PICK s \in Cards : s = call[c].card
    BY <1>0
  <2>2. /\ card[s].status = "submitted" /\ ~card[s].claimed /\ card[s].outcome = "none"
    BY <1>2, <2>1 DEF Claimable, Authorizes, PromiseInv, OutcomeInv
  <2>3. PhaseOf(s) = "approved" /\ PhaseOf(s)' = "claimed"
    BY <1>2, <2>1, <2>2 DEF PhaseOf
  <2> QED BY <1>0, <1>2, <2>1, <2>3, OnePhase DEF Promise!Claim, Promise!Move, PhaseMap
<1> QED BY <1>0, <1>1, <1>2, ClaimRow

LEMMA ExecuteRefines ==
  ASSUME PromiseInv, NEW c \in Calls, Execute(c)
  PROVE  (\E s \in Cards : Promise!Spend(s)) \/ UNCHANGED <<PhaseMap, spent>>
<1>0. PICK s \in Cards : s = call[c].card
  BY DEF PromiseInv, ApprovalInv, ApprovalTypeOK, CallTypeOK, Execute
<1>1. /\ card' = card
      /\ call[c].pc = "executing"
      /\ spent' = spent \/ spent' = [spent EXCEPT ![s] = @ + 1]
  BY <1>0 DEF Execute
<1>2. PhaseMap' = PhaseMap
  BY <1>1, StutterRefines
<1>3. /\ card[s].claimed /\ card[s].status = "submitted" /\ card[s].outcome = "none"
      /\ spent[s] = 0
  BY <1>0, <1>1 DEF PromiseInv, ApprovalInv, SpendInv, OutcomeInv, Holds
<1>4. PhaseMap[s] = "claimed"
  BY <1>3 DEF PhaseOf, PhaseMap
<1> QED BY <1>1, <1>2, <1>3, <1>4 DEF Promise!Spend, PhaseMap

LEMMA CompleteRefines ==
  ASSUME PromiseInv, NEW c \in Calls, CompleteGenerationUse(c)
  PROVE  (\E s \in Cards : Promise!Close(s)) \/ UNCHANGED <<PhaseMap, spent>>
<1>0. /\ CardTypeOK /\ CallTypeOK /\ call[c].card \in Cards /\ spent' = spent
  BY DEF PromiseInv, ApprovalInv, ApprovalTypeOK, CallTypeOK, CompleteGenerationUse
<1>1. CASE card' = card
  BY <1>0, <1>1, StutterRefines
<1>2. CASE /\ card[call[c].card].claimed
           /\ card[call[c].card].outcome = "none"
           /\ card'[call[c].card].outcome = "stored"
           /\ \A t \in Cards : t # call[c].card => card'[t] = card[t]
  <2>1. PICK s \in Cards : s = call[c].card
    BY <1>0
  <2>2. card[s].status = "submitted" /\ card'[s].status = "submitted"
    BY <1>0, <1>2, <2>1, CompleteRow DEF PromiseInv, ApprovalInv, SpendInv
  <2>3. PhaseOf(s) = "claimed" /\ PhaseOf(s)' = "closed"
    BY <1>2, <2>1, <2>2 DEF PhaseOf
  <2> QED BY <1>0, <1>2, <2>1, <2>3, OnePhase DEF Promise!Close, Promise!Move, PhaseMap
<1> QED BY <1>0, <1>1, <1>2, CompleteRow

\* Every step of the confirmation protocol is a step of ApprovedSpend, or changes
\* neither the phase of a card nor what was spent (ImplementsApprovedSpend): what
\* the rows, the tool calls and the crashes do together is what the user was
\* promised.
THEOREM PromiseIsKept == Spec => ImplementsApprovedSpend
<1>1. Init => Promise!Init
  BY DEF Init, Promise!Init, PhaseOf
<1>2. PromiseInv /\ [Next]_approvalVars => [Promise!Next]_(Promise!vars)
  <2> SUFFICES ASSUME PromiseInv, [Next]_approvalVars PROVE [Promise!Next]_(Promise!vars)
    OBVIOUS
  <2>0. /\ CardTypeOK
        /\ Promise!vars = <<PhaseMap, spent>> /\ Promise!vars' = <<PhaseMap', spent'>>
    BY DEF PromiseInv, ApprovalInv, ApprovalTypeOK, Promise!vars, PhaseMap
  <2>1. CASE card' = card /\ spent' = spent
    BY <2>0, <2>1, StutterRefines
  <2>2. ASSUME NEW s \in Cards, PassTTL(s) PROVE UNCHANGED <<PhaseMap, spent>>
    BY <2>0, <2>2, PassTTLRow, StutterRefines DEF PassTTL
  <2>3. ASSUME NEW c \in Calls, PrepareGeneration(c) \/ ReadClaim(c)
        PROVE  card' = card /\ spent' = spent
    BY <2>3 DEF PrepareGeneration, ReadClaim
  <2>4. CASE Crash \/ UNCHANGED cardVars
    BY <2>1, <2>4 DEF Crash, cardVars
  <2>5. ASSUME Refusing PROVE [Promise!Next]_(Promise!vars)
    BY <2>0, <2>5, RefusingRefines DEF Promise!Next
  <2>6. ASSUME NEW k \in Asks, Create(k) PROVE Promise!Next
    BY <2>6, CreateRefines DEF Promise!Next
  <2>7. ASSUME NEW s \in Cards, Decide(s) PROVE Promise!Next
    <3>1. {s} \in SUBSET Cards
      OBVIOUS
    <3> QED BY <2>7, <3>1, DecideRefines DEF Promise!Next
  <2>8. ASSUME NEW c \in Calls, Claim(c) PROVE [Promise!Next]_(Promise!vars)
    BY <2>0, <2>8, ClaimRefines DEF Promise!Next
  <2>9. ASSUME NEW c \in Calls, Execute(c) PROVE [Promise!Next]_(Promise!vars)
    BY <2>0, <2>9, ExecuteRefines DEF Promise!Next
  <2>10. ASSUME NEW c \in Calls, CompleteGenerationUse(c) PROVE [Promise!Next]_(Promise!vars)
    BY <2>0, <2>10, CompleteRefines DEF Promise!Next
  <2> QED
    BY <2>0, <2>1, <2>2, <2>3, <2>4, <2>5, <2>6, <2>7, <2>8, <2>9, <2>10, RefusingSteps
       DEF Next, approvalVars, cardVars
<1> QED BY <1>1, <1>2, PromiseInvariant, PTL DEF Spec, ImplementsApprovedSpend, Promise!Spec
=============================================================================
