------------------------------ MODULE AgentRuns ------------------------------
(***************************************************************************)
(* The life of the agent runs of one chat session of the Go server:        *)
(*                                                                         *)
(*   - SessionService keeps, under one mutex, the in-memory session with   *)
(*     the records of its runs, and mirrors part of it in one database row *)
(*     (service/agent/agent_sessions_service.go);                          *)
(*   - AgentRuntime admits a message, starts a run and owns the goroutine  *)
(*     that drives the ACP runner to its end (agent_runtime.go);           *)
(*   - the HTTP cancel endpoint cancels, then reads the status again, then *)
(*     settles what belongs to the run it read (agent_sessions.go).        *)
(*                                                                         *)
(* Every critical section of SessionService is one action; what happens    *)
(* between two of them is not atomic.  All state is keyed by session id    *)
(* and no operation touches two sessions, so one session is modelled.  An  *)
(* ACP session (the backend's conversation) is named after the run that    *)
(* created it; its instruction hash travels with it and is left out, as    *)
(* are titles and messages.                                                *)
(***************************************************************************)
EXTENDS Integers, FiniteSets

CONSTANTS
  Runs,      \* run ids, one per submitted message
  Cancels,   \* HTTP cancel requests that may be in flight together
  MaxTurns,  \* config agent.max_session_turns
  None       \* the empty id

ASSUME MaxTurnsAssumption == MaxTurns \in Nat \ {0}
ASSUME NoneAssumption    == None \notin Runs

Terminal  == {"completed", "failed", "cancelled"}
RunStatus == {"running"} \cup Terminal
MaybeRun  == Runs \cup {None}

VARIABLES
  loaded,    \* is there an entry for the session in store.sessions?
  session,   \* that entry; the empty one while ~loaded
  saved,     \* the agent_sessions row
  work,      \* where the goroutine of each run is
  ctxDone,   \* has the run's own cancel function been called?
  startAcp,  \* the ACP session StartRun told the run to resume
  result,    \* the ACP session the runner returned
  verdict,   \* the status the goroutine hands to FinishRun
  fate,      \* the status FinishRun answered, passed to RunTerminalHandler
  closing,   \* AgentRuntime.Close: "open", "closing" or "closed"
  cancel     \* the HTTP cancel requests

sessionVars == <<loaded, session, saved>>
workVars    == <<work, ctxDone, startAcp, result, verdict, fate>>
runVars     == <<sessionVars, workVars, closing, cancel>>

-----------------------------------------------------------------------------
(* The session record and its row.                                         *)

EmptySession ==
  [acp |-> None, turns |-> 0, root |-> None, lastStatus |-> "none",
   status |-> [r \in Runs |-> "absent"], runAcp |-> [r \in Runs |-> None]]

\* The number of turns of an ACP session found in the row is unknown: -1.
FromRow ==
  [EmptySession EXCEPT !.acp        = saved.acp,
                       !.turns      = IF saved.acp = None THEN 0 ELSE -1,
                       !.lastStatus = saved.lastStatus]

\* Mutant: every method loads the session again, over the one in memory.
Current_AlwaysReloads == FromRow

\* What a method sees after its "load the session if it is absent" prologue.
Current == IF loaded THEN session ELSE FromRow

Row(s) == [acp |-> s.acp, lastStatus |-> s.lastStatus]

Active(s) == {r \in Runs : s.status[r] = "running"}

\* Mutant: StartRun does not ask hasActiveRuns.
MayStart_Always(s) == TRUE

MayStart(s) == Active(s) = {}

\* Leave the critical section with session s, not persisted or persisted.
Keep(s)    == loaded' = TRUE /\ session' = s /\ UNCHANGED saved
Persist(s) == loaded' = TRUE /\ session' = s /\ saved' = Row(s)

ShouldRotate(s) == s.acp # None /\ (s.turns < 0 \/ s.turns >= MaxTurns)

Rotated(s) ==
  IF ShouldRotate(s) THEN [s EXCEPT !.acp = None, !.turns = 0] ELSE s

\* Mutants: the goroutine waits on only one of the two cancellations.
CtxDone_IgnoresCancel(r)   == closing # "open"
CtxDone_IgnoresShutdown(r) == ctxDone[r]

\* A run's context derives from shutdownCtx, which Close cancels first.
CtxDone(r) == ctxDone[r] \/ closing # "open"

InProgress(r) == work[r] \notin {"idle", "ended"}

Goto(r, pc) == work' = [work EXCEPT ![r] = pc]

-----------------------------------------------------------------------------
(* AgentRuntime.SubmitAgentMessage.                                        *)

\* Mutant: the closed flag is not consulted.
AcceptsWork_Always == TRUE

AcceptsWork == closing = "open"

\* beginLifecycleWork refuses new work once Close has set the flag.
BeginLifecycleWork(r) ==
  /\ work[r] = "idle"
  /\ AcceptsWork
  /\ Goto(r, "admitted")
  /\ UNCHANGED <<sessionVars, ctxDone, startAcp, result, verdict, fate, closing, cancel>>

StartRun(r) ==
  /\ work[r] = "admitted"
  /\ UNCHANGED <<result, verdict, fate, closing, cancel>>
  /\ \/ /\ ~MayStart(Current)
        /\ ctxDone' = [ctxDone EXCEPT ![r] = TRUE]
        /\ Goto(r, "ended")
        /\ Keep(Current)
        /\ UNCHANGED startAcp
     \/ /\ MayStart(Current)
        /\ LET s == Rotated(Current)
           IN  /\ Persist([s EXCEPT !.root       = r,
                                    !.lastStatus = "running",
                                    !.status[r]  = "running"])
               /\ startAcp' = [startAcp EXCEPT ![r] = s.acp]
        /\ Goto(r, "accepted")
        /\ UNCHANGED ctxDone

\* FinishRun(r, v): the session it leaves, and the status it answers.
FinishedSession(s, r, v) ==
  [s EXCEPT !.status[r]  = v,
            !.lastStatus = v,
            !.acp        = IF s.runAcp[r] # None THEN s.runAcp[r] ELSE @]

\* Mutant: the late goroutine of a cancelled run finishes it once more.
FinishRun_Again(r, v) ==
  /\ Persist(FinishedSession(Current, r, v))
  /\ fate' = [fate EXCEPT ![r] = v]

FinishRun(r, v) ==
  \/ /\ Current.status[r] = "running"
     /\ Persist(FinishedSession(Current, r, v))
     /\ fate' = [fate EXCEPT ![r] = v]
  \/ /\ Current.status[r] \in Terminal
     /\ Keep(Current)
     /\ fate' = [fate EXCEPT ![r] = Current.status[r]]
  \/ /\ Current.status[r] = "absent"
     /\ Keep(Current)
     /\ fate' = [fate EXCEPT ![r] = Current.lastStatus]

\* The project and working directories resolve and the goroutine starts, or
\* the run fails before it has one (and the terminal handler is not called).
SpawnRun(r) ==
  /\ work[r] = "accepted"
  /\ Goto(r, "running")
  /\ UNCHANGED <<sessionVars, ctxDone, startAcp, result, verdict, fate, closing, cancel>>

FailPreparation(r) ==
  /\ work[r] = "accepted"
  /\ ctxDone' = [ctxDone EXCEPT ![r] = TRUE]
  /\ FinishRun(r, "failed")
  /\ Goto(r, "ended")
  /\ UNCHANGED <<startAcp, result, verdict, closing, cancel>>

-----------------------------------------------------------------------------
(* AgentRuntime.runAgent, split where it enters SessionService.            *)

\* The runner succeeds, on the session it resumed or on one of its own, or
\* without naming an ACP session to keep.
RunnerSucceeds(r) ==
  /\ work[r] = "running"
  /\ \/ /\ \E a \in {startAcp[r], r} \ {None} :
             /\ result' = [result EXCEPT ![r] = a]
        /\ Goto(r, "storing")
        /\ UNCHANGED verdict
     \/ /\ verdict' = [verdict EXCEPT ![r] = "completed"]
        /\ Goto(r, "finishing")
        /\ UNCHANGED result
  /\ UNCHANGED <<sessionVars, ctxDone, startAcp, fate, closing, cancel>>

\* It fails: "cancelled" if the context was cancelled by now, else the ACP
\* session is dropped before the run is finished.
RunnerFails(r) ==
  /\ work[r] = "running"
  /\ \/ /\ CtxDone(r)
        /\ verdict' = [verdict EXCEPT ![r] = "cancelled"]
        /\ Goto(r, "finishing")
     \/ /\ ~CtxDone(r)
        /\ verdict' = [verdict EXCEPT ![r] = "failed"]
        /\ Goto(r, "clearing")
  /\ UNCHANGED <<sessionVars, ctxDone, startAcp, result, fate, closing, cancel>>

\* It panics, or what follows its success does: the deferred recover finishes
\* the run as failed.
RunnerPanics(r) ==
  /\ work[r] = "running"
  /\ verdict' = [verdict EXCEPT ![r] = "failed"]
  /\ Goto(r, "finishing")
  /\ UNCHANGED <<sessionVars, ctxDone, startAcp, result, fate, closing, cancel>>

RunnerReturns(r) == RunnerSucceeds(r) \/ RunnerFails(r) \/ RunnerPanics(r)

ClearACPSessionID(r) ==
  /\ work[r] = "clearing"
  /\ Persist([Current EXCEPT !.acp = None, !.turns = 0])
  /\ Goto(r, "finishing")
  /\ UNCHANGED <<ctxDone, startAcp, result, verdict, fate, closing, cancel>>

SetACPSessionState(r) ==
  /\ work[r] = "storing"
  /\ \/ /\ Current.status[r] = "absent"
        /\ Keep(Current)
     \/ /\ Current.status[r] # "absent"
        /\ Persist([Current EXCEPT
             !.acp       = result[r],
             !.turns     = IF Current.acp = result[r] /\ @ >= 0 THEN @ + 1 ELSE 1,
             !.runAcp[r] = result[r]])
  /\ \E v \in {"completed", "failed"} : verdict' = [verdict EXCEPT ![r] = v]
  /\ Goto(r, "finishing")
  /\ UNCHANGED <<ctxDone, startAcp, result, fate, closing, cancel>>

FinishGoroutineRun(r) ==
  /\ work[r] = "finishing"
  /\ FinishRun(r, verdict[r])
  /\ Goto(r, "notifying")
  /\ UNCHANGED <<ctxDone, startAcp, result, verdict, closing, cancel>>

\* RunTerminalHandler is called with fate[r]; then the context is released, the
\* goroutine leaves the lifecycle group and its locals are gone.
NotifyTerminal(r) ==
  /\ work[r] = "notifying"
  /\ ctxDone'  = [ctxDone EXCEPT ![r] = TRUE]
  /\ startAcp' = [startAcp EXCEPT ![r] = None]
  /\ result'   = [result EXCEPT ![r] = None]
  /\ verdict'  = [verdict EXCEPT ![r] = "none"]
  /\ fate'     = [fate EXCEPT ![r] = "none"]
  /\ Goto(r, "ended")
  /\ UNCHANGED <<sessionVars, closing, cancel>>

-----------------------------------------------------------------------------
(* HTTP cancel: CancelRun, then statusFn, then onCancelled.                *)

CancelledSession(s) ==
  [s EXCEPT !.status = [r \in Runs |-> IF r \in Active(s) THEN "cancelled"
                                                          ELSE s.status[r]],
            !.lastStatus = "cancelled"]

\* Without an active run the session is loaded again over the one in memory.
CancelRun(c) ==
  /\ cancel[c].pc = "idle"
  /\ \/ /\ loaded /\ Active(session) # {}
        /\ Persist(CancelledSession(session))
        /\ ctxDone' = [r \in Runs |-> ctxDone[r] \/ r \in Active(session)]
        /\ cancel'  = [cancel EXCEPT ![c].pc = "cancelled"]
     \/ /\ ~(loaded /\ Active(session) # {})
        /\ Keep(FromRow)
        /\ UNCHANGED <<ctxDone, cancel>>
  /\ UNCHANGED <<work, startAcp, result, verdict, fate, closing>>

ReadCancelledStatus(c) ==
  /\ cancel[c].pc = "cancelled"
  /\ Keep(Current)
  /\ cancel' = [cancel EXCEPT ![c] = [pc |-> "read", run |-> Current.root]]
  /\ UNCHANGED <<workVars, closing>>

OnCancelled(c) ==
  /\ cancel[c].pc = "read"
  /\ cancel' = [cancel EXCEPT ![c] = [pc |-> "idle", run |-> None]]
  /\ UNCHANGED <<sessionVars, workVars, closing>>

-----------------------------------------------------------------------------
(* Everything else that touches the session, shutdown and restart.         *)

\* Status, list, projectSessionID, WithRunStatus...: hydrate if absent.
CachePersistedSessionIfAbsent ==
  /\ ~loaded
  /\ Keep(FromRow)
  /\ UNCHANGED <<workVars, closing, cancel>>

BeginClose ==
  /\ closing = "open"
  /\ closing' = "closing"
  /\ UNCHANGED <<sessionVars, workVars, cancel>>

\* lifecycleGroup.Wait returns.
FinishClose ==
  /\ closing = "closing"
  /\ \A r \in Runs : ~InProgress(r)
  /\ closing' = "closed"
  /\ UNCHANGED <<sessionVars, workVars, cancel>>

\* Mutant: reconciliation is skipped.
Reconciled_Skipped(status)     == status
\* ReconcileInterruptedRuns on the row.
Reconciled(status) == IF status = "running" THEN "paused" ELSE status

\* The process dies and NewSessionService reconciles the row at boot.
Restart ==
  /\ loaded'  = FALSE
  /\ session' = EmptySession
  /\ saved'   = [saved EXCEPT !.lastStatus = Reconciled(@)]
  /\ work'    = [r \in Runs |-> IF InProgress(r) THEN "ended" ELSE work[r]]
  /\ ctxDone' = [r \in Runs |-> FALSE]
  /\ startAcp' = [r \in Runs |-> None]
  /\ result' = [r \in Runs |-> None]
  /\ verdict' = [r \in Runs |-> "none"]
  /\ fate' = [r \in Runs |-> "none"]
  /\ closing' = "open"
  /\ cancel'  = [c \in Cancels |-> [pc |-> "idle", run |-> None]]

-----------------------------------------------------------------------------
RunsInit ==
  /\ loaded   = TRUE
  /\ session  = EmptySession
  /\ saved    = Row(EmptySession)
  /\ work     = [r \in Runs |-> "idle"]
  /\ ctxDone  = [r \in Runs |-> FALSE]
  /\ startAcp = [r \in Runs |-> None]
  /\ result   = [r \in Runs |-> None]
  /\ verdict  = [r \in Runs |-> "none"]
  /\ fate     = [r \in Runs |-> "none"]
  /\ closing  = "open"
  /\ cancel   = [c \in Cancels |-> [pc |-> "idle", run |-> None]]

\* What the goroutine and its request handler do between two waits.
GoroutineStep(r) ==
  \/ StartRun(r)
  \/ SpawnRun(r)
  \/ FailPreparation(r)
  \/ ClearACPSessionID(r)
  \/ SetACPSessionState(r)
  \/ FinishGoroutineRun(r)
  \/ NotifyTerminal(r)

RunsNext ==
  \/ \E r \in Runs : BeginLifecycleWork(r)
  \/ \E r \in Runs : GoroutineStep(r)
  \/ \E r \in Runs : RunnerReturns(r)
  \/ \E c \in Cancels : CancelRun(c)
  \/ \E c \in Cancels : ReadCancelledStatus(c)
  \/ \E c \in Cancels : OnCancelled(c)
  \/ CachePersistedSessionIfAbsent
  \/ BeginClose
  \/ FinishClose
  \/ Restart

RunsSpec == RunsInit /\ [][RunsNext]_runVars

\* Goroutines are scheduled; the runner is only obliged to return once its
\* context is cancelled (the run timeout is disabled by default).
RunsFairness ==
  /\ \A r \in Runs : /\ WF_runVars(GoroutineStep(r))
                     /\ WF_runVars(CtxDone(r) /\ RunnerReturns(r))
  /\ WF_runVars(FinishClose)

FairRunsSpec == RunsSpec /\ RunsFairness

-----------------------------------------------------------------------------
(* Type invariant.                                                         *)

SessionType ==
  [acp : MaybeRun, turns : Int, root : MaybeRun,
   lastStatus : RunStatus \cup {"none", "paused"},
   status : [Runs -> RunStatus \cup {"absent"}], runAcp : [Runs -> MaybeRun]]

WorkStates == {"idle", "admitted", "accepted", "running", "clearing", "storing",
               "finishing", "notifying", "ended"}

\* Every variable of the run life cycle has the type its Go field has, and a
\* goroutine that is about to store a result or finish has one to hand over.
RunsTypeOK ==
  /\ loaded \in BOOLEAN
  /\ session \in SessionType
  /\ saved \in [acp : MaybeRun, lastStatus : RunStatus \cup {"none", "paused"}]
  /\ work \in [Runs -> WorkStates]
  /\ ctxDone \in [Runs -> BOOLEAN]
  /\ startAcp \in [Runs -> MaybeRun]
  /\ result \in [Runs -> MaybeRun]
  /\ verdict \in [Runs -> Terminal \cup {"none"}]
  /\ fate \in [Runs -> RunStatus \cup {"none", "paused"}]
  /\ closing \in {"open", "closing", "closed"}
  /\ cancel \in [Cancels -> [pc : {"idle", "cancelled", "read"}, run : MaybeRun]]
  /\ \A r \in Runs : /\ work[r] = "storing" => result[r] \in Runs
                     /\ work[r] \in {"clearing", "finishing"} => verdict[r] \in Terminal

-----------------------------------------------------------------------------
(* Safety.                                                                 *)

\* Executing r: a goroutine is or will be driving the runner, and nobody has
\* told it to stop.
Executing(r) ==
  /\ work[r] \in {"accepted", "running", "clearing", "storing", "finishing"}
  /\ ~ctxDone[r]

\* A run that is executing still has its record, and the record says running:
\* reloading the session (CancelRun, hydration) never strips a run that nobody
\* stopped of the record through which it can be cancelled.
ExecutingRunIsOnRecord ==
  \A r \in Runs : Executing(r) => loaded /\ session.status[r] = "running"

\* Two agents never work in one session at once, whatever the interleaving of
\* submissions, cancellations, hydrations and late goroutines.
OneAgentAtATime ==
  \A r, q \in Runs : Executing(r) /\ Executing(q) => r = q

\* The row shown in the session list says "running" exactly while a run of this
\* process is active: a goroutine that finishes late does not overwrite the
\* status of the run that replaced its own, and a restart leaves none behind.
RowSaysRunningIffActive ==
  saved.lastStatus = "running" <=> loaded /\ Active(session) # {}

\* When Close has returned no goroutine of the runtime is left, however the
\* submissions raced with it.
NothingSurvivesClose ==
  closing = "closed" => \A r \in Runs : ~InProgress(r)

\* A run that reached a terminal status keeps it: a completion that arrives
\* after the cancellation does not turn a cancelled run into a completed one.
\* (Its record may be dropped by a reload or a restart.)
RunFateIsFinal ==
  [][\A r \in Runs :
       session.status[r] \in Terminal =>
         session'.status[r] \in {session.status[r], "absent"}]_runVars

-----------------------------------------------------------------------------
(* Liveness.                                                               *)

\* A run whose record says cancelled is really being stopped: its goroutine
\* ends although the runner may otherwise work for ever.
CancelledRunEnds ==
  \A r \in Runs : session.status[r] = "cancelled" ~> work[r] = "ended"

\* Close returns, whatever was being submitted or was running when it began.
CloseReturns == closing = "closing" ~> closing # "closing"

-----------------------------------------------------------------------------
(* Statements the code makes about itself and does not keep.               *)

\* "AgentRunTerminalEvent describes one authoritative run transition into a
\* terminal state": the status given to the terminal handler is terminal.
TerminalEventIsTerminal ==
  \A r \in Runs : work[r] = "notifying" => fate[r] \in Terminal
=============================================================================
