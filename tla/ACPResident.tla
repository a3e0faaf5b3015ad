------------------------------ MODULE ACPResident ------------------------------
(***************************************************************************)
(* The ACP runner: the resident agent processes it keeps, one per          *)
(* MediaGo session, the runs that lease them, and the permission requests  *)
(* an agent process sends while a run is bound to it.                      *)
(*                                                                         *)
(* A run is one call of runOnce.  It leases the registry entry of its      *)
(* session, waits for the entry's run mutex, reuses or starts the agent    *)
(* process, prompts it, and on its way out sweeps its pending permission   *)
(* requests, unbinds from the process's router, keeps or closes the        *)
(* process and gives the lease back.  Idle timers, the watcher of the      *)
(* connection, the grace timer of a cancelled prompt and Close take        *)
(* processes out of the entries meanwhile, and the process may exit.       *)
(*                                                                         *)
(* A run starts at most one process and makes at most one entry, so a      *)
(* process, its router and an entry are all named by the run that made     *)
(* them.  A prompt stands for the prompts of the run (retry on a new ACP   *)
(* session, final message).  A request is one that asks the user: those   *)
(* without options, or approved automatically, touch no state.             *)
(***************************************************************************)
EXTENDS Naturals, FiniteSets

CONSTANTS Runs,         \* calls of Run
          Sessions,     \* MediaGo sessions
          Asks,         \* permission requests of the agent processes
          Closers,      \* calls of Close
          None,         \* no run, entry or process
          SessionOf     \* the session of each run

ASSUME ResidentAssumption ==
    /\ SessionOf \in [Runs -> Sessions]
    /\ None \notin Runs
    /\ IsFiniteSet(Runs)

VARIABLES
    step,       \* where each run is in runOnce
    cancelled,  \* the runs whose context is done
    entry,      \* the entry each run leases
    process,    \* the process each run works with
    retained,   \* the runs that will leave their process in the entry
    registry,   \* residentSessions: the entry of each session
    held,       \* the process in each entry
    leases,     \* the leases of each entry
    armed,      \* the entries whose idle timer is running
    evictors,   \* fired idle timers whose callback has not had the mutex
    state,      \* each agent process: none, live, exited or closed
    doomed,     \* processes taken from their entry that somebody will close
    bound,      \* the run each process's router delegates to
    active,     \* activeClients: the run whose client answers for a session
    ask,        \* where each permission request is
    asker,      \* the run whose client serves each request
    pending,    \* pendingPermissions, over all clients
    decided,    \* the requests with a decision in their channel
    closed,     \* residentClosed
    closing,    \* where each call of Close is
    toTake,     \* the entries Close has yet to empty
    taken       \* the processes Close took

leaseVars == <<entry, registry, leases, armed, evictors>>
processVars == <<held, state, doomed>>
askVars == <<ask, asker, pending, decided>>
closeVars == <<closed, closing, toTake, taken>>
vars == <<step, cancelled, process, retained, bound, active,
          leaseVars, processVars, askVars, closeVars>>

(* The steps of a run that holds its entry's run mutex. *)
Holding == {"leased", "replacing", "launching", "registering", "initializing",
            "binding", "connecting", "prompting", "sweeping",
            "rejected", "delisting", "unbinding", "dropping", "killing"}
Steps == Holding \cup {"idle", "queued", "finishing", "done"}

Init ==
    /\ step = [r \in Runs |-> "idle"]
    /\ cancelled = {} /\ retained = {}
    /\ entry = [r \in Runs |-> None]
    /\ process = [r \in Runs |-> None]
    /\ registry = [s \in Sessions |-> None]
    /\ held = [e \in Runs |-> None]
    /\ leases = [e \in Runs |-> 0]
    /\ armed = {}
    /\ evictors = [e \in Runs |-> 0]
    /\ state = [p \in Runs |-> "none"]
    /\ doomed = {}
    /\ bound = [p \in Runs |-> None]
    /\ active = [s \in Sessions |-> None]
    /\ ask = [q \in Asks |-> "none"]
    /\ asker = [q \in Asks |-> None]
    /\ pending = {} /\ decided = {}
    /\ closed = FALSE
    /\ closing = [c \in Closers |-> "idle"]
    /\ toTake = {} /\ taken = {}

Go(r, to) == step' = [step EXCEPT ![r] = to]

(* detachProcess and takeProcess: whoever empties the entry closes the     *)
(* process it took.                                                        *)
Take(e) ==
    /\ doomed' = doomed \cup ({held[e]} \ {None})
    /\ held' = [held EXCEPT ![e] = None]

(* invalidate, by run r: its process is taken only while its entry still   *)
(* holds it; then closing it is waited for.                                *)
Owns(r) == process[r] # None /\ held[entry[r]] = process[r]

Invalidate(r, waiting, next) ==
    IF Owns(r)
    THEN Take(entry[r]) /\ Go(r, waiting) /\ UNCHANGED state
    ELSE Go(r, next) /\ UNCHANGED processVars

(* The router of the process a run works with; a run that could not start  *)
(* a process has bound itself to the router it made for it.                *)
RouterOf(r) == IF process[r] = None THEN r ELSE process[r]

-----------------------------------------------------------------------------
(* The lease of a run. *)

(* The registry's entry of the session, or a new one. *)
EntryFor_AlwaysNew(r) == r
EntryFor(r) ==
    IF registry[SessionOf[r]] = None THEN r ELSE registry[SessionOf[r]]

(* acquireResidentLease up to the run mutex. *)
Acquire(r) ==
    LET s == SessionOf[r]
        e == EntryFor(r)
    IN  /\ step[r] = "idle"
        /\ \/ /\ closed
              /\ Go(r, "done")
              /\ UNCHANGED leaseVars
           \/ /\ ~closed
              /\ registry' = [registry EXCEPT ![s] = e]
              /\ entry' = [entry EXCEPT ![r] = e]
              /\ leases' = [leases EXCEPT ![e] = @ + 1]
              /\ armed' = armed \ {e}
              /\ Go(r, "queued")
              /\ UNCHANGED evictors
        /\ UNCHANGED <<cancelled, process, retained, bound, active,
                       processVars, askVars, closeVars>>

(* The run mutex, and the second look at residentClosed. *)
Lock(r) ==
    /\ step[r] = "queued"
    /\ \A q \in Runs : step[q] \in Holding => entry[q] # entry[r]
    /\ Go(r, IF closed THEN "finishing" ELSE "leased")
    /\ UNCHANGED <<cancelled, process, retained, bound, active,
                   leaseVars, processVars, askVars, closeVars>>

(* The entry's process, if it was launched as this run would launch it;    *)
(* one with another fingerprint is closed first.                           *)
FindProcess(r) ==
    LET p == held[entry[r]]
    IN  /\ step[r] = "leased"
        /\ \/ /\ p # None
              /\ process' = [process EXCEPT ![r] = p]
              /\ Go(r, "binding")
              /\ UNCHANGED processVars
           \/ /\ p # None
              /\ Take(entry[r])
              /\ process' = [process EXCEPT ![r] = p]
              /\ Go(r, "replacing")
              /\ UNCHANGED state
           \/ /\ p = None
              /\ Go(r, "launching")
              /\ UNCHANGED <<process, processVars>>
        /\ UNCHANGED <<cancelled, retained, bound, active,
                       leaseVars, askVars, closeVars>>

(* Close has returned for the process run r was waiting for. *)
ProcessClosed(r) ==
    /\ step[r] \in {"replacing", "rejected", "killing"}
    /\ process[r] \notin doomed
    /\ \/ /\ step[r] = "replacing"
          /\ process' = [process EXCEPT ![r] = None]
          /\ Go(r, "launching")
       \/ step[r] = "rejected" /\ Go(r, "sweeping") /\ UNCHANGED process
       \/ step[r] = "killing" /\ Go(r, "finishing") /\ UNCHANGED process
    /\ UNCHANGED <<cancelled, retained, bound, active,
                   leaseVars, processVars, askVars, closeVars>>

(* A new router with the run bound to it, the run's client on the active   *)
(* list, and the start of the process.                                     *)
LaunchProcess(r) ==
    /\ step[r] = "launching"
    /\ bound' = [bound EXCEPT ![r] = r]
    /\ active' = [active EXCEPT ![SessionOf[r]] = r]
    /\ \/ /\ state' = [state EXCEPT ![r] = "live"]
          /\ process' = [process EXCEPT ![r] = r]
          /\ Go(r, "registering")
       \/ Go(r, "sweeping") /\ UNCHANGED <<state, process>>
    /\ UNCHANGED <<cancelled, retained, held, doomed,
                   leaseVars, askVars, closeVars>>

(* setProcess: the process enters the entry only while the entry is the    *)
(* registry's and the runner is open.                                      *)
Accepts_Unchecked(r) == process[r] # None
Accepts(r) == ~closed /\ registry[SessionOf[r]] = entry[r]

SetProcess(r) ==
    /\ step[r] = "registering"
    /\ \/ /\ Accepts(r)
          /\ doomed' = doomed \cup ({held[entry[r]]} \ {None})
          /\ held' = [held EXCEPT ![entry[r]] = process[r]]
          /\ Go(r, "initializing")
       \/ /\ ~Accepts(r)
          /\ doomed' = doomed \cup {process[r]}
          /\ Go(r, "rejected")
          /\ UNCHANGED held
    /\ UNCHANGED <<cancelled, process, retained, bound, active, state,
                   leaseVars, askVars, closeVars>>

Initialize(r) ==
    /\ step[r] = "initializing"
    /\ \/ /\ state[process[r]] = "live"
          /\ Go(r, "connecting")
          /\ UNCHANGED processVars
       \/ Invalidate(r, "rejected", "sweeping")
    /\ UNCHANGED <<cancelled, process, retained, bound, active,
                   leaseVars, askVars, closeVars>>

(* A process that is reused: bind the run's client to its router and put   *)
(* the client on the active list.                                          *)
Bind(r) ==
    /\ step[r] = "binding"
    /\ bound[process[r]] = None
    /\ bound' = [bound EXCEPT ![process[r]] = r]
    /\ active' = [active EXCEPT ![SessionOf[r]] = r]
    /\ Go(r, "connecting")
    /\ UNCHANGED <<cancelled, process, retained,
                   leaseVars, processVars, askVars, closeVars>>

(* Resuming, loading or making the ACP session, and its selections. *)
Connect(r) ==
    /\ step[r] = "connecting"
    /\ \/ state[process[r]] = "live" /\ Go(r, "prompting")
       \/ Go(r, "sweeping")
    /\ UNCHANGED <<cancelled, process, retained, bound, active,
                   leaseVars, processVars, askVars, closeVars>>

(* The prompts end: well only if the context was not done and the process  *)
(* answered; a live process may also ignore the cancellation for ever.  A  *)
(* run that succeeded keeps its process if the backend supports residence. *)
PromptEnds(r) ==
    /\ step[r] = "prompting"
    /\ Go(r, "sweeping")
    /\ \/ /\ r \notin cancelled
          /\ state[process[r]] = "live"
          /\ retained' = retained \cup {r}
       \/ UNCHANGED retained
    /\ UNCHANGED <<cancelled, process, bound, active,
                   leaseVars, processVars, askVars, closeVars>>

GraceEnds_Detaches(r) ==
    /\ step[r] = "prompting"
    /\ r \in cancelled
    /\ Owns(r)
    /\ held' = [held EXCEPT ![entry[r]] = None]
    /\ UNCHANGED <<step, cancelled, process, retained, bound, active, state,
                   doomed, leaseVars, askVars, closeVars>>

(* promptACPSession's goroutine: a prompt that has not ended when the      *)
(* grace period of its cancellation runs out loses its process.            *)
GraceEnds(r) ==
    /\ step[r] = "prompting"
    /\ r \in cancelled
    /\ Owns(r)
    /\ Take(entry[r])
    /\ UNCHANGED <<step, cancelled, process, retained, bound, active, state,
                   leaseVars, askVars, closeVars>>

-----------------------------------------------------------------------------
(* The way out of a run: the deferred function of runOnce. *)

(* cancelPendingPermissions *)
Sweep(r) ==
    LET mine == {q \in pending : asker[q] = r}
    IN  /\ step[r] = "sweeping"
        /\ decided' = decided \cup mine
        /\ pending' = pending \ mine
        /\ Go(r, "delisting")
        /\ UNCHANGED <<cancelled, process, retained, bound, active, ask, asker,
                       leaseVars, processVars, closeVars>>

Delist(r) ==
    /\ step[r] = "delisting"
    /\ active' = [active EXCEPT ![SessionOf[r]] = None]
    /\ Go(r, "unbinding")
    /\ UNCHANGED <<cancelled, process, retained, bound,
                   leaseVars, processVars, askVars, closeVars>>

(* unbind: the write lock is given when no callback holds the read lock. *)
Serving(q) == ask[q] \in {"entered", "waiting"}

Drained_NoBarrier(r) == step[r] = "unbinding"
Drained(r) == \A q \in Asks : Serving(q) => asker[q] # r

Unbind(r) ==
    /\ step[r] = "unbinding"
    /\ Drained(r)
    /\ bound' = [p \in Runs |-> IF p = RouterOf(r) /\ bound[p] = r
                                THEN None ELSE bound[p]]
    /\ Go(r, "dropping")
    /\ UNCHANGED <<cancelled, process, retained, active,
                   leaseVars, processVars, askVars, closeVars>>

(* The process is kept or invalidated, then the run mutex is given back. *)
Drop(r) ==
    /\ step[r] = "dropping"
    /\ \/ /\ r \in retained
          /\ Go(r, "finishing")
          /\ UNCHANGED processVars
       \/ /\ r \notin retained
          /\ Invalidate(r, "killing", "finishing")
    /\ UNCHANGED <<cancelled, process, retained, bound, active,
                   leaseVars, askVars, closeVars>>

(* finishResidentLease: the last lease of the registry's entry deletes an  *)
(* empty entry and starts the idle timer of one that holds a process.  The *)
(* variables of the call go with it.                                       *)
Finish(r) ==
    LET e == entry[r]
        s == SessionOf[r]
        idle == ~closed /\ leases[e] = 1 /\ registry[s] = e
    IN  /\ step[r] = "finishing"
        /\ leases' = [leases EXCEPT ![e] = @ - 1]
        /\ registry' = IF idle /\ held[e] = None
                       THEN [registry EXCEPT ![s] = None] ELSE registry
        /\ armed' = IF idle /\ held[e] # None THEN armed \cup {e} ELSE armed
        /\ Go(r, "done")
        /\ process' = [process EXCEPT ![r] = None]
        /\ cancelled' = cancelled \ {r}
        /\ retained' = retained \ {r}
        /\ UNCHANGED <<entry, evictors, bound, active,
                       processVars, askVars, closeVars>>

-----------------------------------------------------------------------------
(* Idle timers, exits, watchers, and the closing of processes. *)

IdleTimeout(e) ==
    /\ e \in armed
    /\ armed' = armed \ {e}
    /\ evictors' = [evictors EXCEPT ![e] = @ + 1]
    /\ UNCHANGED <<step, cancelled, process, retained, bound, active, entry,
                   registry, leases, processVars, askVars, closeVars>>

Evictable_Leased(e) == ~closed /\ registry[SessionOf[e]] = e
Evictable(e) == ~closed /\ leases[e] = 0 /\ registry[SessionOf[e]] = e

(* evictIdleResidentSession: the timer may have been stopped too late. *)
Evict(e) ==
    /\ evictors[e] > 0
    /\ evictors' = [evictors EXCEPT ![e] = @ - 1]
    /\ \/ /\ Evictable(e)
          /\ registry' = [registry EXCEPT ![SessionOf[e]] = None]
          /\ Take(e)
       \/ /\ ~Evictable(e)
          /\ UNCHANGED <<registry, held, doomed>>
    /\ UNCHANGED <<step, cancelled, process, retained, bound, active,
                   entry, leases, armed, state, askVars, closeVars>>

Exit(p) ==
    /\ state[p] = "live"
    /\ state' = [state EXCEPT ![p] = "exited"]
    /\ UNCHANGED <<step, cancelled, process, retained, bound, active, held,
                   doomed, leaseVars, askVars, closeVars>>

(* watchResidentProcess *)
Watch(p) ==
    /\ state[p] = "exited"
    /\ entry[p] # None
    /\ held[entry[p]] = p
    /\ Take(entry[p])
    /\ UNCHANGED <<step, cancelled, process, retained, bound, active, state,
                   leaseVars, askVars, closeVars>>

(* acpResidentProcess.Close, by whoever took the process. *)
Kill(p) ==
    /\ p \in doomed
    /\ doomed' = doomed \ {p}
    /\ state' = [state EXCEPT ![p] = "closed"]
    /\ UNCHANGED <<step, cancelled, process, retained, bound, active, held,
                   leaseVars, askVars, closeVars>>

(* The agent runtime cancels the context of a run.  Only a prompt looks at *)
(* it: a step before may fail for this and for any other reason.           *)
Cancel(r) ==
    /\ r \notin cancelled
    /\ step[r] = "prompting"
    /\ cancelled' = cancelled \cup {r}
    /\ UNCHANGED <<step, process, retained, bound, active,
                   leaseVars, processVars, askVars, closeVars>>

-----------------------------------------------------------------------------
(* Closing the runner. *)

Close(c) ==
    /\ closing[c] = "idle"
    /\ \/ /\ closed
          /\ closing' = [closing EXCEPT ![c] = "waiting"]
          /\ UNCHANGED <<closed, toTake, armed, registry>>
       \/ /\ ~closed
          /\ closed' = TRUE
          /\ toTake' = {registry[s] : s \in Sessions} \ {None}
          /\ armed' = armed \ toTake'
          /\ registry' = [s \in Sessions |-> None]
          /\ closing' = [closing EXCEPT ![c] = "taking"]
    /\ UNCHANGED <<step, cancelled, process, retained, bound, active, taken,
                   entry, leases, evictors, processVars, askVars>>

TakeOne_Forgets(c, e) ==
    /\ closing[c] = "taking"
    /\ e \in toTake
    /\ toTake' = toTake \ {e}
    /\ held' = [held EXCEPT ![e] = None]
    /\ UNCHANGED <<step, cancelled, process, retained, bound, active, state,
                   doomed, taken, closed, closing, leaseVars, askVars>>

(* Each entry is emptied; closing what was in it goes on on the side. *)
TakeOne(c, e) ==
    /\ closing[c] = "taking"
    /\ e \in toTake
    /\ toTake' = toTake \ {e}
    /\ taken' = taken \cup ({held[e]} \ {None})
    /\ Take(e)
    /\ UNCHANGED <<step, cancelled, process, retained, bound, active, state,
                   closed, closing, leaseVars, askVars>>

CloseReturns(c) ==
    /\ \/ closing[c] = "taking" /\ toTake = {} /\ taken \cap doomed = {}
       \/ closing[c] = "waiting" /\ \E d \in Closers : closing[d] = "returned"
    /\ closing' = [closing EXCEPT ![c] = "returned"]
    /\ UNCHANGED <<step, cancelled, process, retained, bound, active, closed,
                   toTake, taken, leaseVars, processVars, askVars>>

-----------------------------------------------------------------------------
(* Permission requests. *)

(* The router's RequestPermission: the read lock, and the run it finds.    *)
(* Without one the request is refused on the spot.                         *)
AskArrives(q, p) ==
    /\ ask[q] = "none"
    /\ state[p] = "live"
    /\ \/ bound[p] = None /\ ask' = [ask EXCEPT ![q] = "answered"]
                          /\ UNCHANGED asker
       \/ bound[p] # None /\ ask' = [ask EXCEPT ![q] = "entered"]
                          /\ asker' = [asker EXCEPT ![q] = bound[p]]
    /\ UNCHANGED <<step, cancelled, process, retained, bound, active, pending,
                   decided, leaseVars, processVars, closeVars>>

(* The client stores the request and shows it to the user. *)
AskStored(q) ==
    /\ ask[q] = "entered"
    /\ ask' = [ask EXCEPT ![q] = "waiting"]
    /\ pending' = pending \cup {q}
    /\ UNCHANGED <<step, cancelled, process, retained, bound, active, asker,
                   decided, leaseVars, processVars, closeVars>>

(* ResolvePermission: the runner finds the session's client, the client    *)
(* puts the decision into the channel of a pending request; it holds one.  *)
(* Between the two the request can only be settled, which makes the call   *)
(* one that changes nothing.                                               *)
ResolvePermission(q) ==
    /\ q \in pending /\ q \notin decided
    /\ active[SessionOf[asker[q]]] = asker[q]
    /\ decided' = decided \cup {q}
    /\ UNCHANGED <<step, cancelled, process, retained, bound, active, ask,
                   asker, pending, leaseVars, processVars, closeVars>>

(* RequestPermission returns: on a decision, when the timeout runs out, or *)
(* when the connection it came over is gone.  The read lock goes with it.  *)
AskReturns(q) ==
    /\ ask[q] = "waiting"
    /\ ask' = [ask EXCEPT ![q] = "answered"]
    /\ asker' = [asker EXCEPT ![q] = None]
    /\ pending' = pending \ {q}
    /\ decided' = decided \ {q}
    /\ UNCHANGED <<step, cancelled, process, retained, bound, active,
                   leaseVars, processVars, closeVars>>

-----------------------------------------------------------------------------
RunStep(r) ==
    \/ Acquire(r) \/ Lock(r) \/ FindProcess(r) \/ ProcessClosed(r)
    \/ LaunchProcess(r) \/ SetProcess(r) \/ Initialize(r)
    \/ Bind(r) \/ Connect(r) \/ PromptEnds(r) \/ GraceEnds(r)
    \/ Sweep(r) \/ Delist(r) \/ Unbind(r) \/ Drop(r) \/ Finish(r)

ProcessStep(p) ==
    IdleTimeout(p) \/ Evict(p) \/ Exit(p) \/ Watch(p) \/ Kill(p)

AskStep(q) ==
    \/ \E p \in Runs : AskArrives(q, p)
    \/ AskStored(q) \/ ResolvePermission(q) \/ AskReturns(q)

CloseStep(c) ==
    Close(c) \/ CloseReturns(c) \/ \E e \in Runs : TakeOne(c, e)

Next ==
    \/ \E r \in Runs : RunStep(r) \/ Cancel(r) \/ ProcessStep(r)
    \/ \E q \in Asks : AskStep(q)
    \/ \E c \in Closers : CloseStep(c)

Spec == Init /\ [][Next]_vars

(* What happens without anybody's help: goroutines run, timers fire, a     *)
(* closed process dies.  Nobody has to call Run, Cancel or Close nor to    *)
(* answer a request; no process has to exit, and one that lives need not   *)
(* answer what it is asked.                                                *)
CallFails(r) ==
    /\ step[r] \in {"initializing", "connecting", "prompting"}
    /\ state[process[r]] # "live"
    /\ Initialize(r) \/ Connect(r) \/ PromptEnds(r)

Progress ==
    \/ \E r \in Runs :
        \/ Lock(r) \/ FindProcess(r) \/ ProcessClosed(r) \/ LaunchProcess(r)
        \/ SetProcess(r) \/ Bind(r) \/ CallFails(r) \/ GraceEnds(r)
        \/ Sweep(r) \/ Delist(r) \/ Unbind(r) \/ Drop(r) \/ Finish(r)
        \/ Evict(r) \/ Watch(r) \/ Kill(r)
    \/ \E q \in Asks : AskStored(q) \/ AskReturns(q)
    \/ \E c \in Closers : CloseReturns(c) \/ \E e \in Runs : TakeOne(c, e)

(* No step can be taken for ever: a run, a request and a call of Close only *)
(* move forward.  So weak fairness of all these steps together is weak     *)
(* fairness of each.                                                       *)
Fairness == WF_vars(Progress)

FairSpec == Spec /\ Fairness

-----------------------------------------------------------------------------
ResidentTypeOK ==
    /\ step \in [Runs -> Steps]
    /\ cancelled \subseteq Runs /\ retained \subseteq Runs
    /\ entry \in [Runs -> Runs \cup {None}]
    /\ process \in [Runs -> Runs \cup {None}]
    /\ registry \in [Sessions -> Runs \cup {None}]
    /\ held \in [Runs -> Runs \cup {None}]
    /\ leases \in [Runs -> Nat] /\ evictors \in [Runs -> Nat]
    /\ armed \subseteq Runs /\ toTake \subseteq Runs /\ taken \subseteq Runs
    /\ state \in [Runs -> {"none", "live", "exited", "closed"}]
    /\ doomed \subseteq Runs
    /\ bound \in [Runs -> Runs \cup {None}]
    /\ active \in [Sessions -> Runs \cup {None}]
    /\ ask \in [Asks -> {"none", "entered", "waiting", "answered"}]
    /\ asker \in [Asks -> Runs \cup {None}]
    /\ pending \subseteq Asks /\ decided \subseteq Asks
    /\ closed \in BOOLEAN
    /\ closing \in [Closers -> {"idle", "taking", "waiting", "returned"}]

(* Two runs of a session are never past the run mutex together, although   *)
(* the mutex belongs to an entry and entries come and go: a leased entry   *)
(* is neither evicted nor deleted, so nobody makes a second one.           *)
OneRunPerSession ==
    \A r, q \in Runs :
        r # q /\ SessionOf[r] = SessionOf[q]
            => ~(step[r] \in Holding /\ step[q] \in Holding)

(* Every process that was started and not closed is in the hands of the    *)
(* run that is about to register it, in an entry that the registry or      *)
(* Close still reaches, or being closed.                                   *)
NoOrphanProcess ==
    \A p \in Runs : state[p] \in {"live", "exited"} =>
        \/ step[p] = "registering"
        \/ p \in doomed
        \/ /\ held[entry[p]] = p
           /\ registry[SessionOf[p]] = entry[p] \/ entry[p] \in toTake

(* A permission request is served for a run that still is bound to the     *)
(* process that asks: unbind drains the callbacks, so no answer reaches    *)
(* an agent process on behalf of a run that has left it.                   *)
CallbacksHaveTheirRun ==
    \A q \in Asks : Serving(q) =>
        /\ step[asker[q]] \in Holding \ {"leased", "launching", "dropping",
                                        "killing"}
        /\ bound[RouterOf(asker[q])] = asker[q]

(* While the runner is open, nobody but the process itself ends a process  *)
(* that an uncancelled run is prompting: no idle timer that fired late, no *)
(* watcher of an earlier process, no grace timer of an earlier run.        *)
WorkingProcessIsLeftAlone ==
    [][\A r \in Runs :
          /\ step[r] = "prompting" /\ step'[r] = "prompting"
          /\ r \notin cancelled /\ ~closed
          /\ state[process[r]] = "live"
          => /\ state'[process[r]] # "closed"
             /\ ~closed' => held'[entry[r]] = process[r] \/ state'[process[r]] # "live"]_vars

(* A run whose context is done while it prompts gives its lease back, even *)
(* if its process never answers and nobody answers a request it serves.    *)
CancelledPromptReleases ==
    \A r \in Runs :
        r \in cancelled ~> step[r] = "done"

(* Once the runner is closed every process it started ends up closed, the  *)
(* ones that were being started or were in use included.                   *)
ShutdownIsComplete ==
    \A p \in Runs : closed /\ state[p] # "none" ~> state[p] = "closed"

(* What docs/plans/2026-07-16-resident-acp-sessions-design.md says of the  *)
(* end of a run: its pending requests are cancelled before it unbinds.     *)
RequestsAreCancelledFirst ==
    \A q \in Asks :
        ask[q] = "waiting" /\ step[asker[q]] = "unbinding" => q \in decided

(* And: every error path closes the process before it releases the lease.  *)
ErrorPathClosesFirst ==
    \A r \in Runs :
        step[r] = "finishing" /\ process[r] # None /\ r \notin retained
            => state[process[r]] # "live"
=============================================================================
