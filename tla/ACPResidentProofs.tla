--------------------------- MODULE ACPResidentProofs ---------------------------
(***************************************************************************)
(* Theorems about ACPResident, for any number of runs, sessions, requests  *)
(* and calls of Close.                                                     *)
(*                                                                         *)
(* ResidentInv has three parts: where the leased entries are (LeaseInv),   *)
(* where the processes are (ProcessInv), and what the routers and their    *)
(* callbacks are bound to (BindInv).  Each part is preserved with the help *)
(* of the ones before it.                                                  *)
(***************************************************************************)
EXTENDS ACPResident, FiniteSetTheorems, TLAPS

(* The steps of a run that has its lease. *)
Leasing == Holding \cup {"queued", "finishing"}
Leaseholders(e) == {r \in Runs : step[r] \in Leasing /\ entry[r] = e}

(* A run leases an entry of its own session, and so does the registry hold *)
(* one under each session.                                                 *)
EntriesOfSessions ==
    /\ \A r \in Runs : step[r] \in Leasing => entry[r] # None
    /\ \A r \in Runs : step[r] = "idle" => entry[r] = None
    /\ \A r \in Runs : entry[r] # None => SessionOf[entry[r]] = SessionOf[r]
    /\ \A s \in Sessions : registry[s] # None => SessionOf[registry[s]] = s

(* What is leased is in the registry until Close empties it. *)
LeasesAreRegistered ==
    /\ \A r \in Runs :
          step[r] \in Leasing /\ ~closed => registry[SessionOf[r]] = entry[r]
    /\ \A r, q \in Runs :
          step[r] \in Leasing /\ step[q] \in Leasing /\ SessionOf[r] = SessionOf[q]
             => entry[r] = entry[q]
    /\ closed => \A s \in Sessions : registry[s] = None
    /\ ~closed => toTake = {}

(* The run mutex. *)
OneHolder ==
    \A r, q \in Runs :
        r # q /\ step[r] \in Holding /\ step[q] \in Holding => entry[r] # entry[q]

LeasesAreCounted == \A e \in Runs : leases[e] = Cardinality(Leaseholders(e))

LeaseInv ==
    EntriesOfSessions /\ LeasesAreRegistered /\ OneHolder /\ LeasesAreCounted

(* A run that has started no process yet, or has not registered it. *)
Unlaunched == {"idle", "queued", "leased", "replacing", "launching", "binding"}

(* A process in an entry is the one its entry's run started, is in nobody  *)
(* else's hands, and the entry can be found.                               *)
HeldProcesses ==
    \A e \in Runs : held[e] # None =>
        /\ entry[held[e]] = e
        /\ held[e] \notin doomed
        /\ step[held[e]] \notin Unlaunched \cup {"registering"}
        /\ registry[SessionOf[e]] = e \/ e \in toTake

DoomedProcesses ==
    \A p \in doomed :
        entry[p] # None /\ step[p] \notin Unlaunched \cup {"registering"}

(* The process variable of a run. *)
WorkedWith ==
    /\ \A r \in Runs : process[r] # None => step[process[r]] \notin Unlaunched
    /\ \A r \in Runs :
          step[r] \in {"idle", "queued", "leased", "launching"} => process[r] = None
    /\ \A r \in Runs : step[r] = "registering" => process[r] = r
    /\ \A r \in Runs :
          step[r] \in {"binding", "initializing", "connecting", "prompting"}
             => process[r] # None
    /\ \A p \in Runs : state[p] # "none" => entry[p] # None

(* While the runner is open, a run that means to prompt its process finds  *)
(* a live one in its entry.                                                *)
WorkIsHeld ==
    \A r \in Runs :
        /\ step[r] \in {"initializing", "binding", "connecting", "prompting"}
        /\ ~closed /\ r \notin cancelled
        /\ state[process[r]] = "live"
        => held[entry[r]] = process[r]

ProcessInv ==
    HeldProcesses /\ DoomedProcesses /\ WorkedWith /\ NoOrphanProcess /\ WorkIsHeld

(* The steps of a run whose client some router delegates to. *)
Bound == {"registering", "rejected", "initializing", "connecting", "prompting",
          "sweeping", "delisting", "unbinding"}

RoutersAndRuns ==
    /\ \A p \in Runs : bound[p] # None =>
          step[bound[p]] \in Bound /\ RouterOf(bound[p]) = p
    /\ \A q \in Asks : Serving(q) =>
          asker[q] # None /\ bound[RouterOf(asker[q])] = asker[q]

BindInv == RoutersAndRuns

ResidentInv == ResidentTypeOK /\ LeaseInv /\ ProcessInv /\ BindInv

USE ResidentAssumption

-----------------------------------------------------------------------------
(* Types.                                                                  *)

LEMMA InitTypes == Init => ResidentTypeOK
<1> SUFFICES ASSUME Init PROVE ResidentTypeOK
  OBVIOUS
<1>1. /\ step \in [Runs -> Steps]
      /\ cancelled \subseteq Runs /\ retained \subseteq Runs
      /\ entry \in [Runs -> Runs \cup {None}]
      /\ process \in [Runs -> Runs \cup {None}]
      /\ registry \in [Sessions -> Runs \cup {None}]
      /\ held \in [Runs -> Runs \cup {None}]
  BY DEF Init, Steps
<1>2. /\ leases \in [Runs -> Nat] /\ evictors \in [Runs -> Nat]
      /\ armed \subseteq Runs /\ toTake \subseteq Runs /\ taken \subseteq Runs
      /\ state \in [Runs -> {"none", "live", "exited", "closed"}]
      /\ doomed \subseteq Runs
  BY DEF Init
<1>3. /\ bound \in [Runs -> Runs \cup {None}]
      /\ active \in [Sessions -> Runs \cup {None}]
      /\ ask \in [Asks -> {"none", "entered", "waiting", "answered"}]
      /\ asker \in [Asks -> Runs \cup {None}]
      /\ pending \subseteq Asks /\ decided \subseteq Asks
      /\ closed \in BOOLEAN
      /\ closing \in [Closers -> {"idle", "taking", "waiting", "returned"}]
  BY DEF Init
<1> QED BY <1>1, <1>2, <1>3 DEF ResidentTypeOK

(* A lease is counted. *)
LEMMA LeaseIsCounted ==
  ASSUME ResidentTypeOK, LeaseInv, NEW r \in Runs, step[r] \in Leasing
  PROVE  /\ entry[r] \in Runs
         /\ leases[entry[r]] > 0
         /\ leases[entry[r]] = 1
               => \A q \in Runs : step[q] \in Leasing /\ entry[q] = entry[r] => q = r
<1> DEFINE e == entry[r]
           L == Leaseholders(e)
<1>1. e \in Runs
  BY DEF LeaseInv, EntriesOfSessions, ResidentTypeOK
<1>2. IsFiniteSet(L) /\ r \in L /\ leases[e] = Cardinality(L)
  <2>1. L \subseteq Runs /\ r \in L
    BY DEF Leaseholders
  <2> QED BY <1>1, <2>1, FS_Subset DEF LeaseInv, LeasesAreCounted
<1>3. Cardinality(L) \in Nat /\ Cardinality(L) # 0
  BY <1>2, FS_CardinalityType, FS_EmptySet
<1>4. ASSUME Cardinality(L) = 1, NEW q \in L PROVE q = r
  BY <1>2, <1>4, FS_Singleton
<1>5. \A q \in Runs : step[q] \in Leasing /\ entry[q] = e => q \in L
  BY DEF Leaseholders
<1> QED BY <1>1, <1>2, <1>3, <1>4, <1>5

LEMMA NextTypes ==
  ASSUME ResidentTypeOK, LeaseInv, ProcessInv, [Next]_vars
  PROVE  ResidentTypeOK'
<1> USE DEF ResidentTypeOK, leaseVars, processVars, askVars, closeVars, Go, Take,
            Invalidate, Owns, Steps, Holding
<1>1. ASSUME NEW r \in Runs, Acquire(r) PROVE ResidentTypeOK'
  BY <1>1 DEF Acquire, EntryFor
<1>2. ASSUME NEW r \in Runs, Lock(r) PROVE ResidentTypeOK'
  BY <1>2 DEF Lock
<1>3. ASSUME NEW r \in Runs, FindProcess(r) PROVE ResidentTypeOK'
  BY <1>3 DEF FindProcess, LeaseInv, EntriesOfSessions, Leasing
<1>4. ASSUME NEW r \in Runs, ProcessClosed(r) PROVE ResidentTypeOK'
  BY <1>4 DEF ProcessClosed
<1>5. ASSUME NEW r \in Runs, LaunchProcess(r) PROVE ResidentTypeOK'
  BY <1>5 DEF LaunchProcess
<1>6. ASSUME NEW r \in Runs, SetProcess(r) PROVE ResidentTypeOK'
  <2>1. entry[r] \in Runs /\ process[r] \in Runs
    BY <1>6 DEF SetProcess, LeaseInv, EntriesOfSessions, Leasing, ProcessInv, WorkedWith
  <2> QED BY <1>6, <2>1 DEF SetProcess
<1>7. ASSUME NEW r \in Runs, Initialize(r) PROVE ResidentTypeOK'
  BY <1>7 DEF Initialize
<1>8. ASSUME NEW r \in Runs, Bind(r) PROVE ResidentTypeOK'
  BY <1>8 DEF Bind
<1>9. ASSUME NEW r \in Runs, Connect(r) PROVE ResidentTypeOK'
  BY <1>9 DEF Connect
<1>10. ASSUME NEW r \in Runs, PromptEnds(r) PROVE ResidentTypeOK'
  BY <1>10 DEF PromptEnds
<1>11. ASSUME NEW r \in Runs, GraceEnds(r) PROVE ResidentTypeOK'
  <2>1. entry[r] \in Runs
    BY <1>11 DEF GraceEnds, LeaseInv, EntriesOfSessions, Leasing
  <2> QED BY <1>11, <2>1 DEF GraceEnds
<1>12. ASSUME NEW r \in Runs, Sweep(r) PROVE ResidentTypeOK'
  BY <1>12 DEF Sweep
<1>13. ASSUME NEW r \in Runs, Delist(r) PROVE ResidentTypeOK'
  BY <1>13 DEF Delist
<1>14. ASSUME NEW r \in Runs, Unbind(r) PROVE ResidentTypeOK'
  BY <1>14 DEF Unbind, RouterOf
<1>15. ASSUME NEW r \in Runs, Drop(r) PROVE ResidentTypeOK'
  BY <1>15 DEF Drop
<1>16. ASSUME NEW r \in Runs, Finish(r) PROVE ResidentTypeOK'
  <2>1. entry[r] \in Runs /\ leases[entry[r]] - 1 \in Nat
    BY <1>16, LeaseIsCounted DEF Finish, Leasing
  <2>2. leases' \in [Runs -> Nat]
    BY <1>16, <2>1 DEF Finish
  <2>3. registry' \in [Sessions -> Runs \cup {None}] /\ armed' \subseteq Runs
    BY <1>16, <2>1 DEF Finish
  <2>4. /\ step' \in [Runs -> Steps]
        /\ process' \in [Runs -> Runs \cup {None}]
        /\ cancelled' \subseteq Runs /\ retained' \subseteq Runs
    BY <1>16 DEF Finish
  <2> QED BY <1>16, <2>2, <2>3, <2>4 DEF Finish
<1>17. ASSUME NEW r \in Runs, IdleTimeout(r) PROVE ResidentTypeOK'
  BY <1>17 DEF IdleTimeout
<1>18. ASSUME NEW r \in Runs, Evict(r) PROVE ResidentTypeOK'
  BY <1>18 DEF Evict
<1>19. ASSUME NEW r \in Runs, Exit(r) PROVE ResidentTypeOK'
  BY <1>19 DEF Exit
<1>20. ASSUME NEW r \in Runs, Watch(r) PROVE ResidentTypeOK'
  BY <1>20 DEF Watch
<1>21. ASSUME NEW r \in Runs, Kill(r) PROVE ResidentTypeOK'
  BY <1>21 DEF Kill
<1>22. ASSUME NEW r \in Runs, Cancel(r) PROVE ResidentTypeOK'
  BY <1>22 DEF Cancel
<1>23. ASSUME NEW q \in Asks, AskStored(q) PROVE ResidentTypeOK'
  BY <1>23 DEF AskStored
<1>24. ASSUME NEW q \in Asks, ResolvePermission(q) PROVE ResidentTypeOK'
  BY <1>24 DEF ResolvePermission
<1>25. ASSUME NEW q \in Asks, AskReturns(q) PROVE ResidentTypeOK'
  BY <1>25 DEF AskReturns
<1>26. ASSUME NEW c \in Closers, Close(c) PROVE ResidentTypeOK'
  <2>1. /\ toTake' \subseteq Runs /\ armed' \subseteq Runs
        /\ registry' \in [Sessions -> Runs \cup {None}]
    BY <1>26 DEF Close
  <2>2. closed' \in BOOLEAN
        /\ closing' \in [Closers -> {"idle", "taking", "waiting", "returned"}]
    BY <1>26 DEF Close
  <2> QED BY <1>26, <2>1, <2>2 DEF Close
<1>27. ASSUME NEW c \in Closers, CloseReturns(c) PROVE ResidentTypeOK'
  BY <1>27 DEF CloseReturns
<1>28. ASSUME NEW q \in Asks, NEW p \in Runs, AskArrives(q, p) PROVE ResidentTypeOK'
  BY <1>28 DEF AskArrives
<1>29. ASSUME NEW c \in Closers, NEW e \in Runs, TakeOne(c, e) PROVE ResidentTypeOK'
  BY <1>29 DEF TakeOne
<1>30. CASE UNCHANGED vars
  BY <1>30 DEF vars
<1> QED
  BY <1>1, <1>2, <1>3, <1>4, <1>5, <1>6, <1>7, <1>8, <1>9, <1>10, <1>11, 
     <1>12, <1>13, <1>14, <1>15, <1>16, <1>17, <1>18, <1>19, <1>20, 
     <1>21, <1>22, <1>23, <1>24, <1>25, <1>26, <1>27, <1>28, <1>29, 
     <1>30
     DEF Next, RunStep, ProcessStep, AskStep, CloseStep

-----------------------------------------------------------------------------
(* Leases.                                                                 *)

LEMMA InitLeases == Init => LeaseInv
<1> SUFFICES ASSUME Init PROVE LeaseInv
  OBVIOUS
<1>1. EntriesOfSessions /\ LeasesAreRegistered /\ OneHolder
  BY DEF Init, EntriesOfSessions, LeasesAreRegistered, OneHolder, Leasing, Holding
<1>2. ASSUME NEW e \in Runs PROVE leases[e] = Cardinality(Leaseholders(e))
  <2>1. Leaseholders(e) = {}
    BY DEF Init, Leaseholders, Leasing, Holding
  <2> QED BY <2>1, FS_EmptySet DEF Init
<1> QED BY <1>1, <1>2 DEF LeaseInv, LeasesAreCounted

(* A step that neither gives nor takes a lease. *)
Unleased ==
    /\ UNCHANGED <<entry, registry, leases, closed, toTake>>
    /\ \A r \in Runs : step'[r] \in Leasing <=> step[r] \in Leasing
    /\ \A r \in Runs : step'[r] = "idle" => step[r] = "idle"

LEMMA LeasesKept ==
  ASSUME ResidentTypeOK, LeaseInv, Unleased
  PROVE  EntriesOfSessions' /\ LeasesAreRegistered' /\ LeasesAreCounted'
<1>1. EntriesOfSessions'
  BY DEF LeaseInv, EntriesOfSessions, Unleased
<1>2. LeasesAreRegistered'
  BY DEF LeaseInv, LeasesAreRegistered, Unleased
<1>3. ASSUME NEW e \in Runs PROVE leases'[e] = Cardinality(Leaseholders(e)')
  <2>1. Leaseholders(e)' = Leaseholders(e)
    BY DEF Leaseholders, Unleased
  <2> QED BY <2>1 DEF LeaseInv, LeasesAreCounted, Unleased
<1> QED BY <1>1, <1>2, <1>3 DEF LeasesAreCounted

(* Only Lock gives the run mutex to a run. *)
LEMMA MutexKept ==
  ASSUME ResidentTypeOK, LeaseInv, Unleased,
         \A r \in Runs : step'[r] \in Holding => step[r] \in Holding
  PROVE  LeaseInv'
<1>1. OneHolder'
  BY DEF LeaseInv, OneHolder, Unleased
<1> QED BY <1>1, LeasesKept DEF LeaseInv

LEMMA NextLeases ==
  ASSUME ResidentTypeOK, LeaseInv, ProcessInv, [Next]_vars
  PROVE  LeaseInv'
<1> USE DEF leaseVars, processVars, askVars, closeVars
<1>1. ASSUME NEW r \in Runs, Acquire(r) PROVE LeaseInv'
  <2>1. CASE closed
    BY <1>1, <2>1, MutexKept
       DEF Acquire, EntryFor, Go, Unleased, Leasing, Holding, ResidentTypeOK
  <2>2. CASE ~closed
    <3> DEFINE s == SessionOf[r]
               e == EntryFor(r)
    <3>1. /\ step[r] = "idle"
          /\ registry' = [registry EXCEPT ![s] = e]
          /\ entry' = [entry EXCEPT ![r] = e]
          /\ leases' = [leases EXCEPT ![e] = @ + 1]
          /\ step' = [step EXCEPT ![r] = "queued"]
          /\ UNCHANGED <<closed, toTake>>
      BY <1>1, <2>2 DEF Acquire, Go
    <3>2. e \in Runs /\ s \in Sessions /\ SessionOf[e] = s
      BY DEF EntryFor, ResidentTypeOK, LeaseInv, EntriesOfSessions
    <3>3. \A q \in Runs : step[q] \in Leasing /\ SessionOf[q] = s => entry[q] = e
      BY <2>2 DEF EntryFor, LeaseInv, LeasesAreRegistered, EntriesOfSessions
    <3>4. step[r] \notin Leasing
      BY <3>1 DEF Leasing, Holding
    <3> HIDE DEF e, s
    <3>5. EntriesOfSessions'
      BY <3>1, <3>2
         DEF LeaseInv, EntriesOfSessions, ResidentTypeOK, Leasing, Holding, s
    <3>6. LeasesAreRegistered'
      BY <2>2, <3>1, <3>2, <3>3
         DEF LeaseInv, LeasesAreRegistered, ResidentTypeOK, Leasing, Holding, s
    <3>7. OneHolder'
      BY <3>1 DEF LeaseInv, OneHolder, ResidentTypeOK, Holding
    <3>8. ASSUME NEW f \in Runs PROVE leases'[f] = Cardinality(Leaseholders(f)')
      <4>1. CASE f = e
        <5>1. Leaseholders(f)' = Leaseholders(f) \cup {r} /\ r \notin Leaseholders(f)
          BY <3>1, <3>4, <4>1 DEF Leaseholders, ResidentTypeOK, Leasing
        <5>2. IsFiniteSet(Leaseholders(f))
          BY FS_Subset DEF Leaseholders
        <5>3. Cardinality(Leaseholders(f)') = Cardinality(Leaseholders(f)) + 1
          BY <5>1, <5>2, FS_AddElement
        <5> QED BY <3>1, <4>1, <5>3 DEF LeaseInv, LeasesAreCounted, ResidentTypeOK
      <4>2. CASE f # e
        <5>1. Leaseholders(f)' = Leaseholders(f)
          BY <3>1, <3>4, <4>2 DEF Leaseholders, ResidentTypeOK
        <5> QED BY <3>1, <4>2, <5>1 DEF LeaseInv, LeasesAreCounted, ResidentTypeOK
      <4> QED BY <4>1, <4>2
    <3> QED BY <3>5, <3>6, <3>7, <3>8 DEF LeaseInv, LeasesAreCounted
  <2> QED BY <2>1, <2>2 DEF ResidentTypeOK
<1>2. ASSUME NEW r \in Runs, Lock(r) PROVE LeaseInv'
  <2>1. Unleased
    BY <1>2 DEF Lock, Go, Unleased, Leasing, Holding, ResidentTypeOK
  <2>2. OneHolder'
    BY <1>2 DEF Lock, Go, LeaseInv, OneHolder, Holding, ResidentTypeOK
  <2> QED BY <2>1, <2>2, LeasesKept DEF LeaseInv
<1>3. ASSUME NEW r \in Runs, FindProcess(r) PROVE LeaseInv'
  <2>1. PICK to \in Holding \cup {"finishing"} : step' = [step EXCEPT ![r] = to]
    BY <1>3 DEF FindProcess, Go, Holding
  <2>2. step[r] \in Holding /\ UNCHANGED <<entry, registry, leases, closed, toTake>>
    BY <1>3 DEF FindProcess, Holding
  <2> QED BY <2>1, <2>2, MutexKept DEF Unleased, Leasing, Holding, ResidentTypeOK
<1>4. ASSUME NEW r \in Runs, ProcessClosed(r) PROVE LeaseInv'
  <2>1. PICK to \in Holding \cup {"finishing"} : step' = [step EXCEPT ![r] = to]
    BY <1>4 DEF ProcessClosed, Go, Holding
  <2>2. step[r] \in Holding /\ UNCHANGED <<entry, registry, leases, closed, toTake>>
    BY <1>4 DEF ProcessClosed, Holding
  <2> QED BY <2>1, <2>2, MutexKept DEF Unleased, Leasing, Holding, ResidentTypeOK
<1>5. ASSUME NEW r \in Runs, LaunchProcess(r) PROVE LeaseInv'
  <2>1. PICK to \in Holding \cup {"finishing"} : step' = [step EXCEPT ![r] = to]
    BY <1>5 DEF LaunchProcess, Go, Holding
  <2>2. step[r] \in Holding /\ UNCHANGED <<entry, registry, leases, closed, toTake>>
    BY <1>5 DEF LaunchProcess, Holding
  <2> QED BY <2>1, <2>2, MutexKept DEF Unleased, Leasing, Holding, ResidentTypeOK
<1>6. ASSUME NEW r \in Runs, SetProcess(r) PROVE LeaseInv'
  <2>1. PICK to \in Holding \cup {"finishing"} : step' = [step EXCEPT ![r] = to]
    BY <1>6 DEF SetProcess, Go, Holding
  <2>2. step[r] \in Holding /\ UNCHANGED <<entry, registry, leases, closed, toTake>>
    BY <1>6 DEF SetProcess, Holding
  <2> QED BY <2>1, <2>2, MutexKept DEF Unleased, Leasing, Holding, ResidentTypeOK
<1>7. ASSUME NEW r \in Runs, Initialize(r) PROVE LeaseInv'
  <2>1. PICK to \in Holding \cup {"finishing"} : step' = [step EXCEPT ![r] = to]
    BY <1>7 DEF Initialize, Go, Holding, Invalidate
  <2>2. step[r] \in Holding /\ UNCHANGED <<entry, registry, leases, closed, toTake>>
    BY <1>7 DEF Initialize, Holding, Invalidate
  <2> QED BY <2>1, <2>2, MutexKept DEF Unleased, Leasing, Holding, ResidentTypeOK
<1>8. ASSUME NEW r \in Runs, Bind(r) PROVE LeaseInv'
  <2>1. PICK to \in Holding \cup {"finishing"} : step' = [step EXCEPT ![r] = to]
    BY <1>8 DEF Bind, Go, Holding
  <2>2. step[r] \in Holding /\ UNCHANGED <<entry, registry, leases, closed, toTake>>
    BY <1>8 DEF Bind, Holding
  <2> QED BY <2>1, <2>2, MutexKept DEF Unleased, Leasing, Holding, ResidentTypeOK
<1>9. ASSUME NEW r \in Runs, Connect(r) PROVE LeaseInv'
  <2>1. PICK to \in Holding \cup {"finishing"} : step' = [step EXCEPT ![r] = to]
    BY <1>9 DEF Connect, Go, Holding
  <2>2. step[r] \in Holding /\ UNCHANGED <<entry, registry, leases, closed, toTake>>
    BY <1>9 DEF Connect, Holding
  <2> QED BY <2>1, <2>2, MutexKept DEF Unleased, Leasing, Holding, ResidentTypeOK
<1>10. ASSUME NEW r \in Runs, PromptEnds(r) PROVE LeaseInv'
  <2>1. PICK to \in Holding \cup {"finishing"} : step' = [step EXCEPT ![r] = to]
    BY <1>10 DEF PromptEnds, Go, Holding
  <2>2. step[r] \in Holding /\ UNCHANGED <<entry, registry, leases, closed, toTake>>
    BY <1>10 DEF PromptEnds, Holding
  <2> QED BY <2>1, <2>2, MutexKept DEF Unleased, Leasing, Holding, ResidentTypeOK
<1>11. ASSUME NEW r \in Runs, GraceEnds(r) PROVE LeaseInv'
  BY <1>11, MutexKept DEF GraceEnds, Unleased
<1>12. ASSUME NEW r \in Runs, Sweep(r) PROVE LeaseInv'
  <2>1. PICK to \in Holding \cup {"finishing"} : step' = [step EXCEPT ![r] = to]
    BY <1>12 DEF Sweep, Go, Holding
  <2>2. step[r] \in Holding /\ UNCHANGED <<entry, registry, leases, closed, toTake>>
    BY <1>12 DEF Sweep, Holding
  <2> QED BY <2>1, <2>2, MutexKept DEF Unleased, Leasing, Holding, ResidentTypeOK
<1>13. ASSUME NEW r \in Runs, Delist(r) PROVE LeaseInv'
  <2>1. PICK to \in Holding \cup {"finishing"} : step' = [step EXCEPT ![r] = to]
    BY <1>13 DEF Delist, Go, Holding
  <2>2. step[r] \in Holding /\ UNCHANGED <<entry, registry, leases, closed, toTake>>
    BY <1>13 DEF Delist, Holding
  <2> QED BY <2>1, <2>2, MutexKept DEF Unleased, Leasing, Holding, ResidentTypeOK
<1>14. ASSUME NEW r \in Runs, Unbind(r) PROVE LeaseInv'
  <2>1. PICK to \in Holding \cup {"finishing"} : step' = [step EXCEPT ![r] = to]
    BY <1>14 DEF Unbind, Go, Holding
  <2>2. step[r] \in Holding /\ UNCHANGED <<entry, registry, leases, closed, toTake>>
    BY <1>14 DEF Unbind, Holding
  <2> QED BY <2>1, <2>2, MutexKept DEF Unleased, Leasing, Holding, ResidentTypeOK
<1>15. ASSUME NEW r \in Runs, Drop(r) PROVE LeaseInv'
  <2>1. PICK to \in Holding \cup {"finishing"} : step' = [step EXCEPT ![r] = to]
    BY <1>15 DEF Drop, Go, Holding, Invalidate
  <2>2. step[r] \in Holding /\ UNCHANGED <<entry, registry, leases, closed, toTake>>
    BY <1>15 DEF Drop, Holding, Invalidate
  <2> QED BY <2>1, <2>2, MutexKept DEF Unleased, Leasing, Holding, ResidentTypeOK
<1>16. ASSUME NEW r \in Runs, Finish(r) PROVE LeaseInv'
  <2> DEFINE e == entry[r]
             s == SessionOf[r]
  <2>1. /\ step[r] = "finishing"
        /\ step' = [step EXCEPT ![r] = "done"]
        /\ leases' = [leases EXCEPT ![e] = @ - 1]
        /\ UNCHANGED <<entry, closed, toTake>>
    BY <1>16 DEF Finish, Go
  <2>2. step[r] \in Leasing /\ e \in Runs /\ s \in Sessions
    BY <2>1, LeaseIsCounted DEF Leasing, ResidentTypeOK
  <2>3. \/ registry' = registry
        \/ /\ registry' = [registry EXCEPT ![s] = None]
           /\ ~closed /\ leases[e] = 1 /\ registry[s] = e
    BY <1>16 DEF Finish
  <2>4. \A q \in Runs : step'[q] \in Leasing => q # r /\ step[q] \in Leasing
    BY <2>1 DEF Leasing, Holding, ResidentTypeOK
  <2>5. EntriesOfSessions'
    BY <2>1, <2>2, <2>3, <2>4 DEF LeaseInv, EntriesOfSessions, ResidentTypeOK
  <2>6. LeasesAreRegistered'
    <3>1. ASSUME registry' # registry, NEW q \in Runs, step'[q] \in Leasing
          PROVE  SessionOf[q] # s
      <4>1. step[q] \in Leasing /\ q # r /\ ~closed /\ leases[e] = 1 /\ registry[s] = e
        BY <2>3, <2>4, <3>1
      <4>2. entry[q] # e
        BY <2>2, <4>1, LeaseIsCounted
      <4> QED BY <4>1, <4>2 DEF LeaseInv, LeasesAreRegistered
    <3> HIDE DEF e, s
    <3> QED BY <2>1, <2>2, <2>3, <2>4, <3>1
         DEF LeaseInv, LeasesAreRegistered, ResidentTypeOK
  <2>7. OneHolder'
    BY <2>1 DEF LeaseInv, OneHolder, ResidentTypeOK, Holding
  <2>8. ASSUME NEW f \in Runs PROVE leases'[f] = Cardinality(Leaseholders(f)')
    <3>1. CASE f = e
      <4>1. Leaseholders(f)' = Leaseholders(f) \ {r} /\ r \in Leaseholders(f)
        BY <2>1, <2>2, <3>1 DEF Leaseholders, ResidentTypeOK, Leasing, Holding
      <4>2. IsFiniteSet(Leaseholders(f))
        BY FS_Subset DEF Leaseholders
      <4>3. Cardinality(Leaseholders(f)') = Cardinality(Leaseholders(f)) - 1
        BY <4>1, <4>2, FS_RemoveElement
      <4> QED BY <2>1, <2>2, <3>1, <4>3 DEF LeaseInv, LeasesAreCounted, ResidentTypeOK
    <3>2. CASE f # e
      <4>1. Leaseholders(f)' = Leaseholders(f)
        BY <2>1, <2>2, <3>2 DEF Leaseholders, ResidentTypeOK, Leasing, Holding
      <4> QED BY <2>1, <3>2, <4>1 DEF LeaseInv, LeasesAreCounted, ResidentTypeOK
    <3> QED BY <3>1, <3>2
  <2> QED BY <2>5, <2>6, <2>7, <2>8 DEF LeaseInv, LeasesAreCounted
<1>17. ASSUME NEW r \in Runs, IdleTimeout(r) PROVE LeaseInv'
  BY <1>17, MutexKept DEF IdleTimeout, Unleased
<1>18. ASSUME NEW r \in Runs, Evict(r) PROVE LeaseInv'
  <2>1. CASE ~Evictable(r)
    BY <1>18, <2>1, MutexKept DEF Evict, Unleased
  <2>2. CASE Evictable(r)
    <3> DEFINE s == SessionOf[r]
    <3>1. /\ registry[s] = r /\ ~closed /\ leases[r] = 0
          /\ registry' = [registry EXCEPT ![s] = None]
          /\ UNCHANGED <<step, entry, leases, closed, toTake>>
      BY <1>18, <2>2 DEF Evict, Evictable
    <3>2. \A q \in Runs : step[q] \in Leasing => SessionOf[q] # s
      BY <3>1, LeaseIsCounted DEF LeaseInv, LeasesAreRegistered
    <3> HIDE DEF s
    <3>3. EntriesOfSessions'
      BY <3>1 DEF LeaseInv, EntriesOfSessions, ResidentTypeOK
    <3>4. LeasesAreRegistered'
      BY <3>1, <3>2 DEF LeaseInv, LeasesAreRegistered, ResidentTypeOK
    <3>5. OneHolder' /\ LeasesAreCounted'
      BY <3>1 DEF LeaseInv, OneHolder, LeasesAreCounted, Leaseholders
    <3> QED BY <3>3, <3>4, <3>5 DEF LeaseInv
  <2> QED BY <2>1, <2>2
<1>19. ASSUME NEW r \in Runs, Exit(r) PROVE LeaseInv'
  BY <1>19, MutexKept DEF Exit, Unleased
<1>20. ASSUME NEW r \in Runs, Watch(r) PROVE LeaseInv'
  BY <1>20, MutexKept DEF Watch, Unleased
<1>21. ASSUME NEW r \in Runs, Kill(r) PROVE LeaseInv'
  BY <1>21, MutexKept DEF Kill, Unleased
<1>22. ASSUME NEW r \in Runs, Cancel(r) PROVE LeaseInv'
  BY <1>22, MutexKept DEF Cancel, Unleased
<1>23. ASSUME NEW q \in Asks, AskStored(q) PROVE LeaseInv'
  BY <1>23, MutexKept DEF AskStored, Unleased
<1>24. ASSUME NEW q \in Asks, ResolvePermission(q) PROVE LeaseInv'
  BY <1>24, MutexKept DEF ResolvePermission, Unleased
<1>25. ASSUME NEW q \in Asks, AskReturns(q) PROVE LeaseInv'
  BY <1>25, MutexKept DEF AskReturns, Unleased
<1>26. ASSUME NEW c \in Closers, Close(c) PROVE LeaseInv'
  <2>1. CASE closed
    BY <1>26, <2>1, MutexKept DEF Close, Unleased
  <2>2. CASE ~closed
    <3>1. /\ closed' /\ registry' = [s \in Sessions |-> None]
          /\ UNCHANGED <<step, entry, leases>>
      BY <1>26, <2>2 DEF Close
    <3>2. EntriesOfSessions' /\ LeasesAreRegistered'
      BY <3>1 DEF LeaseInv, EntriesOfSessions, LeasesAreRegistered
    <3>3. OneHolder' /\ LeasesAreCounted'
      BY <3>1 DEF LeaseInv, OneHolder, LeasesAreCounted, Leaseholders
    <3> QED BY <3>2, <3>3 DEF LeaseInv
  <2> QED BY <2>1, <2>2 DEF ResidentTypeOK
<1>27. ASSUME NEW c \in Closers, CloseReturns(c) PROVE LeaseInv'
  BY <1>27, MutexKept DEF CloseReturns, Unleased
<1>28. ASSUME NEW q \in Asks, NEW p \in Runs, AskArrives(q, p) PROVE LeaseInv'
  BY <1>28, MutexKept DEF AskArrives, Unleased
<1>29. ASSUME NEW c \in Closers, NEW e \in Runs, TakeOne(c, e) PROVE LeaseInv'
  <2>1. UNCHANGED <<step, entry, leases, registry, closed>> /\ closed
    BY <1>29 DEF TakeOne, LeaseInv, LeasesAreRegistered, ResidentTypeOK
  <2>2. EntriesOfSessions' /\ LeasesAreRegistered'
    BY <2>1 DEF LeaseInv, EntriesOfSessions, LeasesAreRegistered
  <2>3. OneHolder' /\ LeasesAreCounted'
    BY <2>1 DEF LeaseInv, OneHolder, LeasesAreCounted, Leaseholders
  <2> QED BY <2>2, <2>3 DEF LeaseInv
<1>30. CASE UNCHANGED vars
  BY <1>30, MutexKept DEF vars, Unleased
<1> QED
  BY <1>1, <1>2, <1>3, <1>4, <1>5, <1>6, <1>7, <1>8, <1>9, <1>10, <1>11, 
     <1>12, <1>13, <1>14, <1>15, <1>16, <1>17, <1>18, <1>19, <1>20, 
     <1>21, <1>22, <1>23, <1>24, <1>25, <1>26, <1>27, <1>28, <1>29, 
     <1>30
     DEF Next, RunStep, ProcessStep, AskStep, CloseStep

-----------------------------------------------------------------------------
(* Processes.                                                              *)

LEMMA InitProcesses == Init => ProcessInv
  BY DEF Init, ProcessInv, HeldProcesses, DoomedProcesses, WorkedWith,
         NoOrphanProcess, WorkIsHeld

LEMMA NextHeldProcesses ==
  ASSUME ResidentTypeOK, LeaseInv, ProcessInv, [Next]_vars
  PROVE  HeldProcesses'
<1>0. /\ \A r \in Runs : step[r] \in Leasing => entry[r] \in Runs
      /\ \A r \in Runs : step[r] \in Leasing => leases[entry[r]] > 0
  BY LeaseIsCounted
<1> USE <1>0 DEF leaseVars, processVars, askVars, closeVars, Go, Take, Invalidate, Owns,
            ResidentTypeOK, LeaseInv, EntriesOfSessions, LeasesAreRegistered,
            ProcessInv, Leasing, Holding, Unlaunched, HeldProcesses
<1>1. ASSUME NEW r \in Runs, Acquire(r) PROVE HeldProcesses'
  BY <1>1 DEF Acquire, EntryFor
<1>2. ASSUME NEW r \in Runs, Lock(r) PROVE HeldProcesses'
  BY <1>2 DEF Lock
<1>3. ASSUME NEW r \in Runs, FindProcess(r) PROVE HeldProcesses'
  BY <1>3 DEF FindProcess
<1>4. ASSUME NEW r \in Runs, ProcessClosed(r) PROVE HeldProcesses'
  BY <1>4 DEF ProcessClosed
<1>5. ASSUME NEW r \in Runs, LaunchProcess(r) PROVE HeldProcesses'
  BY <1>5 DEF LaunchProcess
<1>6. ASSUME NEW r \in Runs, SetProcess(r) PROVE HeldProcesses'
  <2>1. process[r] = r /\ entry[r] \in Runs /\ r \notin doomed
        /\ \A e \in Runs : held[e] # r
    BY <1>6 DEF SetProcess, WorkedWith, DoomedProcesses
  <2>2. CASE Accepts(r)
    BY <1>6, <2>1, <2>2 DEF SetProcess, Accepts
  <2>3. CASE ~Accepts(r)
    BY <1>6, <2>1, <2>3 DEF SetProcess
  <2> QED BY <2>2, <2>3
<1>7. ASSUME NEW r \in Runs, Initialize(r) PROVE HeldProcesses'
  BY <1>7 DEF Initialize
<1>8. ASSUME NEW r \in Runs, Bind(r) PROVE HeldProcesses'
  BY <1>8 DEF Bind
<1>9. ASSUME NEW r \in Runs, Connect(r) PROVE HeldProcesses'
  BY <1>9 DEF Connect
<1>10. ASSUME NEW r \in Runs, PromptEnds(r) PROVE HeldProcesses'
  BY <1>10 DEF PromptEnds
<1>11. ASSUME NEW r \in Runs, GraceEnds(r) PROVE HeldProcesses'
  BY <1>11 DEF GraceEnds
<1>12. ASSUME NEW r \in Runs, Sweep(r) PROVE HeldProcesses'
  BY <1>12 DEF Sweep
<1>13. ASSUME NEW r \in Runs, Delist(r) PROVE HeldProcesses'
  BY <1>13 DEF Delist
<1>14. ASSUME NEW r \in Runs, Unbind(r) PROVE HeldProcesses'
  BY <1>14 DEF Unbind
<1>15. ASSUME NEW r \in Runs, Drop(r) PROVE HeldProcesses'
  BY <1>15 DEF Drop
<1>16. ASSUME NEW r \in Runs, Finish(r) PROVE HeldProcesses'
  BY <1>16 DEF Finish
<1>17. ASSUME NEW r \in Runs, IdleTimeout(r) PROVE HeldProcesses'
  BY <1>17 DEF IdleTimeout
<1>18. ASSUME NEW r \in Runs, Evict(r) PROVE HeldProcesses'
  BY <1>18 DEF Evict, Evictable
<1>19. ASSUME NEW r \in Runs, Exit(r) PROVE HeldProcesses'
  BY <1>19 DEF Exit
<1>20. ASSUME NEW r \in Runs, Watch(r) PROVE HeldProcesses'
  BY <1>20 DEF Watch
<1>21. ASSUME NEW r \in Runs, Kill(r) PROVE HeldProcesses'
  BY <1>21 DEF Kill
<1>22. ASSUME NEW r \in Runs, Cancel(r) PROVE HeldProcesses'
  BY <1>22 DEF Cancel
<1>23. ASSUME NEW q \in Asks, AskStored(q) PROVE HeldProcesses'
  BY <1>23 DEF AskStored
<1>24. ASSUME NEW q \in Asks, ResolvePermission(q) PROVE HeldProcesses'
  BY <1>24 DEF ResolvePermission
<1>25. ASSUME NEW q \in Asks, AskReturns(q) PROVE HeldProcesses'
  BY <1>25 DEF AskReturns
<1>26. ASSUME NEW c \in Closers, Close(c) PROVE HeldProcesses'
  BY <1>26 DEF Close
<1>27. ASSUME NEW c \in Closers, CloseReturns(c) PROVE HeldProcesses'
  BY <1>27 DEF CloseReturns
<1>28. ASSUME NEW q \in Asks, NEW p \in Runs, AskArrives(q, p) PROVE HeldProcesses'
  BY <1>28 DEF AskArrives
<1>29. ASSUME NEW c \in Closers, NEW e \in Runs, TakeOne(c, e) PROVE HeldProcesses'
  BY <1>29 DEF TakeOne
<1>30. CASE UNCHANGED vars
  BY <1>30 DEF vars
<1> QED
  BY <1>1, <1>2, <1>3, <1>4, <1>5, <1>6, <1>7, <1>8, <1>9, <1>10, <1>11, 
     <1>12, <1>13, <1>14, <1>15, <1>16, <1>17, <1>18, <1>19, <1>20, 
     <1>21, <1>22, <1>23, <1>24, <1>25, <1>26, <1>27, <1>28, <1>29, 
     <1>30
     DEF Next, RunStep, ProcessStep, AskStep, CloseStep

LEMMA NextDoomedProcesses ==
  ASSUME ResidentTypeOK, LeaseInv, ProcessInv, [Next]_vars
  PROVE  DoomedProcesses'
<1>0. /\ \A r \in Runs : step[r] \in Leasing => entry[r] \in Runs
      /\ \A r \in Runs : step[r] \in Leasing => leases[entry[r]] > 0
  BY LeaseIsCounted
<1> USE <1>0 DEF leaseVars, processVars, askVars, closeVars, Go, Take, Invalidate, Owns,
            ResidentTypeOK, LeaseInv, EntriesOfSessions, LeasesAreRegistered,
            ProcessInv, Leasing, Holding, Unlaunched, DoomedProcesses, HeldProcesses
<1>1. ASSUME NEW r \in Runs, Acquire(r) PROVE DoomedProcesses'
  BY <1>1 DEF Acquire, EntryFor
<1>2. ASSUME NEW r \in Runs, Lock(r) PROVE DoomedProcesses'
  BY <1>2 DEF Lock
<1>3. ASSUME NEW r \in Runs, FindProcess(r) PROVE DoomedProcesses'
  BY <1>3 DEF FindProcess
<1>4. ASSUME NEW r \in Runs, ProcessClosed(r) PROVE DoomedProcesses'
  BY <1>4 DEF ProcessClosed
<1>5. ASSUME NEW r \in Runs, LaunchProcess(r) PROVE DoomedProcesses'
  BY <1>5 DEF LaunchProcess
<1>6. ASSUME NEW r \in Runs, SetProcess(r) PROVE DoomedProcesses'
  <2>1. process[r] = r
    BY <1>6 DEF SetProcess, WorkedWith
  <2> QED BY <1>6, <2>1 DEF SetProcess
<1>7. ASSUME NEW r \in Runs, Initialize(r) PROVE DoomedProcesses'
  BY <1>7 DEF Initialize
<1>8. ASSUME NEW r \in Runs, Bind(r) PROVE DoomedProcesses'
  BY <1>8 DEF Bind
<1>9. ASSUME NEW r \in Runs, Connect(r) PROVE DoomedProcesses'
  BY <1>9 DEF Connect
<1>10. ASSUME NEW r \in Runs, PromptEnds(r) PROVE DoomedProcesses'
  BY <1>10 DEF PromptEnds
<1>11. ASSUME NEW r \in Runs, GraceEnds(r) PROVE DoomedProcesses'
  BY <1>11 DEF GraceEnds
<1>12. ASSUME NEW r \in Runs, Sweep(r) PROVE DoomedProcesses'
  BY <1>12 DEF Sweep
<1>13. ASSUME NEW r \in Runs, Delist(r) PROVE DoomedProcesses'
  BY <1>13 DEF Delist
<1>14. ASSUME NEW r \in Runs, Unbind(r) PROVE DoomedProcesses'
  BY <1>14 DEF Unbind
<1>15. ASSUME NEW r \in Runs, Drop(r) PROVE DoomedProcesses'
  BY <1>15 DEF Drop
<1>16. ASSUME NEW r \in Runs, Finish(r) PROVE DoomedProcesses'
  BY <1>16 DEF Finish
<1>17. ASSUME NEW r \in Runs, IdleTimeout(r) PROVE DoomedProcesses'
  BY <1>17 DEF IdleTimeout
<1>18. ASSUME NEW r \in Runs, Evict(r) PROVE DoomedProcesses'
  BY <1>18 DEF Evict, Evictable
<1>19. ASSUME NEW r \in Runs, Exit(r) PROVE DoomedProcesses'
  BY <1>19 DEF Exit
<1>20. ASSUME NEW r \in Runs, Watch(r) PROVE DoomedProcesses'
  BY <1>20 DEF Watch
<1>21. ASSUME NEW r \in Runs, Kill(r) PROVE DoomedProcesses'
  BY <1>21 DEF Kill
<1>22. ASSUME NEW r \in Runs, Cancel(r) PROVE DoomedProcesses'
  BY <1>22 DEF Cancel
<1>23. ASSUME NEW q \in Asks, AskStored(q) PROVE DoomedProcesses'
  BY <1>23 DEF AskStored
<1>24. ASSUME NEW q \in Asks, ResolvePermission(q) PROVE DoomedProcesses'
  BY <1>24 DEF ResolvePermission
<1>25. ASSUME NEW q \in Asks, AskReturns(q) PROVE DoomedProcesses'
  BY <1>25 DEF AskReturns
<1>26. ASSUME NEW c \in Closers, Close(c) PROVE DoomedProcesses'
  BY <1>26 DEF Close
<1>27. ASSUME NEW c \in Closers, CloseReturns(c) PROVE DoomedProcesses'
  BY <1>27 DEF CloseReturns
<1>28. ASSUME NEW q \in Asks, NEW p \in Runs, AskArrives(q, p) PROVE DoomedProcesses'
  BY <1>28 DEF AskArrives
<1>29. ASSUME NEW c \in Closers, NEW e \in Runs, TakeOne(c, e) PROVE DoomedProcesses'
  BY <1>29 DEF TakeOne
<1>30. CASE UNCHANGED vars
  BY <1>30 DEF vars
<1> QED
  BY <1>1, <1>2, <1>3, <1>4, <1>5, <1>6, <1>7, <1>8, <1>9, <1>10, <1>11, 
     <1>12, <1>13, <1>14, <1>15, <1>16, <1>17, <1>18, <1>19, <1>20, 
     <1>21, <1>22, <1>23, <1>24, <1>25, <1>26, <1>27, <1>28, <1>29, 
     <1>30
     DEF Next, RunStep, ProcessStep, AskStep, CloseStep

LEMMA NextWorkedWith ==
  ASSUME ResidentTypeOK, LeaseInv, ProcessInv, [Next]_vars
  PROVE  WorkedWith'
<1>0. /\ \A r \in Runs : step[r] \in Leasing => entry[r] \in Runs
      /\ \A r \in Runs : step[r] \in Leasing => leases[entry[r]] > 0
  BY LeaseIsCounted
<1> USE <1>0 DEF leaseVars, processVars, askVars, closeVars, Go, Take, Invalidate, Owns,
            ResidentTypeOK, LeaseInv, EntriesOfSessions, LeasesAreRegistered,
            ProcessInv, Leasing, Holding, Unlaunched, WorkedWith, HeldProcesses, DoomedProcesses
<1>1. ASSUME NEW r \in Runs, Acquire(r) PROVE WorkedWith'
  BY <1>1 DEF Acquire, EntryFor
<1>2. ASSUME NEW r \in Runs, Lock(r) PROVE WorkedWith'
  BY <1>2 DEF Lock
<1>3. ASSUME NEW r \in Runs, FindProcess(r) PROVE WorkedWith'
  <2>1. /\ step[r] = "leased" /\ process[r] = None
        /\ \A q \in Runs : process[q] # r
    BY <1>3 DEF FindProcess
  <2>2. PICK to \in {"binding", "replacing", "launching"} :
              step' = [step EXCEPT ![r] = to]
    BY <1>3 DEF FindProcess
  <2>3. CASE process' = process /\ step' = [step EXCEPT ![r] = "launching"]
    BY <1>3, <2>1, <2>3 DEF FindProcess
  <2>4. CASE /\ held[entry[r]] # None /\ to # "launching"
             /\ process' = [process EXCEPT ![r] = held[entry[r]]]
    <3>1. held[entry[r]] \in Runs /\ held[entry[r]] # r
          /\ step[held[entry[r]]] \notin Unlaunched
      BY <2>1, <2>4
    <3> DEFINE p == held[entry[r]]
    <3>2. UNCHANGED <<entry, state>>
      BY <1>3 DEF FindProcess
    <3> HIDE DEF p
    <3> QED BY <2>1, <2>2, <2>4, <3>1, <3>2 DEF p
  <2> QED BY <1>3, <2>2, <2>3, <2>4 DEF FindProcess
<1>4. ASSUME NEW r \in Runs, ProcessClosed(r) PROVE WorkedWith'
  <2>1. CASE step[r] = "replacing"
    <3>1. /\ step' = [step EXCEPT ![r] = "launching"]
          /\ process' = [process EXCEPT ![r] = None]
          /\ UNCHANGED <<entry, state>>
      BY <1>4, <2>1 DEF ProcessClosed
    <3> QED BY <2>1, <3>1
  <2>2. CASE step[r] \in {"rejected", "killing"}
    <3>1. PICK to \in {"sweeping", "finishing"} : step' = [step EXCEPT ![r] = to]
      BY <1>4, <2>2 DEF ProcessClosed
    <3>2. UNCHANGED <<process, entry, state>>
      BY <1>4, <2>2 DEF ProcessClosed
    <3> QED BY <2>2, <3>1, <3>2
  <2> QED BY <1>4, <2>1, <2>2 DEF ProcessClosed
<1>5. ASSUME NEW r \in Runs, LaunchProcess(r) PROVE WorkedWith'
  <2>1. /\ step[r] = "launching" /\ process[r] = None /\ entry[r] # None
        /\ \A q \in Runs : process[q] # r
    BY <1>5 DEF LaunchProcess
  <2>2. CASE step' = [step EXCEPT ![r] = "registering"]
    BY <1>5, <2>1, <2>2 DEF LaunchProcess
  <2>3. CASE step' = [step EXCEPT ![r] = "sweeping"]
    BY <1>5, <2>1, <2>3 DEF LaunchProcess
  <2> QED BY <1>5, <2>2, <2>3 DEF LaunchProcess
<1>6. ASSUME NEW r \in Runs, SetProcess(r) PROVE WorkedWith'
  BY <1>6 DEF SetProcess, Accepts
<1>7. ASSUME NEW r \in Runs, Initialize(r) PROVE WorkedWith'
  BY <1>7 DEF Initialize
<1>8. ASSUME NEW r \in Runs, Bind(r) PROVE WorkedWith'
  BY <1>8 DEF Bind
<1>9. ASSUME NEW r \in Runs, Connect(r) PROVE WorkedWith'
  BY <1>9 DEF Connect
<1>10. ASSUME NEW r \in Runs, PromptEnds(r) PROVE WorkedWith'
  BY <1>10 DEF PromptEnds
<1>11. ASSUME NEW r \in Runs, GraceEnds(r) PROVE WorkedWith'
  BY <1>11 DEF GraceEnds
<1>12. ASSUME NEW r \in Runs, Sweep(r) PROVE WorkedWith'
  BY <1>12 DEF Sweep
<1>13. ASSUME NEW r \in Runs, Delist(r) PROVE WorkedWith'
  BY <1>13 DEF Delist
<1>14. ASSUME NEW r \in Runs, Unbind(r) PROVE WorkedWith'
  BY <1>14 DEF Unbind
<1>15. ASSUME NEW r \in Runs, Drop(r) PROVE WorkedWith'
  BY <1>15 DEF Drop
<1>16. ASSUME NEW r \in Runs, Finish(r) PROVE WorkedWith'
  BY <1>16 DEF Finish
<1>17. ASSUME NEW r \in Runs, IdleTimeout(r) PROVE WorkedWith'
  BY <1>17 DEF IdleTimeout
<1>18. ASSUME NEW r \in Runs, Evict(r) PROVE WorkedWith'
  BY <1>18 DEF Evict, Evictable
<1>19. ASSUME NEW r \in Runs, Exit(r) PROVE WorkedWith'
  BY <1>19 DEF Exit
<1>20. ASSUME NEW r \in Runs, Watch(r) PROVE WorkedWith'
  BY <1>20 DEF Watch
<1>21. ASSUME NEW r \in Runs, Kill(r) PROVE WorkedWith'
  BY <1>21 DEF Kill
<1>22. ASSUME NEW r \in Runs, Cancel(r) PROVE WorkedWith'
  BY <1>22 DEF Cancel
<1>23. ASSUME NEW q \in Asks, AskStored(q) PROVE WorkedWith'
  BY <1>23 DEF AskStored
<1>24. ASSUME NEW q \in Asks, ResolvePermission(q) PROVE WorkedWith'
  BY <1>24 DEF ResolvePermission
<1>25. ASSUME NEW q \in Asks, AskReturns(q) PROVE WorkedWith'
  BY <1>25 DEF AskReturns
<1>26. ASSUME NEW c \in Closers, Close(c) PROVE WorkedWith'
  BY <1>26 DEF Close
<1>27. ASSUME NEW c \in Closers, CloseReturns(c) PROVE WorkedWith'
  BY <1>27 DEF CloseReturns
<1>28. ASSUME NEW q \in Asks, NEW p \in Runs, AskArrives(q, p) PROVE WorkedWith'
  BY <1>28 DEF AskArrives
<1>29. ASSUME NEW c \in Closers, NEW e \in Runs, TakeOne(c, e) PROVE WorkedWith'
  BY <1>29 DEF TakeOne
<1>30. CASE UNCHANGED vars
  BY <1>30 DEF vars
<1> QED
  BY <1>1, <1>2, <1>3, <1>4, <1>5, <1>6, <1>7, <1>8, <1>9, <1>10, <1>11, 
     <1>12, <1>13, <1>14, <1>15, <1>16, <1>17, <1>18, <1>19, <1>20, 
     <1>21, <1>22, <1>23, <1>24, <1>25, <1>26, <1>27, <1>28, <1>29, 
     <1>30
     DEF Next, RunStep, ProcessStep, AskStep, CloseStep

LEMMA NextNoOrphanProcess ==
  ASSUME ResidentTypeOK, LeaseInv, ProcessInv, [Next]_vars
  PROVE  NoOrphanProcess'
<1>0. /\ \A r \in Runs : step[r] \in Leasing => entry[r] \in Runs
      /\ \A r \in Runs : step[r] \in Leasing => leases[entry[r]] > 0
  BY LeaseIsCounted
<1> USE <1>0 DEF leaseVars, processVars, askVars, closeVars, Go, Take, Invalidate, Owns,
            ResidentTypeOK, LeaseInv, EntriesOfSessions, LeasesAreRegistered,
            ProcessInv, Leasing, Holding, Unlaunched, NoOrphanProcess, HeldProcesses, WorkedWith
<1>1. ASSUME NEW r \in Runs, Acquire(r) PROVE NoOrphanProcess'
  BY <1>1 DEF Acquire, EntryFor
<1>2. ASSUME NEW r \in Runs, Lock(r) PROVE NoOrphanProcess'
  BY <1>2 DEF Lock
<1>3. ASSUME NEW r \in Runs, FindProcess(r) PROVE NoOrphanProcess'
  BY <1>3 DEF FindProcess
<1>4. ASSUME NEW r \in Runs, ProcessClosed(r) PROVE NoOrphanProcess'
  BY <1>4 DEF ProcessClosed
<1>5. ASSUME NEW r \in Runs, LaunchProcess(r) PROVE NoOrphanProcess'
  BY <1>5 DEF LaunchProcess
<1>6. ASSUME NEW r \in Runs, SetProcess(r) PROVE NoOrphanProcess'
  BY <1>6 DEF SetProcess, Accepts
<1>7. ASSUME NEW r \in Runs, Initialize(r) PROVE NoOrphanProcess'
  BY <1>7 DEF Initialize
<1>8. ASSUME NEW r \in Runs, Bind(r) PROVE NoOrphanProcess'
  BY <1>8 DEF Bind
<1>9. ASSUME NEW r \in Runs, Connect(r) PROVE NoOrphanProcess'
  BY <1>9 DEF Connect
<1>10. ASSUME NEW r \in Runs, PromptEnds(r) PROVE NoOrphanProcess'
  BY <1>10 DEF PromptEnds
<1>11. ASSUME NEW r \in Runs, GraceEnds(r) PROVE NoOrphanProcess'
  BY <1>11 DEF GraceEnds
<1>12. ASSUME NEW r \in Runs, Sweep(r) PROVE NoOrphanProcess'
  BY <1>12 DEF Sweep
<1>13. ASSUME NEW r \in Runs, Delist(r) PROVE NoOrphanProcess'
  BY <1>13 DEF Delist
<1>14. ASSUME NEW r \in Runs, Unbind(r) PROVE NoOrphanProcess'
  BY <1>14 DEF Unbind
<1>15. ASSUME NEW r \in Runs, Drop(r) PROVE NoOrphanProcess'
  BY <1>15 DEF Drop
<1>16. ASSUME NEW r \in Runs, Finish(r) PROVE NoOrphanProcess'
  BY <1>16 DEF Finish
<1>17. ASSUME NEW r \in Runs, IdleTimeout(r) PROVE NoOrphanProcess'
  BY <1>17 DEF IdleTimeout
<1>18. ASSUME NEW r \in Runs, Evict(r) PROVE NoOrphanProcess'
  BY <1>18 DEF Evict, Evictable
<1>19. ASSUME NEW r \in Runs, Exit(r) PROVE NoOrphanProcess'
  BY <1>19 DEF Exit
<1>20. ASSUME NEW r \in Runs, Watch(r) PROVE NoOrphanProcess'
  BY <1>20 DEF Watch
<1>21. ASSUME NEW r \in Runs, Kill(r) PROVE NoOrphanProcess'
  BY <1>21 DEF Kill
<1>22. ASSUME NEW r \in Runs, Cancel(r) PROVE NoOrphanProcess'
  BY <1>22 DEF Cancel
<1>23. ASSUME NEW q \in Asks, AskStored(q) PROVE NoOrphanProcess'
  BY <1>23 DEF AskStored
<1>24. ASSUME NEW q \in Asks, ResolvePermission(q) PROVE NoOrphanProcess'
  BY <1>24 DEF ResolvePermission
<1>25. ASSUME NEW q \in Asks, AskReturns(q) PROVE NoOrphanProcess'
  BY <1>25 DEF AskReturns
<1>26. ASSUME NEW c \in Closers, Close(c) PROVE NoOrphanProcess'
  BY <1>26 DEF Close
<1>27. ASSUME NEW c \in Closers, CloseReturns(c) PROVE NoOrphanProcess'
  BY <1>27 DEF CloseReturns
<1>28. ASSUME NEW q \in Asks, NEW p \in Runs, AskArrives(q, p) PROVE NoOrphanProcess'
  BY <1>28 DEF AskArrives
<1>29. ASSUME NEW c \in Closers, NEW e \in Runs, TakeOne(c, e) PROVE NoOrphanProcess'
  BY <1>29 DEF TakeOne
<1>30. CASE UNCHANGED vars
  BY <1>30 DEF vars
<1> QED
  BY <1>1, <1>2, <1>3, <1>4, <1>5, <1>6, <1>7, <1>8, <1>9, <1>10, <1>11, 
     <1>12, <1>13, <1>14, <1>15, <1>16, <1>17, <1>18, <1>19, <1>20, 
     <1>21, <1>22, <1>23, <1>24, <1>25, <1>26, <1>27, <1>28, <1>29, 
     <1>30
     DEF Next, RunStep, ProcessStep, AskStep, CloseStep

LEMMA NextWorkIsHeld ==
  ASSUME ResidentTypeOK, LeaseInv, ProcessInv, [Next]_vars
  PROVE  WorkIsHeld'
<1>0. /\ \A r \in Runs : step[r] \in Leasing => entry[r] \in Runs
      /\ \A r \in Runs : step[r] \in Leasing => leases[entry[r]] > 0
  BY LeaseIsCounted
<1> USE <1>0 DEF leaseVars, processVars, askVars, closeVars, Go, Take, Invalidate, Owns,
            ResidentTypeOK, LeaseInv, EntriesOfSessions, LeasesAreRegistered,
            ProcessInv, Leasing, Holding, Unlaunched, WorkIsHeld, HeldProcesses, WorkedWith
<1>1. ASSUME NEW r \in Runs, Acquire(r) PROVE WorkIsHeld'
  BY <1>1 DEF Acquire, EntryFor
<1>2. ASSUME NEW r \in Runs, Lock(r) PROVE WorkIsHeld'
  BY <1>2 DEF Lock
<1>3. ASSUME NEW r \in Runs, FindProcess(r) PROVE WorkIsHeld'
  <2>1. \A q \in Runs : step[q] \in Holding /\ q # r => entry[q] # entry[r]
    BY <1>3 DEF FindProcess, OneHolder
  <2>2. /\ step[r] = "leased"
        /\ step'[r] \in {"launching", "replacing"} \/ process'[r] = held[entry[r]]
        /\ \A q \in Runs : q # r => step'[q] = step[q] /\ process'[q] = process[q]
        /\ \A e \in Runs : e # entry[r] => held'[e] = held[e]
        /\ step'[r] # "replacing" => held' = held
        /\ UNCHANGED <<state, entry, cancelled, closed>>
    BY <1>3 DEF FindProcess
  <2>3. ASSUME NEW w \in Runs,
               step'[w] \in {"initializing", "binding", "connecting", "prompting"},
               ~closed', w \notin cancelled', state'[process'[w]] = "live"
        PROVE  held'[entry'[w]] = process'[w]
    <3>1. CASE w = r
      BY <2>2, <2>3, <3>1
    <3>2. CASE w # r
      <4>1. held[entry[w]] = process[w] /\ entry[w] # entry[r] /\ entry[w] \in Runs
        BY <2>1, <2>2, <2>3, <3>2
      <4> QED BY <2>2, <3>2, <4>1
    <3> QED BY <3>1, <3>2
  <2> QED BY ONLY <2>3, Zenon DEF WorkIsHeld
<1>4. ASSUME NEW r \in Runs, ProcessClosed(r) PROVE WorkIsHeld'
  BY <1>4 DEF ProcessClosed
<1>5. ASSUME NEW r \in Runs, LaunchProcess(r) PROVE WorkIsHeld'
  <2>1. \A q \in Runs : process[q] # r
    BY <1>5 DEF LaunchProcess
  <2>2. /\ step[r] = "launching" /\ step'[r] \in {"registering", "sweeping"}
        /\ \A q \in Runs :
              q # r => /\ step'[q] = step[q] /\ process'[q] = process[q]
                       /\ state'[q] = state[q]
        /\ UNCHANGED <<held, entry, closed, cancelled>>
    BY <1>5 DEF LaunchProcess
  <2>3. ASSUME NEW w \in Runs,
               step'[w] \in {"initializing", "binding", "connecting", "prompting"},
               ~closed', w \notin cancelled', state'[process'[w]] = "live"
        PROVE  held'[entry'[w]] = process'[w]
    <3>1. w # r /\ process[w] # r /\ process[w] # None
      BY <2>1, <2>2, <2>3
    <3>2. state[process[w]] = "live"
      BY <2>2, <2>3, <3>1
    <3> QED BY <2>2, <2>3, <3>1, <3>2
  <2> QED BY ONLY <2>3, Zenon DEF WorkIsHeld
<1>6. ASSUME NEW r \in Runs, SetProcess(r) PROVE WorkIsHeld'
  <2>1. \A q \in Runs : step[q] \in Holding /\ q # r => entry[q] # entry[r]
    BY <1>6 DEF SetProcess, OneHolder
  <2> QED BY <1>6, <2>1 DEF SetProcess
<1>7. ASSUME NEW r \in Runs, Initialize(r) PROVE WorkIsHeld'
  <2>1. \A q \in Runs : step[q] \in Holding /\ q # r => entry[q] # entry[r]
    BY <1>7 DEF Initialize, OneHolder
  <2> QED BY <1>7, <2>1 DEF Initialize
<1>8. ASSUME NEW r \in Runs, Bind(r) PROVE WorkIsHeld'
  BY <1>8 DEF Bind
<1>9. ASSUME NEW r \in Runs, Connect(r) PROVE WorkIsHeld'
  BY <1>9 DEF Connect
<1>10. ASSUME NEW r \in Runs, PromptEnds(r) PROVE WorkIsHeld'
  BY <1>10 DEF PromptEnds
<1>11. ASSUME NEW r \in Runs, GraceEnds(r) PROVE WorkIsHeld'
  <2>1. \A q \in Runs : step[q] \in Holding /\ q # r => entry[q] # entry[r]
    BY <1>11 DEF GraceEnds, OneHolder
  <2> QED BY <1>11, <2>1 DEF GraceEnds
<1>12. ASSUME NEW r \in Runs, Sweep(r) PROVE WorkIsHeld'
  BY <1>12 DEF Sweep
<1>13. ASSUME NEW r \in Runs, Delist(r) PROVE WorkIsHeld'
  BY <1>13 DEF Delist
<1>14. ASSUME NEW r \in Runs, Unbind(r) PROVE WorkIsHeld'
  BY <1>14 DEF Unbind
<1>15. ASSUME NEW r \in Runs, Drop(r) PROVE WorkIsHeld'
  <2>1. \A q \in Runs : step[q] \in Holding /\ q # r => entry[q] # entry[r]
    BY <1>15 DEF Drop, OneHolder
  <2> QED BY <1>15, <2>1 DEF Drop
<1>16. ASSUME NEW r \in Runs, Finish(r) PROVE WorkIsHeld'
  BY <1>16 DEF Finish
<1>17. ASSUME NEW r \in Runs, IdleTimeout(r) PROVE WorkIsHeld'
  BY <1>17 DEF IdleTimeout
<1>18. ASSUME NEW r \in Runs, Evict(r) PROVE WorkIsHeld'
  BY <1>18 DEF Evict, Evictable
<1>19. ASSUME NEW r \in Runs, Exit(r) PROVE WorkIsHeld'
  BY <1>19 DEF Exit
<1>20. ASSUME NEW r \in Runs, Watch(r) PROVE WorkIsHeld'
  BY <1>20 DEF Watch
<1>21. ASSUME NEW r \in Runs, Kill(r) PROVE WorkIsHeld'
  BY <1>21 DEF Kill
<1>22. ASSUME NEW r \in Runs, Cancel(r) PROVE WorkIsHeld'
  BY <1>22 DEF Cancel
<1>23. ASSUME NEW q \in Asks, AskStored(q) PROVE WorkIsHeld'
  BY <1>23 DEF AskStored
<1>24. ASSUME NEW q \in Asks, ResolvePermission(q) PROVE WorkIsHeld'
  BY <1>24 DEF ResolvePermission
<1>25. ASSUME NEW q \in Asks, AskReturns(q) PROVE WorkIsHeld'
  BY <1>25 DEF AskReturns
<1>26. ASSUME NEW c \in Closers, Close(c) PROVE WorkIsHeld'
  BY <1>26 DEF Close
<1>27. ASSUME NEW c \in Closers, CloseReturns(c) PROVE WorkIsHeld'
  BY <1>27 DEF CloseReturns
<1>28. ASSUME NEW q \in Asks, NEW p \in Runs, AskArrives(q, p) PROVE WorkIsHeld'
  BY <1>28 DEF AskArrives
<1>29. ASSUME NEW c \in Closers, NEW e \in Runs, TakeOne(c, e) PROVE WorkIsHeld'
  BY <1>29 DEF TakeOne
<1>30. CASE UNCHANGED vars
  BY <1>30 DEF vars
<1> QED
  BY <1>1, <1>2, <1>3, <1>4, <1>5, <1>6, <1>7, <1>8, <1>9, <1>10, <1>11, 
     <1>12, <1>13, <1>14, <1>15, <1>16, <1>17, <1>18, <1>19, <1>20, 
     <1>21, <1>22, <1>23, <1>24, <1>25, <1>26, <1>27, <1>28, <1>29, 
     <1>30
     DEF Next, RunStep, ProcessStep, AskStep, CloseStep

-----------------------------------------------------------------------------
(* Routers and callbacks.                                                  *)

LEMMA InitBindings == Init => BindInv
  BY DEF Init, BindInv, RoutersAndRuns, Serving

LEMMA NextBindings ==
  ASSUME ResidentTypeOK, LeaseInv, ProcessInv, BindInv, [Next]_vars
  PROVE  BindInv'
<1>0. \A r \in Runs : step[r] \in Leasing => entry[r] \in Runs
  BY LeaseIsCounted
<1> USE <1>0 DEF leaseVars, processVars, askVars, closeVars, Go, Take, Invalidate,
            ResidentTypeOK, ProcessInv, WorkedWith, Unlaunched, Leasing, Holding,
            BindInv, RoutersAndRuns, Bound, RouterOf, Serving
<1>1. ASSUME NEW r \in Runs, Acquire(r) PROVE BindInv'
  BY <1>1 DEF Acquire
<1>2. ASSUME NEW r \in Runs, Lock(r) PROVE BindInv'
  BY <1>2 DEF Lock
<1>3. ASSUME NEW r \in Runs, FindProcess(r) PROVE BindInv'
  BY <1>3 DEF FindProcess, HeldProcesses
<1>4. ASSUME NEW r \in Runs, ProcessClosed(r) PROVE BindInv'
  <2>1. \A p \in Runs : bound[p] = r => step[r] = "rejected"
    BY <1>4 DEF ProcessClosed
  <2>2. /\ \A q \in Runs : q # r => step'[q] = step[q] /\ process'[q] = process[q]
        /\ step[r] = "rejected" => step'[r] = "sweeping" /\ process'[r] = process[r]
        /\ UNCHANGED <<bound, asker, ask>>
    BY <1>4 DEF ProcessClosed
  <2>3. ASSUME NEW p \in Runs, bound[p] # None
        PROVE  step'[bound[p]] \in Bound /\ RouterOf(bound[p])' = p
    BY <2>1, <2>2, <2>3
  <2>4. ASSUME NEW q \in Asks, Serving(q)
        PROVE  asker[q] # None /\ bound[RouterOf(asker[q])'] = asker[q]
    <3>1. asker[q] \in Runs /\ bound[RouterOf(asker[q])] = asker[q]
      BY <2>4
    <3>2. RouterOf(asker[q])' = RouterOf(asker[q])
      BY <2>1, <2>2, <3>1
    <3> QED BY <3>1, <3>2
  <2> QED BY <2>2, <2>3, <2>4
<1>5. ASSUME NEW r \in Runs, LaunchProcess(r) PROVE BindInv'
  BY <1>5 DEF LaunchProcess
<1>6. ASSUME NEW r \in Runs, SetProcess(r) PROVE BindInv'
  BY <1>6 DEF SetProcess
<1>7. ASSUME NEW r \in Runs, Initialize(r) PROVE BindInv'
  BY <1>7 DEF Initialize
<1>8. ASSUME NEW r \in Runs, Bind(r) PROVE BindInv'
  BY <1>8 DEF Bind
<1>9. ASSUME NEW r \in Runs, Connect(r) PROVE BindInv'
  BY <1>9 DEF Connect
<1>10. ASSUME NEW r \in Runs, PromptEnds(r) PROVE BindInv'
  BY <1>10 DEF PromptEnds
<1>11. ASSUME NEW r \in Runs, GraceEnds(r) PROVE BindInv'
  BY <1>11 DEF GraceEnds
<1>12. ASSUME NEW r \in Runs, Sweep(r) PROVE BindInv'
  BY <1>12 DEF Sweep
<1>13. ASSUME NEW r \in Runs, Delist(r) PROVE BindInv'
  BY <1>13 DEF Delist
<1>14. ASSUME NEW r \in Runs, Unbind(r) PROVE BindInv'
  BY <1>14 DEF Unbind, Drained
<1>15. ASSUME NEW r \in Runs, Drop(r) PROVE BindInv'
  BY <1>15 DEF Drop
<1>16. ASSUME NEW r \in Runs, Finish(r) PROVE BindInv'
  BY <1>16 DEF Finish
<1>17. ASSUME NEW r \in Runs, IdleTimeout(r) PROVE BindInv'
  BY <1>17 DEF IdleTimeout
<1>18. ASSUME NEW r \in Runs, Evict(r) PROVE BindInv'
  BY <1>18 DEF Evict
<1>19. ASSUME NEW r \in Runs, Exit(r) PROVE BindInv'
  BY <1>19 DEF Exit
<1>20. ASSUME NEW r \in Runs, Watch(r) PROVE BindInv'
  BY <1>20 DEF Watch
<1>21. ASSUME NEW r \in Runs, Kill(r) PROVE BindInv'
  BY <1>21 DEF Kill
<1>22. ASSUME NEW r \in Runs, Cancel(r) PROVE BindInv'
  BY <1>22 DEF Cancel
<1>23. ASSUME NEW q \in Asks, AskStored(q) PROVE BindInv'
  BY <1>23 DEF AskStored
<1>24. ASSUME NEW q \in Asks, ResolvePermission(q) PROVE BindInv'
  BY <1>24 DEF ResolvePermission
<1>25. ASSUME NEW q \in Asks, AskReturns(q) PROVE BindInv'
  BY <1>25 DEF AskReturns
<1>26. ASSUME NEW c \in Closers, Close(c) PROVE BindInv'
  BY <1>26 DEF Close
<1>27. ASSUME NEW c \in Closers, CloseReturns(c) PROVE BindInv'
  BY <1>27 DEF CloseReturns
<1>28. ASSUME NEW q \in Asks, NEW p \in Runs, AskArrives(q, p) PROVE BindInv'
  BY <1>28 DEF AskArrives
<1>29. ASSUME NEW c \in Closers, NEW e \in Runs, TakeOne(c, e) PROVE BindInv'
  BY <1>29 DEF TakeOne
<1>30. CASE UNCHANGED vars
  BY <1>30 DEF vars
<1> QED
  BY <1>1, <1>2, <1>3, <1>4, <1>5, <1>6, <1>7, <1>8, <1>9, <1>10, <1>11, 
     <1>12, <1>13, <1>14, <1>15, <1>16, <1>17, <1>18, <1>19, <1>20, 
     <1>21, <1>22, <1>23, <1>24, <1>25, <1>26, <1>27, <1>28, <1>29, 
     <1>30
     DEF Next, RunStep, ProcessStep, AskStep, CloseStep

-----------------------------------------------------------------------------
(* The working process.                                                    *)

LeavesWorkAlone ==
    \A r \in Runs :
        /\ step[r] = "prompting" /\ step'[r] = "prompting"
        /\ r \notin cancelled /\ ~closed
        /\ state[process[r]] = "live"
        => /\ state'[process[r]] # "closed"
           /\ ~closed' => held'[entry[r]] = process[r] \/ state'[process[r]] # "live"

(* Only a process that was taken is closed, and a prompting run keeps its  *)
(* entry and process.                                                      *)
LEMMA WorkKept ==
  ASSUME ResidentTypeOK, LeaseInv, [Next]_vars, NEW w \in Runs,
         step[w] = "prompting", step'[w] = "prompting"
  PROVE  /\ entry'[w] = entry[w] /\ process'[w] = process[w]
         /\ \A p \in Runs : state'[p] = "closed" => state[p] = "closed" \/ p \in doomed
         /\ w \in cancelled' => w \in cancelled \/ held' = held
<1> DEFINE Kept ==
             /\ entry'[w] = entry[w] /\ process'[w] = process[w]
             /\ \A p \in Runs :
                   state'[p] = "closed" => state[p] = "closed" \/ p \in doomed
             /\ w \in cancelled' => w \in cancelled \/ held' = held
<1> USE DEF leaseVars, processVars, askVars, closeVars, Go, Invalidate, ResidentTypeOK
<1>1. ASSUME NEW r \in Runs, Acquire(r) PROVE Kept
  BY <1>1 DEF Acquire
<1>2. ASSUME NEW r \in Runs, Lock(r) PROVE Kept
  BY <1>2 DEF Lock
<1>3. ASSUME NEW r \in Runs, FindProcess(r) PROVE Kept
  BY <1>3 DEF FindProcess
<1>4. ASSUME NEW r \in Runs, ProcessClosed(r) PROVE Kept
  BY <1>4 DEF ProcessClosed
<1>5. ASSUME NEW r \in Runs, LaunchProcess(r) PROVE Kept
  BY <1>5 DEF LaunchProcess
<1>6. ASSUME NEW r \in Runs, SetProcess(r) PROVE Kept
  BY <1>6 DEF SetProcess
<1>7. ASSUME NEW r \in Runs, Initialize(r) PROVE Kept
  BY <1>7 DEF Initialize
<1>8. ASSUME NEW r \in Runs, Bind(r) PROVE Kept
  BY <1>8 DEF Bind
<1>9. ASSUME NEW r \in Runs, Connect(r) PROVE Kept
  BY <1>9 DEF Connect
<1>10. ASSUME NEW r \in Runs, PromptEnds(r) PROVE Kept
  BY <1>10 DEF PromptEnds
<1>11. ASSUME NEW r \in Runs, GraceEnds(r) PROVE Kept
  BY <1>11 DEF GraceEnds
<1>12. ASSUME NEW r \in Runs, Sweep(r) PROVE Kept
  BY <1>12 DEF Sweep
<1>13. ASSUME NEW r \in Runs, Delist(r) PROVE Kept
  BY <1>13 DEF Delist
<1>14. ASSUME NEW r \in Runs, Unbind(r) PROVE Kept
  BY <1>14 DEF Unbind
<1>15. ASSUME NEW r \in Runs, Drop(r) PROVE Kept
  BY <1>15 DEF Drop
<1>16. ASSUME NEW r \in Runs, Finish(r) PROVE Kept
  BY <1>16 DEF Finish
<1>17. ASSUME NEW r \in Runs, IdleTimeout(r) PROVE Kept
  BY <1>17 DEF IdleTimeout
<1>18. ASSUME NEW r \in Runs, Evict(r) PROVE Kept
  BY <1>18 DEF Evict
<1>19. ASSUME NEW r \in Runs, Exit(r) PROVE Kept
  BY <1>19 DEF Exit
<1>20. ASSUME NEW r \in Runs, Watch(r) PROVE Kept
  BY <1>20 DEF Watch
<1>21. ASSUME NEW r \in Runs, Kill(r) PROVE Kept
  BY <1>21 DEF Kill
<1>22. ASSUME NEW r \in Runs, Cancel(r) PROVE Kept
  BY <1>22 DEF Cancel
<1>23. ASSUME NEW q \in Asks, AskStored(q) PROVE Kept
  BY <1>23 DEF AskStored
<1>24. ASSUME NEW q \in Asks, ResolvePermission(q) PROVE Kept
  BY <1>24 DEF ResolvePermission
<1>25. ASSUME NEW q \in Asks, AskReturns(q) PROVE Kept
  BY <1>25 DEF AskReturns
<1>26. ASSUME NEW c \in Closers, Close(c) PROVE Kept
  BY <1>26 DEF Close
<1>27. ASSUME NEW c \in Closers, CloseReturns(c) PROVE Kept
  BY <1>27 DEF CloseReturns
<1>28. ASSUME NEW q \in Asks, NEW p \in Runs, AskArrives(q, p) PROVE Kept
  BY <1>28 DEF AskArrives
<1>29. ASSUME NEW c \in Closers, NEW e \in Runs, TakeOne(c, e) PROVE Kept
  BY <1>29 DEF TakeOne
<1>30. CASE UNCHANGED vars
  BY <1>30 DEF vars
<1> QED
  BY <1>1, <1>2, <1>3, <1>4, <1>5, <1>6, <1>7, <1>8, <1>9, <1>10, <1>11, 
     <1>12, <1>13, <1>14, <1>15, <1>16, <1>17, <1>18, <1>19, <1>20, 
     <1>21, <1>22, <1>23, <1>24, <1>25, <1>26, <1>27, <1>28, <1>29, 
     <1>30
     DEF Next, RunStep, ProcessStep, AskStep, CloseStep

LEMMA WorkIsLeftAlone ==
  ASSUME ResidentInv, ResidentInv', [Next]_vars
  PROVE  LeavesWorkAlone
<1> SUFFICES ASSUME NEW w \in Runs,
                    step[w] = "prompting", step'[w] = "prompting",
                    w \notin cancelled, ~closed, state[process[w]] = "live"
             PROVE  /\ state'[process[w]] # "closed"
                    /\ ~closed' => \/ held'[entry[w]] = process[w]
                                   \/ state'[process[w]] # "live"
  BY DEF LeavesWorkAlone
<1>1. held[entry[w]] = process[w] /\ process[w] \in Runs /\ entry[w] \in Runs
  BY LeaseIsCounted DEF ResidentInv, ProcessInv, WorkIsHeld, WorkedWith, Leasing, Holding,
                        ResidentTypeOK
<1>2. process[w] \notin doomed
  BY <1>1 DEF ResidentInv, ProcessInv, HeldProcesses, ResidentTypeOK
<1>3. state'[process[w]] # "closed"
  BY <1>1, <1>2, WorkKept DEF ResidentInv
<1>4. ASSUME ~closed', state'[process[w]] = "live" PROVE held'[entry[w]] = process[w]
  <2>1. CASE w \in cancelled'
    BY <1>1, <2>1, WorkKept DEF ResidentInv
  <2>2. CASE w \notin cancelled'
    BY <1>4, <2>2, WorkKept DEF ResidentInv, ProcessInv, WorkIsHeld
  <2> QED BY <2>1, <2>2
<1> QED BY <1>3, <1>4

-----------------------------------------------------------------------------
(* The theorems.                                                           *)

LEMMA ResidentInvariance == Spec => []ResidentInv
<1>1. Init => ResidentInv
  BY InitTypes, InitLeases, InitProcesses, InitBindings DEF ResidentInv
<1>2. ResidentInv /\ [Next]_vars => ResidentInv'
  BY NextTypes, NextLeases, NextHeldProcesses, NextDoomedProcesses, NextWorkedWith,
     NextNoOrphanProcess, NextWorkIsHeld, NextBindings DEF ResidentInv, ProcessInv
<1> QED BY <1>1, <1>2, PTL DEF Spec

(* Every variable of the runner has its type: a lease count never goes     *)
(* below zero, and nobody takes or closes a process that is not one.       *)
THEOREM ResidentTypes == Spec => []ResidentTypeOK
<1>1. ResidentInv => ResidentTypeOK
  BY DEF ResidentInv
<1> QED BY <1>1, ResidentInvariance, PTL

(* Two runs of a session never hold the run mutex of their entry together, *)
(* for any number of runs, sessions and evictions: entries come and go,    *)
(* but no entry that is leased.                                            *)
THEOREM SessionsRunOneAtATime == Spec => []OneRunPerSession
<1>1. ResidentInv => OneRunPerSession
  BY DEF ResidentInv, LeaseInv, OneHolder, LeasesAreRegistered, OneRunPerSession, Leasing
<1> QED BY <1>1, ResidentInvariance, PTL

(* Every agent process that was started and not closed is being            *)
(* registered, can be found by the registry or by Close, or is being       *)
(* closed, whatever takes processes out of their entries meanwhile.        *)
THEOREM ProcessesAreReachable == Spec => []NoOrphanProcess
<1>1. ResidentInv => NoOrphanProcess
  BY DEF ResidentInv, ProcessInv
<1> QED BY <1>1, ResidentInvariance, PTL

(* A permission request is served for a run that is still bound to the     *)
(* process that asks: unbind waits for the callbacks of the run.           *)
THEOREM CallbacksAreDrained == Spec => []CallbacksHaveTheirRun
<1>1. ResidentInv => CallbacksHaveTheirRun
  <2> SUFFICES ASSUME ResidentInv, NEW q \in Asks, Serving(q)
               PROVE  /\ step[asker[q]] \in Bound
                      /\ bound[RouterOf(asker[q])] = asker[q]
    BY DEF CallbacksHaveTheirRun, Bound, Holding
  <2>1. asker[q] \in Runs /\ bound[RouterOf(asker[q])] = asker[q]
    BY DEF ResidentInv, ResidentTypeOK, BindInv, RoutersAndRuns
  <2>2. RouterOf(asker[q]) \in Runs
    BY <2>1 DEF RouterOf, ResidentInv, ResidentTypeOK
  <2> QED BY <2>1, <2>2 DEF ResidentInv, BindInv, RoutersAndRuns
<1> QED BY <1>1, ResidentInvariance, PTL

(* While the runner is open nothing but the process itself ends a process  *)
(* that an uncancelled run is prompting, however late a timer fires.       *)
THEOREM WorkGoesOn == Spec => WorkingProcessIsLeftAlone
<1>1. ResidentInv /\ ResidentInv' /\ [Next]_vars => [LeavesWorkAlone]_vars
  BY WorkIsLeftAlone
<1>2. Spec => [][LeavesWorkAlone]_vars
  BY <1>1, ResidentInvariance, PTL DEF Spec
<1> QED BY <1>2 DEF LeavesWorkAlone, WorkingProcessIsLeftAlone

=============================================================================
