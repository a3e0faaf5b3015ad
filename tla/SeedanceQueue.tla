---------------------------- MODULE SeedanceQueue ----------------------------
(***************************************************************************)
(* The local queue of Jimeng Seedance video tasks.  The provider runs one  *)
(* such job at a time, so the server keeps a "queued" row for each further *)
(* request and submits it when no other row is active                      *)
(* (service/generation/generation_jimeng_queue.go):                        *)
(*                                                                         *)
(*   - the HTTP handlers create, retry, poll and delete tasks;             *)
(*   - a goroutine spawned by create or retry submits the task;            *)
(*   - one worker lists pending rows every 20 s, polls them concurrently   *)
(*     and waits for all polls (app/generation_worker.go).                 *)
(*                                                                         *)
(* A handler, goroutine or poll works on the copy of the row it read and   *)
(* writes the whole row back; each write and each read is one action.      *)
(* updated_at is abstracted to the order of the pending rows by it, and to *)
(* whether a "submitting" row is old enough to be submitted again.  Saves  *)
(* to the local database do not fail.                                      *)
(***************************************************************************)
EXTENDS Naturals, FiniteSets, Sequences

CONSTANTS
  Tasks,            \* task ids, one per request
  PollLimit,        \* Config.GenerationWorkerLimit
  Retryable,        \* bound: the tasks the user may retry, once each
  Deletable,        \* bound: the tasks the user may delete
  Refreshable,      \* bound: the tasks the user may poll by hand
  MaxJobs,          \* bound: provider jobs of one task
  MaxRestarts,      \* bound: restarts of the server
  SlowSubmissions,  \* may a submission outlast submittingGenerationRetryDelay?
  Nobody            \* the holder of a free mutex

ASSUME QueueAssumption ==
  /\ PollLimit \in Nat \ {0}
  /\ MaxJobs \in Nat
  /\ MaxRestarts \in Nat
  /\ SlowSubmissions \in BOOLEAN
  /\ Retryable \subseteq Tasks /\ Deletable \subseteq Tasks
  /\ Refreshable \subseteq Tasks

VARIABLES
  row,       \* the generation_tasks rows
  older,     \* the pairs <<u, t>> of pending rows with u.updated_at < t.updated_at
  stale,     \* the "submitting" rows updated 2 minutes ago or earlier
  proc,      \* the handlers, goroutines and polls working on each task
  queueMu,   \* jimengSeedanceQueueMu: who holds it
  jobs,      \* the provider's jobs of each task, in order of submission
  retries,   \* number of retries of each task
  restarts   \* number of restarts

rowVars == <<row, older, stale>>
seedanceVars == <<rowVars, proc, queueMu, jobs, retries, restarts>>

-----------------------------------------------------------------------------
(* Rows.                                                                   *)

Active    == {"submitting", "submitted"}
Pending   == Active \cup {"queued"}
Settled   == {"completed", "failed"}
RowStatus == Pending \cup Settled \cup {"unborn", "deleted"}

Exists(t) == row[t].status \notin {"unborn", "deleted"}

PendingRows == {t \in Tasks : row[t].status \in Pending}

NewestOf(t, others) ==
  {pair \in older : t \notin {pair[1], pair[2]}} \cup (others \X {t})

\* The row of t gets a new updated_at; only that of pending rows matters.
Touched(t, status) ==
  /\ older' = NewestOf(t, IF status \in Pending THEN PendingRows \ {t} ELSE {})
  /\ stale' = stale \ {t}

\* Upsert: the whole row, created if it is not there.
Upsert(t, status, job) ==
  /\ row' = [row EXCEPT ![t] = [status |-> status, job |-> job]]
  /\ Touched(t, status)

\* Mutant: the background paths write like the handlers do.
UpsertExisting_Recreates(t, status, job) == Upsert(t, status, job)

\* UpsertExisting: nothing is written for a task that was deleted.
UpsertExisting(t, status, job) ==
  IF Exists(t) THEN Upsert(t, status, job) ELSE UNCHANGED rowVars

\* RecordError: the error columns and updated_at of the row, if there is one.
RecordError(t) ==
  IF Exists(t) THEN Touched(t, row[t].status) /\ UNCHANGED row
               ELSE UNCHANGED rowVars

-----------------------------------------------------------------------------
(* Processes.  "worker": the worker's poll of the task; "create", "retry": *)
(* the handler and the goroutine it spawns; "user": a poll by hand.        *)

Roles   == {"worker", "create", "retry", "user"}
Procs   == Tasks \X Roles
Idle    == [pc |-> "idle", job |-> 0, told |-> "none"]
Told    == {"none", "queued", "error"} \cup Active \cup Settled
Submits == {"starting", "generating", "saving"}
Pcs     == {"idle", "reading", "deciding", "queueing", "claiming",
            "asking", "told"} \cup Submits

ASSUME NobodyAssumption == Nobody \notin Procs

At(p, pc) == proc[p].pc = pc
Goes(p, pc, job, told) ==
  proc' = [proc EXCEPT ![p] = [pc |-> pc, job |-> job, told |-> told]]
Ends(p) == proc' = [proc EXCEPT ![p] = Idle]

Init ==
  /\ row = [t \in Tasks |-> [status |-> "unborn", job |-> 0]]
  /\ older = {}
  /\ stale = {}
  /\ proc = [p \in Procs |-> Idle]
  /\ queueMu = Nobody
  /\ jobs = [t \in Tasks |-> <<>>]
  /\ retries = [t \in Tasks |-> 0]
  /\ restarts = 0

-----------------------------------------------------------------------------
(* Create and retry: the decision is taken and stored under the mutex.     *)

\* jimengSeedanceSubmissionQueueBlocked, t being excluded.
QueueBlocked(t) == \E u \in Tasks \ {t} : row[u].status \in Pending

\* Mutant: the mutex is not taken, so two requests may both find no other row.
Decides_WithoutMutex(p) ==
  /\ UNCHANGED queueMu
  /\ Goes(p, "deciding", 0,
          IF QueueBlocked(p[1]) THEN "queued" ELSE "submitting")
  /\ UNCHANGED <<rowVars, jobs, restarts>>

\* The blocking rows are read under the mutex.
Decides(p) ==
  /\ queueMu = Nobody
  /\ queueMu' = p
  /\ Goes(p, "deciding", 0,
          IF QueueBlocked(p[1]) THEN "queued" ELSE "submitting")
  /\ UNCHANGED <<rowVars, jobs, restarts>>

CreateDecides(t) ==
  /\ row[t].status = "unborn"
  /\ At(<<t, "create">>, "idle")
  /\ Decides(<<t, "create">>)
  /\ UNCHANGED retries

\* RetryGenerationTask loads the task whatever its status.
RetryReads(t) ==
  /\ t \in Retryable /\ retries[t] = 0
  /\ Exists(t)
  /\ Goes(<<t, "retry">>, "reading", 0, "none")
  /\ retries' = [retries EXCEPT ![t] = @ + 1]
  /\ UNCHANGED <<rowVars, queueMu, jobs, restarts>>

RetryDecides(t) ==
  /\ At(<<t, "retry">>, "reading")
  /\ Decides(<<t, "retry">>)
  /\ UNCHANGED retries

\* The row is stored without a provider id, the mutex is released, and the
\* goroutine is spawned unless the task is queued.
DecisionStored(p) ==
  /\ At(p, "deciding")
  /\ Upsert(p[1], proc[p].told, 0)
  /\ queueMu' = Nobody
  /\ IF proc[p].told = "queued" THEN Ends(p) ELSE Goes(p, "starting", 0, "none")
  /\ UNCHANGED <<jobs, retries, restarts>>

-----------------------------------------------------------------------------
(* submitPendingGeneration, in a spawned goroutine or in a worker's poll.  *)

SubmissionStarts(p) ==
  /\ At(p, "starting")
  /\ UpsertExisting(p[1], "submitting", proc[p].job)
  /\ IF Exists(p[1]) THEN Goes(p, "generating", proc[p].job, "none") ELSE Ends(p)
  /\ UNCHANGED <<queueMu, jobs, retries, restarts>>

\* The provider accepts the request: a job that is running, or over at once.
SubmissionAccepted(p) ==
  LET t == p[1] IN
  /\ At(p, "generating")
  /\ Len(jobs[t]) < MaxJobs
  /\ \E state \in {"running"} \cup Settled :
       /\ jobs' = [jobs EXCEPT ![t] = Append(@, state)]
       /\ Goes(p, "saving", Len(jobs[t]) + 1,
               IF state = "running" THEN "submitted" ELSE state)
  /\ UNCHANGED <<rowVars, queueMu, retries, restarts>>

\* The request is refused or times out.
SubmissionRefused(p) ==
  /\ At(p, "generating")
  /\ Goes(p, "saving", proc[p].job, "failed")
  /\ UNCHANGED <<rowVars, queueMu, jobs, retries, restarts>>

SubmissionSaved(p) ==
  /\ At(p, "saving")
  /\ UpsertExisting(p[1], proc[p].told, proc[p].job)
  /\ Ends(p)
  /\ UNCHANGED <<queueMu, jobs, retries, restarts>>

-----------------------------------------------------------------------------
(* The worker.                                                             *)

\* The first n of some rows in the order of updated_at.
Oldest(rows, n) ==
  {t \in rows : Cardinality({u \in rows : <<u, t>> \in older}) < n}

\* Mutant: a row that is being submitted right now is listed too.
ListPending_Fresh == Oldest(PendingRows, PollLimit)

\* ListPending: of the PollLimit * 2 pending rows updated first, the first
\* PollLimit that are not being submitted right now.
ListPending ==
  Oldest({t \in Oldest(PendingRows, 2 * PollLimit) :
            row[t].status = "submitting" => t \in stale}, PollLimit)

\* Mutant: a "submitting" row is polled like a submitted one, by its id.
PollBegins_NeverResubmits(t) ==
  CASE row[t].status = "queued" -> [Idle EXCEPT !.pc = "queueing"]
    [] row[t].job = 0           -> Idle
    [] OTHER                    -> [Idle EXCEPT !.pc = "asking", !.job = row[t].job]

\* The step at which the poll of a listed row begins; without a provider id
\* only an attempt is recorded.
PollBegins(t) ==
  CASE row[t].status = "queued"     -> [Idle EXCEPT !.pc = "queueing"]
    [] row[t].status = "submitting" -> [Idle EXCEPT !.pc = "starting", !.job = row[t].job]
    [] row[t].status = "submitted" /\ row[t].job # 0 ->
         [Idle EXCEPT !.pc = "asking", !.job = row[t].job]
    [] OTHER -> Idle

\* One round.  For the tasks of unready the route, the provider or the request
\* cannot be set up this time: an attempt is recorded and the poll is over.
WorkerLists(unready) ==
  /\ \A t \in Tasks : At(<<t, "worker">>, "idle")
  /\ unready \subseteq ListPending
  /\ proc' = [p \in Procs |->
                IF p[2] = "worker" /\ p[1] \in ListPending \ unready
                THEN PollBegins(p[1]) ELSE proc[p]]
  /\ UNCHANGED <<rowVars, queueMu, jobs, retries, restarts>>

\* jimengSeedanceQueuedTaskCanSubmit: no other task is active, and t is the
\* queued row that was updated first.
CanSubmit(t) ==
  /\ \A u \in Tasks \ {t} : row[u].status \notin Active
  /\ t \in Oldest({u \in Tasks : row[u].status = "queued"}, 1)

\* Mutant: the mutex is taken after the check, to store the row.
QueueChecked_WithoutMutex(t) ==
  LET p == <<t, "worker">> IN
  /\ At(p, "queueing")
  /\ IF CanSubmit(t) THEN Goes(p, "claiming", 0, "none") ELSE Ends(p)
  /\ UNCHANGED <<rowVars, queueMu, jobs, retries, restarts>>

\* submitQueuedJimengSeedanceGeneration takes the mutex and checks the queue.
QueueChecked(t) ==
  LET p == <<t, "worker">> IN
  /\ At(p, "queueing")
  /\ queueMu = Nobody
  /\ IF CanSubmit(t) THEN Goes(p, "claiming", 0, "none") /\ queueMu' = p
                     ELSE Ends(p) /\ UNCHANGED queueMu
  /\ UNCHANGED <<rowVars, jobs, retries, restarts>>

\* It stores the row as "submitting", releases the mutex and submits the task.
QueuedTaskClaimed(t) ==
  LET p == <<t, "worker">> IN
  /\ At(p, "claiming")
  /\ UpsertExisting(t, "submitting", 0)
  /\ queueMu' = Nobody
  /\ IF Exists(t) THEN Goes(p, "starting", 0, "none") ELSE Ends(p)
  /\ UNCHANGED <<jobs, retries, restarts>>

-----------------------------------------------------------------------------
(* Polling the provider.                                                   *)

\* What the provider says of job n of task t.
Report(t, n) == IF jobs[t][n] = "running" THEN "submitted" ELSE jobs[t][n]

\* provider.Get answers.
ProviderAnswers(p) ==
  /\ At(p, "asking")
  /\ Goes(p, "told", proc[p].job, Report(p[1], proc[p].job))
  /\ UNCHANGED <<rowVars, queueMu, jobs, retries, restarts>>

\* provider.Get fails or times out.
ProviderErrs(p) ==
  /\ At(p, "asking")
  /\ Goes(p, "told", proc[p].job, "error")
  /\ UNCHANGED <<rowVars, queueMu, jobs, retries, restarts>>

\* PollGenerationTask writes the copy it was given, with the answer.
WorkerSaves(t) ==
  LET p == <<t, "worker">> IN
  /\ At(p, "told")
  /\ IF proc[p].told = "error" THEN RecordError(t)
     ELSE UpsertExisting(t, proc[p].told, proc[p].job)
  /\ Ends(p)
  /\ UNCHANGED <<queueMu, jobs, retries, restarts>>

\* GetGenerationVideo: the user polls a task by hand.
UserReads(t) ==
  LET p == <<t, "user">> IN
  /\ t \in Refreshable
  /\ At(p, "idle")
  /\ Exists(t) /\ row[t].job # 0
  /\ Goes(p, "asking", row[t].job, "none")
  /\ UNCHANGED <<rowVars, queueMu, jobs, retries, restarts>>

\* It creates the row if it is gone; it records an error under the provider's
\* id, where there is no row.
UserSaves(t) ==
  LET p == <<t, "user">> IN
  /\ At(p, "told")
  /\ IF proc[p].told = "error" THEN UNCHANGED rowVars
     ELSE Upsert(t, proc[p].told, proc[p].job)
  /\ Ends(p)
  /\ UNCHANGED <<queueMu, jobs, retries, restarts>>

-----------------------------------------------------------------------------
(* The user, time, the provider and the process.                           *)

\* Deleting the row stops neither the goroutine nor the provider's job.
Delete(t) ==
  /\ t \in Deletable
  /\ Exists(t)
  /\ row' = [row EXCEPT ![t] = [status |-> "deleted", job |-> 0]]
  /\ Touched(t, "deleted")
  /\ UNCHANGED <<proc, queueMu, jobs, retries, restarts>>

\* Two minutes pass since a "submitting" row was written.
SubmissionAges(t) ==
  /\ row[t].status = "submitting" /\ t \notin stale
  /\ ~SlowSubmissions => \A r \in Roles : proc[<<t, r>>].pc \notin Submits
  /\ stale' = stale \cup {t}
  /\ UNCHANGED <<row, older, proc, queueMu, jobs, retries, restarts>>

JobEnds(t) ==
  /\ \E n \in 1..Len(jobs[t]), verdict \in Settled :
       /\ jobs[t][n] = "running"
       /\ jobs' = [jobs EXCEPT ![t][n] = verdict]
  /\ UNCHANGED <<rowVars, proc, queueMu, retries, restarts>>

Restart ==
  /\ restarts < MaxRestarts
  /\ restarts' = restarts + 1
  /\ proc' = [p \in Procs |-> Idle]
  /\ queueMu' = Nobody
  /\ UNCHANGED <<rowVars, jobs, retries>>

-----------------------------------------------------------------------------

ProcStep(p) ==
  \/ DecisionStored(p)
  \/ SubmissionStarts(p) \/ SubmissionAccepted(p) \/ SubmissionRefused(p)
  \/ SubmissionSaved(p)
  \/ ProviderAnswers(p) \/ ProviderErrs(p)

TaskStep(t) ==
  \/ RetryDecides(t)
  \/ QueueChecked(t) \/ QueuedTaskClaimed(t)
  \/ WorkerSaves(t) \/ UserSaves(t)

Next ==
  \/ \E p \in Procs : ProcStep(p)
  \/ \E t \in Tasks : \/ TaskStep(t)
                      \/ CreateDecides(t) \/ RetryReads(t) \/ UserReads(t)
                      \/ Delete(t)
                      \/ SubmissionAges(t) \/ JobEnds(t)
  \/ \E unready \in SUBSET Tasks : WorkerLists(unready)
  \/ Restart

Spec == Init /\ [][Next]_seedanceVars

\* Goroutines run, time passes and the provider's jobs end.  The provider's
\* answers and the set-up of a poll do not fail for ever.
FairSpec ==
  /\ Spec
  /\ \A p \in Procs : /\ WF_seedanceVars(ProcStep(p))
                      /\ SF_seedanceVars(ProviderAnswers(p))
  /\ \A t \in Tasks : /\ WF_seedanceVars(TaskStep(t))
                      /\ WF_seedanceVars(SubmissionAges(t))
                      /\ WF_seedanceVars(JobEnds(t))
  /\ SF_seedanceVars(WorkerLists({}))

-----------------------------------------------------------------------------

\* Only pending rows are ordered, and only "submitting" rows are stale.
RowsTypeOK ==
  /\ row \in [Tasks -> [status : RowStatus, job : 0..MaxJobs]]
  /\ older \subseteq PendingRows \X PendingRows
  /\ stale \subseteq {t \in Tasks : row[t].status = "submitting"}

\* What a process may hold at each of its steps.
Outcome == {"submitted"} \cup Settled
ProcStates ==
  {p \in [pc : Pcs, job : 0..MaxJobs, told : Told] :
     /\ p.pc = "asking"   => p.job # 0
     /\ p.pc = "deciding" => p.told \in {"queued", "submitting"}
     /\ p.pc = "saving"   => p.told \in Outcome
     /\ p.pc = "told"     => p.told \in Outcome \cup {"error"}}

\* A provider id names a job the provider has accepted for that task.
JobsKnown ==
  /\ \A t \in Tasks : row[t].job <= Len(jobs[t]) /\ Len(jobs[t]) <= MaxJobs
  /\ \A p \in Procs : proc[p].job <= Len(jobs[p[1]])

\* Rows, processes and provider ids are well formed: no row and no poll names a
\* provider job that was not accepted for its task (GenerationTask.ProviderTaskID).
SeedanceTypeOK ==
  /\ RowsTypeOK
  /\ proc \in [Procs -> ProcStates]
  /\ queueMu \in Procs \cup {Nobody}
  /\ jobs \in [Tasks -> Seq({"running"} \cup Settled)]
  /\ retries \in [Tasks -> 0..1]
  /\ restarts \in 0..MaxRestarts
  /\ JobsKnown

\* At most one Seedance task is active, whatever the interleaving of requests,
\* deletions, worker rounds and restarts (generation_jimeng_queue.go).
OneActiveTask ==
  \A t, u \in Tasks :
    row[t].status \in Active /\ row[u].status \in Active => t = u

\* Why that is so when nothing is retried or refreshed by hand and submissions
\* are quick.  Who decides holds the mutex; what was decided stays true until it
\* is stored; who submits or polls works on a row that is already active, and
\* the creating goroutine and the worker never submit the same task at once
\* (jimengSeedanceQueueMu, isStaleSubmittingGenerationTask).
DeciderHoldsMutex ==
  \A p \in Procs : proc[p].pc \in {"deciding", "claiming"} => queueMu = p

CreatorOK(t) ==
  LET c == proc[<<t, "create">>] IN
  /\ c.pc \in {"idle", "deciding"} \cup Submits
  /\ c.pc = "deciding" =>
       /\ row[t].status = "unborn"
       /\ c.told = "submitting" => PendingRows \subseteq {t}
  /\ c.pc \in Submits =>
       /\ row[t].status \in {"submitting", "deleted"}
       /\ t \notin stale
       /\ At(<<t, "worker">>, "idle")

WorkerOK(t) ==
  LET w == proc[<<t, "worker">>] IN
  /\ w.pc \in {"idle", "queueing", "claiming", "asking", "told"} \cup Submits
  /\ w.pc \in {"queueing", "claiming"} => row[t].status \in {"queued", "deleted"}
  /\ w.pc = "claiming" => \A u \in Tasks : row[u].status \notin Active
  /\ w.pc \in Submits => row[t].status \in {"submitting", "deleted"}
  /\ w.pc \in {"asking", "told"} => row[t].status \in {"submitted", "deleted"}

NoUserProcs ==
  \A t \in Tasks : At(<<t, "retry">>, "idle") /\ At(<<t, "user">>, "idle")

\* The parts together: what makes OneActiveTask hold at each step of a request,
\* a submission and a poll (queueNewJimengSeedanceTask and the worker).
QueueInvariant ==
  /\ DeciderHoldsMutex
  /\ \A t \in Tasks : CreatorOK(t) /\ WorkerOK(t)
  /\ NoUserProcs
  /\ OneActiveTask

\* However late a goroutine or a poll writes, a task the user deleted while it
\* was being generated does not come back (UpsertExisting).
DeletedStaysDeleted ==
  [][\A t \in Tasks :
       row[t].status = "deleted" => row'[t].status = "deleted"]_seedanceVars

\* The outcome of a task is not undone by a goroutine or poll that writes later
\* what it learned earlier.
SettledStaysSettled ==
  [][\A t \in Tasks :
       row[t].status \in Settled =>
         row'[t].status \in {row[t].status, "deleted"}]_seedanceVars

\* Row by row the queue takes turns: a task is submitted when no other is active,
\* a new one only if none waits either, and nothing brings a task back to the
\* queue (queueNewJimengSeedanceTask, submitQueuedJimengSeedanceGeneration).
PhaseOf(t) == IF row[t].status \in Active THEN "admitted" ELSE row[t].status

Turns == INSTANCE TakingTurns WITH
  Requests <- Tasks, phase <- [t \in Tasks |-> PhaseOf(t)]
ImplementsTakingTurns == Turns!Spec

\* The provider is asked (and paid) once for each request of the user, and once
\* more at most for a restart that interrupted the submission.
JobsAreAskedFor ==
  \A t \in Tasks : Len(jobs[t]) <= 1 + retries[t] + restarts

\* Every task the user has not deleted is eventually completed or failed.
TasksSettle ==
  \A t \in Tasks : row[t].status \in Pending ~> row[t].status \notin Pending

\* "The task has entered the queue; it is submitted automatically when the
\* previous task has completed" (QueuedGenerationResponse).
QueuedTaskIsSubmitted ==
  \A t \in Tasks : row[t].status = "queued" ~> row[t].status # "queued"
=============================================================================
