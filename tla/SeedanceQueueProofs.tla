------------------------- MODULE SeedanceQueueProofs -------------------------
(***************************************************************************)
(* Proofs about SeedanceQueue, for any number of tasks, any poll limit,    *)
(* and any number of jobs and restarts.                                    *)
(*                                                                         *)
(* QueueInvariant says what whoever holds the mutex may rely on, when      *)
(* nothing is retried or polled by hand; with it every step is a turn of   *)
(* the queue in TakingTurns, or none.  SpendInv, for any retries and       *)
(* polls by hand, counts for each task the jobs it has and the processes   *)
(* that may yet submit another: never more than were asked for.            *)
(***************************************************************************)
EXTENDS SeedanceQueue, TLAPS

-----------------------------------------------------------------------------
(* How the writes change the rows.                                         *)

RowRecord == [status : RowStatus, job : 0..MaxJobs]

LEMMA TouchedRows ==
  ASSUME NEW t \in Tasks, NEW status, RowsTypeOK, Touched(t, status),
         row' \in [Tasks -> RowRecord],
         row'[t].status = status,
         \A u \in Tasks \ {t} : row'[u] = row[u]
  PROVE  RowsTypeOK'
  <1>1. older' \subseteq PendingRows' \X PendingRows'
    BY DEF Touched, NewestOf, RowsTypeOK, PendingRows
  <1>2. stale' \subseteq {u \in Tasks : row'[u].status = "submitting"}
    BY DEF Touched, RowsTypeOK
  <1> QED BY <1>1, <1>2 DEF RowsTypeOK, RowRecord

LEMMA UpsertRows ==
  ASSUME NEW t \in Tasks, NEW status \in RowStatus, NEW job \in 0..MaxJobs,
         RowsTypeOK, Upsert(t, status, job)
  PROVE  RowsTypeOK'
  <1>1. row' \in [Tasks -> RowRecord] /\ row'[t].status = status
    BY DEF Upsert, RowsTypeOK, RowRecord
  <1>2. \A u \in Tasks \ {t} : row'[u] = row[u]
    BY DEF Upsert, RowsTypeOK
  <1> QED BY <1>1, <1>2, TouchedRows DEF Upsert

LEMMA UpsertExistingRows ==
  ASSUME NEW t \in Tasks, NEW status \in RowStatus, NEW job \in 0..MaxJobs,
         RowsTypeOK, UpsertExisting(t, status, job)
  PROVE  RowsTypeOK'
  <1>1. CASE Exists(t) BY <1>1, UpsertRows DEF UpsertExisting
  <1>2. CASE ~Exists(t)
    BY <1>2 DEF UpsertExisting, rowVars, RowsTypeOK, PendingRows
  <1> QED BY <1>1, <1>2

LEMMA RecordErrorRows ==
  ASSUME NEW t \in Tasks, RowsTypeOK, RecordError(t)
  PROVE  RowsTypeOK'
  <1>1. CASE Exists(t)
    BY <1>1, TouchedRows DEF RecordError, RowsTypeOK, RowRecord
  <1>2. CASE ~Exists(t)
    BY <1>2 DEF RecordError, rowVars, RowsTypeOK, PendingRows
  <1> QED BY <1>1, <1>2

LEMMA RowsKept ==
  ASSUME RowsTypeOK, UNCHANGED rowVars
  PROVE  RowsTypeOK'
  BY DEF RowsTypeOK, rowVars, PendingRows

-----------------------------------------------------------------------------
(* Types.                                                                  *)

LEMMA IdleType == Idle \in ProcStates
  BY QueueAssumption DEF Idle, ProcStates, Pcs, Told

LEMMA ProcRoles ==
  /\ \A p \in Procs : p[1] \in Tasks /\ p[2] \in Roles /\ p = <<p[1], p[2]>>
  /\ \A t \in Tasks : /\ <<t, "worker">> \in Procs /\ <<t, "create">> \in Procs
                      /\ <<t, "retry">> \in Procs  /\ <<t, "user">> \in Procs
  BY DEF Procs, Roles

LEMMA TypeInit == Init => SeedanceTypeOK
  BY QueueAssumption, IdleType, ProcRoles
  DEF Init, SeedanceTypeOK, RowsTypeOK, JobsKnown, RowStatus, Idle

LEMMA JobLengths ==
  ASSUME SeedanceTypeOK
  PROVE  /\ \A t \in Tasks : Len(jobs[t]) \in 0..MaxJobs /\ row[t].job <= Len(jobs[t])
         /\ \A p \in Procs : proc[p].job <= Len(jobs[p[1]])
  <1>1. JobsKnown /\ \A t \in Tasks : jobs[t] \in Seq({"running"} \cup Settled)
    BY DEF SeedanceTypeOK
  <1>2. \A t \in Tasks : Len(jobs[t]) \in Nat
    BY <1>1
  <1> QED BY <1>1, <1>2, QueueAssumption DEF JobsKnown

\* The steps that only move one process along.
LEMMA GoesType ==
  ASSUME SeedanceTypeOK, NEW p \in Procs, NEW pc, NEW job, NEW told,
         [pc |-> pc, job |-> job, told |-> told] \in ProcStates,
         job <= Len(jobs[p[1]]),
         Goes(p, pc, job, told)
  PROVE  /\ proc' \in [Procs -> ProcStates]
         /\ \A q \in Procs : proc'[q].job <= Len(jobs[q[1]])
  <1>1. proc \in [Procs -> ProcStates] BY DEF SeedanceTypeOK
  <1>2. proc' \in [Procs -> ProcStates] BY <1>1 DEF Goes
  <1>3. proc'[p].job <= Len(jobs[p[1]]) BY <1>1 DEF Goes
  <1>4. \A q \in Procs \ {p} : proc'[q] = proc[q] BY <1>1 DEF Goes
  <1> QED BY <1>2, <1>3, <1>4, JobLengths

LEMMA EndsType ==
  ASSUME SeedanceTypeOK, NEW p \in Procs, Ends(p)
  PROVE  /\ proc' \in [Procs -> ProcStates]
         /\ \A q \in Procs : proc'[q].job <= Len(jobs[q[1]])
  <1>1. Goes(p, "idle", 0, "none") BY DEF Ends, Goes, Idle
  <1>2. 0 <= Len(jobs[p[1]]) BY ProcRoles, JobLengths, QueueAssumption
  <1> QED BY <1>1, <1>2, GoesType, IdleType DEF Idle

\* A write of the row of t.
LEMMA WriteType ==
  ASSUME SeedanceTypeOK, NEW t \in Tasks, NEW status \in RowStatus,
         NEW job \in 0..MaxJobs, job <= Len(jobs[t]),
         \/ Upsert(t, status, job)
         \/ UpsertExisting(t, status, job)
         \/ RecordError(t)
         \/ UNCHANGED rowVars
  PROVE  RowsTypeOK' /\ \A u \in Tasks : row'[u].job <= Len(jobs[u])
  <1>1. RowsTypeOK'
    BY UpsertRows, UpsertExistingRows, RecordErrorRows, RowsKept DEF SeedanceTypeOK
  <1>2. \A u \in Tasks : row[u].job <= Len(jobs[u]) BY JobLengths
  <1>3. \A u \in Tasks : row'[u] = row[u] \/ (u = t /\ row'[u].job = job)
    BY DEF SeedanceTypeOK, RowsTypeOK, Upsert, UpsertExisting, RecordError, rowVars
  <1> QED BY <1>1, <1>2, <1>3

LEMMA KeptType ==
  ASSUME SeedanceTypeOK, RowsTypeOK',
         \A u \in Tasks : row'[u].job <= Len(jobs[u]),
         proc' \in [Procs -> ProcStates],
         \A q \in Procs : proc'[q].job <= Len(jobs[q[1]]),
         jobs' = jobs, queueMu' \in Procs \cup {Nobody},
         retries' \in [Tasks -> 0..1], restarts' \in 0..MaxRestarts
  PROVE  SeedanceTypeOK'
  BY JobLengths DEF SeedanceTypeOK, JobsKnown

\* What SeedanceTypeOK says of one process.
LEMMA ProcFields ==
  ASSUME SeedanceTypeOK, NEW p \in Procs
  PROVE  /\ p[1] \in Tasks
         /\ proc[p].job \in 0..MaxJobs /\ proc[p].job <= Len(jobs[p[1]])
         /\ proc[p] = [pc |-> proc[p].pc, job |-> proc[p].job, told |-> proc[p].told]
         /\ proc[p].pc = "asking" => proc[p].job # 0
         /\ proc[p].pc = "deciding" => proc[p].told \in {"queued", "submitting"}
         /\ proc[p].pc = "saving" => proc[p].told \in Outcome
         /\ proc[p].pc = "told" => proc[p].told \in Outcome \cup {"error"}
         /\ queueMu \in Procs \cup {Nobody}
         /\ retries \in [Tasks -> 0..1] /\ restarts \in 0..MaxRestarts
         /\ proc \in [Procs -> ProcStates]
  <1>1. proc[p] \in ProcStates BY DEF SeedanceTypeOK
  <1> QED BY <1>1, ProcRoles, JobLengths DEF ProcStates, SeedanceTypeOK

LEMMA Appended ==
  ASSUME NEW S, NEW seq \in Seq(S), NEW e \in S
  PROVE  Append(seq, e) \in Seq(S) /\ Len(Append(seq, e)) = Len(seq) + 1
  OBVIOUS

LEMMA ProcStepType ==
  ASSUME SeedanceTypeOK, NEW p \in Procs, ProcStep(p)
  PROVE  SeedanceTypeOK'
  <1> DEFINE t   == p[1]
             job == proc[p].job
             RowsFine  == RowsTypeOK' /\ \A u \in Tasks : row'[u].job <= Len(jobs[u])
             ProcsFine == /\ proc' \in [Procs -> ProcStates]
                          /\ \A q \in Procs : proc'[q].job <= Len(jobs[q[1]])
  <1>a. /\ t \in Tasks /\ job \in 0..MaxJobs /\ job <= Len(jobs[t])
        /\ Len(jobs[t]) \in 0..MaxJobs /\ 0 \in 0..MaxJobs /\ 0 <= Len(jobs[t])
    <2>1. t \in Tasks /\ job \in 0..MaxJobs /\ job <= Len(jobs[t])
      BY ProcFields
    <2>2. Len(jobs[t]) \in 0..MaxJobs
      BY <2>1, JobLengths
    <2> QED BY <2>1, <2>2, QueueAssumption
  <1>b. /\ queueMu \in Procs \cup {Nobody}
        /\ retries \in [Tasks -> 0..1] /\ restarts \in 0..MaxRestarts
    BY ProcFields
  <1>c. UNCHANGED rowVars => RowsFine
    BY <1>a, WriteType DEF RowStatus
  <1>d. RowsFine /\ ProcsFine /\ UNCHANGED <<jobs, retries, restarts>>
          /\ queueMu' \in Procs \cup {Nobody} => SeedanceTypeOK'
    BY <1>b, KeptType
  <1>1. CASE DecisionStored(p)
    <2>1. proc[p].told \in {"queued", "submitting"} BY <1>1, ProcFields DEF DecisionStored, At
    <2>2. RowsFine
      BY <1>1, <1>a, <2>1, WriteType DEF DecisionStored, RowStatus, Pending, Active
    <2>3. [pc |-> "starting", job |-> 0, told |-> "none"] \in ProcStates
      BY <1>a DEF ProcStates, Pcs, Submits, Told
    <2>4. ProcsFine BY <1>1, <1>a, <2>3, GoesType, EndsType DEF DecisionStored
    <2> QED BY <1>1, <1>d, <2>2, <2>4 DEF DecisionStored
  <1>2. CASE SubmissionStarts(p)
    <2>1. RowsFine
      BY <1>2, <1>a, WriteType DEF SubmissionStarts, RowStatus, Pending, Active
    <2>2. [pc |-> "generating", job |-> job, told |-> "none"] \in ProcStates
      BY <1>a DEF ProcStates, Pcs, Submits, Told
    <2>3. ProcsFine BY <1>2, <1>a, <2>2, GoesType, EndsType DEF SubmissionStarts
    <2> QED BY <1>2, <1>b, <1>d, <2>1, <2>3 DEF SubmissionStarts
  <1>3. CASE SubmissionAccepted(p)
    <2>1. PICK state \in {"running"} \cup Settled :
            /\ jobs' = [jobs EXCEPT ![t] = Append(@, state)]
            /\ Goes(p, "saving", Len(jobs[t]) + 1,
                    IF state = "running" THEN "submitted" ELSE state)
      BY <1>3 DEF SubmissionAccepted
    <2>2. /\ jobs \in [Tasks -> Seq({"running"} \cup Settled)]
          /\ jobs[t] \in Seq({"running"} \cup Settled)
      BY <1>a DEF SeedanceTypeOK
    <2>a. /\ Append(jobs[t], state) \in Seq({"running"} \cup Settled)
          /\ Len(Append(jobs[t], state)) = Len(jobs[t]) + 1
      BY <2>2, Appended
    <2>b. jobs'[t] = Append(jobs[t], state)
      BY <1>a, <2>1, <2>2
    <2>3. jobs' \in [Tasks -> Seq({"running"} \cup Settled)]
      <3> DEFINE S == Seq({"running"} \cup Settled)
      <3>1. jobs \in [Tasks -> S] /\ Append(jobs[t], state) \in S BY <2>2, <2>a
      <3> HIDE DEF S
      <3>2. jobs' \in [Tasks -> S] BY <2>1, <3>1
      <3> QED BY <3>2 DEF S
    <2>4. Len(jobs'[t]) = Len(jobs[t]) + 1 /\ Len(jobs'[t]) \in 1..MaxJobs
      <3>1. Len(jobs[t]) < MaxJobs BY <1>3 DEF SubmissionAccepted
      <3> QED BY <1>a, <2>a, <2>b, <3>1, QueueAssumption
    <2>5. \A u \in Tasks : Len(jobs'[u]) \in 0..MaxJobs /\ Len(jobs[u]) <= Len(jobs'[u])
      <3>1. \A u \in Tasks \ {t} : jobs'[u] = jobs[u] BY <2>1, <2>2
      <3>2. \A u \in Tasks : Len(jobs[u]) \in 0..MaxJobs BY JobLengths
      <3> QED BY <3>1, <3>2, <2>4, QueueAssumption
    <2>6. [pc |-> "saving", job |-> Len(jobs[t]) + 1,
           told |-> IF state = "running" THEN "submitted" ELSE state] \in ProcStates
      BY <1>a, <2>4 DEF ProcStates, Pcs, Submits, Told, Outcome, Active, Settled
    <2>7. proc \in [Procs -> ProcStates] BY DEF SeedanceTypeOK
    <2>8. proc' \in [Procs -> ProcStates] BY <2>1, <2>6, <2>7 DEF Goes
    <2>9. \A q \in Procs : proc'[q].job <= Len(jobs'[q[1]])
      <3>1. proc'[p].job <= Len(jobs'[p[1]]) BY <2>1, <2>4, <2>7 DEF Goes
      <3>2. \A q \in Procs \ {p} : proc'[q] = proc[q] BY <2>1, <2>7 DEF Goes
      <3>3. \A q \in Procs : /\ q[1] \in Tasks /\ proc[q].job \in 0..MaxJobs
                            /\ proc[q].job <= Len(jobs[q[1]])
        BY ProcFields
      <3>4. \A u \in Tasks : Len(jobs[u]) \in 0..MaxJobs BY JobLengths
      <3> QED BY <2>5, <3>1, <3>2, <3>3, <3>4, QueueAssumption
    <2>10. \A u \in Tasks : row'[u].job <= Len(jobs'[u]) /\ Len(jobs'[u]) <= MaxJobs
      <3>1. row' = row /\ row \in [Tasks -> [status : RowStatus, job : 0..MaxJobs]]
        BY <1>3 DEF SubmissionAccepted, rowVars, SeedanceTypeOK, RowsTypeOK
      <3>2. \A u \in Tasks : row[u].job \in 0..MaxJobs BY <3>1
      <3>3. \A u \in Tasks : Len(jobs[u]) \in 0..MaxJobs /\ row[u].job <= Len(jobs[u])
        BY JobLengths
      <3> QED BY <2>5, <3>1, <3>2, <3>3, QueueAssumption
    <2>11. RowsTypeOK' BY <1>3, RowsKept DEF SubmissionAccepted, SeedanceTypeOK
    <2> QED
      BY <1>3, <1>b, <2>3, <2>8, <2>9, <2>10, <2>11
      DEF SubmissionAccepted, SeedanceTypeOK, JobsKnown
  <1>4. CASE SubmissionRefused(p)
    <2>1. [pc |-> "saving", job |-> job, told |-> "failed"] \in ProcStates
      BY <1>a DEF ProcStates, Pcs, Submits, Told, Outcome, Settled
    <2>2. ProcsFine BY <1>4, <1>a, <2>1, GoesType DEF SubmissionRefused
    <2> QED BY <1>4, <1>b, <1>c, <1>d, <2>2 DEF SubmissionRefused
  <1>5. CASE SubmissionSaved(p)
    <2>1. proc[p].told \in Outcome BY <1>5, ProcFields DEF SubmissionSaved, At
    <2>2. RowsFine
      BY <1>5, <1>a, <2>1, WriteType
      DEF SubmissionSaved, Outcome, RowStatus, Pending, Active
    <2>3. ProcsFine BY <1>5, EndsType DEF SubmissionSaved
    <2> QED BY <1>5, <1>b, <1>d, <2>2, <2>3 DEF SubmissionSaved
  <1>6. CASE ProviderAnswers(p)
    <2>1. Report(t, job) \in Outcome
      <3>1. jobs[t] \in Seq({"running"} \cup Settled) BY <1>a DEF SeedanceTypeOK
      <3>2. job # 0 BY <1>6, ProcFields DEF ProviderAnswers, At
      <3>3. jobs[t][job] \in {"running"} \cup Settled BY <1>a, <3>1, <3>2
      <3> QED BY <3>3 DEF Report, Outcome
    <2>2. [pc |-> "told", job |-> job, told |-> Report(t, job)] \in ProcStates
      BY <1>a, <2>1 DEF ProcStates, Pcs, Told, Outcome, Active
    <2>3. ProcsFine BY <1>6, <1>a, <2>2, GoesType DEF ProviderAnswers
    <2> QED BY <1>6, <1>b, <1>c, <1>d, <2>3 DEF ProviderAnswers
  <1>7. CASE ProviderErrs(p)
    <2>1. [pc |-> "told", job |-> job, told |-> "error"] \in ProcStates
      BY <1>a DEF ProcStates, Pcs, Told
    <2>2. ProcsFine BY <1>7, <1>a, <2>1, GoesType DEF ProviderErrs
    <2> QED BY <1>7, <1>b, <1>c, <1>d, <2>2 DEF ProviderErrs
  <1> QED BY <1>1, <1>2, <1>3, <1>4, <1>5, <1>6, <1>7 DEF ProcStep

\* A handler that decides, for create and for retry.
LEMMA DecidesType ==
  ASSUME SeedanceTypeOK, NEW p \in Procs, Decides(p),
         retries' \in [Tasks -> 0..1]
  PROVE  SeedanceTypeOK'
  <1>1. \A told \in {"queued", "submitting"} :
          [pc |-> "deciding", job |-> 0, told |-> told] \in ProcStates
    BY QueueAssumption DEF ProcStates, Pcs, Told, Active
  <1>2. p[1] \in Tasks /\ 0 <= Len(jobs[p[1]])
    <2>1. p[1] \in Tasks BY ProcFields
    <2>2. Len(jobs[p[1]]) \in 0..MaxJobs BY <2>1, JobLengths
    <2> QED BY <2>1, <2>2, QueueAssumption
  <1>3. /\ proc' \in [Procs -> ProcStates]
        /\ \A q \in Procs : proc'[q].job <= Len(jobs[q[1]])
    BY <1>1, <1>2, GoesType DEF Decides
  <1>4. RowsTypeOK' /\ \A u \in Tasks : row'[u].job <= Len(jobs[u])
    BY JobLengths, RowsKept DEF Decides, rowVars, SeedanceTypeOK
  <1> QED BY <1>3, <1>4, KeptType, ProcFields DEF Decides

LEMMA TaskStepType ==
  ASSUME SeedanceTypeOK, NEW t \in Tasks,
         TaskStep(t) \/ CreateDecides(t) \/ RetryReads(t) \/ UserReads(t) \/ Delete(t)
           \/ SubmissionAges(t) \/ JobEnds(t)
  PROVE  SeedanceTypeOK'
  <1> DEFINE RowsFine  == RowsTypeOK' /\ \A u \in Tasks : row'[u].job <= Len(jobs[u])
             ProcsFine == /\ proc' \in [Procs -> ProcStates]
                          /\ \A q \in Procs : proc'[q].job <= Len(jobs[q[1]])
             worker == <<t, "worker">>
             user   == <<t, "user">>
  <1>a. /\ worker \in Procs /\ user \in Procs
        /\ <<t, "create">> \in Procs /\ <<t, "retry">> \in Procs
        /\ worker[1] = t /\ user[1] = t /\ <<t, "retry">>[1] = t
    BY ProcRoles
  <1>b. /\ Len(jobs[t]) \in 0..MaxJobs /\ 0 \in 0..MaxJobs /\ 0 <= Len(jobs[t])
        /\ row[t].job \in 0..MaxJobs /\ row[t].job <= Len(jobs[t])
        /\ proc[worker].job \in 0..MaxJobs /\ proc[worker].job <= Len(jobs[t])
        /\ proc[user].job \in 0..MaxJobs /\ proc[user].job <= Len(jobs[t])
    <2>1. Len(jobs[t]) \in 0..MaxJobs /\ row[t].job <= Len(jobs[t])
      BY JobLengths
    <2>2. row[t].job \in 0..MaxJobs BY DEF SeedanceTypeOK, RowsTypeOK
    <2>3. /\ proc[worker].job \in 0..MaxJobs /\ proc[worker].job <= Len(jobs[t])
          /\ proc[user].job \in 0..MaxJobs /\ proc[user].job <= Len(jobs[t])
      BY <1>a, ProcFields
    <2> QED BY <2>1, <2>2, <2>3, QueueAssumption
  <1>c. /\ queueMu \in Procs \cup {Nobody}
        /\ retries \in [Tasks -> 0..1] /\ restarts \in 0..MaxRestarts
        /\ proc \in [Procs -> ProcStates]
    BY DEF SeedanceTypeOK
  <1>d. UNCHANGED rowVars => RowsFine
    BY <1>b, WriteType DEF RowStatus
  <1>e. UNCHANGED proc => ProcsFine
    BY <1>c, JobLengths
  <1>f. RowsFine /\ ProcsFine /\ UNCHANGED <<jobs, restarts>>
          /\ retries' \in [Tasks -> 0..1]
          /\ queueMu' \in Procs \cup {Nobody} => SeedanceTypeOK'
    BY <1>c, KeptType
  <1>1. CASE RetryDecides(t)
    BY <1>1, <1>a, <1>c, DecidesType DEF RetryDecides
  <1>2. CASE CreateDecides(t)
    BY <1>2, <1>a, <1>c, DecidesType DEF CreateDecides
  <1>3. CASE QueueChecked(t)
    <2>1. [pc |-> "claiming", job |-> 0, told |-> "none"] \in ProcStates
      BY <1>b DEF ProcStates, Pcs, Told
    <2>2. ProcsFine BY <1>3, <1>a, <1>b, <2>1, GoesType, EndsType DEF QueueChecked
    <2> QED BY <1>3, <1>a, <1>c, <1>d, <1>f, <2>2 DEF QueueChecked
  <1>4. CASE QueuedTaskClaimed(t)
    <2>1. [pc |-> "starting", job |-> 0, told |-> "none"] \in ProcStates
      BY <1>b DEF ProcStates, Pcs, Submits, Told
    <2>2. ProcsFine BY <1>4, <1>a, <1>b, <2>1, GoesType, EndsType DEF QueuedTaskClaimed
    <2>3. RowsFine
      BY <1>4, <1>b, WriteType DEF QueuedTaskClaimed, RowStatus, Pending, Active
    <2> QED BY <1>4, <1>c, <1>f, <2>2, <2>3 DEF QueuedTaskClaimed
  <1>5. CASE WorkerSaves(t)
    <2>1. proc[worker].told \in Outcome \cup {"error"}
      BY <1>5, <1>a, ProcFields DEF WorkerSaves, At
    <2>2. CASE proc[worker].told = "error"
      <3>1. RecordError(t) BY <1>5, <2>2 DEF WorkerSaves
      <3> QED BY <1>5, <1>a, <1>b, <1>c, <1>f, <3>1, WriteType, EndsType
              DEF WorkerSaves, RowStatus
    <2>3. CASE proc[worker].told \in Outcome
      <3>1. UpsertExisting(t, proc[worker].told, proc[worker].job)
        BY <1>5, <2>3 DEF WorkerSaves, Outcome, Settled
      <3>2. RowsFine
        BY <1>b, <2>3, <3>1, WriteType DEF Outcome, RowStatus, Pending, Active
      <3> QED BY <1>5, <1>a, <1>c, <1>f, <3>2, EndsType DEF WorkerSaves
    <2> QED BY <2>1, <2>2, <2>3
  <1>6. CASE UserSaves(t)
    <2>1. proc[user].told \in Outcome \cup {"error"}
      BY <1>6, <1>a, ProcFields DEF UserSaves, At
    <2>2. RowsFine
      BY <1>6, <1>b, <1>d, <2>1, WriteType
      DEF UserSaves, Outcome, RowStatus, Pending, Active
    <2> QED BY <1>6, <1>a, <1>c, <1>f, <2>2, EndsType DEF UserSaves
  <1>7. CASE RetryReads(t)
    <2>1. [pc |-> "reading", job |-> 0, told |-> "none"] \in ProcStates
      BY <1>b DEF ProcStates, Pcs, Told
    <2>2. ProcsFine BY <1>7, <1>a, <1>b, <2>1, GoesType DEF RetryReads
    <2>3. retries' \in [Tasks -> 0..1] BY <1>7, <1>c DEF RetryReads
    <2> QED BY <1>7, <1>c, <1>d, <1>f, <2>2, <2>3 DEF RetryReads
  <1>8. CASE UserReads(t)
    <2>1. [pc |-> "asking", job |-> row[t].job, told |-> "none"] \in ProcStates
      BY <1>8, <1>b DEF UserReads, ProcStates, Pcs, Told
    <2>2. ProcsFine BY <1>8, <1>a, <1>b, <2>1, GoesType DEF UserReads
    <2> QED BY <1>8, <1>c, <1>d, <1>f, <2>2 DEF UserReads
  <1>9. CASE Delete(t)
    <2>1. /\ row' \in [Tasks -> RowRecord] /\ row'[t].status = "deleted"
          /\ \A u \in Tasks \ {t} : row'[u] = row[u]
          /\ row'[t].job = 0
      BY <1>9, <1>b DEF Delete, SeedanceTypeOK, RowsTypeOK, RowRecord, RowStatus
    <2>2. RowsTypeOK' BY <1>9, <2>1, TouchedRows DEF Delete, SeedanceTypeOK
    <2>3. RowsFine BY <1>b, <2>1, <2>2, JobLengths
    <2> QED BY <1>9, <1>c, <1>e, <1>f, <2>3 DEF Delete
  <1>10. CASE SubmissionAges(t)
    <2>1. RowsFine
      BY <1>10, JobLengths DEF SubmissionAges, SeedanceTypeOK, RowsTypeOK, PendingRows
    <2> QED BY <1>10, <1>c, <1>e, <1>f, <2>1 DEF SubmissionAges
  <1>11. CASE JobEnds(t)
    <2>1. PICK n \in 1..Len(jobs[t]), verdict \in Settled :
            jobs' = [jobs EXCEPT ![t][n] = verdict]
      BY <1>11 DEF JobEnds
    <2>2. /\ jobs \in [Tasks -> Seq({"running"} \cup Settled)]
          /\ jobs[t] \in Seq({"running"} \cup Settled)
      BY DEF SeedanceTypeOK
    <2>3. /\ [jobs[t] EXCEPT ![n] = verdict] \in Seq({"running"} \cup Settled)
          /\ Len([jobs[t] EXCEPT ![n] = verdict]) = Len(jobs[t])
      BY <2>1, <2>2
    <2>4. jobs' = [jobs EXCEPT ![t] = [jobs[t] EXCEPT ![n] = verdict]]
      BY <2>1, <2>2
    <2>5. /\ jobs' \in [Tasks -> Seq({"running"} \cup Settled)]
          /\ \A u \in Tasks : Len(jobs'[u]) = Len(jobs[u])
      <3> DEFINE S == Seq({"running"} \cup Settled)
                 ended == [jobs[t] EXCEPT ![n] = verdict]
      <3>1. jobs \in [Tasks -> S] /\ ended \in S BY <2>2, <2>3
      <3>2. Len(ended) = Len(jobs[t]) BY <2>3
      <3>3. jobs' = [jobs EXCEPT ![t] = ended] BY <2>4
      <3> HIDE DEF S, ended
      <3>4. jobs' \in [Tasks -> S] /\ \A u \in Tasks : Len(jobs'[u]) = Len(jobs[u])
        BY <3>1, <3>2, <3>3
      <3> QED BY <3>4 DEF S
    <2>6. \A q \in Procs : proc'[q].job <= Len(jobs'[q[1]])
      BY <1>11, <2>5, JobLengths, ProcRoles DEF JobEnds
    <2>7. RowsTypeOK' BY <1>11, RowsKept DEF JobEnds, SeedanceTypeOK
    <2>8. \A u \in Tasks : row'[u].job <= Len(jobs'[u]) /\ Len(jobs'[u]) <= MaxJobs
      BY <1>11, <2>5, JobLengths, QueueAssumption DEF JobEnds, rowVars
    <2> QED BY <1>11, <1>c, <2>5, <2>6, <2>7, <2>8 DEF JobEnds, SeedanceTypeOK, JobsKnown
  <1> QED BY <1>1, <1>2, <1>3, <1>4, <1>5, <1>6, <1>7, <1>8, <1>9, <1>10, <1>11 DEF TaskStep

LEMMA TypeStep == SeedanceTypeOK /\ [Next]_seedanceVars => SeedanceTypeOK'
  <1> SUFFICES ASSUME SeedanceTypeOK, [Next]_seedanceVars
               PROVE  SeedanceTypeOK'
    OBVIOUS
  <1>a. /\ queueMu \in Procs \cup {Nobody} /\ retries \in [Tasks -> 0..1]
        /\ restarts \in 0..MaxRestarts /\ proc \in [Procs -> ProcStates]
    BY DEF SeedanceTypeOK
  <1>b. UNCHANGED rowVars => RowsTypeOK' /\ \A u \in Tasks : row'[u].job <= Len(jobs[u])
    BY RowsKept, JobLengths DEF rowVars, SeedanceTypeOK
  <1>1. ASSUME NEW unready \in SUBSET Tasks, WorkerLists(unready)
        PROVE  SeedanceTypeOK'
    <2>1. \A t \in Tasks : PollBegins(t) \in ProcStates /\ PollBegins(t).job <= Len(jobs[t])
      <3> SUFFICES ASSUME NEW t \in Tasks
                   PROVE  PollBegins(t) \in ProcStates /\ PollBegins(t).job <= Len(jobs[t])
        OBVIOUS
      <3>1. /\ row[t].job \in 0..MaxJobs /\ 0 \in 0..MaxJobs
            /\ row[t].job <= Len(jobs[t]) /\ 0 <= Len(jobs[t])
        BY JobLengths, QueueAssumption DEF SeedanceTypeOK, RowsTypeOK
      <3> QED BY <3>1 DEF PollBegins, Idle, ProcStates, Pcs, Submits, Told
    <2>2. /\ proc' \in [Procs -> ProcStates]
          /\ \A q \in Procs : proc'[q].job <= Len(jobs[q[1]])
      BY <1>1, <1>a, <2>1, ProcRoles, JobLengths DEF WorkerLists
    <2> QED BY <1>1, <1>a, <1>b, <2>2, KeptType DEF WorkerLists
  <1>2. CASE Restart
    <2>1. /\ proc' \in [Procs -> ProcStates]
          /\ \A q \in Procs : proc'[q].job <= Len(jobs[q[1]])
      BY <1>2, IdleType, ProcRoles, JobLengths, QueueAssumption DEF Restart, Idle
    <2>2. restarts' \in 0..MaxRestarts BY <1>2, <1>a, QueueAssumption DEF Restart
    <2> QED BY <1>2, <1>a, <1>b, <2>1, <2>2, KeptType DEF Restart
  <1>3. CASE UNCHANGED seedanceVars
    BY <1>3, <1>a, <1>b, KeptType, JobLengths DEF seedanceVars, rowVars
  <1> QED BY <1>1, <1>2, <1>3, ProcStepType, TaskStepType DEF Next

\* Whatever the user, the provider and restarts do, rows, processes and provider
\* ids stay well formed: a row or a poll never names a job that the provider has
\* not accepted for that task, and only a "submitting" row can be stale.
THEOREM SeedanceTypes == Spec => []SeedanceTypeOK
  BY TypeInit, TypeStep, PTL DEF Spec

-----------------------------------------------------------------------------
(* One active task, when nothing is retried or refreshed by hand and a     *)
(* submission takes less than submittingGenerationRetryDelay.              *)

Quiet == ~SlowSubmissions /\ Retryable = {} /\ Refreshable = {}

\* What a write does to the statuses.
LEMMA WriteEffect ==
  ASSUME SeedanceTypeOK, NEW t \in Tasks, NEW status, NEW job,
         Upsert(t, status, job) \/ UpsertExisting(t, status, job)
  PROVE  /\ \A u \in Tasks \ {t} : row'[u].status = row[u].status
         /\ stale' = stale \ {t}
         /\ Upsert(t, status, job) \/ Exists(t) => row'[t].status = status
         /\ ~Upsert(t, status, job) /\ ~Exists(t) => row'[t].status = row[t].status
  BY DEF SeedanceTypeOK, RowsTypeOK, Upsert, UpsertExisting, Touched, Exists, rowVars

\* What a move does to the processes.
LEMMA MoveEffect ==
  ASSUME SeedanceTypeOK, NEW p \in Procs, NEW pc, NEW job, NEW told,
         Goes(p, pc, job, told)
  PROVE  /\ \A q \in Procs \ {p} : proc'[q] = proc[q]
         /\ proc'[p].pc = pc /\ proc'[p].told = told
  BY DEF SeedanceTypeOK, Goes

LEMMA EndEffect ==
  ASSUME SeedanceTypeOK, NEW p \in Procs, Ends(p)
  PROVE  /\ \A q \in Procs \ {p} : proc'[q] = proc[q]
         /\ proc'[p].pc = "idle" /\ proc'[p].told = "none"
  BY DEF SeedanceTypeOK, Ends, Idle

LEMMA QueueInit == Init => QueueInvariant
  <1> SUFFICES ASSUME Init PROVE QueueInvariant
    OBVIOUS
  <1>1. /\ \A p \in Procs : proc[p].pc = "idle"
        /\ \A t \in Tasks : row[t].status = "unborn"
    BY DEF Init, Idle
  <1> QED
    BY <1>1, ProcRoles
    DEF QueueInvariant, DeciderHoldsMutex, CreatorOK, WorkerOK, NoUserProcs,
        OneActiveTask, At, Active, Submits

\* Only the creating goroutine and the worker are ever at work.
LEMMA QuietProcs ==
  ASSUME QueueInvariant, NEW p \in Procs, proc[p].pc # "idle"
  PROVE  /\ p[1] \in Tasks
         /\ p = <<p[1], "create">> \/ p = <<p[1], "worker">>
  <1>1. p[1] \in Tasks /\ p[2] \in Roles /\ p = <<p[1], p[2]>>
    BY ProcRoles
  <1>2. proc[<<p[1], "retry">>].pc = "idle" /\ proc[<<p[1], "user">>].pc = "idle"
    BY <1>1 DEF QueueInvariant, NoUserProcs, At
  <1> QED BY <1>1, <1>2 DEF Roles

\* A step on task t, by the process p (or by none), keeps the invariant if it
\* keeps what the invariant says of t.
LEMMA StepOf ==
  ASSUME QueueInvariant, NEW t \in Tasks,
         NEW p \in {<<t, "create">>, <<t, "worker">>},
         \A u \in Tasks \ {t} : row'[u].status = row[u].status,
         \A u \in Tasks \ {t} : u \in stale' => u \in stale,
         \A q \in Procs \ {p} : proc'[q] = proc[q],
         proc'[p].pc \in {"deciding", "claiming"} => queueMu' = p,
         queueMu' = queueMu \/ queueMu \in {p, Nobody},
         row'[t].status \in Pending => row[t].status \in Pending \/ queueMu = p,
         row'[t].status \in Active =>
           \/ row[t].status \in Active
           \/ queueMu = p /\ \A u \in Tasks \ {t} : row[u].status \notin Active,
         CreatorOK(t)', WorkerOK(t)'
  PROVE  QueueInvariant'
  <1>a. /\ p \in Procs
        /\ \A u \in Tasks : <<u, "create">> \in Procs /\ <<u, "worker">> \in Procs
        /\ \A u \in Tasks : <<u, "retry">> \in Procs /\ <<u, "user">> \in Procs
    BY ProcRoles
  <1>b. \A q \in Procs : proc[q].pc \in {"deciding", "claiming"} => queueMu = q
    BY DEF QueueInvariant, DeciderHoldsMutex
  <1>c. \A u \in Tasks : /\ <<u, "retry">> # p /\ <<u, "user">> # p
                       /\ u # t => <<u, "create">> # p /\ <<u, "worker">> # p
    <2>1. p[1] = t /\ p[2] \in {"create", "worker"}
      <3>1. CASE p = <<t, "create">> BY <3>1
      <3>2. CASE p = <<t, "worker">> BY <3>2
      <3> QED BY <3>1, <3>2
    <2>2. \A u, r : <<u, r>>[1] = u /\ <<u, r>>[2] = r
      OBVIOUS
    <2> QED BY <2>1, <2>2
  <1>1. DeciderHoldsMutex'
    BY <1>a, <1>b, NobodyAssumption DEF DeciderHoldsMutex
  <1>2. ASSUME NEW u \in Tasks, u # t
        PROVE  CreatorOK(u)' /\ WorkerOK(u)'
    <2>1. /\ CreatorOK(u) /\ WorkerOK(u)
          /\ row'[u].status = row[u].status
          /\ u \in stale' => u \in stale
      BY <1>2 DEF QueueInvariant
    <2>2. /\ proc'[<<u, "create">>] = proc[<<u, "create">>]
          /\ proc'[<<u, "worker">>] = proc[<<u, "worker">>]
      BY <1>2, <1>a, <1>c
    <2>3. ASSUME proc[<<u, "create">>].pc = "deciding", PendingRows \subseteq {u}
          PROVE  PendingRows' \subseteq {u}
      <3>1. queueMu = <<u, "create">> /\ <<u, "create">> # p
        <4>1. <<u, "create">> \in Procs BY <1>a
        <4>2. queueMu = <<u, "create">> BY <4>1, <1>b, <2>3
        <4> QED BY <1>2, <1>c, <4>2
      <3>2. \A v \in Tasks : row'[v].status \in Pending => row[v].status \in Pending
        BY <3>1
      <3> QED BY <2>3, <3>2 DEF PendingRows
    <2>4. ASSUME proc[<<u, "worker">>].pc = "claiming"
          PROVE  \A v \in Tasks : row'[v].status \notin Active
      <3>1. queueMu = <<u, "worker">> /\ \A v \in Tasks : row[v].status \notin Active
        BY <1>a, <1>b, <2>1, <2>4 DEF WorkerOK
      <3> QED BY <1>2, <3>1
    <2>5. CreatorOK(u)' BY <2>1, <2>2, <2>3 DEF CreatorOK, At
    <2>6. WorkerOK(u)' BY <2>1, <2>2, <2>4 DEF WorkerOK
    <2> QED BY <2>5, <2>6
  <1>3. NoUserProcs'
    <2>1. \A u \in Tasks : /\ proc'[<<u, "retry">>] = proc[<<u, "retry">>]
                         /\ proc'[<<u, "user">>] = proc[<<u, "user">>]
      <3> SUFFICES ASSUME NEW u \in Tasks
                   PROVE  /\ proc'[<<u, "retry">>] = proc[<<u, "retry">>]
                          /\ proc'[<<u, "user">>] = proc[<<u, "user">>]
        OBVIOUS
      <3>1. <<u, "retry">> \in Procs /\ <<u, "user">> \in Procs BY <1>a
      <3>2. <<u, "retry">> # p /\ <<u, "user">> # p BY <1>c
      <3> QED BY <3>1, <3>2
    <2> QED BY <2>1 DEF QueueInvariant, NoUserProcs, At
  <1>4. OneActiveTask'
    BY DEF QueueInvariant, OneActiveTask
  <1> QED BY <1>1, <1>2, <1>3, <1>4 DEF QueueInvariant

\* What the invariant says of one task, and that its processes are distinct.
LEMMA OfTask ==
  ASSUME QueueInvariant, NEW t \in Tasks
  PROVE  /\ CreatorOK(t) /\ WorkerOK(t)
         /\ <<t, "create">> \in Procs /\ <<t, "worker">> \in Procs
         /\ <<t, "create">> # <<t, "worker">>
         /\ \A p \in Procs : proc[p].pc \in {"deciding", "claiming"} => queueMu = p
  BY ProcRoles DEF QueueInvariant, DeciderHoldsMutex

\* The steps of a submission, by the creating goroutine or the worker.
LEMMA SubmissionStep ==
  ASSUME SeedanceTypeOK, QueueInvariant, NEW t \in Tasks,
         NEW p \in {<<t, "create">>, <<t, "worker">>},
         SubmissionStarts(p) \/ SubmissionAccepted(p) \/ SubmissionRefused(p)
           \/ SubmissionSaved(p)
  PROVE  QueueInvariant'
  <1> DEFINE c == <<t, "create">>
             w == <<t, "worker">>
  <1>a. p \in Procs /\ c \in Procs /\ w \in Procs /\ c # w /\ p[1] = t
    <2>1. p[1] = t
      <3>1. CASE p = <<t, "create">> BY <3>1
      <3>2. CASE p = <<t, "worker">> BY <3>2
      <3> QED BY <3>1, <3>2
    <2> QED BY <2>1, OfTask
  <1>b. proc[p].pc \in Submits
    BY DEF SubmissionStarts, SubmissionAccepted, SubmissionRefused, SubmissionSaved,
           At, Submits
  <1>c. /\ row[t].status \in {"submitting", "deleted"}
        /\ p = c => t \notin stale /\ proc[w].pc = "idle"
        /\ p = w => proc[c].pc = "idle"
    <2>1. CreatorOK(t) /\ WorkerOK(t) BY OfTask
    <2>2. CASE p = c BY <1>a, <1>b, <2>1, <2>2 DEF CreatorOK, At
    <2>3. CASE p = w
      <3>1. row[t].status \in {"submitting", "deleted"}
        BY <1>b, <2>1, <2>3 DEF WorkerOK
      <3>2. proc[c].pc \notin Submits
        BY <1>b, <2>1, <2>3 DEF CreatorOK, At, Submits
      <3> QED BY <1>a, <2>1, <2>3, <3>1, <3>2 DEF CreatorOK
    <2> QED BY <2>2, <2>3
  <1>d. /\ \A q \in Procs \ {p} : proc'[q] = proc[q]
        /\ proc'[p].pc \in {"idle"} \cup Submits
    BY <1>a, MoveEffect, EndEffect
    DEF SubmissionStarts, SubmissionAccepted, SubmissionRefused, SubmissionSaved, Submits
  <1>e. /\ \A u \in Tasks \ {t} : row'[u].status = row[u].status
        /\ \A u \in Tasks : u \in stale' => u \in stale
        /\ \/ row'[t].status = row[t].status
           \/ row[t].status = "submitting" /\ proc'[p].pc = "idle"
    <2>1. CASE SubmissionStarts(p)
      <3>1. UpsertExisting(t, "submitting", proc[p].job)
        BY <1>a, <2>1 DEF SubmissionStarts
      <3>2. CASE Exists(t)
        BY <1>c, <3>1, <3>2, WriteEffect DEF Exists
      <3>3. CASE ~Exists(t)
        BY <3>1, <3>3 DEF UpsertExisting, rowVars
      <3> QED BY <3>2, <3>3
    <2>2. CASE SubmissionAccepted(p) \/ SubmissionRefused(p)
      <3>1. UNCHANGED rowVars BY <2>2 DEF SubmissionAccepted, SubmissionRefused
      <3> QED BY <3>1 DEF rowVars
    <2>3. CASE SubmissionSaved(p)
      BY <1>a, <1>c, <2>3, WriteEffect, EndEffect
      DEF SubmissionSaved, UpsertExisting, Exists, rowVars
    <2> QED BY <2>1, <2>2, <2>3
  <1>f. queueMu' = queueMu
    BY DEF SubmissionStarts, SubmissionAccepted, SubmissionRefused, SubmissionSaved
  <1>1. CreatorOK(t)'
    <2>1. CASE p = c BY <1>a, <1>c, <1>d, <1>e, <2>1 DEF CreatorOK, At, Submits
    <2>2. CASE p = w BY <1>a, <1>c, <1>d, <2>2 DEF CreatorOK, At, Submits
    <2> QED BY <2>1, <2>2
  <1>2. WorkerOK(t)'
    <2>1. CASE p = c BY <1>a, <1>c, <1>d, <2>1 DEF WorkerOK, Submits
    <2>2. CASE p = w BY <1>a, <1>c, <1>d, <1>e, <2>2 DEF WorkerOK, Submits
    <2> QED BY <2>1, <2>2
  <1> QED
    BY <1>c, <1>d, <1>e, <1>f, <1>1, <1>2, StepOf DEF Submits, Pending, Active

\* The steps of the handler that creates a task.
LEMMA CreateStep ==
  ASSUME SeedanceTypeOK, QueueInvariant, NEW t \in Tasks,
         CreateDecides(t) \/ DecisionStored(<<t, "create">>)
  PROVE  QueueInvariant'
  <1> DEFINE c == <<t, "create">>
             w == <<t, "worker">>
             told == IF QueueBlocked(t) THEN "queued" ELSE "submitting"
  <1>a. /\ c \in Procs /\ w \in Procs /\ c # w /\ c[1] = t
        /\ CreatorOK(t) /\ WorkerOK(t)
    BY OfTask
  <1>1. CASE CreateDecides(t)
    <2>1. row[t].status = "unborn" /\ queueMu = Nobody /\ queueMu' = c
      BY <1>1 DEF CreateDecides, Decides
    <2>2. /\ proc'[c].pc = "deciding" /\ proc'[c].told = told
          /\ \A q \in Procs \ {c} : proc'[q] = proc[q]
      <3>1. Goes(c, "deciding", 0, told)
        BY <1>1, <1>a DEF CreateDecides, Decides
      <3> QED BY <1>a, <3>1, MoveEffect
    <2>3. row' = row /\ stale' = stale
      BY <1>1 DEF CreateDecides, Decides, rowVars
    <2>4. told = "submitting" => PendingRows' \subseteq {t}
      BY <2>3 DEF QueueBlocked, PendingRows
    <2>5. CreatorOK(t)' BY <2>1, <2>2, <2>3, <2>4 DEF CreatorOK, Submits
    <2>6. WorkerOK(t)' BY <1>a, <2>1, <2>2, <2>3 DEF WorkerOK
    <2> QED BY <1>a, <2>1, <2>2, <2>3, <2>5, <2>6, StepOf
  <1>2. CASE DecisionStored(c)
    <2>1. /\ proc[c].pc = "deciding" /\ row[t].status = "unborn"
          /\ queueMu = c /\ queueMu' = Nobody
          /\ proc[c].told \in {"queued", "submitting"}
          /\ proc[c].told = "submitting" => PendingRows \subseteq {t}
      BY <1>2, <1>a, OfTask, ProcFields DEF DecisionStored, At, CreatorOK
    <2>2. proc[w].pc = "idle" BY <1>a, <2>1 DEF WorkerOK, Submits
    <2>3. /\ row'[t].status = proc[c].told /\ stale' = stale \ {t}
          /\ \A u \in Tasks \ {t} : row'[u].status = row[u].status
      BY <1>2, <1>a, WriteEffect DEF DecisionStored
    <2>4. /\ \A q \in Procs \ {c} : proc'[q] = proc[q]
          /\ proc'[c].pc = IF proc[c].told = "queued" THEN "idle" ELSE "starting"
      BY <1>2, <1>a, MoveEffect, EndEffect DEF DecisionStored
    <2>5. CreatorOK(t)' BY <1>a, <2>1, <2>2, <2>3, <2>4 DEF CreatorOK, At, Submits
    <2>6. WorkerOK(t)' BY <1>a, <2>2, <2>4 DEF WorkerOK, Submits
    <2>7. row'[t].status \in Active => \A u \in Tasks \ {t} : row[u].status \notin Active
      BY <2>1, <2>3 DEF PendingRows, Pending, Active
    <2> QED BY <1>a, <2>1, <2>3, <2>4, <2>5, <2>6, <2>7, StepOf
  <1> QED BY <1>1, <1>2

\* The worker's queue check, poll and save of one task.
LEMMA WorkerStep ==
  ASSUME SeedanceTypeOK, QueueInvariant, NEW t \in Tasks,
         \/ QueueChecked(t) \/ QueuedTaskClaimed(t) \/ WorkerSaves(t)
         \/ ProviderAnswers(<<t, "worker">>) \/ ProviderErrs(<<t, "worker">>)
  PROVE  QueueInvariant'
  <1> DEFINE c == <<t, "create">>
             w == <<t, "worker">>
  <1>a. /\ c \in Procs /\ w \in Procs /\ c # w /\ w[1] = t
        /\ CreatorOK(t) /\ WorkerOK(t)
    BY OfTask
  <1>b. /\ proc[w].pc \in {"queueing", "claiming", "asking", "told"}
        /\ proc[c].pc = "idle"
    <2>1. proc[w].pc \in {"queueing", "claiming", "asking", "told"}
      BY DEF QueueChecked, QueuedTaskClaimed, WorkerSaves, ProviderAnswers, ProviderErrs, At
    <2> QED BY <1>a, <2>1 DEF CreatorOK, WorkerOK, At
  <1>1. CASE QueueChecked(t)
    <2>1. proc[w].pc = "queueing" /\ row[t].status \in {"queued", "deleted"}
      BY <1>1, <1>a DEF QueueChecked, At, WorkerOK
    <2>2. /\ \A q \in Procs \ {w} : proc'[q] = proc[q]
          /\ proc'[w].pc \in {"idle", "claiming"}
          /\ proc'[w].pc = "claiming" => CanSubmit(t)
          /\ proc'[w].pc = "claiming" => queueMu' = w
          /\ queueMu' = queueMu \/ queueMu = Nobody
      <3>1. CASE CanSubmit(t)
        BY <1>1, <1>a, <3>1, MoveEffect DEF QueueChecked
      <3>2. CASE ~CanSubmit(t)
        BY <1>1, <1>a, <3>2, EndEffect DEF QueueChecked
      <3> QED BY <3>1, <3>2
    <2>3. row' = row /\ stale' = stale
      BY <1>1 DEF QueueChecked, rowVars
    <2>4. CanSubmit(t) => \A u \in Tasks : row[u].status \notin Active
      BY <2>1 DEF CanSubmit, Active
    <2>5. CreatorOK(t)' BY <1>a, <1>b, <2>2 DEF CreatorOK, Submits
    <2>6. WorkerOK(t)' BY <2>1, <2>2, <2>3, <2>4 DEF WorkerOK, Submits
    <2> QED BY <1>a, <2>2, <2>3, <2>5, <2>6, StepOf
  <1>2. CASE QueuedTaskClaimed(t)
    <2>1. /\ proc[w].pc = "claiming" /\ row[t].status \in {"queued", "deleted"}
          /\ \A u \in Tasks : row[u].status \notin Active
          /\ queueMu = w /\ queueMu' = Nobody
      BY <1>2, <1>a, OfTask DEF QueuedTaskClaimed, At, WorkerOK
    <2>2. /\ \A u \in Tasks \ {t} : row'[u].status = row[u].status
          /\ stale' = stale \ {t} \/ stale' = stale
          /\ row'[t].status = IF Exists(t) THEN "submitting" ELSE "deleted"
      BY <1>2, <2>1, WriteEffect
      DEF QueuedTaskClaimed, UpsertExisting, Exists, rowVars
    <2>3. /\ \A q \in Procs \ {w} : proc'[q] = proc[q]
          /\ proc'[w].pc = IF Exists(t) THEN "starting" ELSE "idle"
      <3>1. CASE Exists(t)
        BY <1>2, <1>a, <3>1, MoveEffect DEF QueuedTaskClaimed
      <3>2. CASE ~Exists(t)
        BY <1>2, <1>a, <3>2, EndEffect DEF QueuedTaskClaimed
      <3> QED BY <3>1, <3>2
    <2>4. CreatorOK(t)' BY <1>a, <1>b, <2>3 DEF CreatorOK, Submits
    <2>5. WorkerOK(t)' BY <2>2, <2>3 DEF WorkerOK, Submits
    <2> QED BY <1>a, <2>1, <2>2, <2>3, <2>4, <2>5, StepOf
  <1>3. CASE WorkerSaves(t)
    <2>1. proc[w].pc = "told" /\ row[t].status \in {"submitted", "deleted"}
      BY <1>3, <1>a DEF WorkerSaves, At, WorkerOK
    <2>2. /\ \A u \in Tasks \ {t} : row'[u].status = row[u].status
          /\ \A u \in Tasks : u \in stale' => u \in stale
          /\ row[t].status = "deleted" => row'[t].status = "deleted"
      <3>1. CASE proc[w].told = "error"
        BY <1>3, <3>1 DEF WorkerSaves, RecordError, Touched, rowVars
      <3>2. CASE proc[w].told # "error"
        <4>1. UpsertExisting(t, proc[w].told, proc[w].job)
          BY <1>3, <3>2 DEF WorkerSaves
        <4> QED BY <4>1, WriteEffect DEF UpsertExisting, Exists, rowVars
      <3> QED BY <3>1, <3>2
    <2>3. /\ \A q \in Procs \ {w} : proc'[q] = proc[q]
          /\ proc'[w].pc = "idle" /\ queueMu' = queueMu
      BY <1>3, <1>a, EndEffect DEF WorkerSaves
    <2>4. CreatorOK(t)' BY <1>a, <1>b, <2>3 DEF CreatorOK, Submits
    <2>5. WorkerOK(t)' BY <2>3 DEF WorkerOK, Submits
    <2> QED BY <1>a, <2>1, <2>2, <2>3, <2>4, <2>5, StepOf DEF Pending, Active
  <1>4. CASE ProviderAnswers(w) \/ ProviderErrs(w)
    <2>1. proc[w].pc = "asking" /\ row[t].status \in {"submitted", "deleted"}
      BY <1>4, <1>a DEF ProviderAnswers, ProviderErrs, At, WorkerOK
    <2>2. /\ \A q \in Procs \ {w} : proc'[q] = proc[q]
          /\ proc'[w].pc = "told" /\ queueMu' = queueMu
      BY <1>4, <1>a, MoveEffect DEF ProviderAnswers, ProviderErrs
    <2>3. row' = row /\ stale' = stale
      BY <1>4 DEF ProviderAnswers, ProviderErrs, rowVars
    <2>4. CreatorOK(t)' BY <1>a, <1>b, <2>2 DEF CreatorOK, Submits
    <2>5. WorkerOK(t)' BY <2>1, <2>2, <2>3 DEF WorkerOK, Submits
    <2> QED BY <1>a, <2>2, <2>3, <2>4, <2>5, StepOf
  <1> QED BY <1>1, <1>2, <1>3, <1>4

\* The user and time.  Under Quiet a row does not age while it is submitted.
LEMMA OutsideStep ==
  ASSUME Quiet, SeedanceTypeOK, QueueInvariant, NEW t \in Tasks,
         Delete(t) \/ SubmissionAges(t)
  PROVE  QueueInvariant'
  <1> DEFINE c == <<t, "create">>
             w == <<t, "worker">>
  <1>a. /\ c \in Procs /\ w \in Procs /\ c # w
        /\ CreatorOK(t) /\ WorkerOK(t)
        /\ proc[c].pc \in {"deciding", "claiming"} => queueMu = c
    BY OfTask
  <1>b. proc' = proc /\ queueMu' = queueMu BY DEF Delete, SubmissionAges
  <1>1. CASE Delete(t)
    <2>1. /\ row[t].status \notin {"unborn", "deleted"} /\ row'[t].status = "deleted"
          /\ \A u \in Tasks \ {t} : row'[u].status = row[u].status
          /\ stale' = stale \ {t}
      BY <1>1 DEF Delete, Exists, Touched, SeedanceTypeOK, RowsTypeOK
    <2>2. CreatorOK(t)' BY <1>a, <1>b, <2>1 DEF CreatorOK, At, Submits
    <2>3. WorkerOK(t)'
      BY <1>a, <1>b, <2>1 DEF WorkerOK, Active
    <2> QED BY <1>a, <1>b, <2>1, <2>2, <2>3, StepOf DEF Pending, Active
  <1>2. CASE SubmissionAges(t)
    <2>1. /\ row[t].status = "submitting" /\ row' = row /\ stale' = stale \cup {t}
          /\ proc[c].pc \notin Submits
      BY <1>2 DEF SubmissionAges, Quiet, Roles
    <2>2. CreatorOK(t)' BY <1>a, <1>b, <2>1 DEF CreatorOK
    <2>3. WorkerOK(t)' BY <1>a, <1>b, <2>1 DEF WorkerOK
    <2> QED BY <1>a, <1>b, <2>1, <2>2, <2>3, StepOf
  <1> QED BY <1>1, <1>2

\* A worker round.  A row that the creating goroutine is still submitting is not
\* listed, as it was updated less than two minutes ago.
LEMMA ListStep ==
  ASSUME QueueInvariant, SeedanceTypeOK, NEW unready \in SUBSET Tasks, WorkerLists(unready)
  PROVE  QueueInvariant'
  <1>a. UNCHANGED <<row, older, stale, queueMu>>
    BY DEF WorkerLists, rowVars
  <1>b. \A p \in Procs :
          proc'[p] = IF p[2] = "worker" /\ p[1] \in ListPending \ unready
                     THEN PollBegins(p[1]) ELSE proc[p]
    BY DEF WorkerLists
  <1>c. \A t \in Tasks :
          /\ <<t, "create">> \in Procs /\ <<t, "worker">> \in Procs
          /\ <<t, "retry">> \in Procs /\ <<t, "user">> \in Procs
    BY ProcRoles
  <1>d. \A t \in Tasks :
          /\ proc'[<<t, "create">>] = proc[<<t, "create">>]
          /\ proc'[<<t, "retry">>] = proc[<<t, "retry">>]
          /\ proc'[<<t, "user">>] = proc[<<t, "user">>]
    BY <1>b, <1>c
  <1>e. \A t \in Tasks :
          \/ proc'[<<t, "worker">>] = proc[<<t, "worker">>]
          \/ t \in ListPending /\ proc'[<<t, "worker">>] = PollBegins(t)
    BY <1>b, <1>c
  <1>f. \A t \in Tasks :
          PollBegins(t).pc \in {"idle", "queueing", "starting", "asking"}
    BY DEF PollBegins, Idle
  <1>1. DeciderHoldsMutex'
    <2> SUFFICES ASSUME NEW p \in Procs, proc'[p].pc \in {"deciding", "claiming"}
                 PROVE  queueMu' = p
      BY DEF DeciderHoldsMutex
    <2>1. p[1] \in Tasks /\ (proc'[p] = proc[p] \/ proc'[p] = PollBegins(p[1]))
      BY <1>b, ProcRoles
    <2>2. proc'[p] = proc[p] BY <1>f, <2>1
    <2> QED BY <1>a, <2>2 DEF QueueInvariant, DeciderHoldsMutex
  <1>2. ASSUME NEW t \in Tasks
        PROVE  CreatorOK(t)' /\ WorkerOK(t)'
    <2>a. /\ CreatorOK(t) /\ WorkerOK(t)
          /\ proc[<<t, "worker">>].pc = "idle"
      BY DEF QueueInvariant, WorkerLists, At
    <2>1. t \in ListPending => row[t].status \in Pending
      BY DEF ListPending, Oldest, PendingRows
    <2>2. t \in ListPending /\ row[t].status = "submitting" => t \in stale
      BY DEF ListPending, Oldest
    <2>3. proc[<<t, "create">>].pc \in Submits => t \notin ListPending
      BY <2>a, <2>1, <2>2 DEF CreatorOK, Pending, Active
    <2>4. CreatorOK(t)'
      <3>1. proc[<<t, "create">>].pc \in Submits
              => proc'[<<t, "worker">>].pc = "idle"
        BY <1>e, <2>a, <2>3
      <3> QED BY <1>a, <1>d, <2>a, <3>1 DEF CreatorOK, At, PendingRows
    <2>5. WorkerOK(t)'
      <3>1. CASE proc'[<<t, "worker">>] = proc[<<t, "worker">>]
        BY <2>a, <3>1 DEF WorkerOK, Submits
      <3>2. CASE proc'[<<t, "worker">>] = PollBegins(t)
        BY <1>a, <3>2 DEF PollBegins, Idle, WorkerOK, Submits
      <3> QED BY <1>e, <3>1, <3>2
    <2> QED BY <2>4, <2>5
  <1>3. NoUserProcs' BY <1>d DEF QueueInvariant, NoUserProcs, At
  <1>4. OneActiveTask' BY <1>a DEF QueueInvariant, OneActiveTask
  <1> QED BY <1>1, <1>2, <1>3, <1>4 DEF QueueInvariant

LEMMA RestartStep ==
  ASSUME QueueInvariant, Restart
  PROVE  QueueInvariant'
  <1>1. /\ \A p \in Procs : proc'[p].pc = "idle"
        /\ row' = row
    BY DEF Restart, Idle, rowVars
  <1>2. OneActiveTask' BY <1>1 DEF QueueInvariant, OneActiveTask
  <1>3. \A t \in Tasks, r \in Roles : proc'[<<t, r>>].pc = "idle"
    BY <1>1 DEF Procs
  <1>4. NoUserProcs'
    BY <1>1, <1>3 DEF QueueInvariant, NoUserProcs, At, Roles
  <1> QED
    BY <1>1, <1>2, <1>3, <1>4, ProcRoles
    DEF QueueInvariant, DeciderHoldsMutex, CreatorOK, WorkerOK, At, Submits, Roles

LEMMA KeptQueue ==
  ASSUME QueueInvariant, UNCHANGED <<row, stale, proc, queueMu>>
  PROVE  QueueInvariant'
  BY DEF QueueInvariant, DeciderHoldsMutex, CreatorOK, WorkerOK, NoUserProcs,
         OneActiveTask, At, PendingRows

\* Under Quiet each step is one of those above.
LEMMA QuietSteps ==
  ASSUME Quiet, QueueInvariant, Next
  PROVE  \/ \E t \in Tasks : \E p \in {<<t, "create">>, <<t, "worker">>} :
              SubmissionStarts(p) \/ SubmissionAccepted(p) \/ SubmissionRefused(p)
                \/ SubmissionSaved(p)
         \/ \E t \in Tasks : CreateDecides(t) \/ DecisionStored(<<t, "create">>)
         \/ \E t \in Tasks :
              \/ QueueChecked(t) \/ QueuedTaskClaimed(t) \/ WorkerSaves(t)
              \/ ProviderAnswers(<<t, "worker">>) \/ ProviderErrs(<<t, "worker">>)
         \/ \E t \in Tasks : Delete(t) \/ SubmissionAges(t)
         \/ \E unready \in SUBSET Tasks : WorkerLists(unready)
         \/ \E t \in Tasks : JobEnds(t)
         \/ Restart
  <1>1. ASSUME NEW p \in Procs, ProcStep(p)
        PROVE  \/ \E t \in Tasks : \E q \in {<<t, "create">>, <<t, "worker">>} :
                    SubmissionStarts(q) \/ SubmissionAccepted(q) \/ SubmissionRefused(q)
                      \/ SubmissionSaved(q)
               \/ \E t \in Tasks : DecisionStored(<<t, "create">>)
               \/ \E t \in Tasks : ProviderAnswers(<<t, "worker">>)
                                     \/ ProviderErrs(<<t, "worker">>)
    <2>1. proc[p].pc # "idle"
      BY <1>1
      DEF ProcStep, DecisionStored, SubmissionStarts, SubmissionAccepted,
          SubmissionRefused, SubmissionSaved, ProviderAnswers, ProviderErrs, At
    <2>2. p[1] \in Tasks /\ (p = <<p[1], "create">> \/ p = <<p[1], "worker">>)
      BY <2>1, QuietProcs
    <2>3. CASE p = <<p[1], "create">>
      <3>1. ~ProviderAnswers(p) /\ ~ProviderErrs(p)
        BY <2>2, <2>3, OfTask DEF ProviderAnswers, ProviderErrs, At, CreatorOK, Submits
      <3> QED BY <1>1, <2>2, <2>3, <3>1 DEF ProcStep
    <2>4. CASE p = <<p[1], "worker">>
      <3>1. ~DecisionStored(p)
        BY <2>2, <2>4, OfTask DEF DecisionStored, At, WorkerOK, Submits
      <3> QED BY <1>1, <2>2, <2>4, <3>1 DEF ProcStep
    <2> QED BY <2>2, <2>3, <2>4
  <1>2. ASSUME NEW t \in Tasks
        PROVE  ~RetryDecides(t) /\ ~UserSaves(t) /\ ~RetryReads(t) /\ ~UserReads(t)
    <2>1. proc[<<t, "retry">>].pc = "idle" /\ proc[<<t, "user">>].pc = "idle"
      BY DEF QueueInvariant, NoUserProcs, At
    <2> QED BY <2>1 DEF RetryDecides, UserSaves, RetryReads, UserReads, At, Quiet
  <1> QED BY <1>1, <1>2 DEF Next, TaskStep

LEMMA QueueStep ==
  ASSUME Quiet, SeedanceTypeOK, QueueInvariant, [Next]_seedanceVars
  PROVE  QueueInvariant'
  <1>1. CASE UNCHANGED seedanceVars
    BY <1>1, KeptQueue DEF seedanceVars, rowVars
  <1>2. CASE Next
    <2>1. ASSUME NEW t \in Tasks, JobEnds(t)
          PROVE  QueueInvariant'
      BY <2>1, KeptQueue DEF JobEnds, rowVars
    <2> QED
      BY <1>2, <2>1, QuietSteps, SubmissionStep, CreateStep, WorkerStep, OutsideStep,
         ListStep, RestartStep
  <1> QED BY <1>1, <1>2

\* When no task is retried or refreshed by hand and a submission is over before
\* its row counts as stale, the queue works: the mutex makes check and write one
\* step, and what each goroutine and poll does is about a row in the state it
\* expects.
THEOREM QueueInvariantHolds ==
  ASSUME Quiet
  PROVE  Spec => []QueueInvariant
  <1>1. Init => QueueInvariant BY QueueInit
  <1>2. QueueInvariant /\ SeedanceTypeOK /\ [Next]_seedanceVars => QueueInvariant'
    BY QueueStep
  <1> QED BY <1>1, <1>2, SeedanceTypes, PTL DEF Spec

\* At most one Seedance task is active at the provider, for any number of tasks,
\* requests, deletions, worker rounds and restarts.
THEOREM OneActiveTaskHolds ==
  ASSUME Quiet
  PROVE  Spec => []OneActiveTask
  <1>1. QueueInvariant => OneActiveTask BY DEF QueueInvariant
  <1> QED BY <1>1, QueueInvariantHolds, PTL

-----------------------------------------------------------------------------
(* What a step may do to a row.                                            *)

\* Only the row of t changes status, and only if it is neither settled nor deleted.
Rewrites(t) ==
  \A u \in Tasks :
    row'[u].status # row[u].status =>
      u = t /\ row[t].status \notin Settled \cup {"deleted"}

LEMMA ExistingRewrites ==
  ASSUME SeedanceTypeOK, NEW t \in Tasks, row[t].status \notin Settled,
         NEW status, NEW job,
         UpsertExisting(t, status, job) \/ RecordError(t) \/ UNCHANGED rowVars
  PROVE  Rewrites(t)
  <1>1. CASE UpsertExisting(t, status, job) /\ Exists(t)
    BY <1>1, WriteEffect DEF Exists, Rewrites
  <1>2. CASE UpsertExisting(t, status, job) /\ ~Exists(t)
    BY <1>2 DEF UpsertExisting, rowVars, Rewrites
  <1>3. CASE RecordError(t)
    BY <1>3 DEF RecordError, rowVars, Rewrites
  <1>4. CASE UNCHANGED rowVars
    BY <1>4 DEF rowVars, Rewrites
  <1> QED BY <1>1, <1>2, <1>3, <1>4

LEMMA RowStep ==
  ASSUME Quiet, SeedanceTypeOK, QueueInvariant, Next
  PROVE  (\E t \in Tasks : Delete(t)) \/ row' = row \/ (\E t \in Tasks : Rewrites(t))
  <1>1. ASSUME NEW t \in Tasks, NEW p \in {<<t, "create">>, <<t, "worker">>},
               SubmissionStarts(p) \/ SubmissionAccepted(p) \/ SubmissionRefused(p)
                 \/ SubmissionSaved(p)
        PROVE  Rewrites(t)
    <2>1. p[1] = t
      <3>1. CASE p = <<t, "create">> BY <3>1
      <3>2. CASE p = <<t, "worker">> BY <3>2
      <3> QED BY <3>1, <3>2
    <2>2. proc[p].pc \in Submits
      BY <1>1 DEF SubmissionStarts, SubmissionAccepted, SubmissionRefused,
                  SubmissionSaved, At, Submits
    <2>3. row[t].status \notin Settled
      BY <2>2, OfTask DEF CreatorOK, WorkerOK, Settled
    <2>4. \/ UpsertExisting(t, "submitting", proc[p].job)
          \/ UpsertExisting(t, proc[p].told, proc[p].job)
          \/ UNCHANGED rowVars
      BY <1>1, <2>1 DEF SubmissionStarts, SubmissionAccepted, SubmissionRefused,
                        SubmissionSaved
    <2> QED BY <2>3, <2>4, ExistingRewrites
  <1>2. ASSUME NEW t \in Tasks, CreateDecides(t) \/ DecisionStored(<<t, "create">>)
        PROVE  Rewrites(t)
    <2>1. CASE CreateDecides(t)
      BY <2>1 DEF CreateDecides, Decides, rowVars, Rewrites
    <2>2. CASE DecisionStored(<<t, "create">>)
      <3>1. row[t].status = "unborn"
        BY <2>2, OfTask DEF DecisionStored, At, CreatorOK
      <3>2. \A u \in Tasks \ {t} : row'[u].status = row[u].status
        BY <2>2, WriteEffect DEF DecisionStored
      <3> QED BY <3>1, <3>2 DEF Rewrites, Settled
    <2> QED BY <1>2, <2>1, <2>2
  <1>3. ASSUME NEW t \in Tasks,
               \/ QueueChecked(t) \/ QueuedTaskClaimed(t) \/ WorkerSaves(t)
               \/ ProviderAnswers(<<t, "worker">>) \/ ProviderErrs(<<t, "worker">>)
        PROVE  Rewrites(t)
    <2>1. row[t].status \notin Settled
      BY <1>3, OfTask
      DEF QueueChecked, QueuedTaskClaimed, WorkerSaves, ProviderAnswers, ProviderErrs,
          At, WorkerOK, Settled
    <2>2. \/ UpsertExisting(t, "submitting", 0)
          \/ UpsertExisting(t, proc[<<t, "worker">>].told, proc[<<t, "worker">>].job)
          \/ RecordError(t)
          \/ UNCHANGED rowVars
      BY <1>3
      DEF QueueChecked, QueuedTaskClaimed, WorkerSaves, ProviderAnswers, ProviderErrs
    <2> QED BY <2>1, <2>2, ExistingRewrites
  <1>4. ASSUME \/ \E t \in Tasks : SubmissionAges(t) \/ JobEnds(t)
               \/ \E unready \in SUBSET Tasks : WorkerLists(unready)
               \/ Restart
        PROVE  row' = row
    BY <1>4 DEF SubmissionAges, JobEnds, WorkerLists, Restart, rowVars
  <1> QED BY <1>1, <1>2, <1>3, <1>4, QuietSteps

\* A deleted task stays deleted, however late its goroutine or a poll writes.
THEOREM DeletedStays ==
  ASSUME Quiet
  PROVE  Spec => DeletedStaysDeleted
  <1> DEFINE Kept == \A t \in Tasks :
                       row[t].status = "deleted" => row'[t].status = "deleted"
  <1>1. SeedanceTypeOK /\ QueueInvariant /\ [Next]_seedanceVars => [Kept]_seedanceVars
    <2> SUFFICES ASSUME SeedanceTypeOK, QueueInvariant, Next PROVE Kept
      OBVIOUS
    <2>1. ASSUME NEW t \in Tasks, Delete(t) PROVE Kept
      BY <2>1 DEF Delete, Exists, SeedanceTypeOK, RowsTypeOK
    <2>2. ASSUME NEW t \in Tasks, Rewrites(t) PROVE Kept
      BY <2>2 DEF Rewrites
    <2> QED BY <2>1, <2>2, RowStep
  <1> QED
    BY <1>1, SeedanceTypes, QueueInvariantHolds, PTL DEF Spec, DeletedStaysDeleted

\* A completed or failed task keeps its outcome until the user deletes it: when a
\* row settles, no goroutine or poll still holds an older copy of it.
THEOREM SettledStays ==
  ASSUME Quiet
  PROVE  Spec => SettledStaysSettled
  <1> DEFINE Kept == \A t \in Tasks :
                       row[t].status \in Settled =>
                         row'[t].status \in {row[t].status, "deleted"}
  <1>1. SeedanceTypeOK /\ QueueInvariant /\ [Next]_seedanceVars => [Kept]_seedanceVars
    <2> SUFFICES ASSUME SeedanceTypeOK, QueueInvariant, Next PROVE Kept
      OBVIOUS
    <2>1. ASSUME NEW t \in Tasks, Delete(t) PROVE Kept
      BY <2>1 DEF Delete, SeedanceTypeOK, RowsTypeOK
    <2>2. ASSUME NEW t \in Tasks, Rewrites(t) PROVE Kept
      BY <2>2 DEF Rewrites
    <2> QED BY <2>1, <2>2, RowStep
  <1> QED
    BY <1>1, SeedanceTypes, QueueInvariantHolds, PTL DEF Spec, SettledStaysSettled

-----------------------------------------------------------------------------
(* Taking turns.                                                           *)

Phase == [t \in Tasks |-> PhaseOf(t)]

\* The step of the queue, or none.
TurnStep == [Turns!Next]_(Turns!vars)

\* A step that changes the status of one task at most moves its phase only.
LEMMA PhaseMoves ==
  ASSUME NEW t \in Tasks, \A u \in Tasks \ {t} : row'[u].status = row[u].status
  PROVE  Phase' = [Phase EXCEPT ![t] = PhaseOf(t)']
  <1>1. \A u \in Tasks \ {t} : PhaseOf(u)' = PhaseOf(u)
    BY DEF PhaseOf
  <1> QED BY <1>1 DEF Phase

LEMMA PendingPhases ==
  ASSUME SeedanceTypeOK, NEW t \in Tasks
  PROVE  /\ row[t].status \notin Active => PhaseOf(t) # "admitted"
         /\ row[t].status \notin Pending => PhaseOf(t) \notin {"queued", "admitted"}
  <1>1. row[t].status \in RowStatus
    BY DEF SeedanceTypeOK, RowsTypeOK
  <1> QED BY <1>1 DEF PhaseOf, RowStatus, Pending, Active, Settled

LEMMA PhaseStays ==
  ASSUME \A u \in Tasks : row'[u].status = row[u].status
  PROVE  Phase' = Phase
  BY DEF Phase, PhaseOf

LEMMA StayingTurns ==
  ASSUME Phase' = Phase
  PROVE  TurnStep
  BY DEF TurnStep, Phase, Turns!vars

\* The moves of the abstract queue, in terms of Phase.
LEMMA MovesTurn ==
  ASSUME NEW t \in Tasks, NEW to, Phase' = [Phase EXCEPT ![t] = to],
         \/ PhaseOf(t) = "unborn" /\ to = "queued"
         \/ /\ PhaseOf(t) = "unborn" /\ to = "admitted"
            /\ \A u \in Tasks : PhaseOf(u) \notin {"queued", "admitted"}
         \/ /\ PhaseOf(t) = "queued" /\ to = "admitted"
            /\ \A u \in Tasks : PhaseOf(u) # "admitted"
         \/ PhaseOf(t) = "admitted" /\ to \in {"completed", "failed"}
         \/ PhaseOf(t) \in Turns!Phases \ {"unborn"} /\ to = "deleted"
  PROVE  TurnStep
  <1>1. \A u \in Tasks : Phase[u] = PhaseOf(u)
    BY DEF Phase
  <1>2. \E r \in Tasks : \/ Turns!Joins(r) \/ Turns!Enters(r) \/ Turns!Admit(r)
                         \/ Turns!Finish(r) \/ Turns!Delete(r)
    BY <1>1
    DEF Turns!Joins, Turns!Enters, Turns!Admit, Turns!Finish, Turns!Delete,
        Turns!Moves, Turns!NoneIs, Phase
  <1> QED BY <1>2 DEF TurnStep, Turns!Next

\* A goroutine or poll of a task that is active or deleted writes what keeps it
\* active or settles it.
LEMMA WriteTurns ==
  ASSUME SeedanceTypeOK, NEW t \in Tasks, row[t].status \in Active \cup {"deleted"},
         NEW status \in Active \cup Settled, NEW job, UpsertExisting(t, status, job)
  PROVE  TurnStep
  <1>1. CASE row[t].status = "deleted"
    <2>1. row' = row
      BY <1>1 DEF UpsertExisting, Exists, rowVars
    <2> QED BY <2>1, PhaseStays, StayingTurns
  <1>2. CASE row[t].status \in Active
    <2>1. /\ \A u \in Tasks \ {t} : row'[u].status = row[u].status
          /\ row'[t].status = status
      BY <1>2, WriteEffect DEF Exists, Active
    <2>2. PhaseOf(t) = "admitted"
      BY <1>2 DEF PhaseOf
    <2>3. CASE status \in Active
      <3>1. PhaseOf(t)' = PhaseOf(t)
        BY <2>1, <2>2, <2>3 DEF PhaseOf
      <3>2. \A u \in Tasks : PhaseOf(u)' = PhaseOf(u)
        BY <2>1, <3>1 DEF PhaseOf
      <3> QED BY <3>2, StayingTurns DEF Phase
    <2>4. CASE status \in Settled
      <3>1. PhaseOf(t)' = status /\ status \in {"completed", "failed"}
        BY <2>1, <2>4 DEF PhaseOf, Settled, Active
      <3> QED BY <2>1, <2>2, <3>1, PhaseMoves, MovesTurn
    <2> QED BY <2>3, <2>4
  <1> QED BY <1>1, <1>2

LEMMA SubmissionTurns ==
  ASSUME SeedanceTypeOK, QueueInvariant, NEW t \in Tasks,
         NEW p \in {<<t, "create">>, <<t, "worker">>},
         \/ SubmissionStarts(p) \/ SubmissionAccepted(p) \/ SubmissionRefused(p)
         \/ SubmissionSaved(p)
  PROVE  TurnStep
  <1>1. p[1] = t /\ p \in Procs
    <2>1. CASE p = <<t, "create">> BY <2>1, ProcRoles
    <2>2. CASE p = <<t, "worker">> BY <2>2, ProcRoles
    <2> QED BY <2>1, <2>2
  <1>2. proc[p].pc \in Submits
    BY DEF SubmissionStarts, SubmissionAccepted, SubmissionRefused, SubmissionSaved,
           At, Submits
  <1>3. row[t].status \in Active \cup {"deleted"}
    BY <1>2, OfTask DEF CreatorOK, WorkerOK, Active
  <1>4. CASE SubmissionStarts(p)
    <2>1. UpsertExisting(t, "submitting", proc[p].job) /\ "submitting" \in Active
      BY <1>1, <1>4 DEF SubmissionStarts, Active
    <2> QED BY <1>3, <2>1, WriteTurns
  <1>5. CASE SubmissionSaved(p)
    <2>1. UpsertExisting(t, proc[p].told, proc[p].job) /\ proc[p].pc = "saving"
      BY <1>1, <1>5 DEF SubmissionSaved, At
    <2>2. proc[p].told \in Active \cup Settled
      BY <1>1, <2>1 DEF SeedanceTypeOK, ProcStates, Outcome, Active
    <2> QED BY <1>3, <2>1, <2>2, WriteTurns
  <1>6. CASE SubmissionAccepted(p) \/ SubmissionRefused(p)
    <2>1. row' = row
      BY <1>6 DEF SubmissionAccepted, SubmissionRefused, rowVars
    <2> QED BY <2>1, PhaseStays, StayingTurns
  <1> QED BY <1>4, <1>5, <1>6

\* A new task is stored as submitting only if no other is pending.
LEMMA CreateTurns ==
  ASSUME SeedanceTypeOK, QueueInvariant, NEW t \in Tasks,
         CreateDecides(t) \/ DecisionStored(<<t, "create">>)
  PROVE  TurnStep
  <1>1. CASE CreateDecides(t)
    <2>1. row' = row
      BY <1>1 DEF CreateDecides, Decides, rowVars
    <2> QED BY <2>1, PhaseStays, StayingTurns
  <1>2. CASE DecisionStored(<<t, "create">>)
    <2> DEFINE p == <<t, "create">>
    <2>1. /\ proc[p].pc = "deciding" /\ Upsert(t, proc[p].told, 0)
      BY <1>2 DEF DecisionStored, At
    <2>2. /\ row[t].status = "unborn"
          /\ proc[p].told = "submitting" => PendingRows \subseteq {t}
      BY <2>1, OfTask DEF CreatorOK
    <2>3. proc[p].told \in {"queued", "submitting"}
      BY <2>1, OfTask DEF SeedanceTypeOK, ProcStates
    <2>4. /\ \A u \in Tasks \ {t} : row'[u].status = row[u].status
          /\ row'[t].status = proc[p].told
      BY <2>1, WriteEffect
    <2>5. PhaseOf(t) = "unborn"
      BY <2>2 DEF PhaseOf, Active
    <2>6. CASE proc[p].told = "queued"
      <3>1. PhaseOf(t)' = "queued"
        BY <2>4, <2>6 DEF PhaseOf, Active
      <3> QED BY <2>4, <2>5, <3>1, PhaseMoves, MovesTurn
    <2>7. CASE proc[p].told = "submitting"
      <3>1. PhaseOf(t)' = "admitted"
        BY <2>4, <2>7 DEF PhaseOf, Active
      <3>2. \A u \in Tasks : row[u].status \notin Pending
        BY <2>2, <2>7 DEF PendingRows, Pending, Active
      <3>3. \A u \in Tasks : PhaseOf(u) \notin {"queued", "admitted"}
        BY <3>2, PendingPhases
      <3> QED BY <2>4, <2>5, <3>1, <3>3, PhaseMoves, MovesTurn
    <2> QED BY <2>3, <2>6, <2>7
  <1> QED BY <1>1, <1>2

\* The worker admits a queued task with the mutex held, and no other is active.
LEMMA WorkerTurns ==
  ASSUME SeedanceTypeOK, QueueInvariant, NEW t \in Tasks,
         \/ QueueChecked(t) \/ QueuedTaskClaimed(t) \/ WorkerSaves(t)
         \/ ProviderAnswers(<<t, "worker">>) \/ ProviderErrs(<<t, "worker">>)
  PROVE  TurnStep
  <1> DEFINE p == <<t, "worker">>
  <1>1. CASE QueueChecked(t) \/ ProviderAnswers(p) \/ ProviderErrs(p)
    <2>1. row' = row
      BY <1>1 DEF QueueChecked, ProviderAnswers, ProviderErrs, rowVars
    <2> QED BY <2>1, PhaseStays, StayingTurns
  <1>2. CASE QueuedTaskClaimed(t)
    <2>1. proc[p].pc = "claiming" /\ UpsertExisting(t, "submitting", 0)
      BY <1>2 DEF QueuedTaskClaimed, At
    <2>2. /\ row[t].status \in {"queued", "deleted"}
          /\ \A u \in Tasks : row[u].status \notin Active
      BY <2>1, OfTask DEF WorkerOK
    <2>3. CASE row[t].status = "deleted"
      BY <2>1, <2>3, WriteTurns DEF Active
    <2>4. CASE row[t].status = "queued"
      <3>1. /\ \A u \in Tasks \ {t} : row'[u].status = row[u].status
            /\ row'[t].status = "submitting"
        BY <2>1, <2>4, WriteEffect DEF Exists
      <3>2. PhaseOf(t) = "queued" /\ PhaseOf(t)' = "admitted"
        BY <2>4, <3>1 DEF PhaseOf, Active
      <3>3. \A u \in Tasks : PhaseOf(u) # "admitted"
        BY <2>2, PendingPhases
      <3> QED BY <3>1, <3>2, <3>3, PhaseMoves, MovesTurn
    <2> QED BY <2>2, <2>3, <2>4
  <1>3. CASE WorkerSaves(t)
    <2>1. /\ proc[p].pc = "told"
          /\ IF proc[p].told = "error" THEN RecordError(t)
             ELSE UpsertExisting(t, proc[p].told, proc[p].job)
      BY <1>3 DEF WorkerSaves, At
    <2>2. row[t].status \in {"submitted", "deleted"}
      BY <2>1, OfTask DEF WorkerOK
    <2>3. CASE proc[p].told = "error"
      <3>1. row' = row
        BY <2>1, <2>3 DEF RecordError, rowVars
      <3> QED BY <3>1, PhaseStays, StayingTurns
    <2>4. CASE proc[p].told # "error"
      <3>1. proc[p].told \in Active \cup Settled
        BY <2>1, <2>4, OfTask DEF SeedanceTypeOK, ProcStates, Outcome, Active
      <3> QED BY <2>1, <2>2, <2>4, <3>1, WriteTurns DEF Active
    <2> QED BY <2>3, <2>4
  <1> QED BY <1>1, <1>2, <1>3

LEMMA DeleteTurns ==
  ASSUME SeedanceTypeOK, NEW t \in Tasks, Delete(t)
  PROVE  TurnStep
  <1>1. /\ row' = [row EXCEPT ![t] = [status |-> "deleted", job |-> 0]]
        /\ row[t].status \in RowStatus /\ row[t].status # "unborn"
    BY DEF Delete, Exists, SeedanceTypeOK, RowsTypeOK
  <1>2. /\ \A u \in Tasks \ {t} : row'[u].status = row[u].status
        /\ row'[t].status = "deleted"
    BY <1>1 DEF SeedanceTypeOK, RowsTypeOK
  <1>3. PhaseOf(t)' = "deleted"
    BY <1>2 DEF PhaseOf, Active
  <1>4. PhaseOf(t) \in Turns!Phases \ {"unborn"}
    BY <1>1 DEF PhaseOf, Turns!Phases, RowStatus, Pending, Active, Settled
  <1> QED BY <1>2, <1>3, <1>4, PhaseMoves, MovesTurn

LEMMA QueueTurns ==
  ASSUME Quiet, SeedanceTypeOK, QueueInvariant, [Next]_seedanceVars
  PROVE  TurnStep
  <1>1. CASE UNCHANGED seedanceVars
    <2>1. row' = row
      BY <1>1 DEF seedanceVars, rowVars
    <2> QED BY <2>1, PhaseStays, StayingTurns
  <1>2. CASE \/ \E t \in Tasks : SubmissionAges(t) \/ JobEnds(t)
             \/ \E unready \in SUBSET Tasks : WorkerLists(unready)
             \/ Restart
    <2>1. row' = row
      BY <1>2 DEF SubmissionAges, JobEnds, WorkerLists, Restart, rowVars
    <2> QED BY <2>1, PhaseStays, StayingTurns
  <1>3. CASE Next
    BY <1>2, <1>3, QuietSteps, SubmissionTurns, CreateTurns, WorkerTurns, DeleteTurns
  <1> QED BY <1>1, <1>3

\* Rows, mutex, goroutines and polls implement the queue of TakingTurns: no task
\* is submitted beside another, a new one does not pass those in the queue, and
\* nothing that is admitted returns to it.
THEOREM TurnsAreTaken ==
  ASSUME Quiet
  PROVE  Spec => ImplementsTakingTurns
  <1>1. Init => Turns!Init
    <2> SUFFICES ASSUME Init PROVE Turns!Init
      OBVIOUS
    <2>1. \A t \in Tasks : PhaseOf(t) = "unborn"
      BY DEF Init, PhaseOf, Active
    <2> QED BY <2>1 DEF Turns!Init
  <1>2. SeedanceTypeOK /\ QueueInvariant /\ [Next]_seedanceVars
          => [Turns!Next]_(Turns!vars)
    BY QueueTurns DEF TurnStep
  <1> QED
    BY <1>1, <1>2, SeedanceTypes, QueueInvariantHolds, PTL
    DEF Spec, ImplementsTakingTurns, Turns!Spec

-----------------------------------------------------------------------------
(* The jobs the user asked for.  Each row, goroutine and poll that may     *)
(* still lead to a provider job is a debt; SpendInv says that the debts    *)
(* and the jobs of a task are never more than it was asked for.            *)

Pc(t, r) == proc[<<t, r>>].pc

\* The submission of t is under way in some process.
Submitter(t) == \E r \in Roles : Pc(t, r) \in Submits

One(condition) == IF condition THEN 1 ELSE 0

\* The task has yet to be created, or waits in the queue.
Waits(t) == row[t].status \in {"unborn", "queued"} \/ Pc(t, "worker") = "claiming"

\* The submission was interrupted: the worker will start it again.
Orphaned(t) == row[t].status = "submitting" /\ ~Submitter(t)

Creates(t) == Pc(t, "create") \in {"starting", "generating"}
Retries(t) == Pc(t, "retry") \in {"reading", "deciding", "starting", "generating"}
Works(t)   == Pc(t, "worker") \in {"starting", "generating"}

Debt(t) == One(Waits(t)) + One(Orphaned(t))
             + One(Creates(t)) + One(Retries(t)) + One(Works(t))

\* Where the processes of t may be.  A row is stale only while nobody submits it,
\* or until the worker that found it has stored it again.
PlacesOK(t) ==
  /\ Pc(t, "create") \in {"idle", "deciding"} \cup Submits
  /\ Pc(t, "retry") \in {"idle", "reading", "deciding"} \cup Submits
  /\ Pc(t, "worker") \in {"idle", "queueing", "claiming", "asking", "told"} \cup Submits
  /\ Pc(t, "user") \in {"idle", "asking", "told"}
  /\ row[t].status = "unborn" =>
       Pc(t, "worker") = "idle" /\ Pc(t, "retry") = "idle" /\ Pc(t, "user") = "idle"
  /\ Pc(t, "create") = "deciding" => row[t].status = "unborn"
  /\ retries[t] = 0 => Pc(t, "retry") = "idle"
  /\ t \in stale => /\ Pc(t, "create") \notin Submits
                    /\ Pc(t, "retry") \notin Submits
                    /\ Pc(t, "worker") \notin {"generating", "saving"}

SpendOK(t) == PlacesOK(t) /\ Len(jobs[t]) + Debt(t) <= 1 + retries[t] + restarts

SpendInv == \A t \in Tasks : SpendOK(t)

\* Nothing that SpendOK says of t has changed.
Spared(t) ==
  /\ row'[t].status = row[t].status
  /\ t \in stale' => t \in stale
  /\ \A r \in Roles : proc'[<<t, r>>].pc = proc[<<t, r>>].pc
  /\ Len(jobs'[t]) = Len(jobs[t])
  /\ retries'[t] = retries[t] /\ restarts' = restarts

LEMMA SparedSpends ==
  ASSUME NEW t \in Tasks, SpendOK(t), Spared(t)
  PROVE  SpendOK(t)'
<1>1. \A r \in Roles : Pc(t, r)' = Pc(t, r)
  BY DEF Spared, Pc
<1>2. Debt(t)' = Debt(t)
  BY <1>1 DEF Spared, Debt, One, Waits, Orphaned, Creates, Retries, Works, Submitter, Roles
<1>3. PlacesOK(t)'
  BY <1>1 DEF Spared, SpendOK, PlacesOK, Roles
<1> QED BY <1>2, <1>3 DEF SpendOK, Spared

\* A step of a process, or of none, is about the task of that process.
LEMMA OnlyTask ==
  ASSUME SeedanceTypeOK, SpendInv, NEW t \in Tasks, NEW r \in Roles,
         \A q \in Procs \ {<<t, r>>} : proc'[q] = proc[q],
         \A u \in Tasks \ {t} :
           /\ row'[u].status = row[u].status
           /\ u \in stale' => u \in stale
           /\ Len(jobs'[u]) = Len(jobs[u])
           /\ retries'[u] = retries[u],
         restarts' = restarts,
         SpendOK(t)'
  PROVE  SpendInv'
<1>1. \A u \in Tasks \ {t} : \A x \in Roles : <<u, x>> \in Procs \ {<<t, r>>}
  BY DEF Procs
<1>2. \A u \in Tasks \ {t} : Spared(u)
  BY <1>1 DEF Spared
<1> QED BY <1>2, SparedSpends DEF SpendInv

\* The amounts that SpendOK adds up, for the provers.
LEMMA SpendFacts ==
  ASSUME SeedanceTypeOK, SpendInv, NEW t \in Tasks
  PROVE  /\ PlacesOK(t) /\ Len(jobs[t]) + Debt(t) <= 1 + retries[t] + restarts
         /\ Len(jobs[t]) \in Nat /\ retries[t] \in 0..1 /\ restarts \in Nat
         /\ Debt(t) \in Nat
         /\ row[t].status \in RowStatus
<1>1. Len(jobs[t]) \in Nat
  BY JobLengths, QueueAssumption
<1>2. retries[t] \in 0..1 /\ restarts \in Nat /\ row[t].status \in RowStatus
  BY QueueAssumption DEF SeedanceTypeOK, RowsTypeOK
<1>3. Debt(t) \in Nat
  BY DEF Debt, One
<1> QED BY <1>1, <1>2, <1>3 DEF SpendInv, SpendOK

\* A step that raises neither the jobs nor the debts of a task, or that exchanges
\* a debt for a job, is paid for.
LEMMA PaidFor ==
  ASSUME SeedanceTypeOK, SpendInv, NEW t \in Tasks,
         Len(jobs'[t]) \in Nat, retries'[t] = retries[t], restarts' = restarts,
         Len(jobs'[t]) + Debt(t)' <= Len(jobs[t]) + Debt(t),
         PlacesOK(t)'
  PROVE  SpendOK(t)'
<1>1. Debt(t)' \in Nat
  BY DEF Debt, One
<1>2. Len(jobs'[t]) + Debt(t)' <= 1 + retries'[t] + restarts'
  <2>1. PICK spent \in Nat : spent = Len(jobs'[t]) + Debt(t)'
    BY <1>1
  <2>2. PICK before \in Nat : before = Len(jobs[t]) + Debt(t)
    BY SpendFacts
  <2>3. PICK paid \in Nat : paid = 1 + retries[t] + restarts
    BY SpendFacts
  <2>4. spent <= before /\ before <= paid
    BY <2>1, <2>2, <2>3, SpendFacts
  <2>5. spent <= paid
    BY ONLY <2>4, spent \in Nat, before \in Nat, paid \in Nat
  <2> QED BY <2>1, <2>3, <2>5
<1> QED BY <1>2 DEF SpendOK

\* The steps of a submission, whoever makes it: it is due from when it starts, and
\* becomes a job when the provider accepts it.
LEMMA SubmissionSpends ==
  ASSUME SeedanceTypeOK, SpendInv, NEW t \in Tasks, NEW r \in Roles,
         LET p == <<t, r>> IN
           \/ SubmissionStarts(p) \/ SubmissionAccepted(p)
           \/ SubmissionRefused(p) \/ SubmissionSaved(p)
  PROVE  SpendInv'
<1> DEFINE p == <<t, r>>
<1>0. p \in Procs /\ p[1] = t
  BY DEF Procs
<1>a. /\ PlacesOK(t) /\ Len(jobs[t]) \in Nat /\ row[t].status \in RowStatus
      /\ Debt(t) \in Nat
  BY SpendFacts
<1>b. \A x \in Roles \ {r} : <<t, x>> \in Procs \ {p}
  BY DEF Procs
<1>c. Debt(t)' \in Nat
  BY DEF Debt, One
<1>d. Pc(t, r) \in Submits => r \in {"create", "retry", "worker"}
  BY <1>a DEF PlacesOK, Roles, Submits
<1>1. CASE SubmissionStarts(p)
  <2>1. /\ proc[p].pc = "starting"
        /\ \A q \in Procs \ {p} : proc'[q] = proc[q]
        /\ IF Exists(t) THEN proc'[p].pc = "generating" ELSE proc'[p].pc = "idle"
    BY <1>1, <1>0, MoveEffect, EndEffect DEF SubmissionStarts, At
  <2>2. /\ \A u \in Tasks \ {t} : row'[u].status = row[u].status
        /\ Exists(t) => row'[t].status = "submitting" /\ stale' = stale \ {t}
        /\ ~Exists(t) => row' = row /\ stale' = stale
    BY <1>1, <1>0, WriteEffect DEF SubmissionStarts, UpsertExisting, rowVars
  <2>3. \A u \in Tasks \ {t} : u \in stale' => u \in stale
    BY <2>2
  <2>4. UNCHANGED <<jobs, retries, restarts>>
    BY <1>1 DEF SubmissionStarts
  <2>5. /\ Pc(t, r) = "starting" /\ Pc(t, r)' \in {"generating", "idle"}
        /\ \A x \in Roles \ {r} : Pc(t, x)' = Pc(t, x)
        /\ Exists(t) => Pc(t, r)' = "generating"
    BY <1>b, <2>1 DEF Pc
  <2>a. t \notin stale'
    BY <2>2 DEF SeedanceTypeOK, RowsTypeOK, Exists
  <2>6. PlacesOK(t)'
    BY <1>a, <1>d, <2>2, <2>4, <2>5, <2>a DEF PlacesOK, Roles, Submits, Exists
  <2>7. Debt(t)' <= Debt(t)
    BY <1>a, <2>2, <2>5
       DEF PlacesOK, Debt, One, Waits, Orphaned, Creates, Retries, Works, Submitter,
           Roles, Submits, Exists
  <2>8. SpendOK(t)'
    BY <1>a, <1>c, <2>4, <2>6, <2>7, PaidFor
  <2> QED BY <2>1, <2>2, <2>3, <2>4, <2>8, OnlyTask
<1>2. CASE SubmissionAccepted(p)
  <2>1. PICK state \in {"running"} \cup Settled :
          /\ jobs' = [jobs EXCEPT ![t] = Append(@, state)]
          /\ Goes(p, "saving", Len(jobs[t]) + 1,
                  IF state = "running" THEN "submitted" ELSE state)
    BY <1>2, <1>0 DEF SubmissionAccepted
  <2>2. /\ proc[p].pc = "generating" /\ proc'[p].pc = "saving"
        /\ \A q \in Procs \ {p} : proc'[q] = proc[q]
    BY <1>2, <1>0, <2>1, MoveEffect DEF SubmissionAccepted, At
  <2>3. /\ jobs \in [Tasks -> Seq({"running"} \cup Settled)]
        /\ jobs[t] \in Seq({"running"} \cup Settled)
    BY DEF SeedanceTypeOK
  <2>4. Len(jobs'[t]) = Len(jobs[t]) + 1 /\ \A u \in Tasks \ {t} : jobs'[u] = jobs[u]
    <3>1. Len(Append(jobs[t], state)) = Len(jobs[t]) + 1
      BY <2>3, Appended
    <3>2. jobs'[t] = Append(jobs[t], state) /\ \A u \in Tasks \ {t} : jobs'[u] = jobs[u]
      BY <2>1, <2>3
    <3> QED BY <3>1, <3>2
  <2>5. UNCHANGED <<row, stale, retries, restarts>>
    BY <1>2 DEF SubmissionAccepted, rowVars
  <2>6. /\ Pc(t, r) = "generating" /\ Pc(t, r)' = "saving"
        /\ \A x \in Roles \ {r} : Pc(t, x)' = Pc(t, x)
    BY <1>b, <2>2 DEF Pc
  <2>7. PlacesOK(t)'
    BY <1>a, <1>d, <2>5, <2>6 DEF PlacesOK, Roles, Submits
  <2>8. Debt(t)' + 1 <= Debt(t)
    BY <1>a, <1>d, <2>5, <2>6
       DEF PlacesOK, Debt, One, Waits, Orphaned, Creates, Retries, Works, Submitter,
           Roles, Submits
  <2>9. SpendOK(t)'
    BY <1>a, <1>c, <2>4, <2>5, <2>7, <2>8, PaidFor
  <2> QED BY <2>2, <2>4, <2>5, <2>9, OnlyTask
<1>3. CASE SubmissionRefused(p)
  <2>1. /\ proc[p].pc = "generating" /\ proc'[p].pc = "saving"
        /\ \A q \in Procs \ {p} : proc'[q] = proc[q]
    BY <1>3, <1>0, MoveEffect DEF SubmissionRefused, At
  <2>2. UNCHANGED <<row, stale, jobs, retries, restarts>>
    BY <1>3 DEF SubmissionRefused, rowVars
  <2>3. /\ Pc(t, r) = "generating" /\ Pc(t, r)' = "saving"
        /\ \A x \in Roles \ {r} : Pc(t, x)' = Pc(t, x)
    BY <1>b, <2>1 DEF Pc
  <2>4. PlacesOK(t)'
    BY <1>a, <1>d, <2>2, <2>3 DEF PlacesOK, Roles, Submits
  <2>5. Debt(t)' <= Debt(t)
    BY <1>a, <1>d, <2>2, <2>3
       DEF PlacesOK, Debt, One, Waits, Orphaned, Creates, Retries, Works, Submitter,
           Roles, Submits
  <2>6. SpendOK(t)'
    BY <1>a, <1>c, <2>2, <2>4, <2>5, PaidFor
  <2> QED BY <2>1, <2>2, <2>6, OnlyTask
<1>4. CASE SubmissionSaved(p)
  <2>1. /\ proc[p].pc = "saving" /\ proc'[p].pc = "idle"
        /\ \A q \in Procs \ {p} : proc'[q] = proc[q]
    BY <1>4, <1>0, EndEffect DEF SubmissionSaved, At
  <2>2. proc[p].told \in Outcome
    BY <1>0, <2>1, ProcFields
  <2>3. /\ \A u \in Tasks \ {t} : row'[u].status = row[u].status
        /\ Exists(t) => row'[t].status = proc[p].told /\ stale' = stale \ {t}
        /\ ~Exists(t) => row' = row /\ stale' = stale
    BY <1>4, <1>0, WriteEffect DEF SubmissionSaved, UpsertExisting, rowVars
  <2>4. UNCHANGED <<jobs, retries, restarts>> /\ \A u \in Tasks : u \in stale' => u \in stale
    BY <1>4, <2>3 DEF SubmissionSaved
  <2>5. /\ Pc(t, r) = "saving" /\ Pc(t, r)' = "idle"
        /\ \A x \in Roles \ {r} : Pc(t, x)' = Pc(t, x)
    BY <1>b, <2>1 DEF Pc
  <2>6. PlacesOK(t)'
    BY <1>a, <1>d, <2>2, <2>3, <2>4, <2>5 DEF PlacesOK, Roles, Submits, Exists, Outcome, Settled
  <2>7. Debt(t)' <= Debt(t)
    BY <1>a, <1>d, <2>2, <2>3, <2>5
       DEF PlacesOK, Debt, One, Waits, Orphaned, Creates, Retries, Works, Submitter,
           Roles, Submits, Exists, Outcome, Settled
  <2>8. SpendOK(t)'
    BY <1>a, <1>c, <2>4, <2>6, <2>7, PaidFor
  <2> QED BY <2>1, <2>3, <2>4, <2>8, OnlyTask
<1> QED BY <1>1, <1>2, <1>3, <1>4

\* The decision: a request waits from when it is made, and a retry is due from
\* when the user asked for it.
LEMMA DecisionSpends ==
  ASSUME SeedanceTypeOK, SpendInv, NEW t \in Tasks, NEW r \in {"create", "retry"},
         LET p == <<t, r>> IN
           \/ r = "create" /\ CreateDecides(t)
           \/ r = "retry" /\ RetryDecides(t)
           \/ DecisionStored(p)
  PROVE  SpendInv'
<1> DEFINE p == <<t, r>>
<1>0. p \in Procs /\ p[1] = t /\ r \in Roles
  BY DEF Procs, Roles
<1>a. /\ PlacesOK(t) /\ Len(jobs[t]) \in Nat /\ row[t].status \in RowStatus
      /\ Debt(t) \in Nat /\ Debt(t)' \in Nat
  <2>1. Debt(t)' \in Nat
    BY DEF Debt, One
  <2> QED BY <2>1, SpendFacts
<1>b. \A x \in Roles \ {r} : <<t, x>> \in Procs \ {p}
  BY DEF Procs
<1>1. CASE DecisionStored(p)
  <2>1. /\ proc[p].pc = "deciding" /\ proc[p].told \in {"queued", "submitting"}
        /\ \A q \in Procs \ {p} : proc'[q] = proc[q]
        /\ proc'[p].pc = IF proc[p].told = "queued" THEN "idle" ELSE "starting"
    BY <1>1, <1>0, ProcFields, MoveEffect, EndEffect DEF DecisionStored, At
  <2>2. /\ \A u \in Tasks \ {t} : row'[u].status = row[u].status
        /\ row'[t].status = proc[p].told /\ stale' = stale \ {t}
    BY <1>1, <1>0, WriteEffect DEF DecisionStored
  <2>3. UNCHANGED <<jobs, retries, restarts>>
    BY <1>1 DEF DecisionStored
  <2>4. /\ Pc(t, r) = "deciding"
        /\ Pc(t, r)' = IF proc[p].told = "queued" THEN "idle" ELSE "starting"
        /\ \A x \in Roles \ {r} : Pc(t, x)' = Pc(t, x)
    BY <1>b, <2>1 DEF Pc
  <2>a. t \notin stale' /\ \A u \in Tasks \ {t} : u \in stale' => u \in stale
    BY <2>2
  <2>5. PlacesOK(t)'
    BY <1>a, <2>1, <2>2, <2>3, <2>4, <2>a DEF PlacesOK, Roles, Submits
  <2>6. Debt(t)' <= Debt(t)
    BY <1>a, <2>1, <2>2, <2>4
       DEF PlacesOK, Debt, One, Waits, Orphaned, Creates, Retries, Works, Submitter,
           Roles, Submits
  <2>7. SpendOK(t)'
    BY <1>a, <2>3, <2>5, <2>6, PaidFor
  <2> QED BY <1>0, <2>1, <2>2, <2>3, <2>a, <2>7, OnlyTask
<1>2. CASE (r = "create" /\ CreateDecides(t)) \/ (r = "retry" /\ RetryDecides(t))
  <2>1. /\ Decides(p)
        /\ r = "create" => row[t].status = "unborn" /\ proc[p].pc = "idle"
        /\ r = "retry" => proc[p].pc = "reading"
    BY <1>2 DEF CreateDecides, RetryDecides, At
  <2>2. proc'[p].pc = "deciding" /\ \A q \in Procs \ {p} : proc'[q] = proc[q]
    BY <1>0, <2>1, MoveEffect DEF Decides
  <2>3. UNCHANGED <<row, stale, jobs, retries, restarts>>
    BY <1>2 DEF CreateDecides, RetryDecides, Decides, rowVars
  <2>4. /\ Pc(t, r)' = "deciding" /\ Pc(t, r) = proc[p].pc
        /\ \A x \in Roles \ {r} : Pc(t, x)' = Pc(t, x)
    BY <1>b, <2>2 DEF Pc
  <2>5. PlacesOK(t)'
    BY <1>a, <2>1, <2>3, <2>4 DEF PlacesOK, Roles, Submits
  <2>6. Debt(t)' <= Debt(t)
    BY <1>a, <2>1, <2>3, <2>4
       DEF Debt, One, Waits, Orphaned, Creates, Retries, Works, Submitter, Roles, Submits
  <2>7. SpendOK(t)'
    BY <1>a, <2>3, <2>5, <2>6, PaidFor
  <2> QED BY <1>0, <2>2, <2>3, <2>7, OnlyTask
<1> QED BY <1>1, <1>2

\* The user's request for a retry, at most one for each task, is a debt of its own.
LEMMA RetrySpends ==
  ASSUME SeedanceTypeOK, SpendInv, NEW t \in Tasks, RetryReads(t)
  PROVE  SpendInv'
<1> DEFINE p == <<t, "retry">>
<1>0. p \in Procs /\ p[1] = t
  BY DEF Procs, Roles
<1>a. /\ PlacesOK(t) /\ Len(jobs[t]) \in Nat /\ retries[t] = 0 /\ restarts \in Nat
      /\ Len(jobs[t]) + Debt(t) <= 1 + retries[t] + restarts
      /\ Debt(t) \in Nat /\ Debt(t)' \in Nat
  <2>1. Debt(t)' \in Nat
    BY DEF Debt, One
  <2> QED BY <2>1, SpendFacts DEF RetryReads
<1>b. \A x \in Roles \ {"retry"} : <<t, x>> \in Procs \ {p}
  BY DEF Procs
<1>1. /\ proc'[p].pc = "reading" /\ \A q \in Procs \ {p} : proc'[q] = proc[q]
      /\ row[t].status # "unborn"
  BY <1>0, MoveEffect DEF RetryReads, Exists
<1>2. /\ UNCHANGED <<row, stale, jobs, restarts>>
      /\ retries'[t] = 1 /\ \A u \in Tasks \ {t} : retries'[u] = retries[u]
  BY <1>a DEF RetryReads, rowVars, SeedanceTypeOK
<1>3. /\ Pc(t, "retry") = "idle" /\ Pc(t, "retry")' = "reading"
      /\ \A x \in Roles \ {"retry"} : Pc(t, x)' = Pc(t, x)
  BY <1>a, <1>b, <1>1 DEF Pc, PlacesOK
<1>4. PlacesOK(t)'
  BY <1>a, <1>1, <1>2, <1>3 DEF PlacesOK, Roles, Submits
<1>5. Debt(t)' <= Debt(t) + 1
  BY <1>2, <1>3
     DEF Debt, One, Waits, Orphaned, Creates, Retries, Works, Submitter, Roles, Submits
<1>6. SpendOK(t)'
  BY <1>a, <1>2, <1>4, <1>5 DEF SpendOK
<1> QED BY <1>0, <1>1, <1>2, <1>6, OnlyTask DEF Roles

\* A queued task that is claimed is due as the submission that follows.
LEMMA ClaimSpends ==
  ASSUME SeedanceTypeOK, SpendInv, NEW t \in Tasks, QueueChecked(t) \/ QueuedTaskClaimed(t)
  PROVE  SpendInv'
<1> DEFINE p == <<t, "worker">>
<1>0. p \in Procs /\ p[1] = t /\ "worker" \in Roles
  BY DEF Procs, Roles
<1>a. /\ PlacesOK(t) /\ Len(jobs[t]) \in Nat /\ Debt(t) \in Nat /\ Debt(t)' \in Nat
  <2>1. Debt(t)' \in Nat
    BY DEF Debt, One
  <2> QED BY <2>1, SpendFacts
<1>b. \A x \in Roles \ {"worker"} : <<t, x>> \in Procs \ {p}
  BY DEF Procs
<1>1. CASE QueueChecked(t)
  <2>1. /\ proc[p].pc = "queueing" /\ \A q \in Procs \ {p} : proc'[q] = proc[q]
        /\ \/ proc'[p].pc = "idle"
           \/ proc'[p].pc = "claiming" /\ row[t].status = "queued"
    BY <1>1, <1>0, MoveEffect, EndEffect DEF QueueChecked, At, CanSubmit, Oldest
  <2>2. UNCHANGED <<row, stale, jobs, retries, restarts>>
    BY <1>1 DEF QueueChecked, rowVars
  <2>3. /\ Pc(t, "worker") = "queueing"
        /\ \/ Pc(t, "worker")' = "idle"
           \/ Pc(t, "worker")' = "claiming" /\ row[t].status = "queued"
        /\ \A x \in Roles \ {"worker"} : Pc(t, x)' = Pc(t, x)
    BY <1>b, <2>1 DEF Pc
  <2>4. PlacesOK(t)'
    BY <1>a, <2>2, <2>3 DEF PlacesOK, Roles, Submits
  <2>5. Debt(t)' <= Debt(t)
    BY <2>2, <2>3
       DEF Debt, One, Waits, Orphaned, Creates, Retries, Works, Submitter, Roles, Submits
  <2>6. SpendOK(t)'
    BY <1>a, <2>2, <2>4, <2>5, PaidFor
  <2> QED BY <1>0, <2>1, <2>2, <2>6, OnlyTask
<1>2. CASE QueuedTaskClaimed(t)
  <2>1. /\ proc[p].pc = "claiming" /\ \A q \in Procs \ {p} : proc'[q] = proc[q]
        /\ IF Exists(t) THEN proc'[p].pc = "starting" ELSE proc'[p].pc = "idle"
    BY <1>2, <1>0, MoveEffect, EndEffect DEF QueuedTaskClaimed, At
  <2>2. /\ \A u \in Tasks \ {t} : row'[u].status = row[u].status
        /\ Exists(t) => row'[t].status = "submitting" /\ stale' = stale \ {t}
        /\ ~Exists(t) => row' = row /\ stale' = stale
    BY <1>2, <1>0, WriteEffect DEF QueuedTaskClaimed, UpsertExisting, rowVars
  <2>3. UNCHANGED <<jobs, retries, restarts>> /\ \A u \in Tasks : u \in stale' => u \in stale
    BY <1>2, <2>2 DEF QueuedTaskClaimed
  <2>4. /\ Pc(t, "worker") = "claiming"
        /\ IF Exists(t) THEN Pc(t, "worker")' = "starting" ELSE Pc(t, "worker")' = "idle"
        /\ \A x \in Roles \ {"worker"} : Pc(t, x)' = Pc(t, x)
    BY <1>b, <2>1 DEF Pc
  <2>5. PlacesOK(t)'
    BY <1>a, <2>2, <2>3, <2>4 DEF PlacesOK, Roles, Submits, Exists
  <2>6. Debt(t)' <= Debt(t)
    BY <2>2, <2>4
       DEF Debt, One, Waits, Orphaned, Creates, Retries, Works, Submitter, Roles, Submits, Exists
  <2>7. SpendOK(t)'
    BY <1>a, <2>3, <2>5, <2>6, PaidFor
  <2> QED BY <1>0, <2>1, <2>2, <2>3, <2>7, OnlyTask
<1> QED BY <1>1, <1>2

\* A poll never makes a submission due: what it stores is submitted or settled.
LEMMA PollSpends ==
  ASSUME SeedanceTypeOK, SpendInv, NEW t \in Tasks, NEW r \in Roles,
         LET p == <<t, r>> IN
           \/ ProviderAnswers(p) \/ ProviderErrs(p)
           \/ r = "worker" /\ WorkerSaves(t)
           \/ r = "user" /\ (UserReads(t) \/ UserSaves(t))
  PROVE  SpendInv'
<1> DEFINE p == <<t, r>>
<1>0. p \in Procs /\ p[1] = t
  BY DEF Procs
<1>a. /\ PlacesOK(t) /\ Len(jobs[t]) \in Nat /\ row[t].status \in RowStatus
      /\ Debt(t) \in Nat /\ Debt(t)' \in Nat
  <2>1. Debt(t)' \in Nat
    BY DEF Debt, One
  <2> QED BY <2>1, SpendFacts
<1>b. \A x \in Roles \ {r} : <<t, x>> \in Procs \ {p}
  BY DEF Procs
<1>1. CASE ProviderAnswers(p) \/ ProviderErrs(p) \/ (r = "user" /\ UserReads(t))
  <2>1. /\ \A q \in Procs \ {p} : proc'[q] = proc[q]
        /\ \/ proc[p].pc = "asking" /\ proc'[p].pc = "told"
           \/ r = "user" /\ Exists(t) /\ proc[p].pc = "idle" /\ proc'[p].pc = "asking"
    BY <1>1, <1>0, MoveEffect DEF ProviderAnswers, ProviderErrs, UserReads, At
  <2>2. UNCHANGED <<row, stale, jobs, retries, restarts>>
    BY <1>1 DEF ProviderAnswers, ProviderErrs, UserReads, rowVars
  <2>3. /\ \A x \in Roles \ {r} : Pc(t, x)' = Pc(t, x)
        /\ \/ Pc(t, r) = "asking" /\ Pc(t, r)' = "told"
           \/ /\ r = "user" /\ row[t].status # "unborn"
              /\ Pc(t, r) = "idle" /\ Pc(t, r)' = "asking"
    BY <1>b, <2>1 DEF Pc, Exists
  <2>4. r \in {"worker", "user"}
    BY <1>a, <2>3 DEF PlacesOK, Roles, Submits
  <2>5. PlacesOK(t)'
    BY <1>a, <2>2, <2>3, <2>4 DEF PlacesOK, Roles, Submits
  <2>6. Debt(t)' <= Debt(t)
    BY <1>a, <2>2, <2>3, <2>4
       DEF Debt, One, Waits, Orphaned, Creates, Retries, Works, Submitter, Roles, Submits
  <2>7. SpendOK(t)'
    BY <1>a, <2>2, <2>5, <2>6, PaidFor
  <2> QED BY <1>0, <2>1, <2>2, <2>7, OnlyTask
<1>2. CASE (r = "worker" /\ WorkerSaves(t)) \/ (r = "user" /\ UserSaves(t))
  <2>1. /\ proc[p].pc = "told" /\ proc'[p].pc = "idle"
        /\ \A q \in Procs \ {p} : proc'[q] = proc[q]
    BY <1>2, <1>0, EndEffect DEF WorkerSaves, UserSaves, At
  <2>2. proc[p].told \in Outcome \cup {"error"}
    BY <1>0, <2>1, ProcFields
  <2>3. \/ Upsert(t, proc[p].told, proc[p].job) /\ proc[p].told \in Outcome
        \/ UpsertExisting(t, proc[p].told, proc[p].job) /\ proc[p].told \in Outcome
        \/ RecordError(t)
        \/ UNCHANGED rowVars
    BY <1>2, <2>2 DEF WorkerSaves, UserSaves
  <2>4. /\ \A u \in Tasks \ {t} : row'[u].status = row[u].status
        /\ row'[t].status = row[t].status \/ row'[t].status \in Outcome
        /\ \A u \in Tasks : u \in stale' => u \in stale
    <3>1. CASE RecordError(t)
      BY <3>1 DEF RecordError, Touched, rowVars
    <3>2. CASE UNCHANGED rowVars
      BY <3>2 DEF rowVars
    <3>3. CASE ~RecordError(t) /\ ~UNCHANGED rowVars
      BY <1>0, <2>3, <3>3, WriteEffect
    <3> QED BY <3>1, <3>2, <3>3
  <2>5. UNCHANGED <<jobs, retries, restarts>>
    BY <1>2 DEF WorkerSaves, UserSaves
  <2>6. /\ Pc(t, r) = "told" /\ Pc(t, r)' = "idle" /\ r \in {"worker", "user"}
        /\ \A x \in Roles \ {r} : Pc(t, x)' = Pc(t, x)
    BY <1>2, <1>b, <2>1 DEF Pc
  <2>7. PlacesOK(t)'
    BY <1>a, <2>4, <2>5, <2>6 DEF PlacesOK, Roles, Submits, Outcome, Settled
  <2>8. Debt(t)' <= Debt(t)
    BY <1>a, <2>4, <2>6
       DEF Debt, One, Waits, Orphaned, Creates, Retries, Works, Submitter, Roles, Submits,
           Outcome, Settled
  <2>9. SpendOK(t)'
    BY <1>a, <2>5, <2>7, <2>8, PaidFor
  <2> QED BY <1>0, <2>1, <2>4, <2>5, <2>9, OnlyTask
<1> QED BY <1>1, <1>2

\* The lengths of the sequences, when one job ends.
LEMMA JobEndsLengths ==
  ASSUME SeedanceTypeOK, NEW t \in Tasks, JobEnds(t)
  PROVE  \A u \in Tasks : Len(jobs'[u]) = Len(jobs[u])
<1>1. PICK n \in 1..Len(jobs[t]), verdict \in Settled :
        jobs' = [jobs EXCEPT ![t][n] = verdict]
  BY DEF JobEnds
<1> DEFINE ended == [jobs[t] EXCEPT ![n] = verdict]
<1>2. /\ jobs \in [Tasks -> Seq({"running"} \cup Settled)]
      /\ jobs[t] \in Seq({"running"} \cup Settled)
  BY DEF SeedanceTypeOK
<1>3. Len(ended) = Len(jobs[t])
  BY <1>1, <1>2
<1>4. jobs'[t] = ended /\ \A u \in Tasks \ {t} : jobs'[u] = jobs[u]
  BY <1>1, <1>2
<1> HIDE DEF ended
<1> QED BY <1>3, <1>4

\* Time, deletions and the provider.  A row ages only while nobody submits it.
LEMMA OutsideSpends ==
  ASSUME ~SlowSubmissions, SeedanceTypeOK, SpendInv, NEW t \in Tasks,
         Delete(t) \/ SubmissionAges(t) \/ JobEnds(t)
  PROVE  SpendInv'
<1>a. /\ PlacesOK(t) /\ Len(jobs[t]) \in Nat /\ Debt(t) \in Nat /\ Debt(t)' \in Nat
  <2>1. Debt(t)' \in Nat
    BY DEF Debt, One
  <2> QED BY <2>1, SpendFacts
<1>b. /\ proc' = proc /\ UNCHANGED <<retries, restarts>>
      /\ \A u \in Tasks : Len(jobs'[u]) = Len(jobs[u])
  BY JobEndsLengths DEF Delete, SubmissionAges, JobEnds
<1>c. \A r \in Roles : Pc(t, r)' = Pc(t, r)
  BY <1>b DEF Pc
<1>1. /\ \A u \in Tasks \ {t} : row'[u].status = row[u].status /\ (u \in stale' => u \in stale)
      /\ \/ row'[t].status = row[t].status
         \/ row[t].status # "unborn" /\ row'[t].status = "deleted"
      /\ t \in stale' => t \in stale \/ \A r \in Roles : Pc(t, r) \notin Submits
  <2>1. CASE Delete(t)
    BY <2>1 DEF Delete, Exists, Touched, SeedanceTypeOK, RowsTypeOK
  <2>2. CASE SubmissionAges(t)
    BY <2>2 DEF SubmissionAges, Pc
  <2>3. CASE JobEnds(t)
    BY <2>3 DEF JobEnds, rowVars
  <2> QED BY <2>1, <2>2, <2>3
<1>2. PlacesOK(t)'
  <2>1. t \in stale' => /\ Pc(t, "create") \notin Submits
                        /\ Pc(t, "retry") \notin Submits
                        /\ Pc(t, "worker") \notin {"generating", "saving"}
    BY <1>a, <1>1 DEF PlacesOK, Roles, Submits
  <2>2. /\ Pc(t, "create")' = Pc(t, "create") /\ Pc(t, "retry")' = Pc(t, "retry")
        /\ Pc(t, "worker")' = Pc(t, "worker") /\ Pc(t, "user")' = Pc(t, "user")
    BY <1>c DEF Roles
  <2>3. Pc(t, "create") = "deciding" => row'[t].status = "unborn"
    BY <1>a, <1>1 DEF PlacesOK
  <2> QED BY <1>a, <1>b, <1>1, <2>1, <2>2, <2>3 DEF PlacesOK
<1>3. Debt(t)' <= Debt(t)
  BY <1>c, <1>1
     DEF Debt, One, Waits, Orphaned, Creates, Retries, Works, Submitter, Roles, Submits
<1>4. SpendOK(t)'
  BY <1>a, <1>b, <1>2, <1>3, PaidFor
<1>5. "user" \in Roles
  BY DEF Roles
<1> QED BY <1>b, <1>1, <1>4, <1>5, OnlyTask

\* A worker round.  A row that it submits again is an orphan: nobody else is
\* submitting it, as it would not be stale.
LEMMA ListSpends ==
  ASSUME SeedanceTypeOK, SpendInv, NEW unready \in SUBSET Tasks, WorkerLists(unready)
  PROVE  SpendInv'
<1> SUFFICES ASSUME NEW t \in Tasks
             PROVE  SpendOK(t)'
  BY DEF SpendInv
<1>a. /\ PlacesOK(t) /\ Len(jobs[t]) \in Nat /\ Debt(t) \in Nat /\ Debt(t)' \in Nat
  <2>1. Debt(t)' \in Nat
    BY DEF Debt, One
  <2> QED BY <2>1, SpendFacts
<1>1. UNCHANGED <<row, stale, jobs, retries, restarts>> /\ Pc(t, "worker") = "idle"
  BY DEF WorkerLists, rowVars, At, Pc
<1>2. \A r \in Roles \ {"worker"} : Pc(t, r)' = Pc(t, r)
  <2>1. \A r \in Roles : <<t, r>> \in Procs
    BY DEF Procs
  <2> QED BY <2>1 DEF WorkerLists, Pc
<1>3. \/ Pc(t, "worker")' = "idle"
      \/ t \in ListPending /\ Pc(t, "worker")' = PollBegins(t).pc
  <2>1. <<t, "worker">> \in Procs
    BY DEF Procs, Roles
  <2>2. \/ proc'[<<t, "worker">>] = proc[<<t, "worker">>]
        \/ t \in ListPending /\ proc'[<<t, "worker">>] = PollBegins(t)
    BY <2>1 DEF WorkerLists
  <2> QED BY <1>1, <2>2 DEF Pc
<1>4. t \in ListPending => /\ row[t].status \in Pending
                           /\ row[t].status = "submitting" => t \in stale
  BY DEF ListPending, Oldest, PendingRows
<1>5. \/ Pc(t, "worker")' \in {"idle", "queueing", "asking"} /\
         (Pc(t, "worker")' # "idle" => row[t].status \in Pending)
      \/ /\ Pc(t, "worker")' = "starting"
         /\ row[t].status = "submitting" /\ t \in stale
  BY <1>3, <1>4 DEF PollBegins, Idle
<1>6. PlacesOK(t)'
  BY <1>a, <1>1, <1>2, <1>5 DEF PlacesOK, Roles, Submits, Pending, Active
<1>7. Debt(t)' <= Debt(t)
  BY <1>a, <1>1, <1>2, <1>5
     DEF PlacesOK, Debt, One, Waits, Orphaned, Creates, Retries, Works, Submitter,
         Roles, Submits
<1> QED BY <1>a, <1>1, <1>6, <1>7, PaidFor

\* After a restart a task waits or is an orphan, and not both: it is due once.
LEMMA RestartSpends ==
  ASSUME SeedanceTypeOK, SpendInv, Restart
  PROVE  SpendInv'
<1> SUFFICES ASSUME NEW t \in Tasks
             PROVE  SpendOK(t)'
  BY DEF SpendInv
<1>a. /\ Len(jobs[t]) + Debt(t) <= 1 + retries[t] + restarts
      /\ Len(jobs[t]) \in Nat /\ retries[t] \in 0..1 /\ restarts \in Nat
      /\ Debt(t) \in Nat /\ Debt(t)' \in Nat
  <2>1. Debt(t)' \in Nat
    BY DEF Debt, One
  <2> QED BY <2>1, SpendFacts
<1>1. /\ \A r \in Roles : Pc(t, r)' = "idle"
      /\ UNCHANGED <<row, jobs, retries>> /\ restarts' = restarts + 1
  BY DEF Restart, rowVars, Procs, Pc, Idle
<1>2. PlacesOK(t)'
  BY <1>1 DEF PlacesOK, Roles, Submits
<1>3. Debt(t)' <= 1
  BY <1>1
     DEF Debt, One, Waits, Orphaned, Creates, Retries, Works, Submitter, Roles, Submits
<1> QED BY <1>a, <1>1, <1>2, <1>3 DEF SpendOK

LEMMA SpendInit == Init => SpendInv
<1> SUFFICES ASSUME Init, NEW t \in Tasks
             PROVE  SpendOK(t)
  BY DEF SpendInv
<1>1. /\ \A r \in Roles : Pc(t, r) = "idle"
      /\ row[t].status = "unborn" /\ Len(jobs[t]) = 0 /\ retries[t] = 0 /\ restarts = 0
      /\ t \notin stale
  BY DEF Init, Procs, Pc, Idle
<1>2. PlacesOK(t)
  BY <1>1 DEF PlacesOK, Roles, Submits
<1>3. Debt(t) = 1
  BY <1>1
     DEF Debt, One, Waits, Orphaned, Creates, Retries, Works, Submitter, Roles, Submits
<1> QED BY <1>1, <1>2, <1>3 DEF SpendOK

LEMMA SpendStep ==
  ASSUME ~SlowSubmissions, SeedanceTypeOK, SpendInv, [Next]_seedanceVars
  PROVE  SpendInv'
<1>1. CASE UNCHANGED seedanceVars
  BY <1>1, SparedSpends DEF seedanceVars, rowVars, SpendInv, Spared
<1>2. ASSUME NEW p \in Procs, ProcStep(p)
      PROVE  SpendInv'
  <2>1. PICK t \in Tasks, r \in Roles : p = <<t, r>>
    BY DEF Procs
  <2>2. CASE DecisionStored(p)
    <3>1. Pc(t, r) = "deciding"
      BY <2>1, <2>2 DEF DecisionStored, At, Pc
    <3>2. r \in {"create", "retry"}
      BY <3>1, SpendFacts DEF PlacesOK, Roles, Submits
    <3> QED BY <2>1, <2>2, <3>2, DecisionSpends
  <2>3. CASE ~DecisionStored(p)
    BY <1>2, <2>1, <2>3, SubmissionSpends, PollSpends DEF ProcStep
  <2> QED BY <2>2, <2>3
<1>3. ASSUME NEW t \in Tasks, TaskStep(t)
      PROVE  SpendInv'
  <2>1. "worker" \in Roles /\ "user" \in Roles
    BY DEF Roles
  <2>2. CASE QueueChecked(t) \/ QueuedTaskClaimed(t)
    BY <2>2, ClaimSpends
  <2>3. CASE RetryDecides(t)
    BY <2>3, DecisionSpends
  <2>4. CASE WorkerSaves(t)
    BY <2>1, <2>4, PollSpends
  <2>5. CASE UserSaves(t)
    BY <2>1, <2>5, PollSpends
  <2> QED BY <1>3, <2>2, <2>3, <2>4, <2>5 DEF TaskStep
<1>4. ASSUME NEW t \in Tasks, CreateDecides(t) \/ RetryReads(t) \/ UserReads(t)
      PROVE  SpendInv'
  <2>1. "user" \in Roles
    BY DEF Roles
  <2>2. CASE CreateDecides(t)
    BY <2>2, DecisionSpends
  <2>3. CASE RetryReads(t)
    BY <2>3, RetrySpends
  <2>4. CASE UserReads(t)
    BY <2>1, <2>4, PollSpends
  <2> QED BY <1>4, <2>2, <2>3, <2>4
<1>5. ASSUME NEW t \in Tasks, Delete(t) \/ SubmissionAges(t) \/ JobEnds(t)
      PROVE  SpendInv'
  BY <1>5, OutsideSpends
<1> QED BY <1>1, <1>2, <1>3, <1>4, <1>5, ListSpends, RestartSpends DEF Next

\* The debts and the jobs of a task never exceed its requests and the restarts,
\* with any number of retries, deletions and polls by hand.
THEOREM SpendInvariant ==
  ASSUME ~SlowSubmissions
  PROVE  Spec => []SpendInv
<1>1. SeedanceTypeOK /\ SpendInv /\ [Next]_seedanceVars => SpendInv'
  BY SpendStep
<1> QED BY SpendInit, <1>1, SeedanceTypes, PTL DEF Spec

\* If a submission is over before its row counts as stale, the provider is asked
\* once for each request of the user, and once more at most for each restart.
THEOREM JobsHold ==
  ASSUME ~SlowSubmissions
  PROVE  Spec => []JobsAreAskedFor
<1>1. SeedanceTypeOK /\ SpendInv => JobsAreAskedFor
  <2> SUFFICES ASSUME SeedanceTypeOK, SpendInv, NEW t \in Tasks
               PROVE  Len(jobs[t]) <= 1 + retries[t] + restarts
    BY DEF JobsAreAskedFor
  <2> QED BY SpendFacts
<1> QED BY <1>1, SpendInvariant, SeedanceTypes, PTL

=============================================================================
