------------------------------ MODULE ImageTask ------------------------------
(***************************************************************************)
(* One image that the server generates in the background, and who learns   *)
(* how it went (service/generation):                                       *)
(*                                                                         *)
(*   - a handler creates or retries the task and starts a goroutine that   *)
(*     asks the provider for the image;                                    *)
(*   - a provider that takes long leaves its job to the worker, which      *)
(*     polls it (handOffPendingGeneration, PollGenerationTask) and which   *)
(*     also fails rows whose goroutine was lost;                           *)
(*   - every write of the row is followed by telling: an event to the      *)
(*     connected panels if the task started or completed, and the          *)
(*     notification of a task that has a target (upsertTask, SyncTask);    *)
(*   - the panel takes an event for a hint and fetches the task list; so   *)
(*     it does when it is connected, and every 30 s while the task is      *)
(*     pending.                                                            *)
(*                                                                         *)
(* A process writes the whole row from the copy it read.  Saves do not     *)
(* fail, a completed image has an asset, and the worker lists this row     *)
(* whenever it may be listed (SeedanceQueue models the limit of a poll).   *)
(***************************************************************************)
EXTENDS Naturals

CONSTANTS
  Kinds,        \* the kinds of task: of Jimeng or not, with a target or not
  Buffer,       \* generationNotificationBufferSize
  MaxRetries,   \* bound: retries of the task
  MaxFaults     \* bound: crashes of the server and breaks of the connection

ASSUME ImageAssumption ==
  /\ Kinds \subseteq [jimeng : BOOLEAN, target : BOOLEAN]
  /\ Buffer \in Nat \ {0} /\ {MaxRetries, MaxFaults} \subseteq Nat

VARIABLES
  kind,     \* the provider is Jimeng; the task has a notification target
  row,      \* the row: status, and whether it has a provider task id
  age,      \* old: created 15 minutes ago; quiet: not written for 240 s
  proc,     \* the handlers with their goroutines, and the worker's poll
  notice,   \* the notification's row
  panel,    \* connection, events on their way, fetch due, status shown
  used,     \* the bounds used up: retries, faults
  missed    \* did a crash interrupt the telling of a completion?

imageVars == <<kind, row, age, proc, notice, panel, used, missed>>

Active  == {"submitted", "running"}   \* activeGenerationStatuses of images
Settled == {"completed", "failed"}
Exists  == row.status \in Active \cup Settled

Handlers == {"create", "retry"}
Procs    == Handlers \cup {"poll"}
Pcs      == {"idle", "tracking", "telling", "retrying", "starting",
             "generating", "asking"}
Nexts    == {"idle", "starting", "generating"}   \* what comes after telling

At(pc, job) == [pc |-> pc, job |-> job, news |-> "none", event |-> FALSE, next |-> "idle"]
Idle == At("idle", FALSE)

ImageInit ==
  /\ kind \in Kinds
  /\ row = [status |-> "unborn", job |-> FALSE]
  /\ age = [old |-> FALSE, quiet |-> FALSE]
  /\ proc = [p \in Procs |-> Idle]
  /\ notice = "none"
  /\ panel = [conn |-> "up", inbox |-> 0, due |-> FALSE, view |-> "none"]
  /\ used = [retries |-> 0, faults |-> 0]
  /\ missed = FALSE

-----------------------------------------------------------------------------
(* Writing the row, and telling about it.                                  *)

Moves(p, pc, job) == proc' = [proc EXCEPT ![p] = At(pc, job)]
Ends(p) == proc' = [proc EXCEPT ![p] = Idle]
GoesOn(p) == IF proc[p].next = "idle" THEN Ends(p) ELSE Moves(p, proc[p].next, proc[p].job)

\* upsertTask, which notes whether the task started or completed by this write.
Upsert(p, status, job, tell, next) ==
  /\ row' = [status |-> status, job |-> job]
  /\ age' = [age EXCEPT !.quiet = FALSE]
  /\ proc' = [proc EXCEPT ![p] =
       [pc |-> tell, job |-> job, news |-> status, next |-> next,
        event |-> \/ status \in Active /\ row.status \notin Active
                  \/ status = "completed" /\ row.status # "completed"]]
  /\ UNCHANGED <<kind, notice, panel, used, missed>>

\* UpsertExisting: the process stops if the task was deleted.
UpsertExisting(p, status, job, next) ==
  IF Exists THEN Upsert(p, status, job, "telling", next)
  ELSE Ends(p) /\ UNCHANGED <<kind, row, age, notice, panel, used, missed>>

\* GenerationNotificationBroker.Publish: an event for a full buffer is dropped.
Publish ==
  panel' = IF panel.conn = "down" \/ panel.inbox = Buffer THEN panel
           ELSE [panel EXCEPT !.inbox = @ + 1]

\* Mutant: a failure is taken for final as well.
Synced_FailureStays(status) ==
  IF notice \in {"none", "completed", "failed"} THEN notice
  ELSE IF status \in Settled THEN status ELSE "pending"

\* completeTaskNotification: a completed notification stays.
Synced(status) ==
  IF notice \in {"none", "completed"} THEN notice
  ELSE IF status \in Settled THEN status ELSE "pending"

\* The listeners of upsertTask and SyncTask.  A start is announced; the
\* completion of a tracked task by its notification, of another one as such.
Tell(p) ==
  /\ proc[p].pc = "telling"
  /\ IF \/ proc[p].event /\ (proc[p].news = "completed" => notice = "none")
        \/ proc[p].news = "completed" /\ notice \notin {"none", "completed"}
     THEN Publish ELSE UNCHANGED panel
  /\ notice' = Synced(proc[p].news)
  /\ GoesOn(p)
  /\ UNCHANGED <<kind, row, age, used, missed>>

-----------------------------------------------------------------------------
(* Create and retry, and their goroutine (completeSubmittedGeneration).    *)

\* CreateGenerationMessage, the branch that runs in the background.
Create ==
  /\ row.status = "unborn" /\ proc["create"].pc = "idle"
  /\ Upsert("create", "submitted", FALSE, "tracking", "starting")

\* The listener, TrackTaskTarget and SyncTask; then the request is answered.
Track ==
  /\ proc["create"].pc = "tracking"
  /\ Publish
  /\ notice' = IF kind.target THEN "pending" ELSE notice
  /\ GoesOn("create")
  /\ UNCHANGED <<kind, row, age, used, missed>>

\* RetryGenerationTask reads the task, of a request that was answered, ...
RetryReads ==
  /\ Exists /\ proc["create"].pc # "tracking" /\ proc["retry"].pc = "idle"
  /\ used.retries < MaxRetries
  /\ used' = [used EXCEPT !.retries = @ + 1]
  /\ Moves("retry", "retrying", row.job)
  /\ UNCHANGED <<kind, row, age, notice, panel, missed>>

\* ... and writes it, with the provider's id it had, or refuses.
RetryWrites ==
  /\ proc["retry"].pc = "retrying"
  /\ \/ Upsert("retry", "submitted", proc["retry"].job, "telling", "starting")
     \/ Ends("retry") /\ UNCHANGED <<kind, row, age, notice, panel, used, missed>>

Starts(p) ==
  /\ proc[p].pc = "starting"
  /\ UpsertExisting(p, "running", proc[p].job, "generating")

\* persistGenerationProgress.
Progresses(p) ==
  /\ proc[p].pc = "generating"
  /\ UpsertExisting(p, "running", proc[p].job, "generating")

\* The provider delivers, fails or runs out of time; or it is still at work
\* and its job is left to the worker.
Answers(p) ==
  /\ proc[p].pc = "generating"
  /\ \/ \E status \in Settled : UpsertExisting(p, status, proc[p].job, "idle")
     \/ UpsertExisting(p, "submitted", TRUE, "idle")

-----------------------------------------------------------------------------
(* The worker's polls.                                                     *)

\* isExpiredUnpollableJimengImage
Orphaned == kind.jimeng /\ row.status = "running" /\ ~row.job /\ age.quiet

\* Mutant: rows without a provider id are not listed at all.
Listed_PollableOnly == row.status \in Active /\ row.job

\* ListPending, image rows.
Listed == row.status \in Active /\ (row.job \/ Orphaned)

PollReads ==
  /\ Listed /\ proc["poll"].pc = "idle"
  /\ Moves("poll", "asking", row.job)
  /\ UNCHANGED <<kind, row, age, notice, panel, used, missed>>

\* Mutant: a task may be polled for ever.
PollResult_NoDeadline(status) == status

\* What the provider answered, unless the time of the task is up.
PollResult(status) == IF status \in Active /\ age.old THEN "failed" ELSE status

\* PollGenerationTask with a provider id: the provider answers, or it cannot be
\* asked and that is recorded.
PollEnds ==
  /\ proc["poll"].pc = "asking" /\ proc["poll"].job
  /\ \/ \E status \in Settled \cup {"running"} :
          UpsertExisting("poll", PollResult(status), TRUE, "idle")
     \/ IF PollResult("running") = "failed"
        THEN UpsertExisting("poll", "failed", TRUE, "idle")
        ELSE /\ age' = [age EXCEPT !.quiet = FALSE]
             /\ Ends("poll")
             /\ UNCHANGED <<kind, row, notice, panel, used, missed>>

\* failUnpollableJimengImageTask
PollRecovers ==
  /\ proc["poll"].pc = "asking" /\ ~proc["poll"].job
  /\ UpsertExisting("poll", "failed", FALSE, "idle")

-----------------------------------------------------------------------------
(* The user, time and crashes.                                             *)

\* DeleteGenerationTask; the notification's row stays.
Delete ==
  /\ Exists
  /\ row' = [status |-> "deleted", job |-> FALSE]
  /\ age' = [age EXCEPT !.quiet = FALSE]
  /\ panel' = [panel EXCEPT !.due = TRUE]
  /\ UNCHANGED <<kind, proc, notice, used, missed>>

\* 15 minutes have passed since the task was created; a retry keeps the date.
\* It matters for polls with a provider's id only.
GrowsOld ==
  /\ row.job \/ proc["poll"].job
  /\ ~age.old
  /\ age' = [age EXCEPT !.old = TRUE]
  /\ UNCHANGED <<kind, row, proc, notice, panel, used, missed>>

\* 240 s have passed since the row was written; for rows with a provider id it
\* does not matter.
GrowsQuiet ==
  /\ kind.jimeng /\ row.status = "running" /\ ~row.job /\ ~age.quiet
  /\ age' = [age EXCEPT !.quiet = TRUE]
  /\ UNCHANGED <<kind, row, proc, notice, panel, used, missed>>

\* The rows survive; nothing looks after interrupted tellings at boot.
Restart ==
  /\ used.faults < MaxFaults
  /\ used' = [used EXCEPT !.faults = @ + 1]
  /\ missed' = (missed \/ \E p \in Procs : proc[p].news = "completed")
  /\ proc' = [p \in Procs |-> Idle]
  /\ panel' = [panel EXCEPT !.conn = "down", !.inbox = 0]
  /\ UNCHANGED <<kind, row, age, notice>>

-----------------------------------------------------------------------------
(* The panel.                                                              *)

PanelStays == UNCHANGED <<kind, row, age, proc, notice, missed>>

\* HandleGenerationNotificationEvents subscribes first ...
Connect ==
  /\ panel.conn = "down"
  /\ panel' = [panel EXCEPT !.conn = "subscribed"]
  /\ PanelStays /\ UNCHANGED used

\* Mutant: the panel waits for the first event.
Greets_WithoutFetch ==
  /\ panel.conn = "subscribed"
  /\ panel' = [panel EXCEPT !.conn = "up"]
  /\ PanelStays /\ UNCHANGED used

\* ... and then says that the panel is connected, which revalidates.
Greets ==
  /\ panel.conn = "subscribed"
  /\ panel' = [panel EXCEPT !.conn = "up", !.due = TRUE]
  /\ PanelStays /\ UNCHANGED used

\* handleTaskStarted, handleTaskCompleted, handleCompleted
Deliver ==
  /\ panel.conn = "up" /\ panel.inbox > 0
  /\ panel' = [panel EXCEPT !.inbox = @ - 1, !.due = TRUE]
  /\ PanelStays /\ UNCHANGED used

Cut ==
  /\ panel.conn # "down" /\ used.faults < MaxFaults
  /\ used' = [used EXCEPT !.faults = @ + 1]
  /\ panel' = [panel EXCEPT !.conn = "down", !.inbox = 0]
  /\ PanelStays

\* What a task list shows of the row.
ViewOf(status) == IF status \in Active \cup Settled THEN status ELSE "none"

\* The panel fetches the list.  An answer that a later fetch overtakes is
\* dropped, so request and answer are one step.
Refresh ==
  /\ panel.due \/ panel.view \in Active
  /\ panel' = [panel EXCEPT !.due = FALSE, !.view = ViewOf(row.status)]
  /\ PanelStays /\ UNCHANGED used

-----------------------------------------------------------------------------

TaskStep ==
  \/ Create \/ Track \/ RetryReads \/ RetryWrites
  \/ \E p \in Procs : Tell(p)
  \/ \E p \in Handlers : Starts(p) \/ Progresses(p) \/ Answers(p)
  \/ PollReads \/ PollEnds \/ PollRecovers
  \/ Delete \/ GrowsOld \/ GrowsQuiet \/ Restart

ImageNext == TaskStep \/ Connect \/ Greets \/ Deliver \/ Cut \/ Refresh

ImageSpec == ImageInit /\ [][ImageNext]_imageVars

HandlerGoesOn(p) ==
  Tell(p) \/ Starts(p) \/ (p = "create" /\ Track) \/ (p = "retry" /\ RetryWrites)
WorkerGoesOn == PollReads \/ PollEnds \/ PollRecovers \/ Tell("poll")

\* Handlers and goroutines go on, and a provider that reports progress is cut off
\* by the request's deadline; the worker polls every 20 s; time passes; the
\* event source reconnects and reads; fetches and the panel's timer come round.
ImageFairness ==
  /\ \A p \in Handlers : WF_imageVars(HandlerGoesOn(p)) /\ SF_imageVars(Answers(p))
  /\ WF_imageVars(WorkerGoesOn)
  /\ WF_imageVars(GrowsOld) /\ WF_imageVars(GrowsQuiet)
  /\ WF_imageVars(Connect \/ Greets \/ Deliver)
  /\ WF_imageVars(Refresh)

FairImageSpec == ImageSpec /\ ImageFairness

-----------------------------------------------------------------------------
(* Properties.                                                             *)

\* Type invariant.
ImageTypeOK ==
  /\ kind \in Kinds
  /\ row \in [status : Active \cup Settled \cup {"unborn", "deleted"}, job : BOOLEAN]
  /\ age \in [old : BOOLEAN, quiet : BOOLEAN]
  /\ proc \in [Procs -> [pc : Pcs, job : BOOLEAN, event : BOOLEAN, next : Nexts,
                         news : Active \cup Settled \cup {"none"}]]
  /\ notice \in {"none", "pending"} \cup Settled
  /\ panel \in [conn : {"down", "subscribed", "up"}, inbox : 0 .. Buffer,
                due : BOOLEAN, view : Active \cup Settled \cup {"none"}]
  /\ used \in [retries : 0 .. MaxRetries, faults : 0 .. MaxFaults]
  /\ missed \in BOOLEAN

\* The notification of a tracked task that is completed says so, in whatever
\* order goroutine, retry and poll write the row and tell about it, unless
\* somebody is just about to tell, or a crash came in between.
NoticeFollowsTask ==
  row.status = "completed" /\ notice \notin {"none", "completed"} =>
    missed \/ \E p \in Procs : proc[p].news = "completed"

\* A crash has left a row that nobody will ever work on: its goroutine had not
\* begun, or it is not Jimeng's, whose orphans alone are looked after.
Forgotten ==
  /\ row.status \in Active /\ ~row.job
  /\ row.status = "running" => ~kind.jimeng
  /\ \A p \in Handlers : proc[p].pc = "idle"
  /\ used.faults > 0

\* In the end, whatever was lost, dropped, cut off or done twice, the task is
\* settled and the panel shows how.  Three cases the code has no remedy for: a
\* row that a crash made everybody forget; a poll that read the row while it was
\* active and fails it after it was completed, of which no event tells; and the
\* completion of a retry whose notification was completed before, of which no
\* event tells either.
PanelShowsTheEnd ==
  <>[](/\ row.status \notin Active \/ Forgotten
       /\ \/ panel.view = ViewOf(row.status)
          \/ row.status = "failed" /\ panel.view = "completed"
          \/ row.status = "completed" /\ panel.view = "failed" /\ notice = "completed")
==============================================================================
