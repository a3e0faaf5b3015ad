--------------------------- MODULE ImageTaskProofs ---------------------------
(***************************************************************************)
(* Theorems about ImageTask: its types, and that the notification follows  *)
(* the task.                                                               *)
(***************************************************************************)
EXTENDS ImageTask, TLAPS

Status == Active \cup Settled

\* Who is about to tell of a completion is telling.
NewsIsTold == \A p \in Procs : proc[p].news = "completed" => proc[p].pc = "telling"

\* Nobody works on a task before it is created.
UnbornIsIdle == row.status = "unborn" => proc = [p \in Procs |-> Idle]

\* Until the target is stored, nobody but the creating handler has the task.
TrackedFirst ==
  proc["create"].pc = "tracking" =>
    /\ row.status \in {"submitted", "deleted"} /\ ~row.job
    /\ proc["retry"] = Idle /\ proc["poll"] = Idle

NoticeInv == ImageTypeOK /\ NewsIsTold /\ UnbornIsIdle /\ TrackedFirst /\ NoticeFollowsTask

-----------------------------------------------------------------------------
(* Steps of one process: what they leave of proc.                          *)

\* The record a process has after a write.
LEMMA UpsertTypes ==
  ASSUME ImageTypeOK, NEW p \in Procs, NEW status \in Status, NEW job \in BOOLEAN,
         NEW tell \in Pcs, NEW next \in Nexts, Upsert(p, status, job, tell, next)
  PROVE  ImageTypeOK'
<1> DEFINE Event == \/ status \in Active /\ row.status \notin Active
                    \/ status = "completed" /\ row.status # "completed"
           Rec == [pc |-> tell, job |-> job, news |-> status, next |-> next, event |-> Event]
<1>1. proc' = [proc EXCEPT ![p] = Rec]
  BY DEF Upsert
<1>2. Rec \in [pc : Pcs, job : BOOLEAN, event : BOOLEAN, next : Nexts,
               news : Active \cup Settled \cup {"none"}]
  BY DEF Status
<1> HIDE DEF Rec
<1>3. proc' \in [Procs -> [pc : Pcs, job : BOOLEAN, event : BOOLEAN, next : Nexts,
                           news : Active \cup Settled \cup {"none"}]]
  BY <1>1, <1>2 DEF ImageTypeOK
<1>4. row' \in [status : Active \cup Settled \cup {"unborn", "deleted"}, job : BOOLEAN]
  BY DEF Upsert, Status
<1>5. age' \in [old : BOOLEAN, quiet : BOOLEAN]
  BY DEF Upsert, ImageTypeOK
<1> QED
  BY <1>3, <1>4, <1>5 DEF ImageTypeOK, Upsert

LEMMA MovesTypes ==
  ASSUME ImageTypeOK, NEW p \in Procs, NEW pc \in Pcs, NEW job \in BOOLEAN,
         Moves(p, pc, job) \/ Ends(p)
  PROVE  proc' \in [Procs -> [pc : Pcs, job : BOOLEAN, event : BOOLEAN, next : Nexts,
                              news : Active \cup Settled \cup {"none"}]]
<1> DEFINE R == [pc : Pcs, job : BOOLEAN, event : BOOLEAN, next : Nexts,
                 news : Active \cup Settled \cup {"none"}]
<1>1. At(pc, job) \in R /\ Idle \in R
  BY DEF At, Idle, Pcs, Nexts
<1> QED
  BY <1>1 DEF ImageTypeOK, Moves, Ends

\* A process that is at work, none being tracked, writes and goes on to tell.
LEMMA UpsertKeeps ==
  ASSUME NoticeInv, NEW p \in Procs, NEW status \in Status, NEW job \in BOOLEAN,
         NEW next \in Nexts, Upsert(p, status, job, "telling", next),
         proc[p].pc \notin {"idle", "tracking"}
  PROVE  NoticeInv'
<1> USE DEF NoticeInv
<1>1. ImageTypeOK'
  BY UpsertTypes DEF Pcs
<1>2. proc' \in [Procs -> [pc : Pcs, job : BOOLEAN, event : BOOLEAN, next : Nexts,
                          news : Active \cup Settled \cup {"none"}]]
  BY <1>1 DEF ImageTypeOK
<1>3. /\ proc'[p].pc = "telling" /\ proc'[p].news = status
      /\ \A q \in Procs \ {p} : proc'[q] = proc[q]
  BY DEF Upsert, ImageTypeOK
<1>4. row'.status = status /\ UNCHANGED <<notice, missed>>
  BY DEF Upsert
<1>5. NewsIsTold'
  BY <1>3 DEF NewsIsTold
<1>6. UnbornIsIdle'
  BY <1>4 DEF UnbornIsIdle, Status, Active, Settled
<1>7. proc["create"].pc # "tracking"
  BY DEF TrackedFirst, Idle, At, Procs, Handlers
<1>8. TrackedFirst'
  BY <1>3, <1>7 DEF TrackedFirst, Procs, Handlers
<1>9. NoticeFollowsTask'
  BY <1>3, <1>4 DEF NoticeFollowsTask
<1> QED
  BY <1>1, <1>5, <1>6, <1>8, <1>9

\* A process that tells nothing moves on or ends, and leaves the rows alone.
LEMMA MovesKeeps ==
  ASSUME NoticeInv, NEW p \in Procs, NEW pc \in Pcs \ {"tracking"}, NEW job \in BOOLEAN,
         Moves(p, pc, job) \/ Ends(p), ImageTypeOK',
         proc[p].pc # "telling", proc["create"].pc # "tracking", row.status # "unborn",
         UNCHANGED <<row, notice, missed>>
  PROVE  NoticeInv'
<1> USE DEF NoticeInv
<1>1. /\ proc'[p].news = "none" /\ proc'[p].pc # "tracking"
      /\ \A q \in Procs \ {p} : proc'[q] = proc[q]
  BY DEF Moves, Ends, At, Idle, ImageTypeOK
<1>2. NewsIsTold'
  BY <1>1 DEF NewsIsTold
<1>3. UnbornIsIdle'
  BY DEF UnbornIsIdle
<1>4. TrackedFirst'
  BY <1>1 DEF TrackedFirst, Procs, Handlers
<1>5. proc[p].news # "completed"
  BY DEF NewsIsTold
<1>6. NoticeFollowsTask'
  <2> SUFFICES ASSUME row.status = "completed", notice \notin {"none", "completed"}, ~missed
               PROVE  \E q \in Procs : proc'[q].news = "completed"
    BY DEF NoticeFollowsTask
  <2>1. PICK q \in Procs : proc[q].news = "completed"
    BY DEF NoticeFollowsTask
  <2> QED
    BY <2>1, <1>1, <1>5
<1> QED
  BY <1>2, <1>3, <1>4, <1>6

\* The same, for a write that may find the task deleted.
LEMMA UpsertExistingKeeps ==
  ASSUME NoticeInv, NEW p \in Procs, NEW status \in Status, NEW job \in BOOLEAN,
         NEW next \in Nexts, UpsertExisting(p, status, job, next),
         proc[p].pc \notin {"idle", "tracking", "telling"}
  PROVE  NoticeInv'
<1>1. CASE Exists
  BY <1>1, UpsertKeeps DEF UpsertExisting
<1>2. CASE ~Exists
  <2>1. Ends(p) /\ UNCHANGED <<kind, row, age, notice, panel, used, missed>>
    BY <1>2 DEF UpsertExisting
  <2>2. ImageTypeOK'
    <3>1. FALSE \in BOOLEAN /\ "idle" \in Pcs
      BY DEF Pcs
    <3> QED
      BY <2>1, <3>1, MovesTypes DEF ImageTypeOK, NoticeInv
  <2>3. proc["create"].pc # "tracking"
    BY DEF NoticeInv, TrackedFirst, Idle, At, Procs, Handlers
  <2>4. row.status # "unborn"
    BY DEF NoticeInv, UnbornIsIdle, Idle, At
  <2>5. "idle" \in Pcs \ {"tracking"} /\ FALSE \in BOOLEAN
    BY DEF Pcs
  <2> QED
    BY <2>1, <2>2, <2>3, <2>4, <2>5, MovesKeeps
<1> QED
  BY <1>1, <1>2

\* Steps that leave the processes, the notification and the row's status alone,
\* or delete the row.
LEMMA QuietKeeps ==
  ASSUME NoticeInv, ImageTypeOK', UNCHANGED <<proc, notice, missed>>,
         \/ UNCHANGED row
         \/ Exists /\ row' = [status |-> "deleted", job |-> FALSE]
  PROVE  NoticeInv'
BY DEF NoticeInv, NewsIsTold, UnbornIsIdle, TrackedFirst, NoticeFollowsTask, Exists,
       Active, Settled

-----------------------------------------------------------------------------
(* Telling.                                                                *)

\* Buffers keep to their size.
LEMMA PublishTypes ==
  ASSUME ImageTypeOK, ImageAssumption, Publish
  PROVE  panel' \in [conn : {"down", "subscribed", "up"}, inbox : 0 .. Buffer,
                     due : BOOLEAN, view : Active \cup Settled \cup {"none"}]
<1>1. CASE panel' = panel
  BY <1>1 DEF ImageTypeOK
<1>2. CASE panel.inbox # Buffer /\ panel' = [panel EXCEPT !.inbox = @ + 1]
  <2>1. panel.inbox + 1 \in 0 .. Buffer
    BY <1>2 DEF ImageTypeOK, ImageAssumption
  <2> QED
    BY <1>2, <2>1 DEF ImageTypeOK
<1> QED
  BY <1>1, <1>2 DEF Publish

LEMMA TellKeeps ==
  ASSUME NoticeInv, ImageAssumption, NEW p \in Procs, Tell(p)
  PROVE  NoticeInv'
<1> USE DEF NoticeInv
<1>1. PICK next \in Nexts, job \in BOOLEAN, news \in Status \cup {"none"} :
        next = proc[p].next /\ job = proc[p].job /\ news = proc[p].news
  BY DEF ImageTypeOK, Status
<1>2. Moves(p, next, job) \/ Ends(p)
  BY <1>1 DEF Tell, GoesOn
<1>3. notice' = Synced(news)
  BY <1>1 DEF Tell
<1>4. notice' \in {"none", "pending"} \cup Settled
  BY <1>3 DEF Synced, ImageTypeOK, Settled
<1>5. panel' \in [conn : {"down", "subscribed", "up"}, inbox : 0 .. Buffer,
                 due : BOOLEAN, view : Active \cup Settled \cup {"none"}]
  BY PublishTypes DEF Tell, ImageTypeOK
<1>6. ImageTypeOK'
  <2>1. next \in Pcs
    BY DEF Nexts, Pcs
  <2> QED
    BY <1>2, <1>4, <1>5, <2>1, MovesTypes DEF ImageTypeOK, Tell
<1>7. proc[p].pc = "telling" /\ UNCHANGED <<row, missed>>
  BY DEF Tell
<1>8. /\ proc'[p].news = "none" /\ proc'[p].pc \in Nexts
      /\ \A q \in Procs \ {p} : proc'[q] = proc[q]
  BY <1>2 DEF Moves, Ends, At, Idle, ImageTypeOK, Nexts
<1>9. NewsIsTold'
  BY <1>8 DEF NewsIsTold
<1>10. row.status # "unborn"
  BY <1>7 DEF UnbornIsIdle, Idle, At
<1>11. UnbornIsIdle'
  BY <1>7, <1>10 DEF UnbornIsIdle
<1>12. TrackedFirst'
  <2>1. proc["create"].pc # "tracking"
    BY <1>7 DEF TrackedFirst, Idle, At, Procs, Handlers
  <2>2. proc'["create"].pc # "tracking"
    BY <1>8, <2>1 DEF Nexts, Procs, Handlers
  <2> QED
    BY <2>2 DEF TrackedFirst
<1>13. NoticeFollowsTask'
  <2> SUFFICES ASSUME row.status = "completed", notice' \notin {"none", "completed"}, ~missed
               PROVE  \E q \in Procs : proc'[q].news = "completed"
    BY <1>7 DEF NoticeFollowsTask
  <2>1. notice \notin {"none", "completed"} /\ news # "completed"
    <3>1. CASE notice \in {"none", "completed"}
      BY <1>3, <3>1 DEF Synced
    <3>2. CASE notice \notin {"none", "completed"} /\ news = "completed"
      BY <1>3, <3>2 DEF Synced, Settled
    <3> QED
      BY <3>1, <3>2
  <2>2. PICK q \in Procs : proc[q].news = "completed"
    BY <2>1 DEF NoticeFollowsTask
  <2>3. q # p
    BY <1>1, <2>1, <2>2
  <2> QED
    BY <1>8, <2>2, <2>3
<1> QED
  BY <1>6, <1>9, <1>11, <1>12, <1>13

-----------------------------------------------------------------------------
(* The steps one by one.                                                   *)

LEMMA CreateKeeps == ASSUME NoticeInv, Create PROVE NoticeInv'
<1> USE DEF NoticeInv
<1>1. Upsert("create", "submitted", FALSE, "tracking", "starting")
  BY DEF Create
<1>2. ImageTypeOK'
  <2>1. /\ "create" \in Procs /\ "submitted" \in Status /\ FALSE \in BOOLEAN
        /\ "tracking" \in Pcs /\ "starting" \in Nexts
    BY DEF Procs, Handlers, Status, Active, Pcs, Nexts
  <2> QED
    BY <1>1, <2>1, UpsertTypes
<1>3. proc = [p \in Procs |-> Idle]
  BY DEF Create, UnbornIsIdle
<1>4. /\ proc'["create"].news = "submitted"
      /\ \A q \in Procs \ {"create"} : proc'[q] = Idle
      /\ row' = [status |-> "submitted", job |-> FALSE]
  BY <1>1, <1>3 DEF Upsert, Procs, Handlers
<1> QED
  BY <1>2, <1>4 DEF NewsIsTold, UnbornIsIdle, TrackedFirst, NoticeFollowsTask, Idle, At,
                    Procs, Handlers

LEMMA TrackKeeps == ASSUME NoticeInv, ImageAssumption, Track PROVE NoticeInv'
<1> USE DEF NoticeInv
<1>1. PICK next \in Nexts, job \in BOOLEAN :
        next = proc["create"].next /\ job = proc["create"].job
  BY DEF ImageTypeOK, Procs, Handlers
<1>2. Moves("create", next, job) \/ Ends("create")
  BY <1>1 DEF Track, GoesOn
<1>3. notice' \in {"none", "pending"} \cup Settled
  BY DEF Track, ImageTypeOK
<1>4. ImageTypeOK'
  <2>1. next \in Pcs /\ "create" \in Procs
    BY DEF Nexts, Pcs, Procs, Handlers
  <2> QED
    BY <1>2, <1>3, <2>1, MovesTypes, PublishTypes DEF ImageTypeOK, Track
<1>5. /\ proc'["create"].news = "none" /\ proc'["create"].pc \in Nexts
      /\ \A q \in Procs \ {"create"} : proc'[q] = proc[q]
  BY <1>2 DEF Moves, Ends, At, Idle, ImageTypeOK, Procs, Handlers, Nexts
<1>6. UNCHANGED <<row, missed>> /\ row.status \in {"submitted", "deleted"}
  BY DEF Track, TrackedFirst
<1> QED
  BY <1>4, <1>5, <1>6 DEF NewsIsTold, UnbornIsIdle, TrackedFirst, NoticeFollowsTask,
                         Procs, Handlers, Nexts

LEMMA RetryReadsKeeps == ASSUME NoticeInv, RetryReads, ImageAssumption PROVE NoticeInv'
<1> USE DEF NoticeInv
<1>1. PICK job \in BOOLEAN : job = row.job
  BY DEF ImageTypeOK
<1>2. Moves("retry", "retrying", job)
  BY <1>1 DEF RetryReads
<1>3. "retry" \in Procs /\ "retrying" \in Pcs \ {"tracking"}
  BY DEF Procs, Handlers, Pcs
<1>4. used' \in [retries : 0 .. MaxRetries, faults : 0 .. MaxFaults]
  BY DEF RetryReads, ImageTypeOK, ImageAssumption
<1>5. ImageTypeOK'
  BY <1>2, <1>3, <1>4, MovesTypes DEF ImageTypeOK, RetryReads
<1>6. /\ proc["retry"].pc # "telling" /\ proc["create"].pc # "tracking"
      /\ row.status # "unborn" /\ UNCHANGED <<row, notice, missed>>
  BY DEF RetryReads, Exists, Active, Settled
<1> QED
  BY <1>2, <1>3, <1>5, <1>6, MovesKeeps

LEMMA RetryWritesKeeps == ASSUME NoticeInv, RetryWrites PROVE NoticeInv'
<1> USE DEF NoticeInv
<1>1. PICK job \in BOOLEAN : job = proc["retry"].job
  BY DEF ImageTypeOK, Procs, Handlers
<1>2. /\ "retry" \in Procs /\ "submitted" \in Status /\ "starting" \in Nexts
      /\ FALSE \in BOOLEAN /\ "idle" \in Pcs \ {"tracking"}
  BY DEF Procs, Handlers, Status, Active, Nexts, Pcs
<1>3. proc["retry"].pc = "retrying"
  BY DEF RetryWrites
<1>4. CASE Upsert("retry", "submitted", job, "telling", "starting")
  BY <1>2, <1>3, <1>4, UpsertKeeps
<1>5. CASE Ends("retry") /\ UNCHANGED <<kind, row, age, notice, panel, used, missed>>
  <2>1. ImageTypeOK'
    BY <1>2, <1>5, MovesTypes DEF ImageTypeOK
  <2>2. proc["create"].pc # "tracking" /\ row.status # "unborn"
    BY <1>2, <1>3 DEF TrackedFirst, UnbornIsIdle, Idle, At
  <2> QED
    BY <1>2, <1>3, <1>5, <2>1, <2>2, MovesKeeps
<1> QED
  BY <1>1, <1>4, <1>5 DEF RetryWrites

LEMMA GoroutineKeeps ==
  ASSUME NoticeInv, NEW p \in Handlers, Starts(p) \/ Progresses(p) \/ Answers(p)
  PROVE  NoticeInv'
<1>1. PICK job \in BOOLEAN : job = proc[p].job
  BY DEF NoticeInv, ImageTypeOK, Procs
<1>2. proc[p].pc \notin {"idle", "tracking", "telling"} /\ p \in Procs
  BY DEF Starts, Progresses, Answers, Procs
<1>3. \E status \in Status, j \in BOOLEAN, next \in Nexts : UpsertExisting(p, status, j, next)
  <2>1. CASE Starts(p) \/ Progresses(p)
    <3>1. "running" \in Status /\ "generating" \in Nexts
      BY DEF Status, Active, Nexts
    <3> QED
      BY <1>1, <2>1, <3>1 DEF Starts, Progresses
  <2>2. CASE Answers(p)
    <3>1. "submitted" \in Status /\ Settled \subseteq Status /\ "idle" \in Nexts /\ TRUE \in BOOLEAN
      BY DEF Status, Active, Nexts
    <3> QED
      BY <1>1, <2>2, <3>1 DEF Answers
  <2> QED
    BY <2>1, <2>2
<1> QED
  BY <1>2, <1>3, UpsertExistingKeeps

LEMMA PollKeeps ==
  ASSUME NoticeInv, PollReads \/ PollEnds \/ PollRecovers
  PROVE  NoticeInv'
<1> USE DEF NoticeInv
<1>1. /\ "poll" \in Procs /\ "asking" \in Pcs \ {"tracking"} /\ "idle" \in Pcs \ {"tracking"}
      /\ "idle" \in Nexts /\ {TRUE, FALSE} \subseteq BOOLEAN
  BY DEF Procs, Pcs, Nexts
<1>2. CASE PollReads
  <2>1. PICK job \in BOOLEAN : job = row.job
    BY DEF ImageTypeOK
  <2>2. Moves("poll", "asking", job)
    BY <1>2, <2>1 DEF PollReads
  <2>3. ImageTypeOK'
    BY <1>1, <1>2, <2>2, MovesTypes DEF ImageTypeOK, PollReads
  <2>4. proc["create"].pc # "tracking" /\ row.status # "unborn" /\ proc["poll"].pc # "telling"
    BY <1>2 DEF PollReads, Listed, Orphaned, Active, TrackedFirst
  <2> QED
    BY <1>1, <1>2, <2>2, <2>3, <2>4, MovesKeeps DEF PollReads
<1>3. CASE /\ proc["poll"].pc = "asking"
           /\ \E status \in Status, j \in BOOLEAN, next \in Nexts :
                UpsertExisting("poll", status, j, next)
  BY <1>1, <1>3, UpsertExistingKeeps
<1>4. CASE /\ proc["poll"].pc = "asking" /\ Ends("poll")
           /\ age' = [age EXCEPT !.quiet = FALSE]
           /\ UNCHANGED <<kind, row, notice, panel, used, missed>>
  <2>1. ImageTypeOK'
    <3>1. proc' \in [Procs -> [pc : Pcs, job : BOOLEAN, event : BOOLEAN, next : Nexts,
                               news : Active \cup Settled \cup {"none"}]]
      BY <1>1, <1>4, MovesTypes
    <3>2. age' \in [old : BOOLEAN, quiet : BOOLEAN]
      BY <1>4 DEF ImageTypeOK
    <3> QED BY <1>4, <3>1, <3>2 DEF ImageTypeOK
  <2>2. proc["create"].pc # "tracking" /\ row.status # "unborn"
    BY <1>1, <1>4 DEF TrackedFirst, UnbornIsIdle, Idle, At
  <2> QED
    BY <1>1, <1>4, <2>1, <2>2, MovesKeeps
<1>5. CASE PollEnds
  <2>1. \A status \in Settled \cup {"running"} : PollResult(status) \in Status
    BY DEF PollResult, Status, Active, Settled
  <2>2. "failed" \in Status
    BY DEF Status, Settled
  <2> QED
    BY <1>1, <1>3, <1>4, <1>5, <2>1, <2>2 DEF PollEnds
<1>6. CASE PollRecovers
  BY <1>1, <1>3, <1>6 DEF PollRecovers, Status, Settled
<1> QED
  BY <1>2, <1>5, <1>6

\* Deletion and time.
LEMMA WorldKeeps ==
  ASSUME NoticeInv, Delete \/ GrowsOld \/ GrowsQuiet
  PROVE  NoticeInv'
<1>1. ImageTypeOK'
  <2>1. CASE Delete
    <3>1. /\ row' \in [status : Active \cup Settled \cup {"unborn", "deleted"}, job : BOOLEAN]
          /\ age' \in [old : BOOLEAN, quiet : BOOLEAN]
      BY <2>1 DEF Delete, NoticeInv, ImageTypeOK
    <3>2. panel' \in [conn : {"down", "subscribed", "up"}, inbox : 0 .. Buffer,
                     due : BOOLEAN, view : Active \cup Settled \cup {"none"}]
      BY <2>1 DEF Delete, NoticeInv, ImageTypeOK
    <3> QED
      BY <2>1, <3>1, <3>2 DEF Delete, NoticeInv, ImageTypeOK
  <2>2. CASE GrowsOld \/ GrowsQuiet
    <3>1. age' \in [old : BOOLEAN, quiet : BOOLEAN]
      BY <2>2 DEF GrowsOld, GrowsQuiet, NoticeInv, ImageTypeOK
    <3> QED
      BY <2>2, <3>1 DEF GrowsOld, GrowsQuiet, NoticeInv, ImageTypeOK
  <2> QED
    BY <2>1, <2>2
<1> QED
  BY <1>1, QuietKeeps DEF Delete, GrowsOld, GrowsQuiet

\* A fault is counted and cuts the panel off.
LEMMA FaultTypes ==
  ASSUME ImageTypeOK, ImageAssumption, used.faults < MaxFaults
  PROVE  /\ [used EXCEPT !.faults = @ + 1] \in [retries : 0 .. MaxRetries, faults : 0 .. MaxFaults]
         /\ [panel EXCEPT !.conn = "down", !.inbox = 0] \in
              [conn : {"down", "subscribed", "up"}, inbox : 0 .. Buffer,
               due : BOOLEAN, view : Active \cup Settled \cup {"none"}]
<1>1. used.faults + 1 \in 0 .. MaxFaults
  BY DEF ImageTypeOK, ImageAssumption
<1>2. 0 \in 0 .. Buffer
  BY DEF ImageAssumption
<1>3. [panel EXCEPT !.conn = "down"] \in
        [conn : {"down", "subscribed", "up"}, inbox : 0 .. Buffer,
         due : BOOLEAN, view : Active \cup Settled \cup {"none"}]
  BY DEF ImageTypeOK
<1>4. [[panel EXCEPT !.conn = "down"] EXCEPT !.inbox = 0] \in
        [conn : {"down", "subscribed", "up"}, inbox : 0 .. Buffer,
         due : BOOLEAN, view : Active \cup Settled \cup {"none"}]
  BY <1>2, <1>3
<1> QED
  BY <1>1, <1>4 DEF ImageTypeOK

LEMMA RestartKeeps == ASSUME NoticeInv, ImageAssumption, Restart PROVE NoticeInv'
<1> USE DEF NoticeInv
<1>1. Idle \in [pc : Pcs, job : BOOLEAN, event : BOOLEAN, next : Nexts,
               news : Active \cup Settled \cup {"none"}]
  BY DEF Idle, At, Pcs, Nexts
<1>2. /\ used' \in [retries : 0 .. MaxRetries, faults : 0 .. MaxFaults]
      /\ panel' \in [conn : {"down", "subscribed", "up"}, inbox : 0 .. Buffer,
                      due : BOOLEAN, view : Active \cup Settled \cup {"none"}]
  BY FaultTypes DEF Restart
<1>3. missed' \in BOOLEAN
  BY DEF Restart, ImageTypeOK
<1>4. ImageTypeOK'
  BY <1>1, <1>2, <1>3 DEF Restart, ImageTypeOK
<1>5. \A p \in Procs : proc'[p] = Idle
  BY DEF Restart
<1>6. NewsIsTold' /\ UnbornIsIdle' /\ TrackedFirst'
  BY <1>5 DEF NewsIsTold, UnbornIsIdle, TrackedFirst, Restart, Idle, At, Procs, Handlers
<1>7. NoticeFollowsTask'
  BY DEF NoticeFollowsTask, Restart
<1> QED
  BY <1>4, <1>6, <1>7

LEMMA PanelKeeps ==
  ASSUME NoticeInv, ImageAssumption, Connect \/ Greets \/ Deliver \/ Cut \/ Refresh
  PROVE  NoticeInv'
<1> DEFINE P == [conn : {"down", "subscribed", "up"}, inbox : 0 .. Buffer,
                 due : BOOLEAN, view : Active \cup Settled \cup {"none"}]
<1>1. panel \in P /\ Buffer \in Nat \ {0}
  BY DEF NoticeInv, ImageTypeOK, ImageAssumption
<1>2. panel' \in P
  <2>1. CASE Connect
    BY <1>1, <2>1 DEF Connect
  <2>2. CASE Greets
    <3>1. [panel EXCEPT !.conn = "up"] \in P
      BY <1>1
    <3>2. [[panel EXCEPT !.conn = "up"] EXCEPT !.due = TRUE] \in P
      BY <3>1
    <3> QED
      BY <2>2, <3>2 DEF Greets
  <2>3. CASE Cut
    BY <2>3, FaultTypes DEF Cut, NoticeInv
  <2>4. CASE Deliver
    <3>1. panel.inbox - 1 \in 0 .. Buffer
      BY <1>1, <2>4 DEF Deliver
    <3> QED
      BY <1>1, <2>4, <3>1 DEF Deliver
  <2>5. CASE Refresh
    <3>1. PICK view \in Active \cup Settled \cup {"none"} : view = ViewOf(row.status)
      BY DEF ViewOf
    <3> QED
      BY <1>1, <2>5, <3>1 DEF Refresh
  <2> QED
    BY <2>1, <2>2, <2>3, <2>4, <2>5
<1>3. used' \in [retries : 0 .. MaxRetries, faults : 0 .. MaxFaults]
  BY FaultTypes DEF NoticeInv, ImageTypeOK, Connect, Greets, Deliver, Cut, Refresh
<1>4. PanelStays
  BY DEF Connect, Greets, Deliver, Cut, Refresh
<1>5. ImageTypeOK'
  BY <1>2, <1>3, <1>4 DEF NoticeInv, ImageTypeOK, PanelStays
<1> QED
  BY <1>4, <1>5, QuietKeeps DEF PanelStays

-----------------------------------------------------------------------------
(* The theorems.                                                           *)

LEMMA NoticeInvInit == ImageInit => NoticeInv
<1> SUFFICES ASSUME ImageInit PROVE NoticeInv
  OBVIOUS
<1>1. Idle \in [pc : Pcs, job : BOOLEAN, event : BOOLEAN, next : Nexts,
               news : Active \cup Settled \cup {"none"}]
  BY DEF Idle, At, Pcs, Nexts
<1>2. 0 \in 0 .. Buffer /\ 0 \in 0 .. MaxRetries /\ 0 \in 0 .. MaxFaults
  BY ImageAssumption DEF ImageAssumption
<1>3. ImageTypeOK
  BY <1>1, <1>2 DEF ImageInit, ImageTypeOK
<1> QED
  BY <1>3 DEF ImageInit, NoticeInv, NewsIsTold, UnbornIsIdle, TrackedFirst,
              NoticeFollowsTask, Idle, At, Procs, Handlers

LEMMA NoticeInvNext == NoticeInv /\ [ImageNext]_imageVars => NoticeInv'
<1> SUFFICES ASSUME NoticeInv, [ImageNext]_imageVars PROVE NoticeInv'
  OBVIOUS
<1> USE ImageAssumption
<1>1. CASE Create \/ Track \/ RetryReads \/ RetryWrites
  BY <1>1, CreateKeeps, TrackKeeps, RetryReadsKeeps, RetryWritesKeeps
<1>2. CASE \E p \in Procs : Tell(p)
  BY <1>2, TellKeeps
<1>3. CASE \E p \in Handlers : Starts(p) \/ Progresses(p) \/ Answers(p)
  BY <1>3, GoroutineKeeps
<1>4. CASE PollReads \/ PollEnds \/ PollRecovers
  BY <1>4, PollKeeps
<1>5. CASE Delete \/ GrowsOld \/ GrowsQuiet
  BY <1>5, WorldKeeps
<1>6. CASE Restart
  BY <1>6, RestartKeeps
<1>7. CASE Connect \/ Greets \/ Deliver \/ Cut \/ Refresh
  BY <1>7, PanelKeeps
<1>8. CASE UNCHANGED imageVars
  BY <1>8 DEF imageVars, NoticeInv, ImageTypeOK, NewsIsTold, UnbornIsIdle, TrackedFirst,
              NoticeFollowsTask
<1> QED
  BY <1>1, <1>2, <1>3, <1>4, <1>5, <1>6, <1>7, <1>8 DEF ImageNext, TaskStep

\* Types of the image task: in particular a panel's buffer keeps to its size.
THEOREM ImageTypeCorrect == ImageSpec => []ImageTypeOK
<1>1. NoticeInv => ImageTypeOK
  BY DEF NoticeInv
<1> QED
  BY <1>1, NoticeInvInit, NoticeInvNext, PTL DEF ImageSpec

\* Whatever order creation, retries, polls, deletions and crashes write the row
\* and tell about it, the notification of a completed task says so when everyone
\* has told, unless a crash interrupted the telling of a completion (SyncTask).
THEOREM NotificationFollows == ImageSpec => []NoticeFollowsTask
<1>1. NoticeInv => NoticeFollowsTask
  BY DEF NoticeInv
<1> QED
  BY <1>1, NoticeInvInit, NoticeInvNext, PTL DEF ImageSpec
=============================================================================
