--------------------------- MODULE AssetSelection ---------------------------
(***************************************************************************)
(* The assets of generation tasks and the selection of one of them for a   *)
(* creative resource (a character, a scene, a shot) of a project.          *)
(*                                                                         *)
(* Two tables record a selection: a flag on the asset row of the task, and *)
(* a row of project_selected_assets.  They are written by the user's       *)
(* clicks, by the default selection of a completed generation, and by      *)
(* every save of a task record that some goroutine read or built earlier.  *)
(* The mutex of GenerationTaskService makes each operation one critical    *)
(* section; nothing ties a save to the read before it.                     *)
(*                                                                         *)
(* One project and one kind of asset (images, whose generation runs in the *)
(* background and may be handed off to polling).  A section belongs to one *)
(* document.  Of a title only equality matters, because it is part of the  *)
(* id of a selected row: "record" is the one a record carries in memory,   *)
(* "file" the file name that a stored asset is read back with.             *)
(***************************************************************************)
EXTENDS Integers

CONSTANTS
  Tasks,            \* task ids
  MaxSlot,          \* a generation has at most MaxSlot + 1 assets
  Types,            \* resource types: character, scene, storyboard, prop
  Capabilities,     \* capability ids of tasks; None stands for one that is no resource type
  Sections,         \* resource ids; None stands for the empty one
  Media,            \* assets of the media library that no task produced
  Readers,          \* polls and requests in flight together
  PicksWhileActive, \* does the user select assets of a task that still runs?
  RetriesPolled,    \* does the user retry a task that has a provider task id?
  Uncached,         \* may storing a generated asset locally fail?
  None

Slots  == 0 .. MaxSlot
Titles == {"record", "file"}

ASSUME MaxSlotNat     == MaxSlot \in Nat
ASSUME CapabilityType == Capabilities \subseteq Types \cup {None}
ASSUME NoneNotType    == None \notin Types \cup Tasks
ASSUME SwitchesBool   == {PicksWhileActive, RetriesPolled, Uncached} \subseteq BOOLEAN
ASSUME MediaNotSlots  == Media \cap (Tasks \X Slots) = {}

VARIABLES
  task,    \* the rows of generation_tasks with their asset rows and deleted slots
  row,     \* the rows of project_selected_assets that are not soft-deleted
  gen,     \* the background goroutine of each task and the record it holds
  reader   \* polls, status checks and retries between their read and their save

vars == <<task, row, gen, reader>>

-----------------------------------------------------------------------------
(* Selected rows.                                                          *)

Sources == (Tasks \X Slots) \cup Media

\* A row is its own id: the id is a hash of these fields and of the project.
SelectedRow == [type : Types, section : Sections, title : Titles, source : Sources]

RowsOfTask(t)    == {r \in row : \E k \in Slots : r.source = <<t, k>>}
RowsOfSlot(t, k) == {r \in row : r.source = <<t, k>>}

\* Mutant: selections of other titles of the asset are left alone.
SameResource_SameTitle(type, section) ==
  {r \in row : r.type = type /\ r.section = section /\ r.title = "record"}

SameResource(type, section) ==
  IF section = None THEN {} ELSE {r \in row : r.type = type /\ r.section = section}

\* The flags of one task after the rows R were cleared.
FlagsAfter(t, flags, R) == {k \in flags : \A r \in R : r.source # <<t, k>>}

Unflagged(R) == [t \in Tasks |-> [task[t] EXCEPT !.flags = FlagsAfter(t, @, R)]]

\* replaceResourceSelectionLocked, after task t was written as stored.
ReplaceSelection(t, stored, r) ==
  LET cleared == SameResource(r.type, r.section) \ {r}
  IN  /\ row'  = (row \ cleared) \cup {r}
      /\ task' = [Unflagged(cleared) EXCEPT
                    ![t] = [stored EXCEPT !.flags = FlagsAfter(t, @, cleared)]]

-----------------------------------------------------------------------------
(* Saving a record: upsertTask.                                            *)

Exists(t)    == task[t].status \notin {"unused", "deleted"}
ResourceType(rec) == IF rec.type # None THEN rec.type ELSE rec.cap

\* A deleted slot of the record keeps the asset that would fill it out.
Visible(rec) == rec.assets \ rec.deleted
First(S)     == CHOOSE k \in S : \A j \in S : k <= j

\* Mutant: every save with assets selects, not only a completed one.
DefaultSelects_Unfinished(rec) ==
  ResourceType(rec) # None /\ rec.section # None /\ Visible(rec) # {}

DefaultSelects(rec) ==
  /\ rec.status = "completed"
  /\ ResourceType(rec) # None /\ rec.section # None
  /\ Visible(rec) # {}

\* What the default selection clears before the record is written.
DefaultCleared(rec) ==
  IF DefaultSelects(rec) THEN SameResource(ResourceType(rec), rec.section) ELSE {}

FlagsToStore(rec) ==
  (rec.flags \cap Visible(rec))
    \cup (IF DefaultSelects(rec) THEN {First(Visible(rec))} ELSE {})

\* The row of one asset of a task.
RowFor(t, rec, k, title) ==
  [type |-> ResourceType(rec), section |-> rec.section, title |-> title, source |-> <<t, k>>]

RowsToStore(t, rec, title) ==
  IF ResourceType(rec) = None THEN {} ELSE {RowFor(t, rec, k, title) : k \in FlagsToStore(rec)}

\* On conflict the resource_type column keeps its value.
StoredType(t, rec) == IF Exists(t) THEN task[t].type ELSE rec.type

Save(t, rec, title) ==
  LET cleared == DefaultCleared(rec)
  IN  /\ task' = [Unflagged(cleared) EXCEPT
                    ![t] = [rec EXCEPT !.type   = StoredType(t, rec),
                                       !.assets = Visible(rec),
                                       !.flags  = FlagsToStore(rec)]]
      /\ row' = (row \ cleared) \cup RowsToStore(t, rec, title)

\* An asset without a local copy has no id: the previous selection is cleared
\* and the task row written, then replacing the asset rows is refused.  With no
\* local copy at all the default selection has nothing to select.
SaveRefused(t, rec) ==
  /\ Uncached /\ Visible(rec) # {}
  /\ \E cleared \in {{}, DefaultCleared(rec)} :
       /\ task' = [Unflagged(cleared) EXCEPT
                     ![t].status = rec.status,
                     ![t].polled = rec.polled,
                     ![t].type   = StoredType(t, rec),
                     ![t].cap    = rec.cap, ![t].section = rec.section]
       /\ row' = row \ cleared

\* The callers go on, or stop, whatever the save answers.
\* Assets read back from their rows have an id.
Upsert(t, rec, title) ==
  \/ Save(t, rec, title)
  \/ title = "record" /\ SaveRefused(t, rec)

UpsertExisting(t, rec, title) ==
  \/ Exists(t) /\ Upsert(t, rec, title)
  \/ ~Exists(t) /\ UNCHANGED <<task, row>>

-----------------------------------------------------------------------------
(* Records in memory.                                                      *)

\* GenerationTaskWithMessage: the answer's assets replace the record's.  An
\* image answer without assets has failed; a failed one with assets is a
\* partial success, unless slot 0 is deleted (every asset of an answer still
\* has slot index 0 when the kept ones are counted).
StatusOf(answer, n, deleted) ==
  CASE answer = "completed" /\ n = 0                  -> "failed"
    [] answer = "failed" /\ n > 0 /\ 0 \notin deleted -> "completed"
    [] OTHER                                          -> answer

WithMessage(rec, answer, n) ==
  [rec EXCEPT !.status = StatusOf(answer, n, rec.deleted),
              !.assets = 0 .. (n - 1),
              !.flags  = {}]

Answers == {"active", "completed", "failed"}

Blank == [status |-> "unused", type |-> None, cap |-> None, section |-> None,
          polled |-> FALSE, assets |-> {}, flags |-> {}, deleted |-> {}]

NoGen    == [pc |-> "idle", rec |-> Blank]
NoReader == [pc |-> "idle", task |-> None, rec |-> Blank]

\* What a read keeps of the row: every save replaces its assets and its status.
Read(t) == [task[t] EXCEPT !.status = "active", !.assets = {}, !.flags = {}]

-----------------------------------------------------------------------------
(* The background goroutine of an image task.                              *)

NewRecord(type, cap, section) ==
  [Blank EXCEPT !.status = "active", !.cap = cap, !.section = section,
                !.type = IF type # None THEN type ELSE cap]

\* A request creates the task; its section and resource type never change
\* but by selections.
Create(t) ==
  /\ task[t].status = "unused"
  /\ \E type \in Types \cup {None}, cap \in Capabilities, section \in Sections :
       LET rec == NewRecord(type, cap, section)
       IN  /\ Save(t, rec, "record")
           /\ gen' = [gen EXCEPT ![t] = [pc |-> "submitted", rec |-> rec]]
  /\ UNCHANGED reader

GenAt(t, pc) == gen' = [gen EXCEPT ![t].pc = pc]
GenEnds(t)   == gen' = [gen EXCEPT ![t] = NoGen]

\* completeSubmittedGeneration: the save that also finds a deleted task.
StartRunning(t) ==
  /\ gen[t].pc = "submitted"
  /\ UpsertExisting(t, gen[t].rec, "record")
  /\ IF Exists(t) THEN GenAt(t, "running") ELSE GenEnds(t)
  /\ UNCHANGED reader

SaveProgress(t) ==
  /\ gen[t].pc = "running"
  /\ \E n \in 1 .. MaxSlot + 1 :
       UpsertExisting(t, WithMessage(gen[t].rec, "active", n), "record")
  /\ UNCHANGED <<gen, reader>>

GenerationCompletes(t) ==
  /\ gen[t].pc = "running"
  /\ \E answer \in Answers, n \in 0 .. MaxSlot + 1 :
       UpsertExisting(t, WithMessage(gen[t].rec, answer, n), "record")
  /\ GenEnds(t)
  /\ UNCHANGED reader

\* An error, or an answer that is still being generated: the record to save
\* takes the assets stored so far, which taskWithCurrentProgressAssets reads.
CurrentAssets(t, rec) ==
  IF Exists(t) THEN [rec EXCEPT !.assets = task[t].assets, !.flags = task[t].flags]
               ELSE rec

ReadProgressAssets(t) ==
  /\ gen[t].pc = "running"
  /\ \E rec \in {[gen[t].rec EXCEPT !.status = "failed"],
                 [gen[t].rec EXCEPT !.polled = TRUE]} :
       gen' = [gen EXCEPT ![t] = [pc |-> "ending", rec |-> CurrentAssets(t, rec)]]
  /\ UNCHANGED <<task, row, reader>>

\* The failure is saved, or the task is handed off to polling.
GenerationEnds(t) ==
  /\ gen[t].pc = "ending"
  /\ UpsertExisting(t, gen[t].rec, "file")
  /\ GenEnds(t)
  /\ UNCHANGED reader

-----------------------------------------------------------------------------
(* Background polls, status checks and retries.                            *)

Reads(p, pc, t) ==
  /\ reader[p].pc = "idle"
  /\ reader' = [reader EXCEPT ![p] = [pc |-> pc, task |-> t, rec |-> Read(t)]]
  /\ UNCHANGED <<task, row, gen>>

ReaderEnds(p) == reader' = [reader EXCEPT ![p] = NoReader]

\* The worker lists active tasks that have a provider task id.
PollReads(p, t) ==
  /\ task[t].status = "active" /\ task[t].polled
  /\ \A q \in Readers : reader[q].pc # "poll"
  /\ Reads(p, "poll", t)

PollSaves(p) ==
  /\ reader[p].pc = "poll"
  /\ \/ \E answer \in Answers, n \in 0 .. MaxSlot + 1 :
          UpsertExisting(reader[p].task, WithMessage(reader[p].rec, answer, n), "record")
     \/ UNCHANGED <<task, row>>
  /\ ReaderEnds(p)
  /\ UNCHANGED gen

\* A status check asks the provider whatever the status of the task is.
CheckReads(p, t) ==
  /\ Exists(t) /\ task[t].polled
  /\ Reads(p, "check", t)

CheckSaves(p) ==
  /\ reader[p].pc = "check"
  /\ \/ \E answer \in Answers, n \in 0 .. MaxSlot + 1 :
          Upsert(reader[p].task, WithMessage(reader[p].rec, answer, n), "record")
     \/ UNCHANGED <<task, row>>
  /\ ReaderEnds(p)
  /\ UNCHANGED gen

\* A retry keeps the provider task id, so the polls of the last attempt go on.
RetryReads(p, t) ==
  /\ Exists(t) /\ (RetriesPolled \/ ~task[t].polled)
  /\ Reads(p, "retry", t)

\* One generation of a task at a time: a bound of the model, not of the code.
RetrySaves(p) ==
  LET t   == reader[p].task
      rec == WithMessage(reader[p].rec, "active", 0)
  IN  /\ reader[p].pc = "retry"
      /\ gen[t].pc = "idle"
      /\ Upsert(t, rec, "record")
      /\ gen' = [gen EXCEPT ![t] = [pc |-> "submitted", rec |-> rec]]
      /\ ReaderEnds(p)

RetryRefused(p) ==
  /\ reader[p].pc = "retry"
  /\ ReaderEnds(p)
  /\ UNCHANGED <<task, row, gen>>

-----------------------------------------------------------------------------
(* The user.                                                               *)

Pickable(t) == Exists(t) /\ (PicksWhileActive \/ task[t].status # "active")

\* UpsertSelectedAsset of a task's asset.
SelectTaskAsset(t, k) ==
  /\ Pickable(t)
  /\ k \in Visible(task[t])
  /\ \E type \in Types, section \in Sections, title \in Titles :
       ReplaceSelection(t,
         [task[t] EXCEPT !.flags = @ \cup {k}, !.type = type],
         [type |-> type, section |-> section, title |-> title, source |-> <<t, k>>])
  /\ UNCHANGED <<gen, reader>>

\* UpsertSelectedAsset of an asset of the media library.
SelectMedia(m) ==
  /\ \E type \in Types, section \in Sections, title \in Titles :
       LET r       == [type |-> type, section |-> section, title |-> title, source |-> m]
           cleared == SameResource(type, section) \ {r}
       IN  /\ row'  = (row \ cleared) \cup {r}
           /\ task' = Unflagged(cleared)
  /\ UNCHANGED <<gen, reader>>

\* Rows R go, and the flag of the source with them.
Unselect(R, source) ==
  /\ row'  = row \ R
  /\ task' = [t \in Tasks |-> [task[t] EXCEPT !.flags = {k \in @ : source # <<t, k>>}]]
  /\ UNCHANGED <<gen, reader>>

\* Mutant: the row goes and the task keeps showing the asset as selected.
DeleteSelectedAsset_KeepsFlag(r) ==
  /\ r \in row
  /\ row' = row \ {r}
  /\ UNCHANGED <<task, gen, reader>>

DeleteSelectedAsset(r) == r \in row /\ Unselect({r}, r.source)

\* By the request's fields, or else by the slot they name.
DeleteSelectedAssetByRequest(r) ==
  /\ r \notin row
  /\ LET R == {q \in row : q.type = r.type /\ q.source = r.source}
     IN  /\ r.source \notin Media
         /\ R # {}
         /\ Unselect(R, r.source)

UpdateAsset(t, k) ==
  /\ Pickable(t)
  /\ k \in Visible(task[t])
  /\ \E selected \in BOOLEAN, title \in Titles, type \in Types \cup {None} :
       LET stored == [task[t] EXCEPT !.flags = IF selected THEN @ \cup {k} ELSE @ \ {k},
                                     !.type  = IF type # None THEN type ELSE @]
           r      == RowFor(t, stored, k, title)
           select == selected /\ ResourceType(stored) # None
       IN  \/ select  /\ ReplaceSelection(t, stored, r)
           \/ ~select /\ row' = row \ {r} /\ task' = [task EXCEPT ![t] = stored]
  /\ UNCHANGED <<gen, reader>>

WithoutSlot(rec, k) ==
  [rec EXCEPT !.assets = @ \ {k}, !.flags = @ \ {k}, !.deleted = @ \cup {k}]

\* The resource type column takes the capability id of the task.
DeleteAsset(t, k) ==
  /\ Exists(t)
  /\ k \notin task[t].deleted
  /\ row' = IF k \in task[t].assets
              THEN {r \in row : ~ /\ r.source = <<t, k>>
                                  /\ r.type = ResourceType(task[t])}
              ELSE row
  /\ task' = [task EXCEPT ![t] = [WithoutSlot(@, k) EXCEPT !.type = task[t].cap]]
  /\ UNCHANGED <<gen, reader>>

\* Mutant: the selections that the task is the source of stay.
Delete_KeepsSelections(t) ==
  /\ Exists(t)
  /\ task' = [task EXCEPT ![t] = [Blank EXCEPT !.status = "deleted"]]
  /\ UNCHANGED <<row, gen, reader>>

Delete(t) ==
  /\ Exists(t)
  /\ row'  = row \ RowsOfTask(t)
  /\ task' = [task EXCEPT ![t] = [Blank EXCEPT !.status = "deleted"]]
  /\ UNCHANGED <<gen, reader>>

-----------------------------------------------------------------------------
Init ==
  /\ task   = [t \in Tasks |-> Blank]
  /\ row    = {}
  /\ gen    = [t \in Tasks |-> NoGen]
  /\ reader = [p \in Readers |-> NoReader]

GenStep(t) ==
  \/ Create(t) \/ StartRunning(t) \/ SaveProgress(t)
  \/ GenerationCompletes(t) \/ ReadProgressAssets(t) \/ GenerationEnds(t)

ReaderStep(p) ==
  \/ \E t \in Tasks : PollReads(p, t) \/ CheckReads(p, t) \/ RetryReads(p, t)
  \/ PollSaves(p) \/ CheckSaves(p) \/ RetrySaves(p) \/ RetryRefused(p)

UserStep ==
  \/ \E t \in Tasks, k \in Slots : \/ SelectTaskAsset(t, k)
                                   \/ UpdateAsset(t, k)
                                   \/ DeleteAsset(t, k)
  \/ \E m \in Media : SelectMedia(m)
  \/ \E r \in row : DeleteSelectedAsset(r)
  \/ \E r \in SelectedRow : DeleteSelectedAssetByRequest(r)
  \/ \E t \in Tasks : Delete(t)

Next ==
  \/ \E t \in Tasks : GenStep(t)
  \/ \E p \in Readers : ReaderStep(p)
  \/ UserStep

Spec == Init /\ [][Next]_vars

-----------------------------------------------------------------------------
(* Properties.                                                             *)

Status == {"unused", "active", "completed", "failed", "deleted"}

TaskRecord ==
  [status : Status, type : Types \cup {None}, cap : Types \cup {None},
   section : Sections \cup {None}, polled : BOOLEAN,
   assets : SUBSET Slots, flags : SUBSET Slots, deleted : SUBSET Slots]

\* Type correctness: a flag is a flag of an asset row, and a slot is not both
\* filled and deleted.
SelectionTypeOK ==
  /\ task   \in [Tasks -> TaskRecord]
  /\ row    \subseteq SelectedRow
  /\ gen    \in [Tasks -> [pc : {"idle", "submitted", "running", "ending"}, rec : TaskRecord]]
  /\ reader \in [Readers -> [pc : {"idle", "poll", "check", "retry"},
                             task : Tasks \cup {None}, rec : TaskRecord]]
  /\ \A t \in Tasks : /\ task[t].flags \subseteq task[t].assets
                      /\ task[t].assets \cap task[t].deleted = {}

\* "selection is single-choice per resource+kind": whatever order clicks, polls,
\* checks and generations come in, a resource never has two selected assets.
SingleChoice ==
  \A q, r \in row : q.type = r.type /\ q.section = r.section /\ q.section # None => q = r

\* A selected row that a task is the source of has the task: no write that
\* comes after a deletion leaves the resource with an asset of a task the
\* history no longer shows.
SelectionHasTask ==
  \A t \in Tasks : RowsOfTask(t) # {} => Exists(t)

\* An asset that the history of a resource's task shows as selected is selected
\* for a resource, whichever of the two tables the last write came from.
FlaggedSlotHasRow ==
  \A t \in Tasks, k \in Slots :
    task[t].cap # None /\ k \in task[t].flags => RowsOfSlot(t, k) # {}

\* Whether this step is a save of task t by its goroutine or by a reader.
SavesTask(t) ==
  \/ gen'[t] # gen[t]
  \/ \E p \in Readers : reader[p].task = t /\ reader'[p] # reader[p]

\* A selection goes only by a click or for the default selection of a
\* generation of the same resource that completed: saving progress, failures,
\* hand-offs and unfinished polls, or the completion of another resource's
\* task, never takes it away.
OnlyCompletionReplaces ==
  [][\A r \in row \ row' :
       \/ UserStep
       \/ \E t \in Tasks : /\ SavesTask(t)
                           /\ task'[t].status = "completed"
                           /\ task'[t].section = r.section]_vars

=============================================================================
