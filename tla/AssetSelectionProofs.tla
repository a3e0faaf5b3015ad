------------------------ MODULE AssetSelectionProofs ------------------------
(***************************************************************************)
(* Theorems about AssetSelection: its types, the agreement of the two      *)
(* tables, that a selection goes only by a click or a completion, and      *)
(* that there is only one of a resource.                                   *)
(***************************************************************************)
EXTENDS AssetSelection, TLAPS, WellFoundedInduction

-----------------------------------------------------------------------------
(* Operators.                                                              *)

\* The first of some slots is one of them.
LEMMA FirstIsIn ==
  ASSUME NEW S \in SUBSET Slots, S # {}
  PROVE  First(S) \in S
<1>1. S \subseteq Nat
  BY MaxSlotNat DEF Slots
<1>2. PICK x \in S : \A y \in S : ~ (<<y, x>> \in OpToRel(<, Nat))
  BY <1>1, WFMin, NatLessThanWellFounded, Zenon
<1>3. ASSUME NEW y \in S PROVE x <= y
  <2>1. y < x => <<y, x>> \in OpToRel(<, Nat)
    BY <1>1 DEF OpToRel
  <2>2. ~ (y < x)
    BY <1>2, <2>1
  <2> QED
    BY <1>1, <2>2
<1> QED
  BY <1>3 DEF First

\* Records that may be written: those of a task that was created.
Writable == {rec \in TaskRecord : rec.status \in Answers /\ rec.section \in Sections}

LEMMA AnswersAreStatus == Answers \subseteq Status \ {"unused", "deleted"}
BY DEF Answers, Status

\* An answer makes a record that may be written, without flags.
LEMMA WithMessageTypes ==
  ASSUME NEW rec \in Writable, NEW answer \in Answers, NEW n \in 0 .. MaxSlot + 1
  PROVE  /\ WithMessage(rec, answer, n) \in Writable
         /\ WithMessage(rec, answer, n).cap = rec.cap
         /\ WithMessage(rec, answer, n).flags = {}
         /\ WithMessage(rec, answer, n).polled = rec.polled
         /\ answer = "active" => WithMessage(rec, answer, n).status = "active"
<1>1. 0 .. (n - 1) \subseteq Slots
  BY MaxSlotNat DEF Slots
<1>2. StatusOf(answer, n, rec.deleted) \in Answers
  BY DEF StatusOf, Answers
<1>3. answer = "active" => StatusOf(answer, n, rec.deleted) = "active"
  BY DEF StatusOf
<1> DEFINE a == 0 .. (n - 1)
           st == StatusOf(answer, n, rec.deleted)
<1>4. WithMessage(rec, answer, n) = [rec EXCEPT !.status = st, !.assets = a, !.flags = {}]
  BY DEF WithMessage
<1>5. a \in SUBSET Slots /\ st \in Answers /\ (answer = "active" => st = "active")
  BY <1>1, <1>2, <1>3
<1> HIDE DEF a, st
<1>6. st \in Status
  BY <1>5, AnswersAreStatus
<1> QED
  BY <1>4, <1>5, <1>6 DEF Writable, TaskRecord

\* The rows of a save are rows of the task's slots, one for each flag.
LEMMA RowsToStoreTypes ==
  ASSUME NEW t \in Tasks, NEW rec \in Writable, NEW title \in Titles
  PROVE  /\ FlagsToStore(rec) \subseteq Visible(rec)
         /\ RowsToStore(t, rec, title) \subseteq SelectedRow
         /\ \A r \in RowsToStore(t, rec, title) : \E k \in Slots : r.source = <<t, k>>
         /\ \A k \in FlagsToStore(rec) :
              rec.cap # None => \E r \in RowsToStore(t, rec, title) : r.source = <<t, k>>
<1>1. Visible(rec) \subseteq Slots
  BY DEF Visible, Writable, TaskRecord
<1>2. FlagsToStore(rec) \subseteq Visible(rec)
  BY <1>1, FirstIsIn DEF FlagsToStore, DefaultSelects
<1>3. ASSUME ResourceType(rec) # None, NEW k \in Slots
      PROVE  /\ RowFor(t, rec, k, title) \in SelectedRow
             /\ RowFor(t, rec, k, title).source = <<t, k>>
  BY <1>3 DEF RowFor, SelectedRow, Sources, ResourceType, Writable, TaskRecord
<1>4. rec.cap # None => ResourceType(rec) # None
  BY DEF ResourceType
<1> QED
  BY <1>1, <1>2, <1>3, <1>4 DEF RowsToStore

-----------------------------------------------------------------------------
(* The two tables.                                                         *)

\* What the tables say of one task.
Good(t) ==
  /\ task[t].flags \subseteq task[t].assets
  /\ task[t].assets \cap task[t].deleted = {}
  /\ IF Exists(t) THEN task[t].section \in Sections ELSE task[t].flags = {} /\ RowsOfTask(t) = {}
  /\ \A k \in task[t].flags : task[t].cap # None => RowsOfSlot(t, k) # {}

StoreOK ==
  /\ task \in [Tasks -> TaskRecord]
  /\ row \subseteq SelectedRow
  /\ \A t \in Tasks : Good(t)

\* A task of which nothing is written but that flags are cleared with their rows.
Kept(t, cleared) == task'[t] = [task[t] EXCEPT !.flags = FlagsAfter(t, @, cleared)]

\* Such a task still agrees with the rows: a flag goes with its row.
LEMMA KeptIsGood ==
  ASSUME StoreOK, NEW t \in Tasks, NEW cleared, NEW new, Kept(t, cleared),
         row' = (row \ cleared) \cup new,
         \A r \in new, k \in Slots : r.source # <<t, k>>
  PROVE  Good(t)' /\ task'[t] \in TaskRecord
<1>1. /\ task[t] \in TaskRecord /\ Good(t)
      /\ FlagsAfter(t, task[t].flags, cleared) \subseteq task[t].flags
  BY DEF StoreOK, FlagsAfter
<1>2. /\ task'[t] \in TaskRecord
      /\ task'[t].flags = FlagsAfter(t, task[t].flags, cleared)
      /\ task'[t].assets = task[t].assets /\ task'[t].deleted = task[t].deleted
      /\ task'[t].status = task[t].status /\ task'[t].section = task[t].section
      /\ task'[t].cap = task[t].cap
  BY <1>1 DEF Kept, TaskRecord
<1>3. RowsOfTask(t)' \subseteq RowsOfTask(t)
  BY DEF RowsOfTask
<1>4. ASSUME NEW k \in task'[t].flags, task'[t].cap # None
      PROVE  RowsOfSlot(t, k)' # {}
  <2>1. PICK r \in row : r.source = <<t, k>>
    BY <1>1, <1>2, <1>4 DEF Good, RowsOfSlot
  <2>2. r \notin cleared
    BY <1>2, <1>4, <2>1 DEF FlagsAfter
  <2> QED
    BY <2>1, <2>2 DEF RowsOfSlot
<1> QED
  BY <1>1, <1>2, <1>3, <1>4 DEF Good, Exists

\* A step that writes the tasks T, clears some rows and adds some.
LEMMA StoreStep ==
  ASSUME StoreOK, NEW T \in SUBSET Tasks, NEW cleared, NEW new \in SUBSET SelectedRow,
         DOMAIN task' = Tasks, task' = [t \in Tasks |-> task'[t]],
         \A t \in Tasks \ T : Kept(t, cleared),
         \A t \in T : task'[t] \in TaskRecord /\ Good(t)',
         row' = (row \ cleared) \cup new,
         \A r \in new : r.source \in Media \/ \E t \in T, k \in Slots : r.source = <<t, k>>
  PROVE  StoreOK'
<1>1. ASSUME NEW t \in Tasks \ T PROVE Good(t)' /\ task'[t] \in TaskRecord
  <2>1. \A r \in new, k \in Slots : r.source # <<t, k>>
    BY MediaNotSlots
  <2> QED
    BY <2>1, KeptIsGood
<1>2. \A t \in Tasks : Good(t)' /\ task'[t] \in TaskRecord
  BY <1>1
<1>3. row' \subseteq SelectedRow
  BY DEF StoreOK
<1> QED
  BY <1>2, <1>3 DEF StoreOK

\* The usual such step: task t gets the record x.
Writes(t, x, cleared, new) ==
  /\ task' = [Unflagged(cleared) EXCEPT ![t] = x]
  /\ row' = (row \ cleared) \cup new
  /\ new \subseteq SelectedRow
  /\ \A r \in new : \E k \in Slots : r.source = <<t, k>>
  /\ x \in TaskRecord /\ x.status \in Answers /\ x.section \in Sections
  /\ x.flags \subseteq x.assets /\ x.assets \cap x.deleted = {}
  /\ \A k \in x.flags : x.cap # None => RowsOfSlot(t, k)' # {}

\* The tables agree after such a write.
LEMMA WriteStep ==
  ASSUME StoreOK, NEW t \in Tasks, NEW x, NEW cleared, NEW new, Writes(t, x, cleared, new)
  PROVE  /\ StoreOK'
         /\ task'[t] = x
         /\ \A u \in Tasks \ {t} : Kept(u, cleared)
<1>1. /\ task'[t] = x /\ DOMAIN task' = Tasks /\ task' = [u \in Tasks |-> task'[u]]
      /\ \A u \in Tasks \ {t} : Kept(u, cleared)
  BY DEF Writes, Unflagged, Kept
<1>2. Good(t)'
  <2>1. x.status \notin {"unused", "deleted"}
    BY AnswersAreStatus DEF Writes
  <2> QED
    BY <1>1, <2>1 DEF Writes, Good, Exists
<1>3. \A u \in {t} : task'[u] \in TaskRecord /\ Good(u)'
  BY <1>1, <1>2 DEF Writes
<1>4. /\ \A r \in new : r.source \in Media \/ \E u \in {t}, k \in Slots : r.source = <<u, k>>
      /\ row' = (row \ cleared) \cup new /\ new \in SUBSET SelectedRow
  BY DEF Writes
<1>5. {t} \in SUBSET Tasks
  OBVIOUS
<1> HIDE DEF StoreOK
<1>6. StoreOK'
  BY <1>1, <1>3, <1>4, <1>5, StoreStep
<1> QED
  BY <1>1, <1>6

-----------------------------------------------------------------------------
(* Saves.                                                                  *)

\* What a save of rec leaves of the tasks' status, section and capability.
Wrote(t, rec) ==
  /\ task'[t].status = rec.status /\ task'[t].cap = rec.cap
  /\ task'[t].section = rec.section
  /\ \A u \in Tasks \ {t} : task'[u].status = task[u].status /\ task'[u].cap = task[u].cap

\* Clearing flags changes nothing else of a task.
LEMMA KeptStatus ==
  ASSUME StoreOK, NEW u \in Tasks, NEW cleared, Kept(u, cleared)
  PROVE  /\ task'[u].status = task[u].status /\ task'[u].cap = task[u].cap
         /\ task'[u].polled = task[u].polled /\ task'[u].section = task[u].section
         /\ task'[u].flags \subseteq task[u].flags
BY DEF StoreOK, Kept, TaskRecord, FlagsAfter

LEMMA StoredTypeTypes ==
  ASSUME StoreOK, NEW t \in Tasks, NEW rec \in Writable
  PROVE  StoredType(t, rec) \in Types \cup {None}
BY DEF StoreOK, StoredType, Writable, TaskRecord

\* A save leaves the tables agreeing, with the record's flags.
LEMMA SaveKeeps ==
  ASSUME StoreOK, NEW t \in Tasks, NEW rec \in Writable, NEW title \in Titles,
         Save(t, rec, title)
  PROVE  /\ StoreOK' /\ Wrote(t, rec)
         /\ task'[t].flags = FlagsToStore(rec) /\ task'[t].polled = rec.polled
<1> DEFINE cleared == DefaultCleared(rec)
           new == RowsToStore(t, rec, title)
           type == StoredType(t, rec)
           x == [rec EXCEPT !.type = type, !.assets = Visible(rec), !.flags = FlagsToStore(rec)]
<1>1. task' = [Unflagged(cleared) EXCEPT ![t] = x] /\ row' = (row \ cleared) \cup new
  BY DEF Save
<1>2. /\ x \in TaskRecord
      /\ x.flags = FlagsToStore(rec) /\ x.assets = Visible(rec) /\ x.deleted = rec.deleted
      /\ x.status = rec.status /\ x.section = rec.section /\ x.cap = rec.cap
      /\ x.polled = rec.polled
  <2>1. /\ Visible(rec) \in SUBSET Slots /\ type \in Types \cup {None}
        /\ FlagsToStore(rec) \in SUBSET Slots
    BY RowsToStoreTypes, StoredTypeTypes DEF Visible, Writable, TaskRecord
  <2> HIDE DEF type
  <2> QED
    BY <2>1 DEF Writable, TaskRecord
<1>3. x.flags \subseteq x.assets /\ x.assets \cap x.deleted = {}
  BY <1>2, RowsToStoreTypes DEF Visible
<1>4. x.status \in Answers /\ x.section \in Sections
  BY <1>2 DEF Writable
<1>5. \A k \in x.flags : x.cap # None => RowsOfSlot(t, k)' # {}
  <2>1. \A k \in FlagsToStore(rec) : rec.cap # None => \E r \in new : r.source = <<t, k>>
    BY RowsToStoreTypes
  <2> QED
    BY <1>1, <1>2, <2>1 DEF RowsOfSlot
<1>6. /\ new \in SUBSET SelectedRow
      /\ \A r \in new : \E k \in Slots : r.source = <<t, k>>
  BY RowsToStoreTypes
<1>7. x \in TaskRecord
  BY <1>2
<1> HIDE DEF x, new, cleared
<1>8. PICK y, c, n : y = x /\ c = cleared /\ n = new
  OBVIOUS
<1>9. Writes(t, y, c, n)
  BY <1>1, <1>3, <1>4, <1>5, <1>6, <1>7, <1>8 DEF Writes
<1>10. StoreOK' /\ task'[t] = y /\ \A u \in Tasks \ {t} : Kept(u, c)
  BY <1>9, WriteStep
<1> QED
  BY <1>2, <1>8, <1>10, KeptStatus DEF Wrote

\* So does a save whose asset rows are refused: the old flags stay, but the cleared ones.
LEMMA SaveRefusedKeeps ==
  ASSUME StoreOK, NEW t \in Tasks, NEW rec \in Writable,
         Exists(t) => rec.cap = task[t].cap, SaveRefused(t, rec)
  PROVE  /\ StoreOK' /\ Wrote(t, rec)
         /\ task'[t].flags \subseteq task[t].flags /\ task'[t].polled = rec.polled
<1>1. PICK cleared \in {{}, DefaultCleared(rec)} :
        /\ task' = [Unflagged(cleared) EXCEPT
                      ![t].status = rec.status, ![t].polled = rec.polled,
                      ![t].type = StoredType(t, rec),
                      ![t].cap = rec.cap, ![t].section = rec.section]
        /\ row' = row \ cleared
  BY DEF SaveRefused
<1> DEFINE flags == FlagsAfter(t, task[t].flags, cleared)
           type == StoredType(t, rec)
           x == [task[t] EXCEPT !.flags = flags, !.status = rec.status, !.polled = rec.polled,
                                !.type = type, !.cap = rec.cap, !.section = rec.section]
<1>2. task[t] \in TaskRecord /\ Good(t)
  BY DEF StoreOK
<1>3. flags \subseteq task[t].flags /\ type \in Types \cup {None}
  BY StoredTypeTypes DEF FlagsAfter
<1>4. task' = [Unflagged(cleared) EXCEPT ![t] = x]
  <2>1. Unflagged(cleared)[t] = [task[t] EXCEPT !.flags = flags]
    BY DEF Unflagged
  <2> QED
    BY <1>1, <1>2, <2>1 DEF Unflagged, TaskRecord
<1> HIDE DEF flags, type
<1>5. /\ x \in TaskRecord
      /\ x.flags = flags /\ x.assets = task[t].assets /\ x.deleted = task[t].deleted
      /\ x.status = rec.status /\ x.section = rec.section /\ x.cap = rec.cap
      /\ x.polled = rec.polled
  BY <1>2, <1>3 DEF Writable, TaskRecord
<1>6. x.flags \subseteq x.assets /\ x.assets \cap x.deleted = {}
  BY <1>2, <1>3, <1>5 DEF Good
<1>7. x.status \in Answers /\ x.section \in Sections
  BY <1>5 DEF Writable
<1>8. ASSUME NEW k \in x.flags, x.cap # None PROVE RowsOfSlot(t, k)' # {}
  <2>1. k \in task[t].flags /\ task[t].cap # None
    BY <1>2, <1>3, <1>5, <1>8 DEF Good
  <2>2. PICK r \in row : r.source = <<t, k>>
    BY <1>2, <2>1 DEF Good, RowsOfSlot
  <2>3. r \notin cleared
    BY <1>5, <1>8, <2>2 DEF flags, FlagsAfter
  <2> QED
    BY <1>1, <2>2, <2>3 DEF RowsOfSlot
<1>9. /\ row' = (row \ cleared) \cup {} /\ {} \in SUBSET SelectedRow
      /\ \A r \in {} : \E k \in Slots : r.source = <<t, k>>
      /\ x \in TaskRecord
  BY <1>1, <1>5
<1> HIDE DEF x
<1>10. PICK y : y = x
  OBVIOUS
<1>11. Writes(t, y, cleared, {})
  BY <1>4, <1>6, <1>7, <1>8, <1>9, <1>10 DEF Writes
<1>12. StoreOK' /\ task'[t] = y /\ \A u \in Tasks \ {t} : Kept(u, cleared)
  BY <1>11, WriteStep
<1> QED
  BY <1>3, <1>5, <1>10, <1>12, KeptStatus DEF Wrote

\* Who saves a record of an existing task has its capability.
LEMMA UpsertKeeps ==
  ASSUME StoreOK, NEW t \in Tasks, NEW rec \in Writable, NEW title \in Titles,
         Exists(t) => rec.cap = task[t].cap, Upsert(t, rec, title)
  PROVE  StoreOK' /\ Wrote(t, rec)
BY SaveKeeps, SaveRefusedKeeps DEF Upsert

\* What a save removes is a selection of the section it completes.
LEMMA UpsertClears ==
  ASSUME NEW t \in Tasks, NEW rec \in Writable, NEW title \in Titles,
         Upsert(t, rec, title), Wrote(t, rec)
  PROVE  \A r \in row \ row' : task'[t].status = "completed" /\ task'[t].section = r.section
<1>1. row \ row' \subseteq DefaultCleared(rec)
  BY DEF Upsert, Save, SaveRefused
<1>2. ASSUME NEW r \in DefaultCleared(rec)
      PROVE  rec.status = "completed" /\ rec.section = r.section
  BY <1>2 DEF DefaultCleared, DefaultSelects, SameResource
<1> QED
  BY <1>1, <1>2 DEF Wrote

-----------------------------------------------------------------------------
(* The records in memory.                                                  *)

\* c is the capability each task has, or had when it was created.
GenHolds(t, c) ==
  gen[t].pc # "idle" =>
    /\ task[t].status # "unused"
    /\ gen[t].rec \in Writable /\ gen[t].rec.cap = c[t]

ReaderHolds(p, c) ==
  reader[p].pc # "idle" =>
    /\ reader[p].task \in Tasks /\ task[reader[p].task].status # "unused"
    /\ reader[p].rec \in Writable /\ reader[p].rec.cap = c[reader[p].task]
    /\ reader[p].rec.status = "active" /\ reader[p].rec.flags = {}

HeldTypes ==
  /\ gen    \in [Tasks -> [pc : {"idle", "submitted", "running", "ending"}, rec : TaskRecord]]
  /\ reader \in [Readers -> [pc : {"idle", "poll", "check", "retry"},
                             task : Tasks \cup {None}, rec : TaskRecord]]

Held(c) ==
  /\ \A t \in Tasks : Exists(t) => task[t].cap = c[t]
  /\ \A t \in Tasks : GenHolds(t, c)
  /\ \A p \in Readers : ReaderHolds(p, c)

SelInv == StoreOK /\ HeldTypes /\ \E c \in [Tasks -> Types \cup {None}] : Held(c)

\* What the records in memory need of a step's writes.
TasksKeep(c) ==
  \A t \in Tasks : /\ task[t].status # "unused" => task'[t].status # "unused"
                   /\ Exists(t)' => task'[t].cap = c[t]

\* A save of a record with the task's capability keeps those in memory right.
LEMMA WroteKeeps ==
  ASSUME NEW c, Held(c), NEW t \in Tasks, NEW rec \in Writable, rec.cap = c[t], Wrote(t, rec)
  PROVE  TasksKeep(c) /\ task'[t].status # "unused"
<1>1. task'[t].status # "unused"
  BY AnswersAreStatus DEF Wrote, Writable
<1> QED
  BY <1>1 DEF TasksKeep, Wrote, Held, Exists

\* A goroutine or a reader that a step leaves alone keeps its record.
LEMMA HeldKept ==
  ASSUME NEW c, Held(c), TasksKeep(c)
  PROVE  /\ \A t \in Tasks : gen'[t] = gen[t] => GenHolds(t, c)'
         /\ \A p \in Readers : reader'[p] = reader[p] => ReaderHolds(p, c)'
         /\ \A t \in Tasks : Exists(t)' => task'[t].cap = c[t]
BY DEF Held, TasksKeep, GenHolds, ReaderHolds

\* The initial records.
LEMMA BlankType == Blank \in TaskRecord
BY DEF Blank, TaskRecord, Status

\* The invariant holds when nothing was created.
LEMMA InitHolds == Init => SelInv
<1> SUFFICES ASSUME Init PROVE SelInv
  OBVIOUS
<1>1. StoreOK
  <2>1. \A t \in Tasks : task[t] = Blank
    BY DEF Init
  <2>2. \A t \in Tasks : Good(t)
    BY <2>1 DEF Init, Good, Exists, RowsOfTask, Blank
  <2> QED
    BY <2>2, BlankType DEF Init, StoreOK
<1>2. HeldTypes
  BY BlankType DEF Init, HeldTypes, NoGen, NoReader
<1>3. \A c : Held(c)
  BY DEF Init, Held, Exists, Blank, GenHolds, NoGen, ReaderHolds, NoReader
<1>4. [t \in Tasks |-> None] \in [Tasks -> Types \cup {None}]
  OBVIOUS
<1> QED
  BY <1>1, <1>2, <1>3, <1>4 DEF SelInv

-----------------------------------------------------------------------------
(* Steps that save.                                                        *)

Holds(c) == StoreOK /\ HeldTypes /\ Held(c) /\ c \in [Tasks -> Types \cup {None}]

\* The records of a goroutine and of a reader after a step.
LEMMA HeldStep ==
  ASSUME NEW c, Holds(c), StoreOK', HeldTypes', TasksKeep(c),
         \A t \in Tasks : gen'[t] = gen[t] \/ GenHolds(t, c)',
         \A p \in Readers : reader'[p] = reader[p] \/ ReaderHolds(p, c)'
  PROVE  Holds(c)'
<1>1. Held(c)
  BY DEF Holds
<1> QED
  BY <1>1, HeldKept DEF Holds, Held

\* What a save takes away it takes for a completion of t.
ClearsFor(t, rec) ==
  \A r \in row \ row' :
    rec.status = "completed" /\ task'[t].status = "completed" /\ task'[t].section = r.section

\* A save, with or without the check that the task exists.
Saves(t, rec, title) == UpsertExisting(t, rec, title) \/ Upsert(t, rec, title)

\* Whoever saves, the tables agree and only a completion clears.
LEMMA SavesKeep ==
  ASSUME NEW c, Holds(c), NEW t \in Tasks, task[t].status # "unused",
         NEW rec \in Writable, rec.cap = c[t], NEW title \in Titles, Saves(t, rec, title)
  PROVE  StoreOK' /\ TasksKeep(c) /\ task'[t].status # "unused" /\ ClearsFor(t, rec)
<1>0. StoreOK /\ Held(c) /\ (Exists(t) => rec.cap = task[t].cap)
  BY DEF Holds, Held
<1>1. CASE Upsert(t, rec, title)
  <2>1. StoreOK' /\ Wrote(t, rec)
    BY <1>0, <1>1, UpsertKeeps
  <2>2. TasksKeep(c) /\ task'[t].status # "unused"
    BY <1>0, <2>1, WroteKeeps
  <2> QED
    BY <1>1, <2>1, <2>2, UpsertClears DEF ClearsFor, Wrote
<1>2. CASE UNCHANGED <<task, row>>
  <2>1. StoreOK'
    BY <1>0, <1>2 DEF StoreOK, Good, Exists, RowsOfTask, RowsOfSlot
  <2> QED
    BY <1>0, <1>2, <2>1 DEF TasksKeep, ClearsFor, Held, Exists
<1> QED
  BY <1>1, <1>2 DEF Saves, UpsertExisting

\* The body of OnlyCompletionReplaces.
Replaces ==
  \A r \in row \ row' :
    \/ UserStep
    \/ \E t \in Tasks : /\ SavesTask(t)
                        /\ task'[t].status = "completed"
                        /\ task'[t].section = r.section

\* A save of the goroutine of t.
LEMMA GenSaves ==
  ASSUME NEW c, Holds(c), NEW t \in Tasks, gen[t].pc # "idle",
         NEW rec \in Writable, rec.cap = c[t], NEW title \in Titles,
         UpsertExisting(t, rec, title),
         NEW g \in {NoGen, gen[t], [gen[t] EXCEPT !.pc = "running"]},
         gen' = [gen EXCEPT ![t] = g], UNCHANGED reader,
         g = gen[t] => rec.status # "completed"
  PROVE  Holds(c)' /\ Replaces
<1>1. GenHolds(t, c) /\ task[t].status # "unused"
  BY DEF Holds, Held, GenHolds
<1>2. Saves(t, rec, title)
  BY DEF Saves
<1>3. StoreOK' /\ TasksKeep(c) /\ task'[t].status # "unused" /\ ClearsFor(t, rec)
  BY <1>1, <1>2, SavesKeep
<1>4. HeldTypes' /\ gen'[t] = g /\ \A u \in Tasks \ {t} : gen'[u] = gen[u]
  BY BlankType DEF Holds, HeldTypes, NoGen
<1>5. GenHolds(t, c)'
  <2>1. g.pc # "idle" => g.rec = gen[t].rec
    BY DEF NoGen, Holds, HeldTypes
  <2> QED
    BY <1>1, <1>3, <1>4, <2>1 DEF GenHolds
<1>6. Holds(c)'
  BY <1>3, <1>4, <1>5, HeldStep
<1>7. g # gen[t] => SavesTask(t)
  BY <1>4 DEF SavesTask
<1> QED
  BY <1>3, <1>6, <1>7 DEF ClearsFor, Replaces

\* A save of the reader p.
LEMMA ReaderSaves ==
  ASSUME NEW c, Holds(c), NEW p \in Readers, reader[p].pc # "idle",
         NEW rec \in Writable, rec.cap = reader[p].rec.cap,
         NEW t \in Tasks, t = reader[p].task, Saves(t, rec, "record"),
         ReaderEnds(p), HeldTypes',
         \A u \in Tasks \ {t} : gen'[u] = gen[u],
         gen'[t] = gen[t] \/ gen'[t].rec = rec
  PROVE  Holds(c)' /\ Replaces
<1>1. ReaderHolds(p, c)
  BY DEF Holds, Held
<1>2. rec.cap = c[t] /\ task[t].status # "unused" /\ "record" \in Titles
  BY <1>1 DEF ReaderHolds, Titles
<1>3. StoreOK' /\ TasksKeep(c) /\ task'[t].status # "unused" /\ ClearsFor(t, rec)
  BY <1>2, SavesKeep
<1>4. /\ reader'[p] = NoReader
      /\ \A q \in Readers \ {p} : reader'[q] = reader[q]
  BY DEF ReaderEnds, Holds, HeldTypes
<1>5. ReaderHolds(p, c)'
  BY <1>4 DEF ReaderHolds, NoReader
<1>6. gen'[t] = gen[t] \/ GenHolds(t, c)'
  BY <1>2, <1>3 DEF GenHolds
<1>7. Holds(c)'
  BY <1>3, <1>4, <1>5, <1>6, HeldStep
<1>8. SavesTask(t)
  BY <1>4 DEF SavesTask, NoReader
<1> QED
  BY <1>3, <1>7, <1>8 DEF ClearsFor, Replaces

-----------------------------------------------------------------------------
(* The goroutine of a task.                                                *)

\* The record of a new task.
IsNew(rec, cap) ==
  /\ rec \in Writable /\ rec.cap = cap /\ rec.status = "active"
  /\ rec.flags = {} /\ rec.polled = FALSE /\ Visible(rec) = {}

LEMMA NewRecordTypes ==
  \A type \in Types \cup {None}, cap \in Capabilities, section \in Sections :
    IsNew(NewRecord(type, cap, section), cap)
<1> SUFFICES ASSUME NEW type \in Types \cup {None}, NEW cap \in Capabilities,
                    NEW section \in Sections
             PROVE  IsNew(NewRecord(type, cap, section), cap)
  OBVIOUS
<1> DEFINE ty == IF type # None THEN type ELSE cap
<1>1. ty \in Types \cup {None} /\ cap \in Types \cup {None}
  BY CapabilityType
<1>2. NewRecord(type, cap, section) =
        [Blank EXCEPT !.status = "active", !.cap = cap, !.section = section, !.type = ty]
  BY DEF NewRecord
<1> HIDE DEF ty
<1> QED
  BY <1>1, <1>2 DEF IsNew, Writable, TaskRecord, Blank, Answers, Status, Visible

\* The records in memory are other tasks' when a task is created.
LEMMA UnusedHolds ==
  ASSUME NEW c, Holds(c), NEW t \in Tasks, task[t].status = "unused",
         NEW cap \in Types \cup {None}
  PROVE  Holds([c EXCEPT ![t] = cap])
<1> DEFINE d == [c EXCEPT ![t] = cap]
<1>1. d \in [Tasks -> Types \cup {None}] /\ \A u \in Tasks \ {t} : d[u] = c[u]
  BY DEF Holds
<1> HIDE DEF d
<1>2. ~Exists(t) /\ gen[t].pc = "idle"
      /\ \A p \in Readers : reader[p].pc = "idle" \/ reader[p].task # t
  BY DEF Holds, Held, GenHolds, ReaderHolds, Exists
<1>3. Held(d)
  BY <1>1, <1>2 DEF Holds, Held, GenHolds, ReaderHolds
<1> QED
  BY <1>1, <1>3 DEF Holds, d

\* A new task sets the capability its records have.
LEMMA CreateKeeps ==
  ASSUME NEW c, Holds(c), NEW t \in Tasks, Create(t)
  PROVE  (\E d \in [Tasks -> Types \cup {None}] : Holds(d)') /\ Replaces
<1>1. PICK type \in Types \cup {None}, cap \in Capabilities, section \in Sections :
        /\ Save(t, NewRecord(type, cap, section), "record")
        /\ gen' = [gen EXCEPT ![t] = [pc |-> "submitted", rec |-> NewRecord(type, cap, section)]]
  BY DEF Create
<1>2. PICK rec : rec = NewRecord(type, cap, section)
  OBVIOUS
<1>3. rec \in Writable /\ rec.cap = cap /\ rec.status = "active"
  <2>1. IsNew(rec, cap)
    BY <1>2, NewRecordTypes
  <2> QED
    BY <2>1 DEF IsNew
<1>4. PICK d : d = [c EXCEPT ![t] = cap]
  OBVIOUS
<1>5. Holds(d) /\ d[t] = cap
  BY <1>4, UnusedHolds, CapabilityType DEF Create, Holds
<1>6. "record" \in Titles /\ Save(t, rec, "record") /\ StoreOK /\ Held(d)
  BY <1>1, <1>2, <1>5 DEF Titles, Holds
<1>7. StoreOK' /\ Wrote(t, rec)
  BY <1>3, <1>6, SaveKeeps
<1>8. TasksKeep(d) /\ task'[t].status # "unused"
  BY <1>3, <1>5, <1>6, <1>7, WroteKeeps
<1>9. HeldTypes' /\ gen'[t] = [pc |-> "submitted", rec |-> rec]
      /\ \A u \in Tasks \ {t} : gen'[u] = gen[u]
  BY <1>1, <1>2, <1>3 DEF Create, Holds, HeldTypes, Writable
<1>10. GenHolds(t, d)'
  BY <1>3, <1>5, <1>8, <1>9 DEF GenHolds
<1>11. UNCHANGED reader
  BY DEF Create
<1>12. Holds(d)'
  BY <1>5, <1>7, <1>8, <1>9, <1>10, <1>11, HeldStep
<1>13. row \subseteq row'
  BY <1>3, <1>6 DEF Save, DefaultCleared, DefaultSelects
<1> QED
  BY <1>5, <1>12, <1>13 DEF Replaces, Holds

LEMMA StartRunningKeeps ==
  ASSUME NEW c, Holds(c), NEW t \in Tasks, StartRunning(t)
  PROVE  Holds(c)' /\ Replaces
<1>1. PICK rec : rec = gen[t].rec
  OBVIOUS
<1>2. PICK g : g = IF Exists(t) THEN [gen[t] EXCEPT !.pc = "running"] ELSE NoGen
  OBVIOUS
<1>3. gen' = [gen EXCEPT ![t] = g]
  BY <1>2 DEF StartRunning, GenAt, GenEnds
<1>4. rec \in Writable /\ rec.cap = c[t] /\ "record" \in Titles
  BY <1>1 DEF Holds, Held, GenHolds, StartRunning, Titles
<1>5. g \in {NoGen, gen[t], [gen[t] EXCEPT !.pc = "running"]} /\ g # gen[t]
  BY <1>2 DEF StartRunning, Holds, HeldTypes, NoGen
<1>6. UpsertExisting(t, rec, "record") /\ gen[t].pc # "idle" /\ UNCHANGED reader
  BY <1>1 DEF StartRunning
<1> QED
  BY <1>3, <1>4, <1>5, <1>6, GenSaves

\* What a generation saves of an answer.
LEMMA GenAnswers ==
  ASSUME NEW c, Holds(c), NEW t \in Tasks, gen[t].pc = "running",
         NEW answer \in Answers, NEW n \in 0 .. MaxSlot + 1,
         UpsertExisting(t, WithMessage(gen[t].rec, answer, n), "record"),
         NEW g \in {NoGen, gen[t]}, gen' = [gen EXCEPT ![t] = g], UNCHANGED reader,
         g = gen[t] => answer = "active"
  PROVE  Holds(c)' /\ Replaces
<1>1. PICK old : old = gen[t].rec
  OBVIOUS
<1>2. old \in Writable /\ old.cap = c[t] /\ "record" \in Titles
  BY <1>1 DEF Holds, Held, GenHolds, Titles
<1>3. PICK rec : rec = WithMessage(old, answer, n)
  OBVIOUS
<1>4. rec \in Writable /\ rec.cap = c[t] /\ (answer = "active" => rec.status = "active")
  BY <1>2, <1>3, WithMessageTypes
<1>5. /\ UpsertExisting(t, rec, "record") /\ gen[t].pc # "idle"
      /\ g \in {NoGen, gen[t], [gen[t] EXCEPT !.pc = "running"]}
      /\ g = gen[t] => rec.status # "completed"
  BY <1>1, <1>3, <1>4
<1>6. g = gen[t] => rec.status # "completed"
  BY <1>5
<1> QED
  BY ONLY Holds(c), t \in Tasks, gen' = [gen EXCEPT ![t] = g], UNCHANGED reader,
          <1>2, <1>4, <1>5, <1>6, GenSaves, Zenon

LEMMA SaveProgressKeeps ==
  ASSUME NEW c, Holds(c), NEW t \in Tasks, SaveProgress(t)
  PROVE  Holds(c)' /\ Replaces
<1>1. PICK n \in 1 .. MaxSlot + 1 :
        UpsertExisting(t, WithMessage(gen[t].rec, "active", n), "record")
  BY DEF SaveProgress
<1>2. n \in 0 .. MaxSlot + 1 /\ "active" \in Answers
  BY MaxSlotNat DEF Answers
<1>3. PICK g : g = gen[t]
  OBVIOUS
<1>4. gen' = [gen EXCEPT ![t] = g]
  BY <1>3 DEF SaveProgress, Holds, HeldTypes
<1>5. g \in {NoGen, gen[t]} /\ gen[t].pc = "running" /\ UNCHANGED reader
  BY <1>3 DEF SaveProgress
<1> QED
  BY <1>1, <1>2, <1>4, <1>5, GenAnswers

LEMMA GenerationCompletesKeeps ==
  ASSUME NEW c, Holds(c), NEW t \in Tasks, GenerationCompletes(t)
  PROVE  Holds(c)' /\ Replaces
<1>1. PICK answer \in Answers, n \in 0 .. MaxSlot + 1 :
        UpsertExisting(t, WithMessage(gen[t].rec, answer, n), "record")
  BY DEF GenerationCompletes
<1>2. PICK g : g = NoGen
  OBVIOUS
<1>3. /\ gen' = [gen EXCEPT ![t] = g] /\ g \in {NoGen, gen[t]} /\ g # gen[t]
      /\ gen[t].pc = "running" /\ UNCHANGED reader
  BY <1>2 DEF GenerationCompletes, GenEnds, NoGen
<1> QED
  BY <1>1, <1>3, GenAnswers

\* A step that writes nothing.
LEMMA NoWrite ==
  ASSUME NEW c, Holds(c), UNCHANGED <<task, row>>
  PROVE  StoreOK' /\ TasksKeep(c) /\ Replaces
<1>1. StoreOK'
  BY DEF Holds, StoreOK, Good, Exists, RowsOfTask, RowsOfSlot
<1> QED
  BY <1>1 DEF Holds, Held, Exists, TasksKeep, Replaces

\* The ending record takes flags of the row; saving it checks the existence anew.
LEMMA ReadProgressAssetsKeeps ==
  ASSUME NEW c, Holds(c), NEW t \in Tasks, ReadProgressAssets(t)
  PROVE  Holds(c)' /\ Replaces
<1>1. PICK old : old = gen[t].rec
  OBVIOUS
<1>2. old \in Writable /\ old.cap = c[t] /\ task[t].status # "unused"
  BY <1>1 DEF Holds, Held, GenHolds, ReadProgressAssets
<1>3. PICK rec \in {[old EXCEPT !.status = "failed"], [old EXCEPT !.polled = TRUE]} :
        gen' = [gen EXCEPT ![t] = [pc |-> "ending", rec |-> CurrentAssets(t, rec)]]
  BY <1>1 DEF ReadProgressAssets
<1>4. rec \in Writable /\ rec.cap = old.cap
  BY <1>2, <1>3 DEF Writable, TaskRecord, Answers, Status
<1>5. PICK x : x = CurrentAssets(t, rec)
  OBVIOUS
<1>6. x \in Writable /\ x.cap = c[t]
  <2>1. task[t] \in TaskRecord
    BY DEF Holds, StoreOK
  <2> QED
    BY <1>2, <1>4, <1>5, <2>1 DEF CurrentAssets, Writable, TaskRecord
<1>7. HeldTypes' /\ gen'[t] = [pc |-> "ending", rec |-> x]
      /\ \A u \in Tasks \ {t} : gen'[u] = gen[u]
  BY <1>3, <1>5, <1>6 DEF ReadProgressAssets, Holds, HeldTypes, Writable
<1>8. StoreOK' /\ TasksKeep(c) /\ Replaces
  BY NoWrite DEF ReadProgressAssets
<1>9. GenHolds(t, c)' /\ UNCHANGED reader
  BY <1>2, <1>6, <1>7 DEF GenHolds, ReadProgressAssets
<1> QED
  BY <1>7, <1>8, <1>9, HeldStep

LEMMA GenerationEndsKeeps ==
  ASSUME NEW c, Holds(c), NEW t \in Tasks, GenerationEnds(t)
  PROVE  Holds(c)' /\ Replaces
<1>1. PICK rec : rec = gen[t].rec
  OBVIOUS
<1>2. rec \in Writable /\ rec.cap = c[t] /\ "file" \in Titles
  BY <1>1 DEF Holds, Held, GenHolds, GenerationEnds, Titles
<1>3. PICK g : g = NoGen
  OBVIOUS
<1>4. /\ gen' = [gen EXCEPT ![t] = g] /\ g # gen[t] /\ gen[t].pc # "idle"
      /\ g \in {NoGen, gen[t], [gen[t] EXCEPT !.pc = "running"]}
      /\ UpsertExisting(t, rec, "file") /\ UNCHANGED reader
  BY <1>1, <1>3 DEF GenerationEnds, GenEnds, NoGen
<1> QED
  BY <1>2, <1>4, GenSaves

-----------------------------------------------------------------------------
(* Polls, status checks and retries.                                       *)

\* What is read of an existing task may be written.
LEMMA ReadTypes ==
  ASSUME StoreOK, NEW t \in Tasks, Exists(t)
  PROVE  /\ Read(t) \in Writable /\ Read(t).cap = task[t].cap
         /\ Read(t).status = "active" /\ Read(t).flags = {} /\ Read(t).polled = task[t].polled
<1>1. PICK old : old = task[t]
  OBVIOUS
<1>2. old \in TaskRecord /\ old.section \in Sections
  BY <1>1 DEF StoreOK, Good
<1>3. Read(t) = [old EXCEPT !.status = "active", !.assets = {}, !.flags = {}]
  BY <1>1 DEF Read
<1>4. "active" \in Status /\ "active" \in Answers
  BY DEF Status, Answers
<1> QED
  BY <1>1, <1>2, <1>3, <1>4 DEF Writable, TaskRecord

\* A reader gets a record of its task that may be written, also after a deletion.
LEMMA ReadsKeeps ==
  ASSUME NEW c, Holds(c), NEW p \in Readers, NEW t \in Tasks, Exists(t),
         NEW pc \in {"poll", "check", "retry"}, Reads(p, pc, t)
  PROVE  Holds(c)' /\ Replaces
<1>1. PICK rec : rec = Read(t)
  OBVIOUS
<1>2. rec \in Writable /\ rec.cap = c[t] /\ rec.status = "active" /\ rec.flags = {}
  BY <1>1, ReadTypes DEF Holds, Held
<1>3. StoreOK' /\ TasksKeep(c) /\ Replaces
  BY NoWrite DEF Reads
<1>4. /\ HeldTypes' /\ reader'[p] = [pc |-> pc, task |-> t, rec |-> rec]
      /\ \A q \in Readers \ {p} : reader'[q] = reader[q]
  BY <1>1, <1>2 DEF Reads, Holds, HeldTypes, Writable
<1>5. task'[t].status # "unused" /\ UNCHANGED gen
  BY DEF Reads, Exists
<1>6. ReaderHolds(p, c)'
  BY <1>2, <1>4, <1>5 DEF ReaderHolds
<1> QED
  BY <1>3, <1>4, <1>5, <1>6, HeldStep

LEMMA ReaderEndsTypes ==
  ASSUME HeldTypes, NEW p \in Readers, ReaderEnds(p)
  PROVE  /\ reader' \in [Readers -> [pc : {"idle", "poll", "check", "retry"},
                                     task : Tasks \cup {None}, rec : TaskRecord]]
         /\ reader'[p] = NoReader
         /\ \A q \in Readers \ {p} : reader'[q] = reader[q]
BY BlankType DEF HeldTypes, ReaderEnds, NoReader

\* A reader that ends without a save.
LEMMA ReaderEndsKeeps ==
  ASSUME NEW c, Holds(c), NEW p \in Readers, ReaderEnds(p), UNCHANGED <<task, row, gen>>
  PROVE  Holds(c)' /\ Replaces
<1>1. StoreOK' /\ TasksKeep(c) /\ Replaces
  BY NoWrite
<1>2. HeldTypes' /\ reader'[p] = NoReader /\ \A q \in Readers \ {p} : reader'[q] = reader[q]
  BY ReaderEndsTypes DEF Holds, HeldTypes
<1>3. ReaderHolds(p, c)'
  BY <1>2 DEF ReaderHolds, NoReader
<1> QED
  BY <1>1, <1>2, <1>3, HeldStep

\* A poll or a check saves an answer.
LEMMA ReaderAnswers ==
  ASSUME NEW c, Holds(c), NEW p \in Readers, reader[p].pc # "idle",
         NEW answer \in Answers, NEW n \in 0 .. MaxSlot + 1,
         Saves(reader[p].task, WithMessage(reader[p].rec, answer, n), "record"),
         ReaderEnds(p), UNCHANGED gen
  PROVE  Holds(c)' /\ Replaces
<1>1. PICK old, t : old = reader[p].rec /\ t = reader[p].task
  OBVIOUS
<1>2. old \in Writable /\ t \in Tasks
  BY <1>1 DEF Holds, Held, ReaderHolds
<1>3. PICK rec : rec = WithMessage(old, answer, n)
  OBVIOUS
<1>4. rec \in Writable /\ rec.cap = reader[p].rec.cap
  BY <1>1, <1>2, <1>3, WithMessageTypes
<1>5. Saves(t, rec, "record")
  BY <1>1, <1>3
<1>6. HeldTypes'
  BY ReaderEndsTypes DEF Holds, HeldTypes
<1> QED
  BY <1>1, <1>2, <1>4, <1>5, <1>6, ReaderSaves

LEMMA PollSavesKeeps ==
  ASSUME NEW c, Holds(c), NEW p \in Readers, PollSaves(p)
  PROVE  Holds(c)' /\ Replaces
<1>1. CASE UNCHANGED <<task, row>>
  BY <1>1, ReaderEndsKeeps DEF PollSaves
<1>2. ASSUME NEW answer \in Answers, NEW n \in 0 .. MaxSlot + 1,
             UpsertExisting(reader[p].task, WithMessage(reader[p].rec, answer, n), "record")
      PROVE  Holds(c)' /\ Replaces
  <2>1. Saves(reader[p].task, WithMessage(reader[p].rec, answer, n), "record")
    BY <1>2 DEF Saves
  <2>2. reader[p].pc # "idle" /\ ReaderEnds(p) /\ UNCHANGED gen
    BY DEF PollSaves
  <2> QED
    BY <2>1, <2>2, ReaderAnswers
<1> QED
  BY <1>1, <1>2 DEF PollSaves

LEMMA CheckSavesKeeps ==
  ASSUME NEW c, Holds(c), NEW p \in Readers, CheckSaves(p)
  PROVE  Holds(c)' /\ Replaces
<1>1. CASE UNCHANGED <<task, row>>
  BY <1>1, ReaderEndsKeeps DEF CheckSaves
<1>2. ASSUME NEW answer \in Answers, NEW n \in 0 .. MaxSlot + 1,
             Upsert(reader[p].task, WithMessage(reader[p].rec, answer, n), "record")
      PROVE  Holds(c)' /\ Replaces
  <2>1. Saves(reader[p].task, WithMessage(reader[p].rec, answer, n), "record")
    BY <1>2 DEF Saves
  <2>2. reader[p].pc # "idle" /\ ReaderEnds(p) /\ UNCHANGED gen
    BY DEF CheckSaves
  <2> QED
    BY <2>1, <2>2, ReaderAnswers
<1> QED
  BY <1>1, <1>2 DEF CheckSaves

LEMMA RetrySavesKeeps ==
  ASSUME NEW c, Holds(c), NEW p \in Readers, RetrySaves(p)
  PROVE  Holds(c)' /\ Replaces
<1>1. PICK old, t : old = reader[p].rec /\ t = reader[p].task
  OBVIOUS
<1>2. old \in Writable /\ t \in Tasks
  BY <1>1 DEF Holds, Held, ReaderHolds, RetrySaves
<1>3. PICK rec : rec = WithMessage(old, "active", 0)
  OBVIOUS
<1>4. rec \in Writable /\ rec.cap = reader[p].rec.cap
  <2>1. "active" \in Answers /\ 0 \in 0 .. MaxSlot + 1
    BY MaxSlotNat DEF Answers
  <2> QED
    BY <1>1, <1>2, <1>3, <2>1, WithMessageTypes
<1>5. /\ Upsert(t, rec, "record") /\ ReaderEnds(p) /\ reader[p].pc # "idle"
      /\ gen' = [gen EXCEPT ![t] = [pc |-> "submitted", rec |-> rec]]
  BY <1>1, <1>3 DEF RetrySaves
<1>6. /\ HeldTypes' /\ gen'[t].rec = rec
      /\ \A u \in Tasks \ {t} : gen'[u] = gen[u]
  <2>1. rec \in TaskRecord
    BY <1>4 DEF Writable
  <2> QED
    BY <1>2, <1>5, <2>1, ReaderEndsTypes DEF Holds, HeldTypes
<1>7. Saves(t, rec, "record")
  BY <1>5 DEF Saves
<1> QED
  BY <1>1, <1>2, <1>4, <1>5, <1>6, <1>7, ReaderSaves

-----------------------------------------------------------------------------
(* The user.                                                               *)

\* A click leaves the records in memory alone.
LEMMA UserKeeps ==
  ASSUME NEW c, Holds(c), StoreOK', TasksKeep(c), UNCHANGED <<gen, reader>>
  PROVE  Holds(c)'
BY HeldStep DEF Holds, HeldTypes

\* A click that writes task t, and that only clears flags of other tasks.
LEMMA WritesKeep ==
  ASSUME NEW c, Holds(c), NEW t \in Tasks, Exists(t), NEW x, NEW cleared, NEW new,
         Writes(t, x, cleared, new), x.cap = task[t].cap, UNCHANGED <<gen, reader>>
  PROVE  Holds(c)'
<1>1. StoreOK' /\ task'[t] = x /\ \A u \in Tasks \ {t} : Kept(u, cleared)
  BY WriteStep DEF Holds
<1>2. \A u \in Tasks \ {t} : task'[u].status = task[u].status /\ task'[u].cap = task[u].cap
  BY <1>1, KeptStatus DEF Holds
<1>3. task'[t].status # "unused" /\ task'[t].cap = c[t]
  BY <1>1, AnswersAreStatus DEF Writes, Holds, Held
<1>4. TasksKeep(c)
  BY <1>2, <1>3 DEF TasksKeep, Holds, Held, Exists
<1> QED
  BY <1>1, <1>4, UserKeeps

\* An existing task has an answer's status and a section.
LEMMA StoredTask ==
  ASSUME StoreOK, NEW t \in Tasks, Exists(t)
  PROVE  /\ task[t] \in TaskRecord /\ Good(t)
         /\ task[t].status \in Answers /\ task[t].section \in Sections
BY DEF StoreOK, Good, Exists, Answers, TaskRecord, Status

\* Task t after asset k was selected: replaceResourceSelectionLocked.
LEMMA ReplaceKeeps ==
  ASSUME NEW c, Holds(c), NEW t \in Tasks, Exists(t), NEW k \in Visible(task[t]),
         NEW type \in Types \cup {None}, NEW stored,
         stored = [task[t] EXCEPT !.flags = @ \cup {k}, !.type = type],
         NEW r \in SelectedRow, r.source = <<t, k>>,
         ReplaceSelection(t, stored, r), UNCHANGED <<gen, reader>>
  PROVE  Holds(c)'
<1> DEFINE cleared == SameResource(r.type, r.section) \ {r}
           flags == FlagsAfter(t, stored.flags, cleared)
           x == [stored EXCEPT !.flags = flags]
<1>1. row' = (row \ cleared) \cup {r} /\ task' = [Unflagged(cleared) EXCEPT ![t] = x]
  BY DEF ReplaceSelection
<1>2. /\ task[t] \in TaskRecord /\ Good(t)
      /\ task[t].status \in Answers /\ task[t].section \in Sections
      /\ k \in task[t].assets /\ k \in Slots
  BY StoredTask DEF Holds, Visible, TaskRecord
<1>3. stored \in TaskRecord /\ stored.flags = task[t].flags \cup {k}
      /\ stored.assets = task[t].assets /\ stored.deleted = task[t].deleted
      /\ stored.status = task[t].status /\ stored.section = task[t].section
      /\ stored.cap = task[t].cap
  BY <1>2 DEF TaskRecord
<1>4. flags \subseteq stored.flags
  BY DEF FlagsAfter
<1> HIDE DEF flags
<1>5. /\ x \in TaskRecord /\ x.flags = flags /\ x.assets = task[t].assets
      /\ x.deleted = task[t].deleted /\ x.status = task[t].status
      /\ x.section = task[t].section /\ x.cap = task[t].cap
  BY <1>3, <1>4 DEF TaskRecord
<1>6. x.flags \subseteq x.assets /\ x.assets \cap x.deleted = {}
  BY <1>2, <1>3, <1>4, <1>5 DEF Good
<1>7. ASSUME NEW j \in x.flags, x.cap # None PROVE RowsOfSlot(t, j)' # {}
  <2>1. CASE j = k
    BY <1>1, <2>1 DEF RowsOfSlot
  <2>2. CASE j # k
    <3>1. PICK q \in row : q.source = <<t, j>>
      BY <1>2, <1>3, <1>4, <1>5, <1>7, <2>2 DEF Good, RowsOfSlot
    <3>2. q \notin cleared
      BY <1>5, <1>7, <3>1 DEF flags, FlagsAfter
    <3> QED
      BY <1>1, <3>1, <3>2 DEF RowsOfSlot
  <2> QED
    BY <2>1, <2>2
<1>8. {r} \subseteq SelectedRow /\ \A q \in {r} : \E j \in Slots : q.source = <<t, j>>
  BY <1>2
<1>9. x \in TaskRecord
  BY <1>5
<1>10. x.status \in Answers /\ x.section \in Sections /\ x.cap = task[t].cap
  BY <1>2, <1>5
<1> HIDE DEF x, cleared
<1>11. PICK y, cl, n : y = x /\ cl = cleared /\ n = {r}
  OBVIOUS
<1>12. Writes(t, y, cl, n)
  BY <1>1, <1>6, <1>7, <1>8, <1>9, <1>10, <1>11 DEF Writes
<1> QED
  BY <1>10, <1>11, <1>12, WritesKeep

LEMMA SelectTaskAssetKeeps ==
  ASSUME NEW c, Holds(c), NEW t \in Tasks, NEW k \in Slots, SelectTaskAsset(t, k)
  PROVE  Holds(c)'
<1>1. PICK type \in Types, section \in Sections, title \in Titles :
        ReplaceSelection(t,
          [task[t] EXCEPT !.flags = @ \cup {k}, !.type = type],
          [type |-> type, section |-> section, title |-> title, source |-> <<t, k>>])
  BY DEF SelectTaskAsset
<1>2. PICK stored : stored = [task[t] EXCEPT !.flags = @ \cup {k}, !.type = type]
  OBVIOUS
<1>3. PICK r : r = [type |-> type, section |-> section, title |-> title, source |-> <<t, k>>]
  OBVIOUS
<1>4. r \in SelectedRow /\ r.source = <<t, k>>
  BY <1>3 DEF SelectedRow, Sources
<1>5. /\ ReplaceSelection(t, stored, r) /\ Exists(t) /\ k \in Visible(task[t])
      /\ UNCHANGED <<gen, reader>>
  BY <1>1, <1>2, <1>3 DEF SelectTaskAsset, Pickable
<1>6. type \in Types \cup {None}
  OBVIOUS
<1> QED
  BY <1>2, <1>4, <1>5, <1>6, ReplaceKeeps

\* A click that only clears flags.
LEMMA ClearingKeeps ==
  ASSUME NEW c, Holds(c), NEW cleared, NEW new \in SUBSET SelectedRow,
         DOMAIN task' = Tasks, task' = [t \in Tasks |-> task'[t]],
         \A t \in Tasks : Kept(t, cleared),
         row' = (row \ cleared) \cup new, \A r \in new : r.source \in Media,
         UNCHANGED <<gen, reader>>
  PROVE  Holds(c)'
<1>1. StoreOK'
  <2>1. {} \in SUBSET Tasks /\ StoreOK
    BY DEF Holds
  <2> HIDE DEF StoreOK
  <2> QED
    BY <2>1, StoreStep
<1>2. \A t \in Tasks : task'[t].status = task[t].status /\ task'[t].cap = task[t].cap
  BY KeptStatus DEF Holds
<1>3. TasksKeep(c)
  BY <1>2 DEF TasksKeep, Holds, Held, Exists
<1> QED
  BY <1>1, <1>3, UserKeeps

LEMMA SelectMediaKeeps ==
  ASSUME NEW c, Holds(c), NEW m \in Media, SelectMedia(m)
  PROVE  Holds(c)'
<1>1. PICK type \in Types, section \in Sections, title \in Titles :
        LET r       == [type |-> type, section |-> section, title |-> title, source |-> m]
            cleared == SameResource(type, section) \ {r}
        IN  /\ row'  = (row \ cleared) \cup {r}
            /\ task' = Unflagged(cleared)
  BY DEF SelectMedia
<1>2. PICK r : r = [type |-> type, section |-> section, title |-> title, source |-> m]
  OBVIOUS
<1>3. PICK cleared, new : cleared = SameResource(type, section) \ {r} /\ new = {r}
  OBVIOUS
<1>4. new \in SUBSET SelectedRow /\ \A q \in new : q.source \in Media
  BY <1>2, <1>3 DEF SelectedRow, Sources
<1>5. row' = (row \ cleared) \cup new /\ task' = Unflagged(cleared)
  BY <1>1, <1>2, <1>3
<1>6. /\ DOMAIN task' = Tasks /\ task' = [t \in Tasks |-> task'[t]]
      /\ \A t \in Tasks : Kept(t, cleared)
  BY <1>5 DEF Unflagged, Kept
<1>7. UNCHANGED <<gen, reader>>
  BY DEF SelectMedia
<1> QED
  BY <1>4, <1>5, <1>6, <1>7, ClearingKeeps

\* Deselecting takes rows of one source, and its flag.
LEMMA UnselectKeeps ==
  ASSUME NEW c, Holds(c), NEW R, NEW source, R # {}, \A q \in R : q.source = source,
         Unselect(R, source)
  PROVE  Holds(c)'
<1>1. \A t \in Tasks : FlagsAfter(t, task[t].flags, R) = {k \in task[t].flags : source # <<t, k>>}
  BY DEF FlagsAfter
<1>2. /\ DOMAIN task' = Tasks /\ task' = [t \in Tasks |-> task'[t]]
      /\ \A t \in Tasks : Kept(t, R)
  BY <1>1 DEF Unselect, Kept
<1>3. row' = (row \ R) \cup {} /\ {} \in SUBSET SelectedRow /\ \A r \in {} : r.source \in Media
  BY DEF Unselect
<1>4. UNCHANGED <<gen, reader>>
  BY DEF Unselect
<1> QED
  BY <1>2, <1>3, <1>4, ClearingKeeps

LEMMA DeleteSelectionKeeps ==
  ASSUME NEW c, Holds(c), NEW r,
         DeleteSelectedAsset(r) \/ DeleteSelectedAssetByRequest(r)
  PROVE  Holds(c)'
<1>1. CASE DeleteSelectedAsset(r)
  <2>1. PICK R, source : R = {r} /\ source = r.source
    OBVIOUS
  <2>2. R # {} /\ (\A q \in R : q.source = source) /\ Unselect(R, source)
    BY <1>1, <2>1 DEF DeleteSelectedAsset
  <2> QED
    BY <2>2, UnselectKeeps
<1>2. CASE DeleteSelectedAssetByRequest(r)
  <2>1. PICK R, source :
          R = {q \in row : q.type = r.type /\ q.source = r.source} /\ source = r.source
    OBVIOUS
  <2>2. R # {} /\ (\A q \in R : q.source = source) /\ Unselect(R, source)
    BY <1>2, <2>1 DEF DeleteSelectedAssetByRequest
  <2> QED
    BY <2>2, UnselectKeeps
<1> QED
  BY <1>1, <1>2

\* A task that a write of the rows of another task's slot leaves alone.
LEMMA SameIsKept ==
  ASSUME StoreOK, NEW u \in Tasks, NEW cleared, task'[u] = task[u],
         \A r \in cleared, k \in Slots : r.source # <<u, k>>
  PROVE  Kept(u, cleared)
<1>1. task[u] \in TaskRecord
  BY DEF StoreOK
<1>2. FlagsAfter(u, task[u].flags, cleared) = task[u].flags
  BY <1>1 DEF FlagsAfter, TaskRecord
<1>3. task[u] = [task[u] EXCEPT !.flags = task[u].flags]
  BY <1>1 DEF TaskRecord
<1> QED
  BY <1>2, <1>3 DEF Kept

\* A click that writes task t and takes away rows of its slot k only.
LEMMA SlotKeeps ==
  ASSUME NEW c, Holds(c), NEW t \in Tasks, Exists(t), NEW k \in Slots, NEW x,
         x \in TaskRecord, x.status = task[t].status, x.section = task[t].section,
         x.cap = task[t].cap, x.flags \subseteq x.assets, x.assets \cap x.deleted = {},
         x.flags \subseteq task[t].flags \cup {k},
         k \in x.flags => x.cap = None,
         row' \subseteq row, \A r \in row \ row' : r.source = <<t, k>>,
         task' = [task EXCEPT ![t] = x], UNCHANGED <<gen, reader>>
  PROVE  Holds(c)'
<1>1. StoreOK /\ Good(t) /\ x.status \in Answers /\ x.section \in Sections
  BY StoredTask DEF Holds
<1>2. /\ task'[t] = x /\ DOMAIN task' = Tasks /\ task' = [u \in Tasks |-> task'[u]]
      /\ \A u \in Tasks \ {t} : task'[u] = task[u]
  BY DEF Holds, StoreOK
<1>3. PICK cleared : cleared = row \ row'
  OBVIOUS
<1>4. \A u \in Tasks \ {t} : Kept(u, cleared)
  <2>1. ASSUME NEW u \in Tasks \ {t}, NEW r \in cleared, NEW j \in Slots
        PROVE  r.source # <<u, j>>
    BY <1>3
  <2> QED
    BY <1>1, <1>2, <2>1, SameIsKept
<1>5. Good(t)'
  <2>1. \A j \in x.flags : x.cap # None => RowsOfSlot(t, j)' # {}
    <3> SUFFICES ASSUME NEW j \in x.flags, x.cap # None PROVE RowsOfSlot(t, j)' # {}
      OBVIOUS
    <3>1. PICK r \in row : r.source = <<t, j>>
      BY <1>1 DEF Good, RowsOfSlot
    <3>2. r \in row'
      BY <3>1
    <3> QED
      BY <3>1, <3>2 DEF RowsOfSlot
  <2>2. Exists(t)'
    BY <1>2 DEF Exists
  <2> QED
    BY <1>1, <1>2, <2>1, <2>2 DEF Good
<1>6. StoreOK'
  <2>1. /\ row' = (row \ cleared) \cup {} /\ {} \in SUBSET SelectedRow /\ {t} \in SUBSET Tasks
        /\ \A r \in {} : r.source \in Media \/ \E u \in {t}, j \in Slots : r.source = <<u, j>>
    BY <1>3
  <2>2. \A u \in {t} : task'[u] \in TaskRecord /\ Good(u)'
    BY <1>2, <1>5
  <2> HIDE DEF StoreOK
  <2> QED
    BY <1>1, <1>2, <1>4, <2>1, <2>2, StoreStep
<1>7. TasksKeep(c)
  BY <1>2 DEF TasksKeep, Holds, Held, Exists
<1> QED
  BY <1>6, <1>7, UserKeeps

\* Without a resource type the flag is written and no row, which only a task without capability allows.
LEMMA UpdateAssetKeeps ==
  ASSUME NEW c, Holds(c), NEW t \in Tasks, NEW k \in Slots, UpdateAsset(t, k)
  PROVE  Holds(c)'
<1>1. PICK selected \in BOOLEAN, title \in Titles, type \in Types \cup {None} :
        LET stored == [task[t] EXCEPT !.flags = IF selected THEN @ \cup {k} ELSE @ \ {k},
                                      !.type  = IF type # None THEN type ELSE @]
            r      == RowFor(t, stored, k, title)
            select == selected /\ ResourceType(stored) # None
        IN  \/ select  /\ ReplaceSelection(t, stored, r)
            \/ ~select /\ row' = row \ {r} /\ task' = [task EXCEPT ![t] = stored]
  BY DEF UpdateAsset
<1>2. PICK ty : ty = IF type # None THEN type ELSE task[t].type
  OBVIOUS
<1>3. PICK flags : flags = IF selected THEN task[t].flags \cup {k} ELSE task[t].flags \ {k}
  OBVIOUS
<1>4. PICK stored : stored = [task[t] EXCEPT !.flags = flags, !.type = ty]
  OBVIOUS
<1>5. PICK r : r = RowFor(t, stored, k, title)
  OBVIOUS
<1>6. \/ selected /\ ResourceType(stored) # None /\ ReplaceSelection(t, stored, r)
      \/ /\ ~selected \/ ResourceType(stored) = None
         /\ row' = row \ {r} /\ task' = [task EXCEPT ![t] = stored]
  BY <1>1, <1>2, <1>3, <1>4, <1>5
<1>7. /\ Exists(t) /\ k \in Visible(task[t]) /\ UNCHANGED <<gen, reader>>
      /\ task[t] \in TaskRecord /\ Good(t) /\ task[t].section \in Sections
  BY StoredTask DEF UpdateAsset, Pickable, Holds
<1>8. ty \in Types \cup {None} /\ flags \subseteq task[t].flags \cup {k}
  BY <1>2, <1>3, <1>7 DEF TaskRecord
<1>9. /\ stored \in TaskRecord /\ stored.flags = flags /\ stored.type = ty
      /\ stored.assets = task[t].assets /\ stored.deleted = task[t].deleted
      /\ stored.status = task[t].status /\ stored.section = task[t].section
      /\ stored.cap = task[t].cap
  BY <1>4, <1>7, <1>8 DEF TaskRecord
<1>10. r.source = <<t, k>>
  BY <1>5 DEF RowFor
<1>11. CASE selected /\ ResourceType(stored) # None /\ ReplaceSelection(t, stored, r)
  <2>1. stored = [task[t] EXCEPT !.flags = @ \cup {k}, !.type = ty]
    BY <1>3, <1>4, <1>11
  <2>2. r \in SelectedRow
    BY <1>5, <1>7, <1>9, <1>11 DEF RowFor, SelectedRow, Sources, ResourceType, TaskRecord
  <2> QED
    BY <1>7, <1>8, <1>10, <1>11, <2>1, <2>2, ReplaceKeeps
<1>12. CASE /\ ~selected \/ ResourceType(stored) = None
            /\ row' = row \ {r} /\ task' = [task EXCEPT ![t] = stored]
  <2>1. k \in stored.flags => stored.cap = None
    BY <1>3, <1>9, <1>12 DEF ResourceType
  <2>2. stored.flags \subseteq stored.assets /\ stored.assets \cap stored.deleted = {}
    BY <1>7, <1>8, <1>9 DEF Good, Visible
  <2>3. row' \subseteq row /\ \A q \in row \ row' : q.source = <<t, k>>
    BY <1>10, <1>12
  <2>4. stored.flags \subseteq task[t].flags \cup {k} /\ task' = [task EXCEPT ![t] = stored]
    BY <1>8, <1>9, <1>12
  <2> QED
    BY <1>7, <1>9, <2>1, <2>2, <2>3, <2>4, SlotKeeps
<1> QED
  BY <1>6, <1>11, <1>12

LEMMA DeleteAssetKeeps ==
  ASSUME NEW c, Holds(c), NEW t \in Tasks, NEW k \in Slots, DeleteAsset(t, k)
  PROVE  Holds(c)'
<1>1. /\ Exists(t) /\ UNCHANGED <<gen, reader>>
      /\ task[t] \in TaskRecord /\ Good(t)
  BY StoredTask DEF DeleteAsset, Holds
<1>2. PICK x : x = [WithoutSlot(task[t], k) EXCEPT !.type = task[t].cap]
  OBVIOUS
<1>3. /\ x \in TaskRecord /\ x.status = task[t].status /\ x.section = task[t].section
      /\ x.cap = task[t].cap
      /\ x.flags = task[t].flags \ {k} /\ x.assets = task[t].assets \ {k}
      /\ x.deleted = task[t].deleted \cup {k}
  BY <1>1, <1>2 DEF WithoutSlot, TaskRecord
<1>4. x.flags \subseteq x.assets /\ x.assets \cap x.deleted = {}
  BY <1>1, <1>3 DEF Good
<1>5. x.flags \subseteq task[t].flags \cup {k} /\ (k \in x.flags => x.cap = None)
  BY <1>3
<1>6. row' \subseteq row /\ (\A r \in row \ row' : r.source = <<t, k>>)
      /\ task' = [task EXCEPT ![t] = x]
  BY <1>2 DEF DeleteAsset
<1> QED
  BY <1>1, <1>3, <1>4, <1>5, <1>6, SlotKeeps

\* A deletion takes every row whose source is the task.
LEMMA DeleteKeeps ==
  ASSUME NEW c, Holds(c), NEW t \in Tasks, Delete(t)
  PROVE  Holds(c)'
<1>1. StoreOK /\ UNCHANGED <<gen, reader>>
  BY DEF Delete, Holds
<1>2. PICK x : x = [Blank EXCEPT !.status = "deleted"]
  OBVIOUS
<1>3. x \in TaskRecord /\ x.status = "deleted" /\ x.flags = {} /\ x.assets = {}
  BY <1>2 DEF Blank, TaskRecord, Status
<1>4. /\ task'[t] = x /\ DOMAIN task' = Tasks /\ task' = [u \in Tasks |-> task'[u]]
      /\ \A u \in Tasks \ {t} : task'[u] = task[u]
  BY <1>1, <1>2 DEF Delete, StoreOK
<1>5. PICK cleared : cleared = RowsOfTask(t)
  OBVIOUS
<1>6. \A u \in Tasks \ {t} : Kept(u, cleared)
  <2>1. ASSUME NEW u \in Tasks \ {t}, NEW r \in cleared, NEW j \in Slots
        PROVE  r.source # <<u, j>>
    BY <1>5 DEF RowsOfTask
  <2> QED
    BY <1>1, <1>4, <2>1, SameIsKept
<1>7. Good(t)'
  BY <1>3, <1>4 DEF Delete, Good, Exists, RowsOfTask
<1>8. StoreOK'
  <2>1. /\ row' = (row \ cleared) \cup {} /\ {} \in SUBSET SelectedRow /\ {t} \in SUBSET Tasks
        /\ \A r \in {} : r.source \in Media \/ \E u \in {t}, j \in Slots : r.source = <<u, j>>
    BY <1>5 DEF Delete
  <2>2. \A u \in {t} : task'[u] \in TaskRecord /\ Good(u)'
    BY <1>3, <1>4, <1>7
  <2> HIDE DEF StoreOK
  <2> QED
    BY <1>1, <1>4, <1>6, <2>1, <2>2, StoreStep
<1>9. TasksKeep(c)
  BY <1>3, <1>4 DEF TasksKeep, Holds, Held, Exists
<1> QED
  BY <1>1, <1>8, <1>9, UserKeeps

-----------------------------------------------------------------------------
(* The theorems.                                                           *)

LEMMA UserStepKeeps ==
  ASSUME NEW c, Holds(c), UserStep
  PROVE  Holds(c)' /\ Replaces
<1>1. Holds(c)'
  BY SelectTaskAssetKeeps, UpdateAssetKeeps, DeleteAssetKeeps, SelectMediaKeeps,
     DeleteSelectionKeeps, DeleteKeeps DEF UserStep
<1> QED
  BY <1>1 DEF Replaces

LEMMA ReaderStepKeeps ==
  ASSUME NEW c, Holds(c), NEW p \in Readers, ReaderStep(p)
  PROVE  Holds(c)' /\ Replaces
<1>1. ASSUME NEW t \in Tasks, PollReads(p, t) \/ CheckReads(p, t) \/ RetryReads(p, t)
      PROVE  Holds(c)' /\ Replaces
  <2>1. Exists(t)
    BY <1>1 DEF PollReads, CheckReads, RetryReads, Exists
  <2>2. \E pc \in {"poll", "check", "retry"} : Reads(p, pc, t)
    BY <1>1 DEF PollReads, CheckReads, RetryReads
  <2> QED
    BY <2>1, <2>2, ReadsKeeps
<1>2. ASSUME RetryRefused(p) PROVE Holds(c)' /\ Replaces
  BY <1>2, ReaderEndsKeeps DEF RetryRefused
<1> QED
  BY <1>1, <1>2, PollSavesKeeps, CheckSavesKeeps, RetrySavesKeeps DEF ReaderStep

\* Every step keeps the invariant and clears only for clicks and completions.
LEMMA NextHolds == SelInv /\ [Next]_vars => SelInv' /\ [Replaces]_vars
<1> SUFFICES ASSUME SelInv, [Next]_vars PROVE SelInv' /\ [Replaces]_vars
  OBVIOUS
<1>1. PICK c \in [Tasks -> Types \cup {None}] : Held(c)
  BY DEF SelInv
<1>2. Holds(c)
  BY <1>1 DEF SelInv, Holds
<1>3. \A d \in [Tasks -> Types \cup {None}] : Holds(d)' => SelInv'
  BY DEF SelInv, Holds
<1>4. CASE UNCHANGED vars
  <2>1. Holds(c)'
    BY <1>2, <1>4, NoWrite, UserKeeps DEF vars
  <2> QED
    BY <1>3, <1>4, <2>1
<1>5. ASSUME NEW t \in Tasks, GenStep(t) PROVE SelInv' /\ Replaces
  <2>1. CASE Create(t)
    BY <1>2, <1>3, <2>1, CreateKeeps
  <2>2. CASE ~Create(t)
    BY <1>2, <1>3, <1>5, <2>2, StartRunningKeeps, SaveProgressKeeps, GenerationCompletesKeeps,
       ReadProgressAssetsKeeps, GenerationEndsKeeps DEF GenStep
  <2> QED
    BY <2>1, <2>2
<1>6. ASSUME NEW p \in Readers, ReaderStep(p) PROVE SelInv' /\ Replaces
  BY <1>2, <1>3, <1>6, ReaderStepKeeps
<1>7. ASSUME UserStep PROVE SelInv' /\ Replaces
  BY <1>2, <1>3, <1>7, UserStepKeeps
<1> QED
  BY <1>4, <1>5, <1>6, <1>7 DEF Next

\* Every reachable state has the types, agreeing tables and records in memory
\* whose capability is their task's.
THEOREM SelInvIsInvariant == Spec => []SelInv
BY InitHolds, NextHolds, PTL DEF Spec

\* Type correctness of the module: flags are flags of asset rows, and no slot
\* is both filled and deleted.
THEOREM TypesAreRight == Spec => []SelectionTypeOK
<1>1. SelInv => SelectionTypeOK
  BY DEF SelInv, StoreOK, HeldTypes, SelectionTypeOK, Good
<1> QED
  BY <1>1, SelInvIsInvariant, PTL

\* A selected row that a task is the source of has the task.
THEOREM SelectionsHaveTasks == Spec => []SelectionHasTask
<1>1. SelInv => SelectionHasTask
  BY DEF SelInv, StoreOK, SelectionHasTask, Good
<1> QED
  BY <1>1, SelInvIsInvariant, PTL

\* A flagged asset of a resource's task is selected for a resource.
THEOREM FlaggedSlotsHaveRows == Spec => []FlaggedSlotHasRow
<1>1. SelInv => FlaggedSlotHasRow
  BY DEF SelInv, StoreOK, FlaggedSlotHasRow, Good
<1> QED
  BY <1>1, SelInvIsInvariant, PTL

\* A selection goes only by a click or for a completion of its resource.
THEOREM OnlyCompletionsReplace == Spec => OnlyCompletionReplaces
<1>1. [Replaces]_vars => [\A r \in row \ row' :
                            \/ UserStep
                            \/ \E t \in Tasks : /\ SavesTask(t)
                                                /\ task'[t].status = "completed"
                                                /\ task'[t].section = r.section]_vars
  BY DEF Replaces
<1> QED
  BY <1>1, NextHolds, SelInvIsInvariant, PTL DEF Spec, OnlyCompletionReplaces

-----------------------------------------------------------------------------
(* A single choice.                                                        *)

\* The user picks no asset of a running task and retries no task that is
\* polled, and one poll or request is in flight at a time.
Orderly == ~PicksWhileActive /\ ~RetriesPolled /\ \A p, q \in Readers : p = q

\* A task on which nothing is selected and that nobody polls.
Quiet(t) == Exists(t) => task[t].status = "active" /\ task[t].flags = {} /\ ~task[t].polled

GenIsQuiet(t) ==
  gen[t].pc # "idle" =>
    /\ gen[t].rec.flags = {}
    /\ gen[t].pc # "ending" => gen[t].rec.status = "active" /\ ~gen[t].rec.polled
    /\ Quiet(t)
    /\ \A p \in Readers : reader[p].pc \in {"poll", "check"} => reader[p].task # t

RetryIsQuiet(p) == reader[p].pc = "retry" => ~reader[p].rec.polled

Choice ==
  /\ SingleChoice
  /\ \A t \in Tasks : GenIsQuiet(t)
  /\ \A p \in Readers : RetryIsQuiet(p)

\* A goroutine that a step leaves alone.
LEMMA GenStaysQuiet ==
  ASSUME Choice, NEW t \in Tasks, gen'[t] = gen[t],
         gen[t].pc # "idle" /\ Quiet(t) => Quiet(t)',
         \A p \in Readers : \/ reader'[p] = reader[p]
                            \/ reader'[p].pc \in {"poll", "check"} =>
                                 reader'[p].task # t \/ gen[t].pc = "idle"
  PROVE  GenIsQuiet(t)'
BY DEF Choice, GenIsQuiet

\* The default selection is the only one of its resource.
LEMMA UpsertChoice ==
  ASSUME SingleChoice, NEW t \in Tasks, NEW rec \in Writable, rec.flags = {},
         NEW title \in Titles, Upsert(t, rec, title)
  PROVE  SingleChoice'
<1>1. CASE SaveRefused(t, rec)
  <2>1. row' \subseteq row
    BY <1>1 DEF SaveRefused
  <2> QED
    BY <2>1 DEF SingleChoice
<1>2. CASE Save(t, rec, title)
  <2>1. CASE DefaultSelects(rec)
    <3>1. FlagsToStore(rec) = {First(Visible(rec))}
      BY <2>1 DEF FlagsToStore
    <3>2. \A r \in RowsToStore(t, rec, title) : r = RowFor(t, rec, First(Visible(rec)), title)
      BY <3>1 DEF RowsToStore
    <3>3. \A r \in RowsToStore(t, rec, title) :
            r.type = ResourceType(rec) /\ r.section = rec.section
      BY <3>2 DEF RowFor
    <3>4. \A r \in row \ DefaultCleared(rec) :
            ~ (r.type = ResourceType(rec) /\ r.section = rec.section)
      BY <2>1 DEF DefaultCleared, SameResource, DefaultSelects
    <3>5. row' = (row \ DefaultCleared(rec)) \cup RowsToStore(t, rec, title)
      BY <1>2 DEF Save
    <3> QED
      BY <3>2, <3>3, <3>4, <3>5, Zenon DEF SingleChoice
  <2>2. CASE ~DefaultSelects(rec)
    <3>1. FlagsToStore(rec) = {}
      BY <2>2 DEF FlagsToStore
    <3>2. RowsToStore(t, rec, title) = {}
      BY <3>1 DEF RowsToStore
    <3>3. row' \subseteq row
      BY <1>2, <3>2 DEF Save
    <3> QED
      BY <3>3 DEF SingleChoice
  <2> QED
    BY <2>1, <2>2
<1> QED
  BY <1>1, <1>2 DEF Upsert

\* A save of one task leaves the others quiet.
LEMMA UpsertOthers ==
  ASSUME StoreOK, NEW t \in Tasks, NEW rec, NEW title, Upsert(t, rec, title)
  PROVE  \A u \in Tasks \ {t} : Quiet(u) => Quiet(u)'
<1> SUFFICES ASSUME NEW u \in Tasks \ {t} PROVE Quiet(u) => Quiet(u)'
  OBVIOUS
<1>1. \A cleared : Unflagged(cleared)[u] = [task[u] EXCEPT !.flags = FlagsAfter(u, @, cleared)]
  BY DEF Unflagged
<1>2. \E cleared : task'[u] = Unflagged(cleared)[u]
  <2>1. CASE Save(t, rec, title)
    BY <2>1 DEF Save, Unflagged
  <2>2. CASE SaveRefused(t, rec)
    <3>1. PICK cleared : task' = [Unflagged(cleared) EXCEPT
                     ![t].status = rec.status,
                     ![t].polled = rec.polled,
                     ![t].type   = StoredType(t, rec),
                     ![t].cap    = rec.cap, ![t].section = rec.section]
      BY <2>2 DEF SaveRefused
    <3>2. task'[u] = Unflagged(cleared)[u]
      BY <3>1 DEF Unflagged
    <3> QED BY <3>2
  <2> QED
    BY <2>1, <2>2 DEF Upsert
<1>3. PICK cleared : Kept(u, cleared)
  BY <1>1, <1>2 DEF Kept
<1> QED
  BY <1>3, KeptStatus DEF Quiet, Exists

\* A save of an unfinished record leaves its task quiet.
LEMMA UpsertQuiet ==
  ASSUME StoreOK, NEW t \in Tasks, NEW rec \in Writable, NEW title \in Titles,
         Exists(t) => rec.cap = task[t].cap,
         rec.flags = {}, rec.status = "active", ~rec.polled,
         Upsert(t, rec, title), Quiet(t) \/ Visible(rec) = {}
  PROVE  Quiet(t)'
<1>1. CASE Save(t, rec, title)
  <2>1. FlagsToStore(rec) = {}
    BY DEF FlagsToStore, DefaultSelects
  <2>2. task'[t].flags = {} /\ task'[t].polled = rec.polled /\ Wrote(t, rec)
    BY <1>1, <2>1, SaveKeeps
  <2> QED
    BY <2>2 DEF Quiet, Wrote
<1>2. CASE SaveRefused(t, rec)
  <2>1. task'[t].flags \subseteq task[t].flags /\ task'[t].polled = rec.polled /\ Wrote(t, rec)
    BY <1>2, SaveRefusedKeeps
  <2>2. task[t].flags = {}
    BY <1>2 DEF SaveRefused, Quiet, StoreOK, Good
  <2> QED
    BY <2>1, <2>2 DEF Quiet, Wrote
<1> QED
  BY <1>1, <1>2 DEF Upsert

\* A save of the goroutine of t, which goes on as g.
LEMMA GenSavesChoice ==
  ASSUME NEW c, Holds(c), Choice, NEW t \in Tasks, gen[t].pc # "idle",
         NEW rec \in Writable, rec.cap = c[t], rec.flags = {}, NEW title \in Titles,
         UpsertExisting(t, rec, title),
         NEW g, gen' = [gen EXCEPT ![t] = g], UNCHANGED reader,
         \/ g.pc = "idle"
         \/ /\ g.pc # "ending" /\ g.rec = gen[t].rec /\ gen[t].pc # "ending"
            /\ rec.status = "active" /\ ~rec.polled
  PROVE  Choice'
<1>1. /\ StoreOK /\ SingleChoice /\ GenIsQuiet(t)
      /\ Exists(t) => rec.cap = task[t].cap
  BY DEF Holds, Held, Choice
<1>2. gen'[t] = g /\ \A u \in Tasks \ {t} : gen'[u] = gen[u]
  BY DEF Holds, HeldTypes
<1>3. SingleChoice' /\ \A u \in Tasks \ {t} : Quiet(u) => Quiet(u)'
  <2>1. CASE Upsert(t, rec, title)
    BY <1>1, <2>1, UpsertChoice, UpsertOthers
  <2>2. CASE UNCHANGED <<task, row>>
    BY <1>1, <2>2 DEF SingleChoice, Quiet, Exists
  <2> QED
    BY <2>1, <2>2 DEF UpsertExisting
<1>4. GenIsQuiet(t)'
  <2>1. CASE g.pc = "idle"
    BY <1>2, <2>1 DEF GenIsQuiet
  <2>2. CASE /\ g.pc # "ending" /\ g.rec = gen[t].rec /\ gen[t].pc # "ending"
             /\ rec.status = "active" /\ ~rec.polled
    <3>1. Quiet(t)
      BY <1>1 DEF GenIsQuiet
    <3>2. Quiet(t)'
      <4>1. CASE Upsert(t, rec, title)
        BY <1>1, <2>2, <3>1, <4>1, UpsertQuiet
      <4>2. CASE UNCHANGED <<task, row>>
        BY <3>1, <4>2 DEF Quiet, Exists
      <4> QED
        BY <4>1, <4>2 DEF UpsertExisting
    <3> QED
      BY <1>1, <1>2, <2>2, <3>2 DEF GenIsQuiet
  <2> QED
    BY <2>1, <2>2
<1>5. \A u \in Tasks \ {t} : GenIsQuiet(u)'
  BY <1>2, <1>3, GenStaysQuiet
<1> QED
  BY <1>3, <1>4, <1>5 DEF Choice, RetryIsQuiet

LEMMA CreateChoice ==
  ASSUME NEW c, Holds(c), Choice, NEW t \in Tasks, Create(t)
  PROVE  Choice'
<1>1. PICK type \in Types \cup {None}, cap \in Capabilities, section \in Sections :
        /\ Save(t, NewRecord(type, cap, section), "record")
        /\ gen' = [gen EXCEPT ![t] = [pc |-> "submitted", rec |-> NewRecord(type, cap, section)]]
  BY DEF Create
<1>2. PICK rec : rec = NewRecord(type, cap, section)
  OBVIOUS
<1>3. /\ rec \in Writable /\ rec.status = "active" /\ rec.flags = {} /\ ~rec.polled
      /\ Visible(rec) = {}
  <2>1. IsNew(rec, cap)
    BY <1>2, NewRecordTypes
  <2> QED
    BY <2>1 DEF IsNew
<1>4. /\ StoreOK /\ SingleChoice /\ "record" \in Titles /\ UNCHANGED reader
      /\ Upsert(t, rec, "record") /\ ~Exists(t)
  BY <1>1, <1>2 DEF Holds, Choice, Titles, Create, Upsert, Exists
<1>5. /\ gen'[t] = [pc |-> "submitted", rec |-> rec]
      /\ \A u \in Tasks \ {t} : gen'[u] = gen[u]
  BY <1>1, <1>2 DEF Holds, HeldTypes
<1>6. SingleChoice' /\ \A u \in Tasks \ {t} : Quiet(u) => Quiet(u)'
  BY <1>3, <1>4, UpsertChoice, UpsertOthers
<1>7. Quiet(t)'
  BY <1>3, <1>4, UpsertQuiet
<1>8. \A p \in Readers : reader[p].pc \in {"poll", "check"} => reader[p].task # t
  BY DEF Create, Holds, Held, ReaderHolds
<1>9. GenIsQuiet(t)'
  BY <1>3, <1>4, <1>5, <1>7, <1>8 DEF GenIsQuiet
<1>10. \A u \in Tasks \ {t} : GenIsQuiet(u)'
  BY <1>4, <1>5, <1>6, GenStaysQuiet
<1> QED
  BY <1>4, <1>6, <1>9, <1>10 DEF Choice, RetryIsQuiet

LEMMA StartRunningChoice ==
  ASSUME NEW c, Holds(c), Choice, NEW t \in Tasks, StartRunning(t)
  PROVE  Choice'
<1>1. PICK rec : rec = gen[t].rec
  OBVIOUS
<1>2. PICK g : g = IF Exists(t) THEN [gen[t] EXCEPT !.pc = "running"] ELSE NoGen
  OBVIOUS
<1>3. gen' = [gen EXCEPT ![t] = g]
  BY <1>2 DEF StartRunning, GenAt, GenEnds
<1>4. /\ rec \in Writable /\ rec.cap = c[t] /\ "record" \in Titles
      /\ rec.flags = {} /\ rec.status = "active" /\ ~rec.polled
  BY <1>1 DEF Holds, Held, GenHolds, StartRunning, Titles, Choice, GenIsQuiet
<1>5. /\ UpsertExisting(t, rec, "record") /\ gen[t].pc # "idle" /\ UNCHANGED reader
      /\ gen[t].pc # "ending"
  BY <1>1 DEF StartRunning
<1>6. g.pc = "idle" \/ (g.pc # "ending" /\ g.rec = gen[t].rec)
  BY <1>2 DEF Holds, HeldTypes, NoGen
<1> QED
  BY <1>3, <1>4, <1>5, <1>6, GenSavesChoice

\* What a generation saves of an answer.
LEMMA GenAnswersChoice ==
  ASSUME NEW c, Holds(c), Choice, NEW t \in Tasks, gen[t].pc = "running",
         NEW answer \in Answers, NEW n \in 0 .. MaxSlot + 1,
         UpsertExisting(t, WithMessage(gen[t].rec, answer, n), "record"),
         NEW g, gen' = [gen EXCEPT ![t] = g], UNCHANGED reader,
         g = NoGen \/ (g = gen[t] /\ answer = "active")
  PROVE  Choice'
<1>1. PICK old : old = gen[t].rec
  OBVIOUS
<1>2. old \in Writable /\ old.cap = c[t] /\ "record" \in Titles /\ ~old.polled
  BY <1>1 DEF Holds, Held, GenHolds, Titles, Choice, GenIsQuiet
<1>3. PICK rec : rec = WithMessage(old, answer, n)
  OBVIOUS
<1>4. /\ rec \in Writable /\ rec.cap = c[t] /\ rec.flags = {} /\ ~rec.polled
      /\ answer = "active" => rec.status = "active"
  BY <1>2, <1>3, WithMessageTypes
<1>5. /\ UpsertExisting(t, rec, "record") /\ gen[t].pc # "idle" /\ gen[t].pc # "ending"
      /\ \/ g.pc = "idle"
         \/ g.pc # "ending" /\ g.rec = gen[t].rec /\ rec.status = "active"
  BY <1>1, <1>3, <1>4 DEF NoGen
<1> QED
  BY <1>2, <1>4, <1>5, GenSavesChoice

LEMMA SaveProgressChoice ==
  ASSUME NEW c, Holds(c), Choice, NEW t \in Tasks, SaveProgress(t)
  PROVE  Choice'
<1>1. PICK n \in 1 .. MaxSlot + 1 :
        UpsertExisting(t, WithMessage(gen[t].rec, "active", n), "record")
  BY DEF SaveProgress
<1>2. n \in 0 .. MaxSlot + 1 /\ "active" \in Answers
  BY MaxSlotNat DEF Answers
<1>3. PICK g : g = gen[t]
  OBVIOUS
<1>4. gen' = [gen EXCEPT ![t] = g] /\ gen[t].pc = "running" /\ UNCHANGED reader
  BY <1>3 DEF SaveProgress, Holds, HeldTypes
<1> QED
  BY <1>1, <1>2, <1>3, <1>4, GenAnswersChoice

LEMMA GenerationCompletesChoice ==
  ASSUME NEW c, Holds(c), Choice, NEW t \in Tasks, GenerationCompletes(t)
  PROVE  Choice'
<1>1. PICK answer \in Answers, n \in 0 .. MaxSlot + 1 :
        UpsertExisting(t, WithMessage(gen[t].rec, answer, n), "record")
  BY DEF GenerationCompletes
<1>2. PICK g : g = NoGen
  OBVIOUS
<1>3. gen' = [gen EXCEPT ![t] = g] /\ gen[t].pc = "running" /\ UNCHANGED reader
  BY <1>2 DEF GenerationCompletes, GenEnds
<1> QED
  BY <1>1, <1>2, <1>3, GenAnswersChoice

LEMMA ReadProgressAssetsChoice ==
  ASSUME NEW c, Holds(c), Choice, NEW t \in Tasks, ReadProgressAssets(t)
  PROVE  Choice'
<1>1. PICK old : old = gen[t].rec
  OBVIOUS
<1>2. old \in TaskRecord /\ GenIsQuiet(t) /\ UNCHANGED <<task, row, reader>>
  BY <1>1 DEF ReadProgressAssets, Holds, HeldTypes, Choice
<1>3. PICK rec \in {[old EXCEPT !.status = "failed"], [old EXCEPT !.polled = TRUE]} :
        gen' = [gen EXCEPT ![t] = [pc |-> "ending", rec |-> CurrentAssets(t, rec)]]
  BY <1>1 DEF ReadProgressAssets
<1>4. rec \in TaskRecord /\ rec.flags = {}
  <2>1. "failed" \in Status /\ old.flags = {}
    BY <1>1, <1>2 DEF Status, GenIsQuiet, ReadProgressAssets
  <2> QED
    BY <1>2, <1>3, <2>1 DEF TaskRecord
<1>5. PICK x : x = CurrentAssets(t, rec)
  OBVIOUS
<1>6. x.flags = {}
  BY <1>2, <1>4, <1>5 DEF CurrentAssets, GenIsQuiet, Quiet, ReadProgressAssets, TaskRecord
<1>7. /\ gen'[t] = [pc |-> "ending", rec |-> x]
      /\ \A u \in Tasks \ {t} : gen'[u] = gen[u]
  BY <1>3, <1>5 DEF Holds, HeldTypes
<1>8. GenIsQuiet(t)'
  BY <1>2, <1>6, <1>7 DEF GenIsQuiet, Quiet, Exists, ReadProgressAssets
<1>9. \A u \in Tasks : Quiet(u) => Quiet(u)'
  BY <1>2 DEF Quiet, Exists
<1>10. \A u \in Tasks \ {t} : GenIsQuiet(u)'
  BY <1>2, <1>7, <1>9, GenStaysQuiet
<1> QED
  BY <1>2, <1>8, <1>10 DEF Choice, SingleChoice, RetryIsQuiet

LEMMA GenerationEndsChoice ==
  ASSUME NEW c, Holds(c), Choice, NEW t \in Tasks, GenerationEnds(t)
  PROVE  Choice'
<1>1. PICK rec : rec = gen[t].rec
  OBVIOUS
<1>2. rec \in Writable /\ rec.cap = c[t] /\ "file" \in Titles /\ rec.flags = {}
  BY <1>1 DEF Holds, Held, GenHolds, GenerationEnds, Titles, Choice, GenIsQuiet
<1>3. PICK g : g = NoGen
  OBVIOUS
<1>4. /\ gen' = [gen EXCEPT ![t] = g] /\ g.pc = "idle" /\ gen[t].pc # "idle"
      /\ UpsertExisting(t, rec, "file") /\ UNCHANGED reader
  BY <1>1, <1>3 DEF GenerationEnds, GenEnds, NoGen
<1> QED
  BY <1>2, <1>4, GenSavesChoice

\* A step of a reader that writes nothing.
LEMMA ReadsChoice ==
  ASSUME NEW c, Holds(c), Choice, NEW p \in Readers, NEW t \in Tasks, Exists(t),
         NEW pc \in {"poll", "check", "retry"}, Reads(p, pc, t),
         pc = "retry" => ~task[t].polled, pc # "retry" => task[t].polled
  PROVE  Choice'
<1>1. PICK rec : rec = Read(t)
  OBVIOUS
<1>2. rec.polled = task[t].polled /\ UNCHANGED <<task, row, gen>>
  BY <1>1, ReadTypes DEF Holds, Reads
<1>3. /\ reader'[p] = [pc |-> pc, task |-> t, rec |-> rec]
      /\ \A q \in Readers \ {p} : reader'[q] = reader[q]
  BY <1>1 DEF Reads, Holds, HeldTypes
<1>4. pc # "retry" => gen[t].pc = "idle"
  BY DEF Choice, GenIsQuiet, Quiet
<1>5. \A u \in Tasks : Quiet(u) => Quiet(u)'
  BY <1>2 DEF Quiet, Exists
<1>6. ASSUME NEW u \in Tasks PROVE GenIsQuiet(u)'
  <2>1. gen'[u] = gen[u] /\ (Quiet(u) => Quiet(u)')
    BY <1>2, <1>5
  <2>2. \A q \in Readers : \/ reader'[q] = reader[q]
                           \/ reader'[q].pc \in {"poll", "check"} =>
                                reader'[q].task # u \/ gen[u].pc = "idle"
    BY <1>3, <1>4
  <2> QED
    BY <2>1, <2>2, GenStaysQuiet
<1>7. ASSUME NEW q \in Readers PROVE RetryIsQuiet(q)'
  <2>1. CASE q = p
    <3>1. reader'[q].pc = pc /\ reader'[q].rec.polled = task[t].polled
      BY <1>2, <1>3, <2>1
    <3> QED
      BY <3>1, Zenon DEF RetryIsQuiet
  <2>2. CASE q # p
    BY <1>3, <2>2 DEF Choice, RetryIsQuiet
  <2> QED
    BY <2>1, <2>2
<1>8. SingleChoice'
  BY <1>2 DEF Choice, SingleChoice
<1> QED
  BY <1>6, <1>7, <1>8 DEF Choice

\* A poll or a check saves an answer, when no goroutine has the task.
LEMMA ReaderAnswersChoice ==
  ASSUME NEW c, Holds(c), Choice, NEW p \in Readers, reader[p].pc \in {"poll", "check"},
         NEW answer \in Answers, NEW n \in 0 .. MaxSlot + 1,
         Saves(reader[p].task, WithMessage(reader[p].rec, answer, n), "record"),
         ReaderEnds(p), UNCHANGED gen
  PROVE  Choice'
<1>1. PICK old, t : old = reader[p].rec /\ t = reader[p].task
  OBVIOUS
<1>2. old \in Writable /\ t \in Tasks /\ gen[t].pc = "idle" /\ "record" \in Titles
  BY <1>1 DEF Holds, Held, ReaderHolds, Choice, GenIsQuiet, Titles
<1>3. PICK rec : rec = WithMessage(old, answer, n)
  OBVIOUS
<1>4. rec \in Writable /\ rec.flags = {}
  BY <1>2, <1>3, WithMessageTypes
<1>5. /\ reader'[p] = NoReader
      /\ \A q \in Readers \ {p} : reader'[q] = reader[q]
  BY ReaderEndsTypes DEF Holds
<1>6. SingleChoice' /\ \A u \in Tasks \ {t} : Quiet(u) => Quiet(u)'
  <2>1. CASE Upsert(t, rec, "record")
    BY <1>2, <1>4, <2>1, UpsertChoice, UpsertOthers DEF Holds, Choice
  <2>2. CASE UNCHANGED <<task, row>>
    BY <2>2 DEF Choice, SingleChoice, Quiet, Exists
  <2> QED
    BY <1>1, <1>3, <2>1, <2>2 DEF Saves, UpsertExisting
<1>7. ASSUME NEW u \in Tasks PROVE GenIsQuiet(u)'
  <2>1. gen'[u] = gen[u] /\ (gen[u].pc # "idle" /\ Quiet(u) => Quiet(u)')
    BY <1>2, <1>6
  <2>2. \A q \in Readers : \/ reader'[q] = reader[q]
                           \/ reader'[q].pc \in {"poll", "check"} =>
                                reader'[q].task # u \/ gen[u].pc = "idle"
    BY <1>5 DEF NoReader
  <2> QED
    BY <2>1, <2>2, GenStaysQuiet
<1> QED
  BY <1>5, <1>6, <1>7 DEF Choice, RetryIsQuiet, NoReader

\* A reader that ends without a save.
LEMMA ReaderEndsChoice ==
  ASSUME NEW c, Holds(c), Choice, NEW p \in Readers, ReaderEnds(p),
         UNCHANGED <<task, row, gen>>
  PROVE  Choice'
<1>1. /\ reader'[p] = NoReader
      /\ \A q \in Readers \ {p} : reader'[q] = reader[q]
  BY ReaderEndsTypes DEF Holds
<1>2. ASSUME NEW u \in Tasks PROVE GenIsQuiet(u)'
  <2>1. gen'[u] = gen[u] /\ (gen[u].pc # "idle" /\ Quiet(u) => Quiet(u)')
    BY DEF Quiet, Exists
  <2>2. \A q \in Readers : \/ reader'[q] = reader[q]
                           \/ reader'[q].pc \in {"poll", "check"} =>
                                reader'[q].task # u \/ gen[u].pc = "idle"
    BY <1>1 DEF NoReader
  <2> QED
    BY <2>1, <2>2, GenStaysQuiet
<1> QED
  BY <1>1, <1>2 DEF Choice, SingleChoice, RetryIsQuiet, NoReader

\* With one reader, nobody polls the task of a retry that is saved.
LEMMA RetrySavesChoice ==
  ASSUME NEW c, Orderly, Holds(c), Choice, NEW p \in Readers, RetrySaves(p)
  PROVE  Choice'
<1>1. PICK old, t : old = reader[p].rec /\ t = reader[p].task
  OBVIOUS
<1>2. /\ old \in Writable /\ t \in Tasks /\ "record" \in Titles /\ ~old.polled
      /\ old.cap = c[t]
  BY <1>1 DEF RetrySaves, Holds, Held, ReaderHolds, Choice, RetryIsQuiet, Titles
<1>3. PICK rec : rec = WithMessage(old, "active", 0)
  OBVIOUS
<1>4. /\ rec \in Writable /\ rec.flags = {} /\ rec.status = "active" /\ ~rec.polled
      /\ rec.cap = c[t]
  <2>1. "active" \in Answers /\ 0 \in 0 .. MaxSlot + 1
    BY MaxSlotNat DEF Answers
  <2> QED
    BY <1>2, <1>3, <2>1, WithMessageTypes
<1>5. Visible(rec) = {}
  BY <1>2, <1>3 DEF Visible, WithMessage, Writable, TaskRecord
<1>6. /\ Upsert(t, rec, "record") /\ ReaderEnds(p)
      /\ gen' = [gen EXCEPT ![t] = [pc |-> "submitted", rec |-> rec]]
  BY <1>1, <1>3 DEF RetrySaves
<1>7. /\ StoreOK /\ SingleChoice
      /\ Exists(t) => rec.cap = task[t].cap
  BY <1>2, <1>4 DEF Holds, Held, Choice
<1>8. /\ gen'[t] = [pc |-> "submitted", rec |-> rec]
      /\ \A u \in Tasks \ {t} : gen'[u] = gen[u]
  BY <1>2, <1>6 DEF Holds, HeldTypes
<1>9. \A q \in Readers : reader'[q] = NoReader
  BY <1>6, ReaderEndsTypes DEF Holds, Orderly
<1>10. SingleChoice' /\ \A u \in Tasks \ {t} : Quiet(u) => Quiet(u)'
  BY <1>2, <1>4, <1>6, <1>7, UpsertChoice, UpsertOthers
<1>11. Quiet(t)'
  BY <1>2, <1>4, <1>5, <1>6, <1>7, UpsertQuiet
<1>12. GenIsQuiet(t)'
  BY <1>4, <1>8, <1>9, <1>11 DEF GenIsQuiet, NoReader
<1>13. \A u \in Tasks \ {t} : GenIsQuiet(u)'
  BY <1>8, <1>9, <1>10, GenStaysQuiet DEF NoReader
<1> QED
  BY <1>9, <1>10, <1>12, <1>13 DEF Choice, RetryIsQuiet, NoReader

LEMMA ReaderStepChoice ==
  ASSUME NEW c, Orderly, Holds(c), Choice, NEW p \in Readers, ReaderStep(p)
  PROVE  Choice'
<1>1. ASSUME NEW t \in Tasks, PollReads(p, t) \/ CheckReads(p, t) \/ RetryReads(p, t)
      PROVE  Choice'
  <2>1. Exists(t)
    BY <1>1 DEF PollReads, CheckReads, RetryReads, Exists
  <2>2. task[t].polled \in BOOLEAN
    BY DEF Holds, StoreOK, TaskRecord
  <2>3. \E pc \in {"poll", "check", "retry"} :
          /\ Reads(p, pc, t)
          /\ pc = "retry" => ~task[t].polled
          /\ pc # "retry" => task[t].polled
    BY <1>1, <2>2 DEF PollReads, CheckReads, RetryReads, Orderly
  <2> QED
    BY <2>1, <2>3, ReadsChoice
<1>2. ASSUME PollSaves(p) \/ CheckSaves(p) PROVE Choice'
  <2>1. reader[p].pc \in {"poll", "check"} /\ ReaderEnds(p) /\ UNCHANGED gen
    BY <1>2 DEF PollSaves, CheckSaves
  <2>2. CASE UNCHANGED <<task, row>>
    BY <2>1, <2>2, ReaderEndsChoice
  <2>3. ASSUME NEW answer \in Answers, NEW n \in 0 .. MaxSlot + 1,
               Saves(reader[p].task, WithMessage(reader[p].rec, answer, n), "record")
        PROVE  Choice'
    BY <2>1, <2>3, ReaderAnswersChoice
  <2> QED
    BY <1>2, <2>2, <2>3 DEF PollSaves, CheckSaves, Saves
<1>3. ASSUME RetryRefused(p) PROVE Choice'
  BY <1>3, ReaderEndsChoice DEF RetryRefused
<1> QED
  BY <1>1, <1>2, <1>3, RetrySavesChoice DEF ReaderStep

\* A click that keeps one choice and quiet tasks quiet.
LEMMA UserChoice ==
  ASSUME Choice, SingleChoice', UNCHANGED <<gen, reader>>,
         \A t \in Tasks : gen[t].pc # "idle" /\ Quiet(t) => Quiet(t)'
  PROVE  Choice'
<1>1. \A t \in Tasks : GenIsQuiet(t)'
  BY GenStaysQuiet
<1> QED
  BY <1>1 DEF Choice, RetryIsQuiet

\* The rows after r was selected for its resource.
LEMMA ReplacedRows ==
  ASSUME SingleChoice, NEW r,
         row' = (row \ (SameResource(r.type, r.section) \ {r})) \cup {r}
  PROVE  SingleChoice'
BY DEF SingleChoice, SameResource

LEMMA FewerRows == SingleChoice /\ row' \subseteq row => SingleChoice'
BY DEF SingleChoice

\* Clearing flags leaves a task quiet.
LEMMA UnflaggedQuiet ==
  ASSUME StoreOK, NEW u \in Tasks, NEW F, task'[u] = [task[u] EXCEPT !.flags = F],
         F \subseteq task[u].flags
  PROVE  Quiet(u) => Quiet(u)'
BY DEF StoreOK, TaskRecord, Quiet, Exists

\* Selecting an asset of an idle task.
LEMMA ReplaceChoice ==
  ASSUME Choice, StoreOK, NEW t \in Tasks, gen[t].pc = "idle", NEW stored, NEW r,
         ReplaceSelection(t, stored, r), UNCHANGED <<gen, reader>>
  PROVE  Choice'
<1>1. SingleChoice'
  BY ReplacedRows DEF Choice, ReplaceSelection
<1>2. ASSUME NEW u \in Tasks \ {t} PROVE Quiet(u) => Quiet(u)'
  <2>1. PICK F : F = FlagsAfter(u, task[u].flags, SameResource(r.type, r.section) \ {r})
    OBVIOUS
  <2>2. task'[u] = [task[u] EXCEPT !.flags = F]
    BY <2>1 DEF ReplaceSelection, Unflagged
  <2>3. F \subseteq task[u].flags
    BY <2>1 DEF FlagsAfter
  <2> QED
    BY <2>2, <2>3, UnflaggedQuiet
<1> QED
  BY <1>1, <1>2, UserChoice

\* What the user may pick is no task that runs.
LEMMA PickableIsIdle ==
  ASSUME Orderly, Choice, NEW t \in Tasks, Pickable(t)
  PROVE  gen[t].pc = "idle"
BY DEF Orderly, Choice, GenIsQuiet, Quiet, Pickable

LEMMA SelectTaskAssetChoice ==
  ASSUME NEW c, Orderly, Holds(c), Choice, NEW t \in Tasks, NEW k \in Slots,
         SelectTaskAsset(t, k)
  PROVE  Choice'
<1>1. gen[t].pc = "idle" /\ StoreOK /\ UNCHANGED <<gen, reader>>
  BY PickableIsIdle DEF SelectTaskAsset, Holds
<1>2. \E stored, r : ReplaceSelection(t, stored, r)
  BY DEF SelectTaskAsset
<1> QED
  BY <1>1, <1>2, ReplaceChoice

LEMMA UpdateAssetChoice ==
  ASSUME NEW c, Orderly, Holds(c), Choice, NEW t \in Tasks, NEW k \in Slots,
         UpdateAsset(t, k)
  PROVE  Choice'
<1>1. gen[t].pc = "idle" /\ StoreOK /\ UNCHANGED <<gen, reader>>
  BY PickableIsIdle DEF UpdateAsset, Holds
<1>2. \/ \E stored, r : ReplaceSelection(t, stored, r)
      \/ \E stored, r : row' = row \ {r} /\ task' = [task EXCEPT ![t] = stored]
  BY DEF UpdateAsset
<1>3. CASE \E stored, r : ReplaceSelection(t, stored, r)
  BY <1>1, <1>3, ReplaceChoice
<1>4. CASE \E stored, r : row' = row \ {r} /\ task' = [task EXCEPT ![t] = stored]
  <2>1. SingleChoice'
    BY <1>4, FewerRows DEF Choice
  <2>2. \A u \in Tasks \ {t} : Quiet(u) => Quiet(u)'
    BY <1>4 DEF Quiet, Exists
  <2> QED
    BY <1>1, <2>1, <2>2, UserChoice
<1> QED
  BY <1>2, <1>3, <1>4

LEMMA SelectMediaChoice ==
  ASSUME NEW c, Holds(c), Choice, NEW m \in Media, SelectMedia(m)
  PROVE  Choice'
<1>1. PICK r :
        /\ row' = (row \ (SameResource(r.type, r.section) \ {r})) \cup {r}
        /\ task' = Unflagged(SameResource(r.type, r.section) \ {r})
  <2>1. PICK type \in Types, section \in Sections, title \in Titles :
          LET r       == [type |-> type, section |-> section, title |-> title, source |-> m]
              cleared == SameResource(type, section) \ {r}
          IN  /\ row'  = (row \ cleared) \cup {r}
              /\ task' = Unflagged(cleared)
    BY DEF SelectMedia
  <2>2. PICK r : r = [type |-> type, section |-> section, title |-> title, source |-> m]
    OBVIOUS
  <2>3. r.type = type /\ r.section = section
    BY <2>2
  <2> QED
    BY <2>1, <2>2, <2>3
<1>2. SingleChoice'
  BY <1>1, ReplacedRows DEF Choice
<1>3. ASSUME NEW u \in Tasks PROVE Quiet(u) => Quiet(u)'
  <2>1. PICK F : F = FlagsAfter(u, task[u].flags, SameResource(r.type, r.section) \ {r})
    OBVIOUS
  <2>2. task'[u] = [task[u] EXCEPT !.flags = F]
    BY <1>1, <2>1 DEF Unflagged
  <2>3. F \subseteq task[u].flags
    BY <2>1 DEF FlagsAfter
  <2> QED
    BY <2>2, <2>3, UnflaggedQuiet DEF Holds
<1> QED
  BY <1>2, <1>3, UserChoice DEF SelectMedia

LEMMA UnselectChoice ==
  ASSUME NEW c, Holds(c), Choice, NEW R, NEW source, Unselect(R, source)
  PROVE  Choice'
<1>1. SingleChoice'
  BY FewerRows DEF Choice, Unselect
<1>2. ASSUME NEW u \in Tasks PROVE Quiet(u) => Quiet(u)'
  <2>1. PICK F : F = {k \in task[u].flags : source # <<u, k>>}
    OBVIOUS
  <2>2. task'[u] = [task[u] EXCEPT !.flags = F]
    BY <2>1 DEF Unselect
  <2> QED
    BY <2>1, <2>2, UnflaggedQuiet DEF Holds
<1> QED
  BY <1>1, <1>2, UserChoice DEF Unselect

LEMMA DeleteAssetChoice ==
  ASSUME NEW c, Holds(c), Choice, NEW t \in Tasks, NEW k \in Slots, DeleteAsset(t, k)
  PROVE  Choice'
<1>1. SingleChoice'
  BY FewerRows DEF Choice, DeleteAsset
<1>2. \A u \in Tasks \ {t} : Quiet(u) => Quiet(u)'
  BY DEF DeleteAsset, Quiet, Exists
<1>3. Quiet(t) => Quiet(t)'
  <2>1. task[t] \in TaskRecord /\ Exists(t)
    BY DEF DeleteAsset, Holds, StoreOK
  <2>2. PICK x : x = [WithoutSlot(task[t], k) EXCEPT !.type = task[t].cap]
    OBVIOUS
  <2>3. /\ x.status = task[t].status /\ x.polled = task[t].polled
        /\ x.flags = task[t].flags \ {k}
    BY <2>1, <2>2 DEF WithoutSlot, TaskRecord
  <2>4. task'[t] = x
    BY <2>2 DEF DeleteAsset, Holds, StoreOK
  <2> QED
    BY <2>1, <2>3, <2>4 DEF Quiet, Exists
<1> QED
  BY <1>1, <1>2, <1>3, UserChoice DEF DeleteAsset

LEMMA DeleteChoice ==
  ASSUME NEW c, Holds(c), Choice, NEW t \in Tasks, Delete(t)
  PROVE  Choice'
<1>1. SingleChoice'
  BY FewerRows DEF Choice, Delete
<1>2. \A u \in Tasks \ {t} : Quiet(u) => Quiet(u)'
  BY DEF Delete, Quiet, Exists
<1>3. Quiet(t)'
  BY DEF Delete, Quiet, Exists, Holds, StoreOK
<1> QED
  BY <1>1, <1>2, <1>3, UserChoice DEF Delete

LEMMA UserStepChoice ==
  ASSUME NEW c, Orderly, Holds(c), Choice, UserStep
  PROVE  Choice'
<1>1. ASSUME NEW r, DeleteSelectedAsset(r) \/ DeleteSelectedAssetByRequest(r) PROVE Choice'
  BY <1>1, UnselectChoice DEF DeleteSelectedAsset, DeleteSelectedAssetByRequest
<1> QED
  BY <1>1, SelectTaskAssetChoice, UpdateAssetChoice, DeleteAssetChoice, SelectMediaChoice,
     DeleteChoice DEF UserStep

\* Nothing is selected at first.
LEMMA InitChoice == Init => Choice
<1> SUFFICES ASSUME Init PROVE Choice
  OBVIOUS
<1>1. SingleChoice
  BY DEF Init, SingleChoice
<1>2. \A t \in Tasks : GenIsQuiet(t)
  BY DEF Init, GenIsQuiet, NoGen
<1>3. \A p \in Readers : RetryIsQuiet(p)
  BY DEF Init, RetryIsQuiet, NoReader
<1> QED
  BY <1>1, <1>2, <1>3 DEF Choice

\* Every step keeps the single choice under the conditions of Orderly.
LEMMA NextChoice == Orderly /\ SelInv /\ Choice /\ [Next]_vars => Choice'
<1> SUFFICES ASSUME Orderly, SelInv, Choice, [Next]_vars PROVE Choice'
  OBVIOUS
<1>1. PICK c : Holds(c)
  BY DEF SelInv, Holds
<1>2. CASE UNCHANGED vars
  <2>1. SingleChoice' /\ \A t \in Tasks : Quiet(t) => Quiet(t)'
    BY <1>2 DEF vars, Choice, SingleChoice, Quiet, Exists
  <2> QED
    BY <1>2, <2>1, UserChoice DEF vars
<1>3. ASSUME NEW t \in Tasks, GenStep(t) PROVE Choice'
  BY <1>1, <1>3, CreateChoice, StartRunningChoice, SaveProgressChoice, GenerationCompletesChoice,
     ReadProgressAssetsChoice, GenerationEndsChoice DEF GenStep
<1>4. ASSUME NEW p \in Readers, ReaderStep(p) PROVE Choice'
  BY <1>1, <1>4, ReaderStepChoice
<1>5. CASE UserStep
  BY <1>1, <1>5, UserStepChoice
<1> QED
  BY <1>2, <1>3, <1>4, <1>5 DEF Next

\* A resource never has two selected assets, if the user neither picks assets
\* of a task that runs nor retries a task that is polled, and polls and
\* requests come one at a time.
THEOREM ChoicesAreSingle ==
  ASSUME Orderly
  PROVE  Spec => []SingleChoice
<1>1. SelInv /\ Choice /\ [Next]_vars => Choice'
  BY NextChoice
<1>2. Choice => SingleChoice
  BY DEF Choice
<1> QED
  BY <1>1, <1>2, InitChoice, SelInvIsInvariant, PTL DEF Spec
=============================================================================
