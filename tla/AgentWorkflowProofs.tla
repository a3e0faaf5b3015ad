------------------------- MODULE AgentWorkflowProofs -------------------------
(***************************************************************************)
(* Theorems about AgentWorkflow, for any workflows, clients and revisions. *)
(*                                                                         *)
(* Nothing in the rows says which commands are on their way, so the        *)
(* invariant of the store (StoreInv) speaks of the clients: what each has  *)
(* read is not newer than the row and older than an end, and an id it      *)
(* means to create is nobody else's.                                       *)
(*                                                                         *)
(* ScopeInv joins it with the invariant of the workers (BaseInv) and says  *)
(* when the rows of a workflow come and go: a worker's claim outlives the  *)
(* row's discarding, but is never of a row that is yet to come.            *)
(*                                                                         *)
(* A command shifts the rows (RowsShift): it discards a continuation or    *)
(* lets rows appear that nobody has claimed.  What AgentOutboxProofs shows *)
(* of the workers' own steps therefore holds with the commands as well.    *)
(***************************************************************************)
EXTENDS AgentWorkflow, AgentOutboxProofs

USE WorkflowAssumption

\* Commands that are kept in the ledger.
Ledger == {"CreateWorkflowEnvelope", "ReplaceWorkflow", "TerminateWorkflow",
           "ApplyProjectionWriteSet"}

\* Commands about a workflow whose row was read, or whose root task was.
OnWorkflow == {"ReplaceWorkflow", "TerminateWorkflow", "ApplyProjectionWriteSet"}
OnTask     == {"ApplyProjectionWriteSet", "CompareAndSwapTask"}

\* A command is complete.
CommandIsComplete(k) ==
  /\ k.op \in OnWorkflow \cup OnTask \cup {"CompareAndSwapInvocation"} => k.of \in Workflows
  /\ k.op \in {"CreateWorkflowEnvelope", "ReplaceWorkflow"} <=> k.new # None
  /\ k.op = "TerminateWorkflow" => k.to \in Terminal
  /\ k.op = "ApplyProjectionWriteSet" => k.to = "running"
  /\ k.op = "CompareAndSwapTask" => k.to = "failed"
  /\ k.op = "CompareAndSwapInvocation" => k.to \in InvocationStatus
  /\ k.recorded => k.op \in Ledger
  /\ ~k.refused

\* What a client has read: nothing newer than the rows, and a workflow or a
\* task that had not ended.
ReadBefore(c) ==
  LET k == client[c] IN
  /\ k.op \in OnWorkflow =>
       /\ workflow[k.of].status # "absent"
       /\ k.rev <= workflow[k.of].rev
       /\ Ended(k.of) => k.rev < workflow[k.of].rev
  /\ k.op \in OnTask =>
       /\ workflow[k.of].status # "absent"
       /\ k.taskRev <= task[k.of].rev
       /\ task[k.of].status \in TaskEnds => k.taskRev < task[k.of].rev

\* An id that is not yet used up belongs to one client.
IdIsFree(c) ==
  LET k == client[c] IN
  k.new # None /\ ~k.recorded => workflow[k.new].status = "absent"

ClientOK(c) ==
  CommandIsComplete(client[c]) /\ ReadBefore(c) /\ IdIsFree(c)

IdsDiffer ==
  \A c, d \in Clients :
    c # d /\ client[c].new # None => client[c].new # client[d].new

EndedTasks == \A w \in Workflows : Ended(w) => task[w].status \in TaskEnds

StoreInv ==
  /\ WorkflowTypeOK
  /\ PointerIsTheActiveOne
  /\ EndedTasks
  /\ \A c \in Clients : ClientOK(c)
  /\ IdsDiffer

-----------------------------------------------------------------------------
(* What the commands do.                                                   *)

Drops(c) == client' = [client EXCEPT ![c] = Free]

Creates(c) ==
  /\ client[c].op = "CreateWorkflowEnvelope" /\ ~client[c].recorded
  /\ session.active = None /\ session.barrier = None
  /\ Envelope(client[c].new)
  /\ session' = [session EXCEPT !.active = client[c].new, !.rev = @ + 1]
  /\ TookEffect(c)
  /\ UNCHANGED outboxVars

Replaces(c) ==
  LET w == client[c].of
      s == client[c].new IN
  /\ client[c].op = "ReplaceWorkflow" /\ ~client[c].recorded
  /\ Replaceable(w, client[c].rev)
  /\ workflow' = [workflow EXCEPT ![w] = Ends(w, "cancelled"),
                                  ![s] = [status |-> "active", rev |-> 1]]
  /\ task' = [task EXCEPT ![w] = cancelNonterminalWorkflowTasksTx(w),
                          ![s] = [status |-> "pending", rev |-> 1]]
  /\ invocation' = [invocation EXCEPT ![s] = [status |-> "pending", rev |-> 1]]
  /\ row' = [row EXCEPT ![ContinuationOf[w]] = discardWorkflowContinuationsTx(w),
                        ![FinalOf[w]]   = Unclaimed("pending"),
                        ![HandoffOf[w]] = Unclaimed("pending")]
  /\ session' = [active |-> s, barrier |-> FinalOf[w], rev |-> session.rev + 1]
  /\ TookEffect(c)
  /\ UNCHANGED <<at, prompts, returns>>

Terminates(c) ==
  LET w == client[c].of IN
  /\ client[c].op = "TerminateWorkflow" /\ ~client[c].recorded
  /\ Endable(w, client[c].rev)
  /\ workflow' = [workflow EXCEPT ![w] = Ends(w, client[c].to)]
  /\ task' = [task EXCEPT ![w] = cancelNonterminalWorkflowTasksTx(w)]
  /\ row' = [row EXCEPT ![ContinuationOf[w]] = discardWorkflowContinuationsTx(w)]
  /\ session' = [session EXCEPT !.active = None, !.rev = @ + 1]
  /\ TookEffect(c)
  /\ UNCHANGED <<at, prompts, returns, invocation>>

Projects(c) ==
  LET w == client[c].of
      r == ContinuationOf[w] IN
  /\ client[c].op = "ApplyProjectionWriteSet" /\ ~client[c].recorded
  /\ row[r].status = "absent"
  /\ workflow[w].rev = client[c].rev /\ task[w].rev = client[c].taskRev
  /\ workflow' = [workflow EXCEPT ![w].rev = @ + 1]
  /\ task' = [task EXCEPT ![w] = [status |-> client[c].to, rev |-> @.rev + 1]]
  /\ row' = [row EXCEPT ![r] = Unclaimed("pending")]
  /\ TookEffect(c)
  /\ UNCHANGED <<session, invocation, at, prompts, returns>>

SwapsTask(c) ==
  LET w == client[c].of IN
  /\ client[c].op = "CompareAndSwapTask"
  /\ task[w].rev = client[c].taskRev
  /\ task' = [task EXCEPT ![w] = [status |-> client[c].to, rev |-> @.rev + 1]]
  /\ Drops(c)
  /\ UNCHANGED <<outboxVars, session, workflow, invocation>>

SwapsInvocation(c) ==
  LET w == client[c].of IN
  /\ client[c].op = "CompareAndSwapInvocation"
  /\ invocation' = [invocation EXCEPT ![w] = [status |-> client[c].to, rev |-> @.rev + 1]]
  /\ Drops(c)
  /\ UNCHANGED <<outboxVars, session, workflow, task>>

Lifts(c) ==
  /\ client[c].op = "CompareAndSwapWorkflowState"
  /\ session.rev = client[c].rev
  /\ session' = [session EXCEPT !.barrier = None, !.rev = @ + 1]
  /\ Drops(c)
  /\ UNCHANGED <<outboxVars, workflow, task, invocation>>

Commands(c) ==
  \/ Creates(c) \/ Replaces(c) \/ Terminates(c) \/ Projects(c)
  \/ SwapsTask(c) \/ SwapsInvocation(c) \/ Lifts(c)

\* No command whose effect is stored is refused, so a client that is answered
\* is free again.
LEMMA SendingCases ==
  ASSUME StoreInv, NEW c \in Clients, Sending(c) \/ GivesUp(c)
  PROVE  \/ Commands(c)
         \/ Drops(c) /\ UNCHANGED <<outboxVars, storeVars>>
<1>1. client[c] \in ClientStates /\ CommandIsComplete(client[c])
  BY DEF StoreInv, WorkflowTypeOK, ClientOK
<1>2. ASSUME IsRefused(c), ~client[c].recorded
      PROVE  Drops(c) /\ UNCHANGED <<outboxVars, storeVars>>
  BY <1>2 DEF IsRefused, Drops
<1>3. client[c].op \notin Ledger => ~client[c].recorded
  BY <1>1 DEF CommandIsComplete
<1> USE DEF Sends, Known, IsReplayed, Drops, Commands
<1>4. CASE CreateWorkflowEnvelope(c)
  BY <1>2, <1>4 DEF CreateWorkflowEnvelope, Creates, MustAttach
<1>5. CASE ReplaceWorkflow(c)
  BY <1>2, <1>5 DEF ReplaceWorkflow, Replaces
<1>6. CASE TerminateWorkflow(c)
  BY <1>2, <1>6 DEF TerminateWorkflow, Terminates
<1>7. CASE ApplyProjectionWriteSet(c)
  BY <1>2, <1>7 DEF ApplyProjectionWriteSet, Projects
<1>8. CASE CompareAndSwapTask(c)
  BY <1>2, <1>3, <1>8 DEF CompareAndSwapTask, SwapsTask, Ledger
<1>9. CASE CompareAndSwapInvocation(c)
  BY <1>2, <1>3, <1>9 DEF CompareAndSwapInvocation, SwapsInvocation, Ledger
<1>10. CASE CompareAndSwapWorkflowState(c)
  BY <1>2, <1>3, <1>10 DEF CompareAndSwapWorkflowState, Lifts, Ledger
<1>11. CASE GivesUp(c)
  BY <1>11 DEF GivesUp
<1> QED BY <1>4, <1>5, <1>6, <1>7, <1>8, <1>9, <1>10, <1>11 DEF Sending

-----------------------------------------------------------------------------
(* Clients.                                                                *)

\* Rows that exist stay and, when they are written, get a new revision.
Grows ==
  \A w \in Workflows : workflow[w].status # "absent" =>
    /\ \/ workflow'[w] = workflow[w]
       \/ workflow'[w].rev = workflow[w].rev + 1 /\ workflow'[w].status # "absent"
    /\ task'[w] = task[w] \/ task'[w].rev = task[w].rev + 1

\* A client has the same command, whose effect may by now be stored.
SameCommand(d) ==
  /\ client'[d].op = client[d].op /\ client'[d].of = client[d].of
  /\ client'[d].new = client[d].new /\ client'[d].to = client[d].to
  /\ client'[d].rev = client[d].rev /\ client'[d].taskRev = client[d].taskRev
  /\ client'[d].refused = client[d].refused

LEMMA FreeIsOK ==
  /\ Free \in ClientStates
  /\ CommandIsComplete(Free) /\ Free.op = None /\ Free.new = None
<1>1. None \notin Ledger \cup OnWorkflow \cup OnTask \cup {"CompareAndSwapInvocation"}
  BY DEF Ledger, OnWorkflow, OnTask, Ops
<1> QED BY <1>1 DEF Free, ClientStates, CommandIsComplete, Ledger, OnWorkflow, OnTask

\* What a client has read stays older than what is written later.
LEMMA ReadIsKept ==
  ASSUME StoreInv, Grows, NEW d \in Clients, SameCommand(d)
  PROVE  ReadBefore(d)'
<1> DEFINE k == client[d]
<1>1. /\ k \in ClientStates /\ ReadBefore(d) /\ CommandIsComplete(k)
      /\ workflow \in [Workflows -> WorkflowStates]
      /\ task \in [Workflows -> TaskStates]
  BY DEF StoreInv, WorkflowTypeOK, ClientOK
<1>2. ASSUME k.op \in OnWorkflow
      PROVE  /\ workflow'[k.of].status # "absent"
             /\ k.rev <= workflow'[k.of].rev
             /\ workflow'[k.of].status \in Terminal => k.rev < workflow'[k.of].rev
  <2>1. /\ k.of \in Workflows /\ workflow[k.of].rev \in Nat /\ k.rev \in Nat
        /\ workflow[k.of].status # "absent" /\ k.rev <= workflow[k.of].rev
        /\ workflow[k.of].status \in Terminal => k.rev < workflow[k.of].rev
    BY <1>1, <1>2
       DEF CommandIsComplete, ReadBefore, WorkflowStates, ClientStates, Ended
  <2> QED BY <2>1 DEF Grows
<1>3. ASSUME k.op \in OnTask
      PROVE  /\ workflow'[k.of].status # "absent"
             /\ k.taskRev <= task'[k.of].rev
             /\ task'[k.of].status \in TaskEnds => k.taskRev < task'[k.of].rev
  <2>1. /\ k.of \in Workflows /\ task[k.of].rev \in Nat /\ k.taskRev \in Nat
        /\ workflow[k.of].status # "absent" /\ k.taskRev <= task[k.of].rev
        /\ task[k.of].status \in TaskEnds => k.taskRev < task[k.of].rev
    BY <1>1, <1>3
       DEF CommandIsComplete, ReadBefore, TaskStates, ClientStates
  <2> QED BY <2>1 DEF Grows
<1> HIDE DEF k
<1> QED BY <1>2, <1>3 DEF SameCommand, ReadBefore, Ended, k

LEMMA CommandIsKept ==
  ASSUME StoreInv, NEW d \in Clients, SameCommand(d),
         client'[d].recorded => client[d].op \in Ledger
  PROVE  CommandIsComplete(client'[d])
<1>1. CommandIsComplete(client[d])
  BY DEF StoreInv, ClientOK
<1> QED BY <1>1 DEF SameCommand, CommandIsComplete

\* Client c is free again, or knows that its command is in the ledger.
Answers(c) ==
  /\ client' \in [Clients -> ClientStates]
  /\ \A d \in Clients : d # c => client'[d] = client[d]
  /\ \/ client'[c] = Free
     \/ SameCommand(c) /\ client'[c].recorded /\ client[c].op \in Ledger

LEMMA DropsAnswers ==
  ASSUME StoreInv, NEW c \in Clients, Drops(c)
  PROVE  Answers(c)
  BY FreeIsOK DEF Drops, Answers, StoreInv, WorkflowTypeOK

LEMMA EffectAnswers ==
  ASSUME StoreInv, NEW c \in Clients, TookEffect(c), client[c].op \in Ledger
  PROVE  Answers(c)
<1>1. client[c] \in ClientStates /\ client \in [Clients -> ClientStates]
  BY DEF StoreInv, WorkflowTypeOK
<1>2. CASE client' = [client EXCEPT ![c] = Free]
  BY <1>1, <1>2, FreeIsOK DEF Answers
<1>3. CASE client' = [client EXCEPT ![c].recorded = TRUE]
  <2> DEFINE k == [client[c] EXCEPT !.recorded = TRUE]
  <2>1. /\ k \in ClientStates /\ k.recorded
        /\ k.op = client[c].op /\ k.of = client[c].of /\ k.new = client[c].new
        /\ k.to = client[c].to /\ k.rev = client[c].rev
        /\ k.taskRev = client[c].taskRev /\ k.refused = client[c].refused
    BY <1>1 DEF ClientStates
  <2>2. client' = [client EXCEPT ![c] = k]
    BY <1>3
  <2> HIDE DEF k
  <2> QED BY <1>1, <2>1, <2>2 DEF Answers, SameCommand
<1> QED BY <1>2, <1>3 DEF TookEffect

LEMMA ClientsKept ==
  ASSUME StoreInv, Grows, NEW c \in Clients, Answers(c),
         \A w \in Workflows : workflow[w].status = "absent" =>
           workflow'[w].status = "absent" \/ w = client[c].new
  PROVE  (\A d \in Clients : ClientOK(d)') /\ IdsDiffer'
<1>1. ASSUME NEW d \in Clients, d # c PROVE ClientOK(d)'
  <2>1. SameCommand(d) /\ client'[d] = client[d]
    BY <1>1 DEF Answers, SameCommand
  <2>2. ReadBefore(d)'
    BY <2>1, ReadIsKept
  <2>3. CommandIsComplete(client'[d])
    BY <2>1 DEF StoreInv, ClientOK
  <2>4. IdIsFree(d)'
    <3>1. client[d].new \in Workflows \cup {None}
      BY DEF StoreInv, WorkflowTypeOK, ClientStates
    <3> QED BY <1>1, <2>1, <3>1 DEF StoreInv, ClientOK, IdIsFree, IdsDiffer
  <2> QED BY <2>2, <2>3, <2>4 DEF ClientOK
<1>2. CASE client'[c] = Free
  <2>1. ReadBefore(c)'
    BY <1>2, FreeIsOK DEF ReadBefore, OnWorkflow, OnTask, Ops
  <2>2. ClientOK(c)'
    BY <1>2, <2>1, FreeIsOK DEF ClientOK, IdIsFree
  <2>3. IdsDiffer'
    BY <1>2, FreeIsOK DEF IdsDiffer, StoreInv, Answers
  <2> QED BY <1>1, <2>2, <2>3
<1>3. CASE SameCommand(c) /\ client'[c].recorded /\ client[c].op \in Ledger
  <2>1. ClientOK(c)'
    BY <1>3, ReadIsKept, CommandIsKept DEF ClientOK, IdIsFree
  <2>2. IdsDiffer'
    BY <1>3 DEF IdsDiffer, StoreInv, Answers, SameCommand
  <2> QED BY <1>1, <2>1, <2>2
<1> QED BY <1>2, <1>3 DEF Answers

-----------------------------------------------------------------------------
(* Plans.                                                                  *)

\* A client that has nothing to do gets a command that fits the rows.
Fits(c, k) ==
  /\ k \in ClientStates /\ CommandIsComplete(k)
  /\ k.op \in OnWorkflow =>
       workflow[k.of].status = "active" /\ k.rev = workflow[k.of].rev
  /\ k.op \in OnTask =>
       /\ workflow[k.of].status = "active"
       /\ k.taskRev = task[k.of].rev /\ task[k.of].status \notin TaskEnds
  /\ k.new # None => Unused(k.new)
  /\ k.op = "CompareAndSwapWorkflowState" =>
       /\ k.rev = session.rev /\ session.barrier # None
       /\ row[session.barrier].status = "published"
  /\ client[c].op = None /\ client' = [client EXCEPT ![c] = k]
  /\ UNCHANGED <<outboxVars, storeVars>>

LEMMA PlansFit ==
  ASSUME StoreInv, NEW c \in Clients, Plans(c)
  PROVE  \E k \in ClientStates : Fits(c, k)
<1> USE DEF Plan, Fits, CommandIsComplete, OnWorkflow, OnTask, Ledger, Ops
<1>0. /\ session \in SessionStates /\ workflow \in [Workflows -> WorkflowStates]
      /\ task \in [Workflows -> TaskStates] /\ invocation \in [Workflows -> InvocationStates]
      /\ \A w \in Workflows : session.active = w => workflow[w].status = "active"
  BY DEF StoreInv, WorkflowTypeOK, PointerIsTheActiveOne
<1>1. CASE PlansEnvelope(c)
  <2>1. PICK w \in Workflows :
          /\ Unused(w)
          /\ Plan(c, [Free EXCEPT !.op = "CreateWorkflowEnvelope", !.new = w])
    BY <1>1 DEF PlansEnvelope
  <2> DEFINE k == [Free EXCEPT !.op = "CreateWorkflowEnvelope", !.new = w]
  <2>2. /\ k \in ClientStates /\ k.op = "CreateWorkflowEnvelope" /\ k.new = w
        /\ k.recorded = FALSE /\ k.refused = FALSE
    BY DEF Free, ClientStates
  <2> HIDE DEF k
  <2>3. client[c].op = None /\ client' = [client EXCEPT ![c] = k]
        /\ UNCHANGED <<outboxVars, storeVars>>
    BY <2>1 DEF k
  <2> QED BY <2>1, <2>2, <2>3
<1>2. CASE PlansReplacement(c)
  <2>1. PICK w \in Workflows, t \in Workflows :
          /\ Active(w) /\ Unused(t)
          /\ Plan(c, [Free EXCEPT !.op = "ReplaceWorkflow", !.of = w, !.new = t,
                                  !.rev = workflow[w].rev])
    BY <1>2 DEF PlansReplacement
  <2> DEFINE n == workflow[w].rev
             k == [Free EXCEPT !.op = "ReplaceWorkflow", !.of = w, !.new = t, !.rev = n]
  <2>2. n \in Nat /\ workflow[w].status = "active"
    BY <1>0, <2>1 DEF WorkflowStates, Active
  <2>3. /\ k \in ClientStates /\ k.op = "ReplaceWorkflow" /\ k.of = w /\ k.new = t
        /\ k.rev = n /\ k.recorded = FALSE /\ k.refused = FALSE
    <3> HIDE DEF n
    <3> QED BY <2>2 DEF Free, ClientStates
  <2>4. client[c].op = None /\ client' = [client EXCEPT ![c] = k]
        /\ UNCHANGED <<outboxVars, storeVars>>
    BY <2>1
  <2> HIDE DEF k
  <2> QED BY <2>1, <2>2, <2>3, <2>4
<1>3. CASE PlansEnd(c)
  <2>1. PICK w \in Workflows, status \in Endings :
          /\ Active(w)
          /\ Plan(c, [Free EXCEPT !.op = "TerminateWorkflow", !.of = w, !.to = status,
                                  !.rev = workflow[w].rev])
    BY <1>3 DEF PlansEnd
  <2> DEFINE n == workflow[w].rev
             k == [Free EXCEPT !.op = "TerminateWorkflow", !.of = w, !.to = status,
                               !.rev = n]
  <2>2. n \in Nat /\ workflow[w].status = "active" /\ status \in Terminal
    BY <1>0, <2>1 DEF WorkflowStates, Active, Terminal
  <2>3. /\ k \in ClientStates /\ k.op = "TerminateWorkflow" /\ k.of = w /\ k.new = None
        /\ k.to = status /\ k.rev = n /\ k.recorded = FALSE /\ k.refused = FALSE
    <3> HIDE DEF n
    <3> QED BY <2>2 DEF Free, ClientStates
  <2>4. client[c].op = None /\ client' = [client EXCEPT ![c] = k]
        /\ UNCHANGED <<outboxVars, storeVars>>
    BY <2>1
  <2> HIDE DEF k
  <2> QED BY <2>1, <2>2, <2>3, <2>4
<1>4. CASE PlansProjection(c)
  <2>1. PICK w \in Workflows :
          /\ Active(w) /\ task[w].status \notin TaskEnds
          /\ Plan(c, [Free EXCEPT !.op = "ApplyProjectionWriteSet", !.of = w,
                                  !.to = "running", !.rev = workflow[w].rev,
                                  !.taskRev = task[w].rev])
    BY <1>4 DEF PlansProjection
  <2> DEFINE n == workflow[w].rev
             m == task[w].rev
             k == [Free EXCEPT !.op = "ApplyProjectionWriteSet", !.of = w,
                               !.to = "running", !.rev = n, !.taskRev = m]
  <2>2. n \in Nat /\ m \in Nat /\ workflow[w].status = "active"
    BY <1>0, <2>1 DEF WorkflowStates, TaskStates, Active
  <2>3. /\ k \in ClientStates /\ k.op = "ApplyProjectionWriteSet" /\ k.of = w
        /\ k.new = None /\ k.to = "running" /\ k.rev = n /\ k.taskRev = m
        /\ k.recorded = FALSE /\ k.refused = FALSE
    <3> HIDE DEF n, m
    <3> QED BY <2>2 DEF Free, ClientStates, InvocationStatus
  <2>4. client[c].op = None /\ client' = [client EXCEPT ![c] = k]
        /\ UNCHANGED <<outboxVars, storeVars>>
    BY <2>1
  <2> HIDE DEF k
  <2> QED BY <2>1, <2>2, <2>3, <2>4
<1>5. CASE PlansTask(c)
  <2>1. PICK w \in Workflows :
          /\ Active(w) /\ task[w].status \notin TaskEnds
          /\ Plan(c, [Free EXCEPT !.op = "CompareAndSwapTask", !.of = w, !.to = "failed",
                                  !.taskRev = task[w].rev])
    BY <1>5 DEF PlansTask
  <2> DEFINE m == task[w].rev
             k == [Free EXCEPT !.op = "CompareAndSwapTask", !.of = w, !.to = "failed",
                               !.taskRev = m]
  <2>2. m \in Nat /\ workflow[w].status = "active"
    BY <1>0, <2>1 DEF TaskStates, Active
  <2>3. /\ k \in ClientStates /\ k.op = "CompareAndSwapTask" /\ k.of = w
        /\ k.new = None /\ k.to = "failed" /\ k.taskRev = m
        /\ k.recorded = FALSE /\ k.refused = FALSE
    <3> HIDE DEF m
    <3> QED BY <2>2 DEF Free, ClientStates, Terminal
  <2>4. client[c].op = None /\ client' = [client EXCEPT ![c] = k]
        /\ UNCHANGED <<outboxVars, storeVars>>
    BY <2>1
  <2> HIDE DEF k
  <2> QED BY <2>1, <2>2, <2>3, <2>4
<1>6. CASE PlansInvocation(c)
  <2>1. PICK w \in Workflows, status \in {"running", "completed"} :
          Plan(c, [Free EXCEPT !.op = "CompareAndSwapInvocation", !.of = w,
                               !.to = status, !.rev = invocation[w].rev])
    BY <1>6 DEF PlansInvocation
  <2> DEFINE n == invocation[w].rev
             k == [Free EXCEPT !.op = "CompareAndSwapInvocation", !.of = w,
                               !.to = status, !.rev = n]
  <2>2. n \in Nat /\ status \in InvocationStatus
    BY <1>0 DEF InvocationStates, InvocationStatus
  <2>3. /\ k \in ClientStates /\ k.op = "CompareAndSwapInvocation" /\ k.of = w
        /\ k.new = None /\ k.to = status /\ k.recorded = FALSE /\ k.refused = FALSE
    <3> HIDE DEF n
    <3> QED BY <2>2 DEF Free, ClientStates
  <2>4. client[c].op = None /\ client' = [client EXCEPT ![c] = k]
        /\ UNCHANGED <<outboxVars, storeVars>>
    BY <2>1
  <2> HIDE DEF k
  <2> QED BY <2>2, <2>3, <2>4
<1>7. CASE PlansToLift(c)
  <2> DEFINE n == session.rev
             v == session.active
             k == [Free EXCEPT !.op = "CompareAndSwapWorkflowState", !.of = v, !.rev = n]
  <2>2. n \in Nat /\ v \in Workflows \cup {None}
    BY <1>0 DEF SessionStates
  <2>3. /\ k \in ClientStates /\ k.op = "CompareAndSwapWorkflowState"
        /\ k.rev = n /\ k.new = None /\ k.recorded = FALSE /\ k.refused = FALSE
    <3> HIDE DEF n, v
    <3> QED BY <2>2 DEF Free, ClientStates
  <2>4. /\ client[c].op = None /\ client' = [client EXCEPT ![c] = k]
        /\ UNCHANGED <<outboxVars, storeVars>>
        /\ session.barrier # None /\ row[session.barrier].status = "published"
    BY <1>7 DEF PlansToLift
  <2> HIDE DEF k
  <2> QED BY <2>3, <2>4
<1> QED BY <1>1, <1>2, <1>3, <1>4, <1>5, <1>6, <1>7 DEF Plans

LEMMA PlansKeep ==
  ASSUME StoreInv, NEW c \in Clients, Plans(c)
  PROVE  StoreInv'
<1>1. PICK k \in ClientStates : Fits(c, k)
  BY PlansFit
<1>2. /\ UNCHANGED <<session, workflow, task, invocation>>
      /\ client' = [client EXCEPT ![c] = k]
  BY <1>1 DEF Fits, storeVars
<1>3. WorkflowTypeOK' /\ PointerIsTheActiveOne' /\ EndedTasks'
  BY <1>1, <1>2 DEF StoreInv, WorkflowTypeOK, PointerIsTheActiveOne, EndedTasks, Ended
<1>4. client'[c] = k /\ \A d \in Clients : d # c => client'[d] = client[d]
  BY <1>2 DEF StoreInv, WorkflowTypeOK
<1>5. ASSUME NEW d \in Clients PROVE ClientOK(d)'
  <2>1. CASE d # c
    BY <1>2, <1>4, <2>1
       DEF StoreInv, ClientOK, ReadBefore, IdIsFree, Ended, CommandIsComplete
  <2>2. CASE d = c
    <3>1. workflow \in [Workflows -> WorkflowStates] /\ task \in [Workflows -> TaskStates]
      BY DEF StoreInv, WorkflowTypeOK
    <3>2. k.op \in OnWorkflow \cup OnTask => k.of \in Workflows
      BY <1>1 DEF Fits, CommandIsComplete
    <3>3. ReadBefore(c)'
      BY <1>1, <1>2, <1>4, <3>1, <3>2
         DEF Fits, ReadBefore, Ended, Terminal, WorkflowStates, TaskStates
    <3>4. IdIsFree(c)'
      BY <1>1, <1>2, <1>4 DEF Fits, IdIsFree, Unused
    <3> QED BY <1>1, <1>4, <2>2, <3>3, <3>4 DEF Fits, ClientOK
  <2> QED BY <2>1, <2>2
<1>6. IdsDiffer'
  <2>1. k.new # None => \A d \in Clients : client[d].new # k.new
    BY <1>1 DEF Fits, Unused
  <2> QED BY <1>4, <2>1 DEF StoreInv, IdsDiffer
<1> QED BY <1>3, <1>5, <1>6 DEF StoreInv

-----------------------------------------------------------------------------
(* Commands.                                                               *)

LEMMA StoreFacts ==
  ASSUME StoreInv
  PROVE  /\ session \in SessionStates /\ session.active \in Workflows \cup {None}
         /\ session.rev \in Nat /\ session.barrier \in RootFinals \cup {None}
         /\ workflow \in [Workflows -> WorkflowStates]
         /\ task \in [Workflows -> TaskStates]
         /\ invocation \in [Workflows -> InvocationStates]
         /\ \A w \in Workflows :
               /\ workflow[w].rev \in Nat /\ task[w].rev \in Nat
               /\ invocation[w].rev \in Nat
               /\ workflow[w].status \in {"absent", "active"} \cup Terminal
  BY DEF StoreInv, WorkflowTypeOK, SessionStates, WorkflowStates, TaskStates, InvocationStates

\* A cancelled task has a new revision.
LEMMA CancelFacts ==
  ASSUME StoreInv, NEW w \in Workflows
  PROVE  LET t == cancelNonterminalWorkflowTasksTx(w) IN
         /\ t \in TaskStates /\ t.status \in TaskEnds
         /\ t = task[w] \/ t.rev = task[w].rev + 1
<1> DEFINE n == task[w].rev + 1
<1>1. n \in Nat /\ task[w] \in TaskStates
  BY StoreFacts
<1>2. [status |-> "cancelled", rev |-> n] \in TaskStates
  <2> HIDE DEF n
  <2> QED BY <1>1 DEF TaskStates, TaskEnds, Terminal
<1>3. cancelNonterminalWorkflowTasksTx(w) =
        IF task[w].status \in TaskEnds THEN task[w] ELSE [status |-> "cancelled", rev |-> n]
  BY DEF cancelNonterminalWorkflowTasksTx
<1>4. CASE task[w].status \in TaskEnds
  BY <1>1, <1>3, <1>4
<1>5. CASE task[w].status \notin TaskEnds
  BY <1>2, <1>3, <1>5 DEF TaskEnds, Terminal
<1> QED BY <1>4, <1>5

\* An end, with its new revision.
LEMMA EndFacts ==
  ASSUME StoreInv, NEW w \in Workflows, NEW status \in Terminal
  PROVE  /\ Ends(w, status) \in WorkflowStates
         /\ Ends(w, status).status = status
         /\ Ends(w, status).rev = workflow[w].rev + 1
<1> DEFINE n == workflow[w].rev + 1
<1>1. n \in Nat
  BY StoreFacts
<1>2. Ends(w, status) = [status |-> status, rev |-> n]
  BY DEF Ends
<1> HIDE DEF n
<1>3. [status |-> status, rev |-> n] \in WorkflowStates
  BY <1>1 DEF WorkflowStates
<1> QED BY <1>2, <1>3 DEF n

\* The row of a workflow, or its task, is compared and set.
LEMMA NewRow ==
  /\ [status |-> "active", rev |-> 1] \in WorkflowStates
  /\ [status |-> "pending", rev |-> 1] \in TaskStates
  /\ [status |-> "pending", rev |-> 1] \in InvocationStates
  BY DEF WorkflowStates, TaskStates, InvocationStates, InvocationStatus

\* How the store moves: the types and the pointer stay, rows grow, at most the
\* client's new id is born, and what has ended stays as it is.
Moves(c) ==
  /\ session' \in SessionStates
  /\ workflow' \in [Workflows -> WorkflowStates]
  /\ task' \in [Workflows -> TaskStates]
  /\ invocation' \in [Workflows -> InvocationStates]
  /\ PointerIsTheActiveOne'
  /\ Grows
  /\ \A w \in Workflows : workflow[w].status = "absent" =>
       workflow'[w].status = "absent" \/ w = client[c].new
  /\ EndedTasks'
  /\ \A w \in Workflows : Ended(w) => workflow'[w] = workflow[w] /\ task'[w] = task[w]
  /\ Answers(c)

LEMMA CommandFacts ==
  ASSUME StoreInv, NEW c \in Clients
  PROVE  /\ CommandIsComplete(client[c]) /\ ReadBefore(c) /\ IdIsFree(c)
         /\ client[c] \in ClientStates
         /\ client[c].new \in Workflows \cup {None} /\ client[c].of \in Workflows \cup {None}
  BY DEF StoreInv, ClientOK, WorkflowTypeOK, ClientStates

LEMMA CreatesMoves ==
  ASSUME StoreInv, NEW c \in Clients, Creates(c)
  PROVE  Moves(c)
<1> DEFINE s == client[c].new
           new == [status |-> "active", rev |-> 1]
           fresh == [status |-> "pending", rev |-> 1]
<1>1. s \in Workflows /\ workflow[s].status = "absent"
  BY CommandFacts DEF Creates, CommandIsComplete, IdIsFree
<1>2. /\ workflow' = [workflow EXCEPT ![s] = new]
      /\ task' = [task EXCEPT ![s] = fresh]
      /\ invocation' = [invocation EXCEPT ![s] = fresh]
      /\ session.active = None
  BY DEF Creates, Envelope
<1>3. session' \in SessionStates /\ session'.active = s
  <2> DEFINE n == session.rev + 1
             x == [session EXCEPT !.active = s, !.rev = n]
  <2>1. n \in Nat
    BY StoreFacts
  <2>2. x \in SessionStates /\ x.active = s
    <3> HIDE DEF n, s
    <3>1. s \in Workflows
      BY <1>1 DEF s
    <3> QED BY <2>1, <3>1, StoreFacts DEF SessionStates
  <2>3. session' = x
    BY DEF Creates
  <2> QED BY <2>2, <2>3
<1>4. new \in WorkflowStates /\ fresh \in TaskStates /\ fresh \in InvocationStates
      /\ new.status = "active"
  BY NewRow
<1> HIDE DEF s, new, fresh
<1>5. /\ workflow' \in [Workflows -> WorkflowStates]
      /\ task' \in [Workflows -> TaskStates]
      /\ invocation' \in [Workflows -> InvocationStates]
  BY <1>1, <1>2, <1>4, StoreFacts
<1>6. \A w \in Workflows : workflow[w].status # "active"
  BY <1>2 DEF StoreInv, PointerIsTheActiveOne
<1>7. PointerIsTheActiveOne'
  BY <1>1, <1>2, <1>3, <1>4, <1>6, StoreFacts DEF PointerIsTheActiveOne
<1>8. /\ Grows /\ EndedTasks'
      /\ \A w \in Workflows : Ended(w) => workflow'[w] = workflow[w] /\ task'[w] = task[w]
  BY <1>1, <1>2, <1>4, StoreFacts DEF Grows, StoreInv, EndedTasks, Ended, Terminal
<1>9. \A w \in Workflows : workflow[w].status = "absent" =>
        workflow'[w].status = "absent" \/ w = s
  BY <1>2, StoreFacts
<1>10. Answers(c)
  BY EffectAnswers DEF Creates, Ledger
<1> QED BY <1>3, <1>5, <1>7, <1>8, <1>9, <1>10 DEF Moves, s

LEMMA ReplacesMoves ==
  ASSUME StoreInv, NEW c \in Clients, Replaces(c)
  PROVE  Moves(c)
<1> DEFINE w == client[c].of
           s == client[c].new
           new == [status |-> "active", rev |-> 1]
           fresh == [status |-> "pending", rev |-> 1]
           gone == Ends(w, "cancelled")
           t == cancelNonterminalWorkflowTasksTx(w)
<1>1. /\ s \in Workflows /\ workflow[s].status = "absent" /\ w \in Workflows
      /\ workflow[w].status = "active" /\ session.active = w /\ w # s
  BY CommandFacts
     DEF Replaces, Replaceable, Endable, CommandIsComplete, IdIsFree, OnWorkflow
<1>2. /\ workflow' = [workflow EXCEPT ![w] = gone, ![s] = new]
      /\ task' = [task EXCEPT ![w] = t, ![s] = fresh]
      /\ invocation' = [invocation EXCEPT ![s] = fresh]
  BY DEF Replaces
<1>3. session' \in SessionStates /\ session'.active = s
  <2> DEFINE n == session.rev + 1
             b == FinalOf[w]
  <2>1. n \in Nat /\ b \in RootFinals
    BY <1>1, StoreFacts
  <2>2. session' = [active |-> s, barrier |-> b, rev |-> n]
    BY DEF Replaces
  <2> HIDE DEF n, s, b
  <2>3. s \in Workflows
    BY <1>1
  <2> QED BY <2>1, <2>2, <2>3 DEF SessionStates
<1>4. /\ new \in WorkflowStates /\ fresh \in TaskStates /\ fresh \in InvocationStates
      /\ new.status = "active"
      /\ gone \in WorkflowStates /\ gone.status = "cancelled"
      /\ gone.rev = workflow[w].rev + 1
      /\ t \in TaskStates /\ t.status \in TaskEnds
      /\ t = task[w] \/ t.rev = task[w].rev + 1
  BY <1>1, NewRow, EndFacts, CancelFacts DEF Terminal
<1> HIDE DEF w, s, new, fresh, gone, t
<1>5. /\ workflow' \in [Workflows -> WorkflowStates]
      /\ task' \in [Workflows -> TaskStates]
      /\ invocation' \in [Workflows -> InvocationStates]
  BY <1>1, <1>2, <1>4, StoreFacts
<1>6. /\ workflow'[w] = gone /\ workflow'[s] = new /\ task'[w] = t /\ task'[s] = fresh
      /\ \A x \in Workflows : x # w /\ x # s => workflow'[x] = workflow[x] /\ task'[x] = task[x]
  BY <1>1, <1>2, StoreFacts
<1>7. PointerIsTheActiveOne'
  BY <1>1, <1>3, <1>4, <1>6 DEF StoreInv, PointerIsTheActiveOne
<1>8. /\ Grows /\ EndedTasks'
      /\ \A x \in Workflows : Ended(x) => workflow'[x] = workflow[x] /\ task'[x] = task[x]
  BY <1>1, <1>4, <1>6 DEF Grows, StoreInv, EndedTasks, Ended, Terminal
<1>9. \A x \in Workflows : workflow[x].status = "absent" =>
        workflow'[x].status = "absent" \/ x = s
  BY <1>1, <1>6
<1>10. Answers(c)
  BY EffectAnswers DEF Replaces, Ledger
<1> QED BY <1>3, <1>5, <1>7, <1>8, <1>9, <1>10 DEF Moves, s

LEMMA TerminatesMoves ==
  ASSUME StoreInv, NEW c \in Clients, Terminates(c)
  PROVE  Moves(c)
<1> DEFINE w == client[c].of
           gone == Ends(w, client[c].to)
           t == cancelNonterminalWorkflowTasksTx(w)
<1>1. /\ w \in Workflows /\ workflow[w].status = "active" /\ session.active = w
      /\ client[c].to \in Terminal
  BY CommandFacts DEF Terminates, Endable, CommandIsComplete, OnWorkflow
<1>2. /\ workflow' = [workflow EXCEPT ![w] = gone]
      /\ task' = [task EXCEPT ![w] = t]
      /\ invocation' = invocation
  BY DEF Terminates
<1>3. session' \in SessionStates /\ session'.active = None
  <2> DEFINE n == session.rev + 1
  <2>1. n \in Nat
    BY StoreFacts
  <2>2. session' = [session EXCEPT !.active = None, !.rev = n]
    BY DEF Terminates
  <2> HIDE DEF n
  <2> QED BY <2>1, <2>2, StoreFacts DEF SessionStates
<1>4. /\ gone \in WorkflowStates /\ gone.status \in Terminal
      /\ gone.rev = workflow[w].rev + 1
      /\ t \in TaskStates /\ t.status \in TaskEnds
      /\ t = task[w] \/ t.rev = task[w].rev + 1
  BY <1>1, EndFacts, CancelFacts
<1> HIDE DEF w, gone, t
<1>5. /\ workflow' \in [Workflows -> WorkflowStates]
      /\ task' \in [Workflows -> TaskStates]
      /\ invocation' \in [Workflows -> InvocationStates]
  BY <1>1, <1>2, <1>4, StoreFacts
<1>6. /\ workflow'[w] = gone /\ task'[w] = t
      /\ \A x \in Workflows : x # w => workflow'[x] = workflow[x] /\ task'[x] = task[x]
  BY <1>1, <1>2, StoreFacts
<1>7. PointerIsTheActiveOne'
  BY <1>1, <1>3, <1>4, <1>6 DEF StoreInv, PointerIsTheActiveOne, Terminal
<1>8. /\ Grows /\ EndedTasks'
      /\ \A x \in Workflows : Ended(x) => workflow'[x] = workflow[x] /\ task'[x] = task[x]
  BY <1>1, <1>4, <1>6 DEF Grows, StoreInv, EndedTasks, Ended, Terminal
<1>9. \A x \in Workflows : workflow[x].status = "absent" => workflow'[x].status = "absent"
  BY <1>1, <1>6
<1>10. Answers(c)
  BY EffectAnswers DEF Terminates, Ledger
<1> QED BY <1>3, <1>5, <1>7, <1>8, <1>9, <1>10 DEF Moves

LEMMA ProjectsMoves ==
  ASSUME StoreInv, NEW c \in Clients, Projects(c)
  PROVE  Moves(c)
<1> DEFINE w == client[c].of
           n == workflow[w].rev + 1
           m == task[w].rev + 1
           y == [workflow[w] EXCEPT !.rev = n]
           t == [status |-> client[c].to, rev |-> m]
<1>1. /\ w \in Workflows /\ workflow[w].status # "absent" /\ ~Ended(w)
      /\ client[c].to = "running"
  <2>1. w \in Workflows /\ workflow[w].status # "absent" /\ client[c].to = "running"
    BY CommandFacts DEF Projects, CommandIsComplete, ReadBefore, OnWorkflow
  <2>2. Ended(w) => client[c].rev < workflow[w].rev
    BY CommandFacts DEF Projects, ReadBefore, OnWorkflow
  <2>3. workflow[w].rev \in Nat /\ client[c].rev = workflow[w].rev
    BY <2>1, StoreFacts DEF Projects
  <2> QED BY <2>1, <2>2, <2>3
<1>2. /\ workflow' = [workflow EXCEPT ![w] = y]
      /\ task' = [task EXCEPT ![w] = t]
      /\ session' = session /\ invocation' = invocation
  BY DEF Projects
<1>3. n \in Nat /\ m \in Nat
  BY <1>1, StoreFacts
<1>4. /\ y \in WorkflowStates /\ y.status = workflow[w].status /\ y.rev = n
      /\ t \in TaskStates /\ t.rev = m
  <2> HIDE DEF n, m
  <2> QED BY <1>1, <1>3, StoreFacts DEF WorkflowStates, TaskStates
<1> HIDE DEF y, t
<1>5. /\ workflow' \in [Workflows -> WorkflowStates]
      /\ task' \in [Workflows -> TaskStates]
      /\ invocation' \in [Workflows -> InvocationStates]
      /\ session' \in SessionStates
  BY <1>1, <1>2, <1>4, StoreFacts
<1>6. /\ workflow'[w] = y /\ task'[w] = t
      /\ \A x \in Workflows : x # w => workflow'[x] = workflow[x] /\ task'[x] = task[x]
  BY <1>1, <1>2, StoreFacts
<1>7. PointerIsTheActiveOne'
  BY <1>1, <1>2, <1>4, <1>6 DEF StoreInv, PointerIsTheActiveOne
<1>8. /\ Grows /\ EndedTasks'
      /\ \A x \in Workflows : Ended(x) => workflow'[x] = workflow[x] /\ task'[x] = task[x]
  BY <1>1, <1>4, <1>6 DEF Grows, StoreInv, EndedTasks, Ended
<1>9. \A x \in Workflows : workflow[x].status = "absent" => workflow'[x].status = "absent"
  BY <1>1, <1>6
<1>10. Answers(c)
  BY EffectAnswers DEF Projects, Ledger
<1> QED BY <1>5, <1>7, <1>8, <1>9, <1>10 DEF Moves

LEMMA SwapsMoves ==
  ASSUME StoreInv, NEW c \in Clients, SwapsTask(c) \/ SwapsInvocation(c) \/ Lifts(c)
  PROVE  Moves(c)
<1>0. Answers(c)
  BY DropsAnswers DEF SwapsTask, SwapsInvocation, Lifts
<1>1. CASE SwapsTask(c)
  <2> DEFINE w == client[c].of
             m == task[w].rev + 1
             t == [status |-> client[c].to, rev |-> m]
  <2>1. /\ w \in Workflows /\ workflow[w].status # "absent"
        /\ client[c].to = "failed" /\ task[w].status \notin TaskEnds
    <3>1. w \in Workflows /\ workflow[w].status # "absent" /\ client[c].to = "failed"
      BY <1>1, CommandFacts DEF SwapsTask, CommandIsComplete, ReadBefore, OnTask
    <3>2. task[w].status \in TaskEnds => client[c].taskRev < task[w].rev
      BY <1>1, CommandFacts DEF SwapsTask, ReadBefore, OnTask
    <3>3. task[w].rev \in Nat /\ client[c].taskRev = task[w].rev
      BY <1>1, <3>1, StoreFacts DEF SwapsTask
    <3> QED BY <3>1, <3>2, <3>3
  <2>2. /\ task' = [task EXCEPT ![w] = t]
        /\ UNCHANGED <<session, workflow, invocation>>
    BY <1>1 DEF SwapsTask
  <2>3. m \in Nat
    BY <2>1, StoreFacts
  <2>4. t \in TaskStates /\ t.rev = m /\ t.status \in TaskEnds
    <3> HIDE DEF m
    <3> QED BY <2>1, <2>3 DEF TaskStates, TaskEnds, Terminal
  <2> HIDE DEF t
  <2>5. /\ task' \in [Workflows -> TaskStates] /\ task'[w] = t
        /\ \A x \in Workflows : x # w => task'[x] = task[x]
    BY <2>1, <2>2, <2>4, StoreFacts
  <2>6. PointerIsTheActiveOne'
    BY <2>2 DEF StoreInv, PointerIsTheActiveOne
  <2>7. /\ Grows /\ EndedTasks'
        /\ \A x \in Workflows : Ended(x) => workflow'[x] = workflow[x] /\ task'[x] = task[x]
    BY <2>1, <2>2, <2>4, <2>5 DEF Grows, StoreInv, EndedTasks, Ended
  <2> QED BY <1>0, <2>2, <2>5, <2>6, <2>7, StoreFacts DEF Moves
<1>2. CASE SwapsInvocation(c)
  <2> DEFINE w == client[c].of
             m == invocation[w].rev + 1
             i == [status |-> client[c].to, rev |-> m]
  <2>1. w \in Workflows /\ client[c].to \in InvocationStatus
    BY <1>2, CommandFacts DEF SwapsInvocation, CommandIsComplete
  <2>2. /\ invocation' = [invocation EXCEPT ![w] = i]
        /\ UNCHANGED <<session, workflow, task>>
    BY <1>2 DEF SwapsInvocation
  <2>3. m \in Nat
    BY <2>1, StoreFacts
  <2>4. i \in InvocationStates
    <3> HIDE DEF m
    <3> QED BY <2>1, <2>3 DEF InvocationStates
  <2> HIDE DEF i
  <2>5. invocation' \in [Workflows -> InvocationStates]
    BY <2>2, <2>4, StoreFacts
  <2>6. PointerIsTheActiveOne' /\ Grows /\ EndedTasks'
    BY <2>2 DEF StoreInv, PointerIsTheActiveOne, Grows, EndedTasks, Ended
  <2> QED BY <1>0, <2>2, <2>5, <2>6, StoreFacts DEF Moves
<1>3. CASE Lifts(c)
  <2> DEFINE n == session.rev + 1
  <2>1. n \in Nat
    BY StoreFacts
  <2>2. /\ session' = [session EXCEPT !.barrier = None, !.rev = n]
        /\ UNCHANGED <<workflow, task, invocation>>
    BY <1>3 DEF Lifts
  <2> HIDE DEF n
  <2>3. session' \in SessionStates /\ session'.active = session.active
    BY <2>1, <2>2, StoreFacts DEF SessionStates
  <2>4. PointerIsTheActiveOne' /\ Grows /\ EndedTasks'
    BY <2>2, <2>3 DEF StoreInv, PointerIsTheActiveOne, Grows, EndedTasks, Ended
  <2> QED BY <1>0, <2>2, <2>3, <2>4, StoreFacts DEF Moves
<1> QED BY <1>1, <1>2, <1>3

-----------------------------------------------------------------------------
(* The theorems about the store.                                           *)

LEMMA InitStore == WorkflowInit => StoreInv
<1> SUFFICES ASSUME WorkflowInit PROVE StoreInv
  OBVIOUS
<1>1. WorkflowTypeOK
  <2>1. [active |-> None, barrier |-> None, rev |-> 0] \in SessionStates
    BY DEF SessionStates
  <2>2. /\ [status |-> "absent", rev |-> 0] \in WorkflowStates
        /\ [status |-> "absent", rev |-> 0] \in TaskStates
        /\ [status |-> "absent", rev |-> 0] \in InvocationStates
    BY DEF WorkflowStates, TaskStates, InvocationStates
  <2> QED BY <2>1, <2>2, FreeIsOK DEF WorkflowInit, WorkflowTypeOK
<1>2. PointerIsTheActiveOne /\ EndedTasks
  BY DEF WorkflowInit, PointerIsTheActiveOne, EndedTasks, Ended, Terminal
<1>3. \A c \in Clients : client[c] = Free
  BY DEF WorkflowInit
<1>4. (\A c \in Clients : ClientOK(c)) /\ IdsDiffer
  BY <1>3, FreeIsOK
     DEF ClientOK, ReadBefore, IdIsFree, IdsDiffer, OnWorkflow, OnTask, Ops
<1> QED BY <1>1, <1>2, <1>4 DEF StoreInv

\* What has ended is not written to any more.
EndStays ==
  \A w \in Workflows : Ended(w) => workflow'[w] = workflow[w] /\ task'[w] = task[w]

LEMMA MovesKeep ==
  ASSUME StoreInv, NEW c \in Clients, Moves(c)
  PROVE  StoreInv' /\ EndStays
<1>1. (\A d \in Clients : ClientOK(d)') /\ IdsDiffer'
  BY ClientsKept DEF Moves
<1>2. WorkflowTypeOK'
  BY DEF Moves, Answers, WorkflowTypeOK
<1> QED BY <1>1, <1>2 DEF Moves, StoreInv, EndStays

LEMMA NextStore ==
  ASSUME StoreInv, [WorkflowNext]_workflowVars
  PROVE  StoreInv' /\ EndStays
<1>1. CASE UNCHANGED <<storeVars, client>>
  <2> USE <1>1 DEF storeVars
  <2>1. WorkflowTypeOK' /\ PointerIsTheActiveOne' /\ EndedTasks' /\ IdsDiffer'
    BY DEF StoreInv, WorkflowTypeOK, PointerIsTheActiveOne, EndedTasks, Ended, IdsDiffer
  <2>2. ASSUME NEW c \in Clients PROVE ClientOK(c)'
    BY DEF StoreInv, ClientOK, ReadBefore, IdIsFree, CommandIsComplete, Ended
  <2> QED BY <2>1, <2>2 DEF StoreInv, EndStays
<1>2. ASSUME NEW c \in Clients, Plans(c) PROVE StoreInv' /\ EndStays
  <2>1. UNCHANGED <<workflow, task>>
    BY <1>2, PlansFit DEF Fits, storeVars
  <2> QED BY <1>2, <2>1, PlansKeep DEF EndStays
<1>3. ASSUME NEW c \in Clients, Sending(c) \/ GivesUp(c) PROVE StoreInv' /\ EndStays
  <2>1. CASE Drops(c) /\ UNCHANGED storeVars
    <3>1. Answers(c)
      BY <2>1, DropsAnswers
    <3>2. Moves(c)
      BY <2>1, <3>1, StoreFacts
         DEF storeVars, Moves, Grows, StoreInv, PointerIsTheActiveOne, EndedTasks, Ended
    <3> QED BY <3>2, MovesKeep
  <2>2. CASE Commands(c)
    BY <2>2, CreatesMoves, ReplacesMoves, TerminatesMoves, ProjectsMoves, SwapsMoves, MovesKeep
       DEF Commands
  <2> QED BY <1>3, <2>1, <2>2, SendingCases
<1> QED BY <1>1, <1>2, <1>3 DEF WorkflowNext, workflowVars, storeVars

LEMMA StoreInvariance == WorkflowSpec => []StoreInv
<1>1. WorkflowInit => StoreInv
  BY InitStore
<1>2. StoreInv /\ [WorkflowNext]_workflowVars => StoreInv'
  BY NextStore
<1> QED BY <1>1, <1>2, PTL DEF WorkflowSpec

\* Every row of the store and every command has its type: revisions only count
\* up, and a command is about a workflow that exists.
THEOREM WorkflowTypes == WorkflowSpec => []WorkflowTypeOK
<1>1. StoreInv => WorkflowTypeOK
  BY DEF StoreInv
<1> QED BY <1>1, StoreInvariance, PTL

\* The session points to a workflow if and only if it is the active one, for
\* any number of clients that create, replace and end workflows at once.
THEOREM PointerAgrees == WorkflowSpec => []PointerIsTheActiveOne
<1>1. StoreInv => PointerIsTheActiveOne
  BY DEF StoreInv
<1> QED BY <1>1, StoreInvariance, PTL

\* Nothing writes to a workflow that has ended, nor to its tasks: a late command
\* carries a revision that is too old.
THEOREM EndsAreFinal == WorkflowSpec => EndIsFinal
<1>1. StoreInv /\ [WorkflowNext]_workflowVars => [EndStays]_workflowVars
  BY NextStore
<1>2. WorkflowSpec => [][EndStays]_workflowVars
  BY <1>1, StoreInvariance, PTL DEF WorkflowSpec
<1> QED BY <1>2 DEF EndIsFinal, EndStays

\* A client whose command took effect is never told that it was refused,
\* however often it repeats it.
THEOREM EffectsAreAcknowledged == WorkflowSpec => []EffectIsAcknowledged
<1>1. StoreInv => EffectIsAcknowledged
  BY DEF StoreInv, ClientOK, CommandIsComplete, EffectIsAcknowledged
<1> QED BY <1>1, StoreInvariance, PTL

-----------------------------------------------------------------------------
(* The rows a workflow leaves behind.                                      *)

\* A claimed row exists.
ClaimedRowsExist ==
  \A v \in Workers : Busy(v) => row[at[v].row].status # "absent"

\* The final answer and the hand-off of a workflow come with its end.
RowsComeLate ==
  \A w \in Workflows : ~Ended(w) =>
    row[FinalOf[w]].status = "absent" /\ row[HandoffOf[w]].status = "absent"

QuietEnds ==
  \A w \in Workflows : Ended(w) => row[ContinuationOf[w]].status \notin Open

\* If the session is still as a client read it before it decided to lift the
\* barrier, the final answer the barrier stands for is published.
LiftsAreDue ==
  \A c \in Clients : client[c].op = "CompareAndSwapWorkflowState" =>
    /\ client[c].rev <= session.rev
    /\ client[c].rev = session.rev =>
         session.barrier # None /\ row[session.barrier].status = "published"

ScopeInv ==
  /\ StoreInv /\ BaseInv
  /\ ClaimedRowsExist /\ RowsComeLate /\ QuietEnds /\ OneOpenFinal /\ LiftsAreDue

\* The rows of the workflows are rows, and no two of them the same.
LEMMA OwnRows ==
  /\ \A w \in Workflows :
       /\ ContinuationOf[w] \in Continuations /\ ContinuationOf[w] \in Rows
       /\ FinalOf[w] \in RootFinals /\ FinalOf[w] \in Rows /\ FinalOf[w] # None
       /\ HandoffOf[w] \in Handoffs /\ HandoffOf[w] \in Rows
  /\ \A w, v \in Workflows :
       /\ ContinuationOf[w] # FinalOf[v] /\ ContinuationOf[w] # HandoffOf[v]
       /\ FinalOf[w] # HandoffOf[v]
  /\ \A w, v \in Workflows : w # v =>
       /\ ContinuationOf[w] # ContinuationOf[v]
       /\ FinalOf[w] # FinalOf[v] /\ HandoffOf[w] # HandoffOf[v]
  BY OutboxAssumption DEF Rows

\* What the workers do to the rows: none comes or goes, and only open ones
\* change their status.
WorkersKeep ==
  \A r \in Rows :
    /\ row[r].status \notin Open => row'[r].status = row[r].status
    /\ row[r].status # "absent" => row'[r].status # "absent"

LEMMA NextKeepsRows ==
  ASSUME BaseInv, OutboxNext
  PROVE  WorkersKeep
<1>1. CASE \E w \in Workers : Claims(w)
  <2>1. PICK w \in Workers : Claims(w)
    BY <1>1
  <2>2. PICK r, statuses, next, mode : LegalClaim(w, r, statuses, next, mode)
    BY <2>1 DEF Claims
  <2>3. /\ row[r].status \in Open /\ row'[r].status \in Open
        /\ \A q \in Rows : q # r => row'[q] = row[q]
    BY <2>2, ClaimDoes DEF BaseInv
  <2> QED BY <2>3, StatusFacts DEF WorkersKeep
<1>2. CASE \E w \in Workers : Applies(w)
  <2>1. PICK w \in Workers : Applies(w)
    BY <1>2
  <2>2. LET r == at[w].row
            s == at[w].next
        IN /\ <<row[r].status, s>> \in Allowed(r)
           /\ row[r].status \in Open /\ row'[r].status = s
           /\ \A q \in Rows : q # r => row'[q] = row[q]
    BY <2>1, AppliesDoes
  <2>3. at[w].next # "absent"
    BY <2>2 DEF Allowed, allowedContinuationTransition, allowedRootFinalTransition,
                allowedHandoffTransition
  <2> QED BY <2>2, <2>3 DEF WorkersKeep
<1>3. CASE \E w \in Workers : Learns(w)
  BY <1>3 DEF Learns, WorkersKeep
<1>4. CASE \E w \in Workers : Releases(w)
  BY <1>4, ReleasesDoes DEF WorkersKeep
<1>5. CASE \E r \in Rows : LeaseEnds(r) \/ DiscardContinuation(r)
  BY <1>5, OtherDoes DEF BaseInv, WorkersKeep
<1> QED BY <1>1, <1>2, <1>3, <1>4, <1>5, StepCases DEF BaseInv

\* A worker at work has claimed its row now or before.
LEMMA NextKeepsClaims ==
  ASSUME BaseInv, OutboxNext, ClaimedRowsExist
  PROVE  ClaimedRowsExist'
<1>0. WorkersKeep /\ \A v \in Workers : Busy(v) => at[v].row \in Rows
  BY NextKeepsRows DEF BaseInv, PlanInv
<1>1. ASSUME NEW v \in Workers, Busy(v), at'[v].row = at[v].row
      PROVE  row'[at'[v].row].status # "absent"
  BY <1>0, <1>1 DEF WorkersKeep, ClaimedRowsExist
<1>2. CASE \E w \in Workers : Claims(w)
  <2>1. PICK w \in Workers : Claims(w)
    BY <1>2
  <2>2. PICK r, statuses, next, mode : LegalClaim(w, r, statuses, next, mode)
    BY <2>1 DEF Claims
  <2>3. /\ row'[r].status \in Open /\ at'[w].row = r
        /\ \A v \in Workers : v # w => at'[v] = at[v]
    BY <2>2, ClaimDoes DEF BaseInv
  <2> QED BY <1>1, <2>3, StatusFacts DEF ClaimedRowsExist, Busy
<1>3. CASE \E w \in Workers : Applies(w)
  <2>1. PICK w \in Workers : Applies(w)
    BY <1>3
  <2>2. /\ at'[w] = Idle \/ at'[w].row = at[w].row
        /\ \A v \in Workers : v # w => at'[v] = at[v]
    BY <2>1, AppliesDoes
  <2>3. Busy(w)
    BY <2>1, AppliesDoes
  <2> QED BY <1>1, <2>2, <2>3, IdleIsKept DEF ClaimedRowsExist, Busy
<1>4. CASE \E w \in Workers : Learns(w)
  <2>1. PICK w \in Workers : Learns(w)
    BY <1>4
  <2>2. /\ \A v \in Workers : v # w => at'[v] = at[v]
        /\ \/ at'[w] = Idle
           \/ at'[w].row = at[w].row /\ (at'[w].pc = at[w].pc \/ at[w].pc = "claimed")
    BY <2>1, LearnsDoes
  <2> QED BY <1>1, <2>2, IdleIsKept DEF ClaimedRowsExist, Busy
<1>5. CASE \E w \in Workers : Releases(w)
  <2>1. PICK w \in Workers : Releases(w)
    BY <1>5
  <2>2. at'[w] = Idle /\ \A v \in Workers : v # w => at'[v] = at[v]
    BY <2>1, ReleasesDoes
  <2> QED BY <1>1, <2>2, IdleIsKept DEF ClaimedRowsExist, Busy
<1>6. CASE \E r \in Rows : LeaseEnds(r) \/ DiscardContinuation(r)
  <2>1. at' = at
    BY <1>6 DEF LeaseEnds, DiscardContinuation
  <2> QED BY <1>1, <2>1 DEF ClaimedRowsExist, Busy
<1> QED BY <1>2, <1>3, <1>4, <1>5, <1>6, StepCases DEF BaseInv

\* Workers and workflows do not disturb each other.
LEMMA WorkersScope ==
  ASSUME ScopeInv, OutboxNext, UNCHANGED <<storeVars, client>>
  PROVE  ScopeInv'
<1>1. StoreInv'
  BY NextStore DEF ScopeInv, WorkflowNext
<1>2. BaseInv' /\ ClaimedRowsExist' /\ WorkersKeep
  BY StepBase, NextKeepsClaims, NextKeepsRows DEF ScopeInv
<1>3. UNCHANGED <<session, workflow, client>>
  BY DEF storeVars
<1>4. RowsComeLate' /\ QuietEnds'
  BY <1>2, <1>3, OwnRows, StatusFacts
     DEF ScopeInv, RowsComeLate, QuietEnds, Ended, WorkersKeep
<1>5. OneOpenFinal' /\ LiftsAreDue'
  <2>1. "published" \notin Open /\ "absent" \notin Open
    BY DEF Open
  <2>2. session.barrier # None => session.barrier \in Rows
    BY StoreFacts DEF ScopeInv, Rows
  <2> QED BY <1>2, <1>3, <2>1, <2>2, OwnRows
       DEF ScopeInv, OneOpenFinal, LiftsAreDue, WorkersKeep
<1> QED BY <1>1, <1>2, <1>4, <1>5 DEF ScopeInv

-----------------------------------------------------------------------------
(* What commands do to the rows.                                           *)

\* Rows are discarded or appear; the workers notice later.
RowsShift ==
  /\ UNCHANGED <<at, prompts, returns>>
  /\ row' \in [Rows -> RowStates]
  /\ \A r \in Rows : row'[r].owner = None <=> row'[r].lease = "none"
  /\ \A r \in Rows : row'[r] = row[r] \/ Discards(r) \/ Appears(r)

\* Rows that are discarded lose their owner, and nobody has claimed a row that
\* appears.
LEMMA ShiftKeepsBase ==
  ASSUME BaseInv, ClaimedRowsExist, RowsShift
  PROVE  BaseInv' /\ ClaimedRowsExist'
<1>1. OutboxTypeOK' /\ at' = at
  BY DEF BaseInv, OutboxTypeOK, RowsShift
<1>2. \A v \in Workers : Busy(v) => at[v].row \in Rows /\ row[at[v].row].status # "absent"
  BY DEF BaseInv, PlanInv, ClaimedRowsExist
<1>3. ASSUME NEW q \in Rows PROVE RowOK(q)'
  BY DEF BaseInv, PlanInv, RowOK, RowsShift, Discards, Appears, Unclaimed
<1>4. PlanInv'
  BY <1>1, <1>2, <1>3 DEF BaseInv, PlanInv, PlanIsAllowed, Busy, Allowed
<1>5. ClaimedRowsExist'
  <2> SUFFICES ASSUME NEW v \in Workers, Busy(v)
               PROVE  row'[at[v].row].status # "absent"
    BY <1>1 DEF ClaimedRowsExist, Busy
  <2> QED BY <1>2 DEF RowsShift, Discards, Appears
<1> QED BY <1>1, <1>4, <1>5 DEF BaseInv

\* The effect of a command on what the invariant says of rows.
Shifts(c) ==
  /\ RowsShift
  /\ session' = session \/ session'.rev = session.rev + 1
  /\ RowsComeLate' /\ QuietEnds' /\ OneOpenFinal'
  /\ Answers(c)

LEMMA ShiftsKeep ==
  ASSUME ScopeInv, NEW c \in Clients, Shifts(c)
  PROVE  /\ BaseInv' /\ ClaimedRowsExist' /\ RowsComeLate' /\ QuietEnds'
         /\ OneOpenFinal' /\ LiftsAreDue'
<1>1. BaseInv' /\ ClaimedRowsExist'
  BY ShiftKeepsBase DEF ScopeInv, Shifts
<1>2. LiftsAreDue'
  <2> SUFFICES ASSUME NEW d \in Clients, client'[d].op = "CompareAndSwapWorkflowState"
               PROVE  /\ client'[d].rev <= session'.rev
                      /\ client'[d].rev = session'.rev =>
                           /\ session'.barrier # None
                           /\ row'[session'.barrier].status = "published"
    BY DEF LiftsAreDue
  <2>1. client'[d] = client[d]
    <3>1. "CompareAndSwapWorkflowState" \notin Ledger
      BY DEF Ledger
    <3>2. Free.op # "CompareAndSwapWorkflowState"
      BY FreeIsOK DEF Ops
    <3> QED BY <3>1, <3>2 DEF Shifts, Answers, SameCommand
  <2>2. client[d].rev \in Nat /\ session.rev \in Nat
    BY CommandFacts, StoreFacts DEF ScopeInv, ClientStates
  <2>3. /\ client[d].rev <= session.rev
        /\ client[d].rev = session.rev =>
             session.barrier # None /\ row[session.barrier].status = "published"
    BY <2>1 DEF ScopeInv, LiftsAreDue
  <2>4. CASE session' = session
    <3>1. session.barrier # None => session.barrier \in Rows
      BY StoreFacts DEF ScopeInv, Rows
    <3>2. "published" \notin Open
      BY DEF Open
    <3> QED BY <2>1, <2>3, <2>4, <3>1, <3>2 DEF Shifts, RowsShift, Discards, Appears
  <2>5. CASE session'.rev = session.rev + 1
    BY <2>1, <2>2, <2>3, <2>5
  <2> QED BY <2>4, <2>5 DEF Shifts
<1> QED BY <1>1, <1>2 DEF Shifts

\* The continuation of a workflow that ends.
LEMMA DiscardFacts ==
  ASSUME BaseInv, NEW w \in Workflows
  PROVE  LET r == ContinuationOf[w]
             x == discardWorkflowContinuationsTx(w)
         IN /\ x \in RowStates /\ (x.owner = None <=> x.lease = "none")
            /\ x.status \notin Open
            /\ \/ x = row[r]
               \/ /\ row[r].status \in Open /\ x.status = "discarded"
                  /\ x.owner = None /\ row[r].token <= x.token
<1> DEFINE r == ContinuationOf[w]
           n == row[r].token + 1
           gone == [row[r] EXCEPT !.status = "discarded", !.owner = None,
                                  !.lease = "none", !.token = n]
<1>1. row[r] \in RowStates /\ (row[r].owner = None <=> row[r].lease = "none")
  BY OwnRows DEF BaseInv, OutboxTypeOK
<1>2. n \in Nat /\ row[r].token <= n /\ "discarded" \in Statuses /\ "discarded" \notin Open
  BY <1>1 DEF RowStates, Statuses, Settled, Open
<1>3. /\ gone \in RowStates /\ gone.owner = None /\ gone.lease = "none"
      /\ gone.status = "discarded" /\ gone.token = n
  <2> HIDE DEF n
  <2> QED BY <1>1, <1>2 DEF RowStates
<1>4. discardWorkflowContinuationsTx(w) = IF row[r].status \notin Open THEN row[r] ELSE gone
  BY DEF discardWorkflowContinuationsTx
<1> HIDE DEF gone
<1> QED BY <1>1, <1>2, <1>3, <1>4

LEMMA PendingFacts ==
  /\ Unclaimed("pending") \in RowStates
  /\ Unclaimed("pending").owner = None /\ Unclaimed("pending").lease = "none"
  BY DEF Unclaimed, RowStates, Statuses, Open

\* A command that leaves the rows, and which workflows have ended, alone.
LEMMA RowsStay ==
  ASSUME ScopeInv, UNCHANGED outboxVars,
         \A w \in Workflows : workflow'[w].status \in Terminal <=> Ended(w)
  PROVE  RowsShift /\ RowsComeLate' /\ QuietEnds'
<1>1. RowsShift
  BY DEF ScopeInv, BaseInv, OutboxTypeOK, RowsShift, outboxVars
<1>2. RowsComeLate' /\ QuietEnds'
  BY DEF ScopeInv, RowsComeLate, QuietEnds, Ended, outboxVars
<1> QED BY <1>1, <1>2

LEMMA CreatesShifts ==
  ASSUME ScopeInv, NEW c \in Clients, Creates(c)
  PROVE  Shifts(c)
<1> DEFINE s == client[c].new
           n == session.rev + 1
<1>0. StoreInv
  BY DEF ScopeInv
<1>1. s \in Workflows /\ workflow[s].status = "absent"
  BY <1>0, CommandFacts DEF Creates, CommandIsComplete, IdIsFree
<1>2. /\ workflow' = [workflow EXCEPT ![s] = [status |-> "active", rev |-> 1]]
      /\ session' = [session EXCEPT !.active = s, !.rev = n]
      /\ UNCHANGED outboxVars
  BY DEF Creates, Envelope
<1>3. \A w \in Workflows : workflow'[w].status \in Terminal <=> Ended(w)
  BY <1>0, <1>1, <1>2, StoreFacts DEF Ended, Terminal
<1>4. session'.rev = session.rev + 1 /\ session'.barrier = session.barrier
  <2> HIDE DEF n, s
  <2>1. session'.rev = n /\ session'.barrier = session.barrier
    BY <1>0, <1>2, StoreFacts DEF SessionStates
  <2> QED BY <2>1 DEF n
<1>5. OneOpenFinal'
  BY <1>2, <1>4 DEF ScopeInv, OneOpenFinal, outboxVars
<1>6. Answers(c)
  BY <1>0, EffectAnswers DEF Creates, Ledger
<1> QED BY <1>2, <1>3, <1>4, <1>5, <1>6, RowsStay DEF Shifts

\* The open final answers are those of before, as the barrier was down; the
\* new one is the barrier's.
LEMMA ReplacesShifts ==
  ASSUME ScopeInv, NEW c \in Clients, Replaces(c)
  PROVE  Shifts(c)
<1> DEFINE w == client[c].of
           s == client[c].new
           k == ContinuationOf[w]
           f == FinalOf[w]
           h == HandoffOf[w]
           x == discardWorkflowContinuationsTx(w)
           p == Unclaimed("pending")
           n == session.rev + 1
           gone == Ends(w, "cancelled")
           new == [status |-> "active", rev |-> 1]
<1>0. StoreInv /\ BaseInv
  BY DEF ScopeInv
<1>1. /\ s \in Workflows /\ w \in Workflows /\ workflow[w].status = "active"
      /\ workflow[s].status = "absent" /\ session.barrier = None
  BY <1>0, CommandFacts
     DEF Replaces, Replaceable, Endable, CommandIsComplete, IdIsFree, OnWorkflow
<1>2. /\ workflow' = [workflow EXCEPT ![w] = gone, ![s] = new]
      /\ row' = [row EXCEPT ![k] = x, ![f] = p, ![h] = p]
      /\ session' = [active |-> s, barrier |-> f, rev |-> n]
      /\ UNCHANGED <<at, prompts, returns>>
  BY DEF Replaces
<1>3. /\ x \in RowStates /\ (x.owner = None <=> x.lease = "none") /\ x.status \notin Open
      /\ \/ x = row[k]
         \/ /\ row[k].status \in Open /\ x.status = "discarded"
            /\ x.owner = None /\ row[k].token <= x.token
      /\ p \in RowStates /\ p.owner = None /\ p.lease = "none" /\ p.status = "pending"
      /\ gone.status = "cancelled" /\ new.status = "active"
  BY <1>0, <1>1, DiscardFacts, PendingFacts, EndFacts DEF Terminal, Unclaimed
<1>4. session'.rev = session.rev + 1 /\ session'.barrier = f
  BY <1>2
<1>5. /\ k \in Rows /\ f \in Rows /\ h \in Rows /\ k # f /\ k # h /\ f # h
      /\ row[f].status = "absent" /\ row[h].status = "absent"
  BY <1>1, OwnRows DEF ScopeInv, RowsComeLate, Ended, Terminal
<1> HIDE DEF k, f, h, x, p, gone, new
<1>6. /\ row' \in [Rows -> RowStates] /\ row'[k] = x /\ row'[f] = p /\ row'[h] = p
      /\ \A r \in Rows : r \notin {k, f, h} => row'[r] = row[r]
  BY <1>0, <1>2, <1>3, <1>5 DEF BaseInv, OutboxTypeOK
<1>7. RowsShift
  <2>1. \A r \in Rows : row'[r].owner = None <=> row'[r].lease = "none"
    BY <1>0, <1>3, <1>6 DEF BaseInv, OutboxTypeOK
  <2>2. row'[k] = row[k] \/ Discards(k)
    BY <1>1, <1>3, <1>6, OwnRows DEF Discards, k
  <2>3. Appears(f) /\ Appears(h)
    BY <1>5, <1>6 DEF Appears, p
  <2> QED BY <1>2, <1>6, <2>1, <2>2, <2>3 DEF RowsShift
<1>8. \A v \in Workflows : workflow'[v].status \in Terminal <=> Ended(v) \/ v = w
  BY <1>0, <1>1, <1>2, <1>3, StoreFacts DEF Ended, Terminal
<1>9. \A v \in Workflows : v # w =>
        /\ row'[ContinuationOf[v]] = row[ContinuationOf[v]]
        /\ row'[FinalOf[v]] = row[FinalOf[v]] /\ row'[HandoffOf[v]] = row[HandoffOf[v]]
  BY <1>1, <1>6, OwnRows DEF k, f, h
<1>10. RowsComeLate' /\ QuietEnds'
  BY <1>3, <1>6, <1>8, <1>9 DEF ScopeInv, RowsComeLate, QuietEnds, Ended, k
<1>11. OneOpenFinal'
  BY <1>1, <1>4, <1>9, OwnRows DEF ScopeInv, OneOpenFinal, f
<1>12. Answers(c)
  BY <1>0, EffectAnswers DEF Replaces, Ledger
<1> QED BY <1>4, <1>7, <1>10, <1>11, <1>12 DEF Shifts

LEMMA TerminatesShifts ==
  ASSUME ScopeInv, NEW c \in Clients, Terminates(c)
  PROVE  Shifts(c)
<1> DEFINE w == client[c].of
           k == ContinuationOf[w]
           x == discardWorkflowContinuationsTx(w)
           n == session.rev + 1
           gone == Ends(w, client[c].to)
<1>0. StoreInv /\ BaseInv
  BY DEF ScopeInv
<1>1. w \in Workflows /\ workflow[w].status = "active" /\ client[c].to \in Terminal
  BY <1>0, CommandFacts DEF Terminates, Endable, CommandIsComplete, OnWorkflow
<1>2. /\ workflow' = [workflow EXCEPT ![w] = gone]
      /\ row' = [row EXCEPT ![k] = x]
      /\ session' = [session EXCEPT !.active = None, !.rev = n]
      /\ UNCHANGED <<at, prompts, returns>>
  BY DEF Terminates
<1>3. /\ x \in RowStates /\ (x.owner = None <=> x.lease = "none") /\ x.status \notin Open
      /\ \/ x = row[k]
         \/ /\ row[k].status \in Open /\ x.status = "discarded"
            /\ x.owner = None /\ row[k].token <= x.token
      /\ gone.status \in Terminal /\ k \in Rows
  BY <1>0, <1>1, DiscardFacts, EndFacts, OwnRows
<1>4. session'.rev = session.rev + 1 /\ session'.barrier = session.barrier
  <2> HIDE DEF n
  <2>1. session'.rev = n /\ session'.barrier = session.barrier
    BY <1>0, <1>2, StoreFacts DEF SessionStates
  <2> QED BY <2>1 DEF n
<1> HIDE DEF k, x, gone
<1>5. /\ row' \in [Rows -> RowStates] /\ row'[k] = x
      /\ \A r \in Rows : r # k => row'[r] = row[r]
  BY <1>0, <1>2, <1>3 DEF BaseInv, OutboxTypeOK
<1>6. RowsShift
  <2>1. \A r \in Rows : row'[r].owner = None <=> row'[r].lease = "none"
    BY <1>0, <1>3, <1>5 DEF BaseInv, OutboxTypeOK
  <2>2. row'[k] = row[k] \/ Discards(k)
    BY <1>1, <1>3, <1>5, OwnRows DEF Discards, k
  <2> QED BY <1>2, <1>5, <2>1, <2>2 DEF RowsShift
<1>7. \A v \in Workflows : workflow'[v].status \in Terminal <=> Ended(v) \/ v = w
  BY <1>0, <1>1, <1>2, <1>3, StoreFacts DEF Ended, Terminal
<1>8. \A v \in Workflows :
        /\ v # w => row'[ContinuationOf[v]] = row[ContinuationOf[v]]
        /\ row'[FinalOf[v]] = row[FinalOf[v]] /\ row'[HandoffOf[v]] = row[HandoffOf[v]]
  BY <1>1, <1>5, OwnRows DEF k
<1>9. RowsComeLate' /\ QuietEnds'
  BY <1>3, <1>5, <1>7, <1>8 DEF ScopeInv, RowsComeLate, QuietEnds, Ended, k
<1>10. OneOpenFinal'
  BY <1>4, <1>8 DEF ScopeInv, OneOpenFinal
<1>11. Answers(c)
  BY <1>0, EffectAnswers DEF Terminates, Ledger
<1> QED BY <1>4, <1>6, <1>9, <1>10, <1>11 DEF Shifts

\* The workflow has not ended, as the client read its row before an end.
LEMMA ProjectsShifts ==
  ASSUME ScopeInv, NEW c \in Clients, Projects(c)
  PROVE  Shifts(c)
<1> DEFINE w == client[c].of
           k == ContinuationOf[w]
           p == Unclaimed("pending")
           n == workflow[w].rev + 1
           y == [workflow[w] EXCEPT !.rev = n]
<1>0. StoreInv /\ BaseInv
  BY DEF ScopeInv
<1>1. w \in Workflows /\ ~Ended(w)
  <2>1. w \in Workflows /\ (Ended(w) => client[c].rev < workflow[w].rev)
    BY <1>0, CommandFacts DEF Projects, CommandIsComplete, ReadBefore, OnWorkflow
  <2>2. workflow[w].rev \in Nat /\ client[c].rev = workflow[w].rev
    BY <1>0, <2>1, StoreFacts DEF Projects
  <2> QED BY <2>1, <2>2
<1>2. /\ workflow' = [workflow EXCEPT ![w] = y]
      /\ row' = [row EXCEPT ![k] = p] /\ row[k].status = "absent"
      /\ UNCHANGED <<session, at, prompts, returns>>
  BY DEF Projects
<1>3. y.status = workflow[w].status
  <2> HIDE DEF n
  <2> QED BY <1>0, <1>1, StoreFacts DEF WorkflowStates
<1>4. p \in RowStates /\ p.owner = None /\ p.lease = "none" /\ k \in Rows
  BY <1>1, PendingFacts, OwnRows
<1> HIDE DEF k, p, y
<1>5. /\ row' \in [Rows -> RowStates] /\ row'[k] = p
      /\ \A r \in Rows : r # k => row'[r] = row[r]
  BY <1>0, <1>2, <1>4 DEF BaseInv, OutboxTypeOK
<1>6. RowsShift
  <2>1. \A r \in Rows : row'[r].owner = None <=> row'[r].lease = "none"
    BY <1>0, <1>4, <1>5 DEF BaseInv, OutboxTypeOK
  <2>2. Appears(k)
    BY <1>2, <1>5 DEF Appears, p
  <2> QED BY <1>2, <1>5, <2>1, <2>2 DEF RowsShift
<1>7. \A v \in Workflows : workflow'[v].status \in Terminal <=> Ended(v)
  BY <1>0, <1>1, <1>2, <1>3, StoreFacts DEF Ended
<1>8. \A v \in Workflows :
        /\ v # w => row'[ContinuationOf[v]] = row[ContinuationOf[v]]
        /\ row'[FinalOf[v]] = row[FinalOf[v]] /\ row'[HandoffOf[v]] = row[HandoffOf[v]]
  BY <1>1, <1>5, OwnRows DEF k
<1>9. RowsComeLate' /\ QuietEnds'
  BY <1>1, <1>7, <1>8 DEF ScopeInv, RowsComeLate, QuietEnds, Ended
<1>10. OneOpenFinal'
  BY <1>2, <1>8 DEF ScopeInv, OneOpenFinal
<1>11. Answers(c)
  BY <1>0, EffectAnswers DEF Projects, Ledger
<1> QED BY <1>2, <1>6, <1>9, <1>10, <1>11 DEF Shifts

\* The barrier is lifted when its final answer is published: then none is open.
LEMMA SwapsShift ==
  ASSUME ScopeInv, NEW c \in Clients, SwapsTask(c) \/ SwapsInvocation(c) \/ Lifts(c)
  PROVE  Shifts(c)
<1>0. StoreInv /\ Answers(c) /\ UNCHANGED <<outboxVars, workflow>>
  BY DropsAnswers DEF ScopeInv, SwapsTask, SwapsInvocation, Lifts
<1>1. RowsShift /\ RowsComeLate' /\ QuietEnds'
  BY <1>0, RowsStay DEF Ended
<1>2. CASE SwapsTask(c) \/ SwapsInvocation(c)
  BY <1>0, <1>1, <1>2
     DEF SwapsTask, SwapsInvocation, ScopeInv, OneOpenFinal, Shifts, outboxVars
<1>3. CASE Lifts(c)
  <2> DEFINE n == session.rev + 1
  <2>1. session' = [session EXCEPT !.barrier = None, !.rev = n]
    BY <1>3 DEF Lifts
  <2>2. session'.rev = session.rev + 1
    <3> HIDE DEF n
    <3>1. session'.rev = n
      BY <1>0, <2>1, StoreFacts DEF SessionStates
    <3> QED BY <3>1 DEF n
  <2>3. row[session.barrier].status = "published"
    BY <1>3 DEF Lifts, ScopeInv, LiftsAreDue
  <2>4. OneOpenFinal'
    BY <1>0, <2>3 DEF ScopeInv, OneOpenFinal, outboxVars
  <2> QED BY <1>0, <1>1, <2>2, <2>4 DEF Shifts
<1> QED BY <1>2, <1>3

-----------------------------------------------------------------------------
(* The theorems about what workflows leave behind.                         *)

LEMMA InitScope == WorkflowInit => ScopeInv
<1> SUFFICES ASSUME WorkflowInit PROVE ScopeInv
  OBVIOUS
<1>1. StoreInv /\ BaseInv
  BY InitStore, InitBase DEF WorkflowInit
<1>2. PICK S \in Created :
        row = [r \in Rows |-> Unclaimed(IF r \in S THEN "pending" ELSE "absent")]
  BY DEF WorkflowInit, OutboxInit
<1>3. \A w \in Workflows :
        row[FinalOf[w]].status = "absent" /\ row[HandoffOf[w]].status = "absent"
  BY <1>2, OwnRows DEF Unclaimed
<1>4. ClaimedRowsExist
  BY DEF WorkflowInit, OutboxInit, ClaimedRowsExist, Busy, Idle
<1>5. RowsComeLate /\ QuietEnds /\ OneOpenFinal
  BY <1>3 DEF WorkflowInit, RowsComeLate, QuietEnds, OneOpenFinal, Ended, Terminal
<1>6. LiftsAreDue
  BY FreeIsOK DEF WorkflowInit, LiftsAreDue, Ops
<1> QED BY <1>1, <1>4, <1>5, <1>6 DEF ScopeInv

LEMMA PlansScope ==
  ASSUME ScopeInv, NEW c \in Clients, Plans(c)
  PROVE  ScopeInv'
<1>0. StoreInv /\ StoreInv'
  BY PlansKeep DEF ScopeInv
<1>1. PICK k \in ClientStates : Fits(c, k)
  BY <1>0, PlansFit
<1>2. /\ UNCHANGED <<session, workflow, outboxVars>>
      /\ client' = [client EXCEPT ![c] = k]
  BY <1>1 DEF Fits, storeVars
<1>3. BaseInv'
  BY <1>2, StepBase DEF ScopeInv
<1>4. ClaimedRowsExist' /\ RowsComeLate' /\ QuietEnds' /\ OneOpenFinal'
  BY <1>2 DEF ScopeInv, ClaimedRowsExist, RowsComeLate, QuietEnds, OneOpenFinal, Ended,
              Busy, outboxVars
<1>5. LiftsAreDue'
  <2>1. client'[c] = k /\ \A d \in Clients : d # c => client'[d] = client[d]
    BY <1>0, <1>2 DEF StoreInv, WorkflowTypeOK
  <2>2. session.rev \in Nat
    BY <1>0, StoreFacts
  <2> QED BY <1>1, <1>2, <2>1, <2>2 DEF ScopeInv, LiftsAreDue, Fits, outboxVars
<1> QED BY <1>0, <1>3, <1>4, <1>5 DEF ScopeInv

LEMMA SendsScope ==
  ASSUME ScopeInv, NEW c \in Clients, Sending(c) \/ GivesUp(c)
  PROVE  ScopeInv'
<1>0. StoreInv /\ StoreInv'
  BY NextStore DEF ScopeInv, WorkflowNext
<1>1. CASE Commands(c)
  BY <1>0, <1>1, CreatesShifts, ReplacesShifts, TerminatesShifts, ProjectsShifts,
     SwapsShift, ShiftsKeep DEF Commands, ScopeInv
<1>2. CASE Drops(c) /\ UNCHANGED <<outboxVars, storeVars>>
  <2>1. RowsShift /\ RowsComeLate' /\ QuietEnds'
    BY <1>2, RowsStay DEF storeVars, Ended
  <2>2. OneOpenFinal' /\ session' = session
    BY <1>2 DEF ScopeInv, OneOpenFinal, storeVars, outboxVars
  <2>3. Answers(c)
    BY <1>0, <1>2, DropsAnswers
  <2> QED BY <1>0, <2>1, <2>2, <2>3, ShiftsKeep DEF Shifts, ScopeInv
<1> QED BY <1>0, <1>1, <1>2, SendingCases

LEMMA StutterScope ==
  ASSUME ScopeInv, UNCHANGED workflowVars
  PROVE  ScopeInv'
<1>1. StoreInv' /\ BaseInv'
  BY NextStore, StepBase DEF ScopeInv, workflowVars
<1>2. /\ ClaimedRowsExist' /\ RowsComeLate' /\ QuietEnds' /\ OneOpenFinal'
      /\ LiftsAreDue'
  BY DEF ScopeInv, ClaimedRowsExist, RowsComeLate, QuietEnds, OneOpenFinal, LiftsAreDue,
         Ended, Busy, workflowVars, outboxVars, storeVars
<1> QED BY <1>1, <1>2 DEF ScopeInv

\* The inductive invariant of workflows, clients and workers together.
THEOREM ScopeInvariant == WorkflowSpec => []ScopeInv
<1>1. ScopeInv /\ [WorkflowNext]_workflowVars => ScopeInv'
  BY WorkersScope, PlansScope, SendsScope, StutterScope DEF WorkflowNext
<1> QED BY InitScope, <1>1, PTL DEF WorkflowSpec

\* A workflow that ended has no task at work and no continuation that a worker
\* could still deliver, whoever had claimed it.
THEOREM EndsAreQuiet == WorkflowSpec => []EndedScopeIsQuiet
<1>1. ScopeInv => EndedScopeIsQuiet
  BY DEF ScopeInv, StoreInv, EndedTasks, QuietEnds, EndedScopeIsQuiet
<1> QED BY <1>1, ScopeInvariant, PTL

\* At most one final answer is neither absent nor published, and it is the one
\* that the session's barrier waits for.
THEOREM BarrierHolds == WorkflowSpec => []OneOpenFinal
<1>1. ScopeInv => OneOpenFinal
  BY DEF ScopeInv
<1> QED BY <1>1, ScopeInvariant, PTL

-----------------------------------------------------------------------------
(* The promises of the rows outlive the commands of the clients.           *)

\* Clients discard continuations and make rows appear, and nothing else.
LEMMA ClientsShift ==
  ASSUME ScopeInv, NEW c \in Clients, Plans(c) \/ Sending(c) \/ GivesUp(c)
  PROVE  RowsShift
<1>0. StoreInv
  BY DEF ScopeInv
<1>1. UNCHANGED outboxVars => RowsShift
  BY DEF ScopeInv, BaseInv, OutboxTypeOK, RowsShift, outboxVars
<1>2. CASE Plans(c)
  BY <1>0, <1>1, <1>2, PlansFit DEF Fits
<1>3. CASE Commands(c)
  BY <1>0, <1>3, CreatesShifts, ReplacesShifts, TerminatesShifts, ProjectsShifts,
     SwapsShift DEF Commands, Shifts
<1> QED BY <1>0, <1>1, <1>2, <1>3, SendingCases

\* A step of the composition is a step of the workers, or shifts rows.
LEMMA RowsStep ==
  ASSUME ScopeInv, [WorkflowNext]_workflowVars
  PROVE  [OutboxNext]_outboxVars \/ RowsShift
  BY ClientsShift DEF WorkflowNext, workflowVars, outboxVars

\* Claims of a row that is discarded are useless, and nobody has claimed a row
\* that appears.
LEMMA ShiftKeepsFence ==
  ASSUME OutboxInv, ClaimedRowsExist, RowsShift
  PROVE  OutboxInv'
<1>1. BaseInv /\ BaseInv' /\ at' = at
  BY ShiftKeepsBase DEF OutboxInv, RowsShift
<1>2. \A v \in Workers : Busy(v) => at[v].row \in Rows /\ row[at[v].row].status # "absent"
  BY <1>1 DEF BaseInv, PlanInv, ClaimedRowsExist
<1>3. ASSUME NEW v \in Workers PROVE ClaimIsKept(v)'
  <2> DEFINE r == at[v].row
  <2>0. ClaimIsKept(v) /\ at[v].claim \in Nat
    BY <1>1 DEF OutboxInv, BaseInv, FenceInv, OutboxTypeOK, WorkerStates
  <2>1. CASE Busy(v) => row'[r] = row[r]
    BY <1>1, <2>1, OthersKeep
  <2>2. CASE Busy(v) /\ row'[r] # row[r]
    <3>1. r \in Rows /\ Discards(r)
      BY <1>2, <2>2 DEF RowsShift, Appears
    <3>2. row[r].token \in Nat /\ row'[r].token \in Nat /\ row'[r].status \in Settled
      BY <1>1, <3>1 DEF BaseInv, OutboxTypeOK, RowStates, Discards, Settled
    <3>3. at[v].claim <= row'[r].token
      BY <2>0, <2>2, <3>1, <3>2 DEF ClaimIsKept, Discards
    <3> QED BY <1>1, <2>0, <2>2, <3>1, <3>2, <3>3 DEF ClaimIsKept, Busy
  <2> QED BY <2>1, <2>2
<1>4. ClaimsDiffer'
  BY DEF OutboxInv, FenceInv, ClaimsDiffer, Busy, RowsShift
<1> QED BY <1>1, <1>3, <1>4 DEF OutboxInv, FenceInv

\* Rows that commands discard or create under their workers' hands keep one
\* writer at most.
THEOREM WorkersStayFenced ==
  ASSUME PromptReads
  PROVE  WorkflowSpec => []OneWriter
<1>1. WorkflowInit => OutboxInv
  BY InitFence DEF WorkflowInit
<1>2. ScopeInv /\ OutboxInv /\ [WorkflowNext]_workflowVars => OutboxInv'
  BY RowsStep, NextFence, StutterFence, ShiftKeepsFence DEF ScopeInv
<1>3. OutboxInv => OneWriter
  BY FenceSeparates
<1> QED BY <1>1, <1>2, <1>3, ScopeInvariant, PTL DEF WorkflowSpec

\* The composition implements FencedDelivery as the workers alone do: to the
\* workers and their rows a transaction of a client, however many rows it
\* discards and creates at once, is an order that FencedDelivery allows
\* (ImplementsFencedDelivery).
THEOREM WorkflowsFence ==
  ASSUME PromptReads
  PROVE  WorkflowSpec => ImplementsFencedDelivery
<1>1. WorkflowInit => OutboxInv /\ Fenced!Init
  BY InitFence, InitRefines DEF WorkflowInit
<1>2. ScopeInv /\ OutboxInv /\ [WorkflowNext]_workflowVars => OutboxInv'
  BY RowsStep, NextFence, StutterFence, ShiftKeepsFence DEF ScopeInv
<1>3. ASSUME ScopeInv, OutboxInv, [WorkflowNext]_workflowVars
      PROVE  [Fenced!Next]_(Fenced!vars)
  <2>1. CASE RowsShift
    <3>1. OutboxTypeOK'
      BY <1>3, <2>1, ShiftKeepsBase DEF ScopeInv, BaseInv
    <3>2. Fenced!Order
      BY <2>1, <3>1, OrderRefines DEF RowsShift
    <3> QED BY <3>2 DEF Fenced!Next
  <2> QED BY <1>3, <2>1, RowsStep, StepRefines
<1> QED BY <1>1, <1>2, <1>3, ScopeInvariant, PTL
     DEF WorkflowSpec, ImplementsFencedDelivery, Fenced!Spec

\* A hand-off that appears has not sent its prompt, and none is discarded: the
\* prompts stay reconciled while clients replace workflows.
THEOREM WorkflowPrompts == WorkflowSpec => []PromptsAreReconciled
<1>1. WorkflowInit => PromptInv
  BY InitPrompt DEF WorkflowInit
<1>2. ASSUME ScopeInv, PromptInv, RowsShift PROVE PromptInv'
  <2>1. /\ BaseInv /\ BaseInv' /\ OutboxTypeOK /\ OutboxTypeOK'
        /\ UNCHANGED <<at, prompts, returns>>
    BY <1>2, ShiftKeepsBase DEF ScopeInv, BaseInv, RowsShift
  <2>2. \A q \in Handoffs : q \in Rows /\ q \notin Continuations
    BY OutboxAssumption DEF Rows
  <2>3. \A q \in Handoffs : Used(q)' = Used(q)
    BY <1>2, <2>2 DEF Used, RowsShift, Discards, Appears, Unclaimed
  <2>4. ASSUME NEW q \in Handoffs PROVE Budget(q)'
    <3>1. \A v \in Workers : MaySend(v, q)' => MaySend(v, q)
      BY <2>1 DEF MaySend, ClaimedBy
    <3> QED BY <1>2, <2>1, <2>3, <3>1, BudgetKept DEF PromptInv, OutboxTypeOK, Used
  <2> QED BY <1>2, <2>1, <2>4 DEF PromptInv, FreshClaim
<1>3. ScopeInv /\ PromptInv /\ [WorkflowNext]_workflowVars => PromptInv'
  BY <1>2, RowsStep, StepPrompt
<1> QED BY <1>1, <1>3, PromptsOfInv, ScopeInvariant, PTL DEF WorkflowSpec

\* Nor does a command give up a prompt that may be under way.
THEOREM WorkflowUncertainty == WorkflowSpec => UncertaintyIsKept
<1> DEFINE Kept == \A r \in Handoffs :
       /\ row[r].status \in {"sending", "unknown"}
       /\ row'[r].status \notin {"sending", "unknown", "started"}
       => row[r].mode = "reconcile_only"
<1>1. ASSUME RowsShift PROVE Kept
  <2>1. \A q \in Handoffs : q \in Rows /\ q \notin Continuations
    BY OutboxAssumption DEF Rows
  <2> QED BY <1>1, <2>1 DEF RowsShift, Discards, Appears
<1>2. ScopeInv /\ [WorkflowNext]_workflowVars => [Kept]_outboxVars
  BY <1>1, RowsStep, UncertainStep DEF ScopeInv
<1> QED BY <1>2, ScopeInvariant, PTL DEF WorkflowSpec, UncertaintyIsKept

=============================================================================
