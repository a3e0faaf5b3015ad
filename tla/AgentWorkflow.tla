---------------------------- MODULE AgentWorkflow ----------------------------
(***************************************************************************)
(* Workflows of one chat session: how they are created, updated, replaced  *)
(* and ended (repository/agent_workflow_uow.go, agent_execution_repo.go,   *)
(* agent_session_repo.go), together with the workers of AgentOutbox that   *)
(* deliver what workflows leave behind.                                    *)
(*                                                                         *)
(* Each operation is one database transaction, hence one action.  Clients  *)
(* read the rows, decide, and send a command with the revisions they read; *)
(* an answer may get lost, and the client then repeats the command or      *)
(* gives up.  No service of the repository calls these operations yet: a   *)
(* client here is any caller that keeps to what it read, and whoever adds  *)
(* work to a workflow writes the workflow in the same transaction.         *)
(***************************************************************************)
EXTENDS AgentOutbox

CONSTANTS
  Workflows,       \* workflow ids; a client computes them in advance
  Clients,         \* callers
  ContinuationOf,  \* the continuation a workflow may get
  FinalOf,         \* the final delivery of a workflow that is replaced
  HandoffOf,       \* its hand-off to the successor
  Endings,         \* bound: how clients end workflows
  MaxRev           \* bound: revisions a client goes on from

\* The operations.
Ops == {"CreateWorkflowEnvelope", "ReplaceWorkflow", "TerminateWorkflow",
        "ApplyProjectionWriteSet", "CompareAndSwapTask",
        "CompareAndSwapInvocation", "CompareAndSwapWorkflowState"}

\* The rows of a workflow come into being with what it does.
ASSUME WorkflowAssumption ==
  /\ None \notin Workflows /\ None \notin Ops
  /\ ContinuationOf \in [Workflows -> Continuations]
  /\ FinalOf \in [Workflows -> RootFinals]
  /\ HandoffOf \in [Workflows -> Handoffs]
  /\ \A w, v \in Workflows : w # v =>
       /\ ContinuationOf[w] # ContinuationOf[v]
       /\ FinalOf[w] # FinalOf[v] /\ HandoffOf[w] # HandoffOf[v]
  /\ \A w \in Workflows, S \in Created :
       ContinuationOf[w] \notin S /\ FinalOf[w] \notin S /\ HandoffOf[w] \notin S
  /\ MaxRev \in Nat /\ Endings \subseteq {"completed", "failed", "cancelled"}

VARIABLES
  session,     \* the row of the session
  workflow,    \* the rows of agent_workflows
  task,        \* the root task of each workflow
  invocation,  \* its root invocation
  client       \* the command each client is about

storeVars    == <<session, workflow, task, invocation>>
workflowVars == <<outboxVars, storeVars, client>>

-----------------------------------------------------------------------------
Terminal    == {"completed", "failed", "cancelled"}
Ended(w)    == workflow[w].status \in Terminal
TaskEnds    == Terminal

InvocationStatus == {"pending", "running", "completed", "failed", "cancelled", "interrupted"}

\* What an invocation may have been before it gets a status.
allowedPreviousInvocationStatuses(next) ==
  CASE next = "pending" -> {"pending"}
    [] next = "running" -> {"pending", "running"}
    [] OTHER            -> {"pending", "running", next}

SessionStates    == [active : Workflows \cup {None}, barrier : RootFinals \cup {None}, rev : Nat]
WorkflowStates   == [status : {"absent", "active"} \cup Terminal, rev : Nat]
TaskStates       == [status : {"absent", "pending", "running"} \cup TaskEnds, rev : Nat]
InvocationStates == [status : {"absent"} \cup InvocationStatus, rev : Nat]

\* rev and taskRev are revisions the client has read; recorded says that its
\* command took effect, refused that it was told afterwards it had not.
ClientStates ==
  [ op : Ops \cup {None}, of : Workflows \cup {None}, new : Workflows \cup {None},
    to : Terminal \cup InvocationStatus \cup {None}, rev : Nat, taskRev : Nat,
    recorded : BOOLEAN, refused : BOOLEAN ]
Free == [ op |-> None, of |-> None, new |-> None, to |-> None, rev |-> 0, taskRev |-> 0,
          recorded |-> FALSE, refused |-> FALSE ]

WorkflowInit ==
  /\ OutboxInit
  /\ session    = [active |-> None, barrier |-> None, rev |-> 0]
  /\ workflow   = [w \in Workflows |-> [status |-> "absent", rev |-> 0]]
  /\ task       = [w \in Workflows |-> [status |-> "absent", rev |-> 0]]
  /\ invocation = [w \in Workflows |-> [status |-> "absent", rev |-> 0]]
  /\ client     = [c \in Clients |-> Free]

-----------------------------------------------------------------------------
(* Clients make up their mind.                                             *)

Plan(c, intent) ==
  /\ client[c].op = None
  /\ client' = [client EXCEPT ![c] = intent]
  /\ UNCHANGED <<outboxVars, storeVars>>

\* An id that nobody uses.
Unused(w) ==
  workflow[w].status = "absent" /\ \A c \in Clients : client[c].new # w

PlansEnvelope(c) ==
  \E w \in Workflows :
    /\ session.active = None /\ Unused(w)
    /\ Plan(c, [Free EXCEPT !.op = "CreateWorkflowEnvelope", !.new = w])

\* What follows concerns the active workflow.
Active(w) == session.active = w /\ w # None /\ workflow[w].rev < MaxRev

PlansReplacement(c) ==
  \E w, s \in Workflows :
    /\ Active(w) /\ Unused(s)
    /\ Plan(c, [Free EXCEPT !.op = "ReplaceWorkflow", !.of = w, !.new = s,
                            !.rev = workflow[w].rev])

PlansEnd(c) ==
  \E w \in Workflows, status \in Endings :
    /\ Active(w)
    /\ Plan(c, [Free EXCEPT !.op = "TerminateWorkflow", !.of = w, !.to = status,
                            !.rev = workflow[w].rev])

\* News of the root task is to be told to the agent.
PlansProjection(c) ==
  \E w \in Workflows :
    /\ Active(w) /\ task[w].status \notin TaskEnds
    /\ Plan(c, [Free EXCEPT !.op = "ApplyProjectionWriteSet", !.of = w, !.to = "running",
                            !.rev = workflow[w].rev, !.taskRev = task[w].rev])

PlansTask(c) ==
  \E w \in Workflows :
    /\ Active(w) /\ task[w].status \notin TaskEnds
    /\ Plan(c, [Free EXCEPT !.op = "CompareAndSwapTask", !.of = w, !.to = "failed",
                            !.taskRev = task[w].rev])

PlansInvocation(c) ==
  \E w \in Workflows, status \in {"running", "completed"} :
    /\ invocation[w].status # "absent" /\ invocation[w].rev < MaxRev
    /\ Plan(c, [Free EXCEPT !.op = "CompareAndSwapInvocation", !.of = w, !.to = status,
                            !.rev = invocation[w].rev])

\* The final answer of the predecessor is published: the barrier may go.
PlansToLift(c) ==
  /\ session.barrier # None /\ row[session.barrier].status = "published"
  /\ Plan(c, [Free EXCEPT !.op = "CompareAndSwapWorkflowState", !.of = session.active,
                          !.rev = session.rev])

Plans(c) ==
  \/ PlansEnvelope(c) \/ PlansReplacement(c) \/ PlansEnd(c) \/ PlansProjection(c)
  \/ PlansTask(c) \/ PlansInvocation(c) \/ PlansToLift(c)

-----------------------------------------------------------------------------
(* Transactions.                                                           *)

\* The command took effect; its answer arrives or gets lost.
TookEffect(c) ==
  \/ client' = [client EXCEPT ![c] = Free]
  \/ client' = [client EXCEPT ![c].recorded = TRUE]

\* ErrAgentStaleRevision, or FALSE from a compare-and-swap: the client starts
\* anew, and has been told wrong if its command had taken effect.
IsRefused(c) ==
  /\ client' = [client EXCEPT ![c] =
       IF @.recorded THEN [@ EXCEPT !.refused = TRUE] ELSE Free]
  /\ UNCHANGED <<outboxVars, storeVars>>

\* A repeated command is answered from what was stored with its effect.
IsReplayed(c) ==
  client' = [client EXCEPT ![c] = Free] /\ UNCHANGED <<outboxVars, storeVars>>

Sends(c, op) == client[c].op = op /\ ~client[c].refused

\* Mutant: the ledger is not consulted.
Known_Never(c) == FALSE

\* What the command did is on record.
Known(c) == client[c].recorded

\* Mutants: an envelope does not look at the active workflow, a replacement not
\* at the barrier.
MustAttach_Never == FALSE
Replaceable_NoBarrier(w, rev) ==
  workflow[w].status = "active" /\ workflow[w].rev = rev /\ session.active = w

MustAttach == session.active # None
Endable(w, rev) ==
  workflow[w].status = "active" /\ workflow[w].rev = rev /\ session.active = w
Replaceable(w, rev) == Endable(w, rev) /\ session.barrier = None

\* A workflow with its root task and root invocation.
Envelope(w) ==
  /\ workflow'   = [workflow   EXCEPT ![w] = [status |-> "active",  rev |-> 1]]
  /\ task'       = [task       EXCEPT ![w] = [status |-> "pending", rev |-> 1]]
  /\ invocation' = [invocation EXCEPT ![w] = [status |-> "pending", rev |-> 1]]

\* With an active workflow, that one is the answer.
CreateWorkflowEnvelope(c) ==
  /\ Sends(c, "CreateWorkflowEnvelope")
  /\ IF Known(c) \/ MustAttach THEN IsReplayed(c)
     ELSE IF session.barrier # None THEN IsRefused(c)
     ELSE /\ Envelope(client[c].new)
          /\ session' = [session EXCEPT !.active = client[c].new, !.rev = @ + 1]
          /\ TookEffect(c)
          /\ UNCHANGED outboxVars

\* Mutant: a cancelled task keeps its revision.
cancelNonterminalWorkflowTasksTx_SameRevision(w) ==
  IF task[w].status \in TaskEnds THEN task[w] ELSE [task[w] EXCEPT !.status = "cancelled"]

cancelNonterminalWorkflowTasksTx(w) ==
  IF task[w].status \in TaskEnds THEN task[w]
  ELSE [status |-> "cancelled", rev |-> task[w].rev + 1]

\* Mutant: only what nobody has claimed is discarded.
discardWorkflowContinuationsTx_Unclaimed(w) ==
  LET r == ContinuationOf[w] IN
    IF row[r].status # "pending" THEN row[r] ELSE [row[r] EXCEPT !.status = "discarded"]

discardWorkflowContinuationsTx(w) ==
  LET r == ContinuationOf[w] IN
    IF row[r].status \notin Open THEN row[r]
    ELSE [row[r] EXCEPT !.status = "discarded", !.owner = None, !.lease = "none",
                        !.token = @ + 1]

Ends(w, status) == [status |-> status, rev |-> workflow[w].rev + 1]

ReplaceWorkflow(c) ==
  LET w == client[c].of
      s == client[c].new IN
  /\ Sends(c, "ReplaceWorkflow")
  /\ IF Known(c) THEN IsReplayed(c)
     ELSE IF ~Replaceable(w, client[c].rev) THEN IsRefused(c)
     ELSE /\ workflow' = [workflow EXCEPT ![w] = Ends(w, "cancelled"),
                                          ![s] = [status |-> "active", rev |-> 1]]
          /\ task' = [task EXCEPT ![w] = cancelNonterminalWorkflowTasksTx(w),
                                  ![s] = [status |-> "pending", rev |-> 1]]
          /\ invocation' = [invocation EXCEPT ![s] = [status |-> "pending", rev |-> 1]]
          /\ row' = [row EXCEPT ![ContinuationOf[w]] = discardWorkflowContinuationsTx(w),
                                ![FinalOf[w]]   = Unclaimed("pending"),
                                ![HandoffOf[w]] = Unclaimed("pending")]
          /\ session' = [active |-> s, barrier |-> FinalOf[w], rev |-> session.rev + 1]
          /\ TookEffect(c)
          /\ UNCHANGED <<at, prompts, returns>>

TerminateWorkflow(c) ==
  LET w == client[c].of IN
  /\ Sends(c, "TerminateWorkflow")
  /\ IF Known(c) THEN IsReplayed(c)
     ELSE IF ~Endable(w, client[c].rev) THEN IsRefused(c)
     ELSE /\ workflow' = [workflow EXCEPT ![w] = Ends(w, client[c].to)]
          /\ task' = [task EXCEPT ![w] = cancelNonterminalWorkflowTasksTx(w)]
          /\ row' = [row EXCEPT ![ContinuationOf[w]] = discardWorkflowContinuationsTx(w)]
          /\ session' = [session EXCEPT !.active = None, !.rev = @ + 1]
          /\ TookEffect(c)
          /\ UNCHANGED <<at, prompts, returns, invocation>>

\* The continuation is the event of the write set; the set is written whole or
\* not at all, and once per event.
ApplyProjectionWriteSet(c) ==
  LET w == client[c].of
      r == ContinuationOf[w] IN
  /\ Sends(c, "ApplyProjectionWriteSet")
  /\ IF Known(c) \/ row[r].status # "absent" THEN IsReplayed(c)
     ELSE IF workflow[w].rev # client[c].rev \/ task[w].rev # client[c].taskRev
     THEN IsRefused(c)
     ELSE /\ workflow' = [workflow EXCEPT ![w].rev = @ + 1]
          /\ task' = [task EXCEPT ![w] = [status |-> client[c].to, rev |-> @.rev + 1]]
          /\ row' = [row EXCEPT ![r] = Unclaimed("pending")]
          /\ TookEffect(c)
          /\ UNCHANGED <<session, invocation, at, prompts, returns>>

\* The compare-and-swaps have no command: a repeated one is refused.
CompareAndSwapTask(c) ==
  LET w == client[c].of IN
  /\ Sends(c, "CompareAndSwapTask")
  /\ IF task[w].rev # client[c].taskRev THEN IsRefused(c)
     ELSE /\ task' = [task EXCEPT ![w] = [status |-> client[c].to, rev |-> @.rev + 1]]
          /\ client' = [client EXCEPT ![c] = Free]
          /\ UNCHANGED <<outboxVars, session, workflow, invocation>>

CompareAndSwapInvocation(c) ==
  LET w == client[c].of IN
  /\ Sends(c, "CompareAndSwapInvocation")
  /\ IF \/ invocation[w].rev # client[c].rev
        \/ invocation[w].status \notin allowedPreviousInvocationStatuses(client[c].to)
     THEN IsRefused(c)
     ELSE /\ invocation' = [invocation EXCEPT ![w] = [status |-> client[c].to, rev |-> @.rev + 1]]
          /\ client' = [client EXCEPT ![c] = Free]
          /\ UNCHANGED <<outboxVars, session, workflow, task>>

CompareAndSwapWorkflowState(c) ==
  /\ Sends(c, "CompareAndSwapWorkflowState")
  /\ IF session.rev # client[c].rev \/ session.active # client[c].of THEN IsRefused(c)
     ELSE /\ session' = [session EXCEPT !.barrier = None, !.rev = @ + 1]
          /\ client' = [client EXCEPT ![c] = Free]
          /\ UNCHANGED <<outboxVars, workflow, task, invocation>>

\* The client does not repeat its command.
GivesUp(c) ==
  /\ client[c].recorded
  /\ client' = [client EXCEPT ![c] = Free]
  /\ UNCHANGED <<outboxVars, storeVars>>

Sending(c) ==
  \/ CreateWorkflowEnvelope(c) \/ ReplaceWorkflow(c) \/ TerminateWorkflow(c)
  \/ ApplyProjectionWriteSet(c) \/ CompareAndSwapTask(c)
  \/ CompareAndSwapInvocation(c) \/ CompareAndSwapWorkflowState(c)

WorkflowNext ==
  \/ OutboxNext /\ UNCHANGED <<storeVars, client>>
  \/ \E c \in Clients : Plans(c) \/ Sending(c) \/ GivesUp(c)

WorkflowSpec == WorkflowInit /\ [][WorkflowNext]_workflowVars

-----------------------------------------------------------------------------
(* Properties.                                                             *)

\* Type invariant.
WorkflowTypeOK ==
  /\ session    \in SessionStates
  /\ workflow   \in [Workflows -> WorkflowStates]
  /\ task       \in [Workflows -> TaskStates]
  /\ invocation \in [Workflows -> InvocationStates]
  /\ client     \in [Clients -> ClientStates]

\* The session's pointer and the statuses of the workflows agree: whatever
\* envelopes, replacements and ends race, one workflow at most is active, and
\* the session points to it.
PointerIsTheActiveOne ==
  \A w \in Workflows : workflow[w].status = "active" <=> session.active = w

\* A workflow that ended has no task at work and no continuation under way.
EndedScopeIsQuiet ==
  \A w \in Workflows : Ended(w) =>
    task[w].status \in TaskEnds /\ row[ContinuationOf[w]].status \notin Open

\* An end is final, for the workflow and for its tasks: late commands of
\* clients that read the rows before do not undo it.
EndIsFinal ==
  [][\A w \in Workflows : Ended(w) => workflow'[w] = workflow[w] /\ task'[w] = task[w]]_workflowVars

\* The barrier stands for the one final answer that is not yet published:
\* a second replacement waits for it.
OneOpenFinal ==
  \A w \in Workflows :
    row[FinalOf[w]].status \notin {"absent", "published"} => session.barrier = FinalOf[w]

\* A command whose effect is stored is never refused when it is repeated.
EffectIsAcknowledged ==
  \A c \in Clients : ~(client[c].recorded /\ client[c].refused)

=============================================================================
