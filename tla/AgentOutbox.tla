----------------------------- MODULE AgentOutbox -----------------------------
(***************************************************************************)
(* The leased rows of the durable agent workflow                           *)
(* (repository/agent_execution_repo.go, agent_session_repo.go):            *)
(*                                                                         *)
(*   - continuations: workflow events that must be delivered to an agent;  *)
(*   - root-final deliveries: final answers on their way into the chat log;*)
(*   - hand-offs: prompts that start the successor of a replaced workflow; *)
(*   - root leases: the right to run a session's root agent.               *)
(*                                                                         *)
(* Workers claim a row for a while, learn their fence token by reading the *)
(* row back, and write to it under owner and token.  A worker may stall    *)
(* beyond its lease, lose an answer and repeat its command, or die.  No    *)
(* service of the repository calls these operations yet; a worker here is  *)
(* any caller that uses only what the operations answered it.              *)
(*                                                                         *)
(* The caller passes the time with each call.  A caller that read the      *)
(* clock before its lease ended may write after the end, so the comparison *)
(* with lease_until stops some late writers, not all: it is a choice here. *)
(***************************************************************************)
EXTENDS Naturals, FiniteSets

CONSTANTS
  Continuations, RootFinals, Handoffs, RootLeases,  \* the rows, by kind
  Workers,       \* callers: goroutines of one or several processes
  Owners,        \* lease owners
  OwnerOf,       \* the owner a worker claims for
  Created,       \* bound: which sets of rows may exist at the start
  PromptReads,   \* is a claim always read back before its lease ends?
  MaxToken,      \* bound: fence tokens of a row
  None

Rows     == Continuations \cup RootFinals \cup Handoffs \cup RootLeases

ASSUME OutboxAssumption ==
  /\ OwnerOf \in [Workers -> Owners]
  /\ None \notin Rows /\ None \notin Owners
  /\ PromptReads \in BOOLEAN
  /\ MaxToken \in Nat
  /\ Created \subseteq SUBSET Rows
  /\ Continuations \cap RootFinals = {} /\ Continuations \cap Handoffs = {}
  /\ RootFinals \cap Handoffs = {}
  /\ RootLeases \cap (Continuations \cup RootFinals \cup Handoffs) = {}

VARIABLES
  row,       \* the rows
  at,        \* what each worker is doing, and what it knows of its row
  prompts,   \* history: how often the prompt of a hand-off was sent
  returns    \* history: how often a hand-off went back to pending

outboxVars == <<row, at, prompts, returns>>

-----------------------------------------------------------------------------
(* Statuses and the moves between them.                                    *)

Settled == {"acked", "discarded", "published", "started", "failed_definite", "cancelled"}
Open    == {"pending", "leased", "delivered", "journaled", "failed", "sending", "unknown"}
Statuses == Open \cup Settled \cup {"absent"}

\* The transitions of continuations have an operation each.
allowedContinuationTransition == {<<"leased", "delivered">>, <<"delivered", "acked">>}

allowedRootFinalTransition ==
  { <<"pending", "journaled">>, <<"pending", "failed">>, <<"journaled", "published">>,
    <<"journaled", "failed">>, <<"failed", "pending">>, <<"failed", "journaled">> }

\* Mutant: a prompt whose fate is unknown may be sent once more.
allowedHandoffTransition_Resend ==
  { <<"leased", "sending">>, <<"sending", "started">>, <<"sending", "unknown">>,
    <<"unknown", "started">>, <<"unknown", "sending">>, <<"unknown", "cancelled">> }

allowedHandoffTransition ==
  { <<"leased", "sending">>, <<"leased", "cancelled">>, <<"leased", "failed_definite">>,
    <<"sending", "started">>, <<"sending", "unknown">>, <<"sending", "pending">>,
    <<"unknown", "started">>, <<"unknown", "cancelled">>, <<"unknown", "pending">> }

Allowed(r) ==
  CASE r \in Continuations -> allowedContinuationTransition
    [] r \in RootFinals    -> allowedRootFinalTransition
    [] r \in Handoffs      -> allowedHandoffTransition
    [] OTHER               -> {}

\* The statuses a row is claimed in, with the lease mode of the claim.
allowedHandoffClaim ==
  [ dispatch |-> {"pending", "leased"}, reconcile_only |-> {"sending", "unknown"} ]

\* What a transition to a status does to the lease: rows that are finished or
\* wait for somebody else lose their owner, and some their token as well.
Unowned == {"acked", "published", "started", "unknown", "pending", "failed",
            "failed_definite", "cancelled"}
Refenced(r) == IF r \in Handoffs THEN {"failed_definite", "cancelled", "pending"}
               ELSE {"pending", "failed"}

-----------------------------------------------------------------------------
(* Types and initial states.                                               *)

RowStates ==
  [ status : Statuses,
    mode   : {"dispatch", "reconcile_only"},  \* lease_mode of a hand-off
    owner  : Owners \cup {None},
    lease  : {"none", "live", "expired"},     \* lease_until: NULL, to come, past
    token  : Nat,
    rev    : Nat ]

\* "claimed": the UPDATE of a claim is done, the row not yet read back.
\* claim is the token that UPDATE wrote, token the one the worker goes by.
\* next is the status of a transition under way, and recorded says that the
\* ledger of commands holds it; unsent, that the prompt is still to be sent.
WorkerStates ==
  [ pc : {"idle", "claimed", "holds"}, row : Rows \cup {None}, claim : Nat,
    token : Nat, status : Statuses, rev : Nat,
    next : Statuses \cup {None}, recorded : BOOLEAN, unsent : BOOLEAN ]

Idle == [ pc |-> "idle", row |-> None, claim |-> 0, token |-> 0, status |-> "pending",
          rev |-> 0, next |-> None, recorded |-> FALSE, unsent |-> FALSE ]

Unclaimed(status) == [ status |-> status, mode |-> "dispatch", owner |-> None,
                       lease |-> "none", token |-> 0, rev |-> 1 ]

OutboxInit ==
  /\ \E S \in Created :
       row = [r \in Rows |-> Unclaimed(IF r \in S THEN "pending" ELSE "absent")]
  /\ at  = [w \in Workers |-> Idle]
  /\ prompts = [r \in Handoffs |-> 0]
  /\ returns = [r \in Handoffs |-> 0]

\* Worker w has read its claim of row r, or is about to.
ClaimedBy(w, r) == at[w].pc # "idle" /\ at[w].row = r

\* Mutant: the owner alone is compared.
PassesFence_OwnerOnly(w) == row[at[w].row].owner = OwnerOf[w]

\* The row would take a write from w: owner and token are those of the row.
PassesFence(w) ==
  LET r == at[w].row IN row[r].owner = OwnerOf[w] /\ row[r].token = at[w].token

-----------------------------------------------------------------------------
(* Claims: an UPDATE of a row whose lease is free or over, then a SELECT.   *)

\* Mutant: a claim keeps the token of the one before it.
NextToken_Kept(r) == row[r].token

NextToken(r) == row[r].token + 1

Claim(w, r, statuses, next, mode) ==
  /\ at[w].pc = "idle"
  /\ row[r].status \in statuses
  /\ row[r].lease # "live"
  /\ row[r].token < MaxToken
  /\ row' = [row EXCEPT ![r] = [@ EXCEPT !.status = next, !.mode = mode,
       !.owner = OwnerOf[w], !.lease = "live", !.token = NextToken(r)]]
  /\ at' = [at EXCEPT ![w] = [Idle EXCEPT !.pc = "claimed", !.row = r,
       !.claim = NextToken(r)]]
  /\ UNCHANGED <<prompts, returns>>

ClaimContinuation(w) ==
  \E r \in Continuations :
    Claim(w, r, {"pending", "leased", "delivered"}, "leased", row[r].mode)

ClaimRootFinalDelivery(w) ==
  \E r \in RootFinals : Claim(w, r, {"pending", "journaled"}, row[r].status, row[r].mode)

\* By whoever has checked the journal; the publishers leave failed rows alone.
ClaimFailedRootFinalDeliveryForReconcile(w) ==
  \E r \in RootFinals : Claim(w, r, {"failed"}, row[r].status, row[r].mode)

ClaimWorkflowHandoff(w) ==
  \E r \in Handoffs, mode \in DOMAIN allowedHandoffClaim :
    Claim(w, r, allowedHandoffClaim[mode],
          IF row[r].status = "pending" THEN "leased" ELSE row[r].status, mode)

ClaimRootRunLease(w) ==
  \E r \in RootLeases : Claim(w, r, {"pending"}, "pending", row[r].mode)

\* The read at the end of a claim takes the row as it is by then.
ReadClaim(w) ==
  /\ at[w].pc = "claimed"
  /\ LET r == at[w].row IN
       at' = [at EXCEPT ![w] = [@ EXCEPT !.pc = "holds", !.token = row[r].token,
         !.status = row[r].status, !.rev = row[r].rev]]
  /\ UNCHANGED <<row, prompts, returns>>

-----------------------------------------------------------------------------
(* Fenced transitions.                                                     *)

\* The worker forgets the row; what it wrote stays.
Forget(w) == at' = [at EXCEPT ![w] = Idle]

\* What the worker knows once a transition was answered.
Answered(w) ==
  at' = [at EXCEPT ![w] =
    IF at[w].next \in Unowned THEN Idle
    ELSE [@ EXCEPT !.status = at[w].next, !.rev = at[w].rev + 1, !.next = None,
                   !.recorded = FALSE, !.unsent = TRUE]]

\* Worker w decides on a transition that the row's kind allows.
Intend(w, s) ==
  /\ at[w].pc = "holds" /\ at[w].next = None
  /\ <<at[w].status, s>> \in Allowed(at[w].row)
  /\ at' = [at EXCEPT ![w].next = s]
  /\ UNCHANGED <<row, prompts, returns>>

Written(r, s) ==
  row' = [row EXCEPT ![r] =
    [@ EXCEPT !.status = s,
              !.rev   = IF r \in Continuations THEN row[r].rev ELSE row[r].rev + 1,
              !.owner = IF s \in Unowned THEN None ELSE row[r].owner,
              !.lease = IF s \in Unowned THEN "none" ELSE row[r].lease,
              !.token = IF r \notin Continuations /\ s \in Refenced(r)
                          THEN row[r].token + 1 ELSE row[r].token]]

\* A transition is written.  Its answer may get lost; the worker then repeats
\* the command.
Applied(w, r) ==
  /\ Written(r, at[w].next)
  /\ \/ Answered(w)
     \/ at' = [at EXCEPT ![w].recorded = r \notin Continuations]
  /\ IF r \in Handoffs /\ at[w].next = "pending"
       THEN returns' = [returns EXCEPT ![r] = @ + 1]
       ELSE UNCHANGED returns
  /\ UNCHANGED prompts

Refused(w) == Forget(w) /\ UNCHANGED <<row, prompts, returns>>

\* lease_until > at holds, or may hold for a caller that read the clock early.
LeaseHolds(r) == row[r].lease # "none"

\* MarkContinuationDelivered and AckContinuation: one conditional UPDATE.
transitionContinuation(w) ==
  LET r == at[w].row IN
    /\ r \in Continuations /\ at[w].next # None
    /\ \/ PassesFence(w) /\ row[r].status = at[w].status /\ LeaseHolds(r) /\ Applied(w, r)
       \/ ~(PassesFence(w) /\ row[r].status = at[w].status /\ row[r].lease = "live")
          /\ Refused(w)

\* A command the ledger holds is answered again without looking at the row.
Replayed(w) ==
  /\ at[w].recorded
  /\ Answered(w)
  /\ UNCHANGED <<row, prompts, returns>>

\* Under the fence, the revision and the status are compared.
Current(w) ==
  LET r == at[w].row IN
    PassesFence(w) /\ row[r].rev = at[w].rev /\ row[r].status = at[w].status

TransitionRootFinalDelivery(w) ==
  LET r == at[w].row IN
    /\ r \in RootFinals /\ at[w].next # None
    /\ \/ Replayed(w)
       \/ ~at[w].recorded /\ Current(w) /\ LeaseHolds(r) /\ Applied(w, r)
       \/ ~at[w].recorded /\ ~(Current(w) /\ row[r].lease = "live") /\ Refused(w)

\* Mutant: a dispatcher may return what it is sending.
MayReturn_Always(w) == TRUE

\* Back to pending only goes a hand-off that is claimed for reconciliation.
MayReturn(w) == at[w].next = "pending" => row[at[w].row].mode = "reconcile_only"

TransitionWorkflowHandoff(w) ==
  LET r == at[w].row IN
    /\ r \in Handoffs /\ at[w].next # None
    /\ \/ Replayed(w)
       \/ ~at[w].recorded /\ MayReturn(w) /\ Current(w) /\ LeaseHolds(r) /\ Applied(w, r)
       \/ ~at[w].recorded /\ ~(MayReturn(w) /\ Current(w) /\ row[r].lease = "live")
          /\ Refused(w)

\* The prompt goes out after the answer that the hand-off is now "sending".
SendPrompt(w) ==
  /\ at[w].row \in Handoffs /\ at[w].status = "sending" /\ at[w].unsent
  /\ at' = [at EXCEPT ![w].unsent = FALSE]
  /\ prompts' = [prompts EXCEPT ![at[w].row] = @ + 1]
  /\ UNCHANGED <<row, returns>>

DiscardContinuation(r) ==
  /\ r \in Continuations /\ row[r].status \in Open
  /\ row' = [row EXCEPT ![r] = [@ EXCEPT !.status = "discarded", !.owner = None,
       !.lease = "none", !.token = row[r].token + 1]]
  /\ UNCHANGED <<at, prompts, returns>>

\* The lease is given back, if it is still the worker's own.
ReleaseRootRunLease(w) ==
  LET r == at[w].row IN
    /\ r \in RootLeases /\ at[w].pc = "holds"
    /\ IF PassesFence(w)
         THEN row' = [row EXCEPT ![r] = [@ EXCEPT !.owner = None, !.lease = "none"]]
         ELSE UNCHANGED row
    /\ Forget(w)
    /\ UNCHANGED <<prompts, returns>>

\* A worker dies, or gives up on its row.
Crash(w) ==
  /\ at[w].pc # "idle"
  /\ Forget(w)
  /\ UNCHANGED <<row, prompts, returns>>

LeaseEnds(r) ==
  /\ row[r].lease = "live"
  /\ PromptReads => ~\E w \in Workers : at[w].pc = "claimed" /\ at[w].row = r
  /\ row' = [row EXCEPT ![r].lease = "expired"]
  /\ UNCHANGED <<at, prompts, returns>>

-----------------------------------------------------------------------------
WorkerStep(w) ==
  \/ ClaimContinuation(w) \/ ClaimRootFinalDelivery(w)
  \/ ClaimFailedRootFinalDeliveryForReconcile(w)
  \/ ClaimWorkflowHandoff(w) \/ ClaimRootRunLease(w)
  \/ ReadClaim(w)
  \/ \E s \in Statuses : Intend(w, s)
  \/ transitionContinuation(w) \/ TransitionRootFinalDelivery(w)
  \/ TransitionWorkflowHandoff(w) \/ SendPrompt(w)
  \/ ReleaseRootRunLease(w) \/ Crash(w)

OutboxNext ==
  \/ \E w \in Workers : WorkerStep(w)
  \/ \E r \in Rows : LeaseEnds(r) \/ DiscardContinuation(r)

OutboxSpec == OutboxInit /\ [][OutboxNext]_outboxVars

-----------------------------------------------------------------------------
(* Properties.                                                             *)

\* Type invariant; rows without an owner have no lease.
OutboxTypeOK ==
  /\ row \in [Rows -> RowStates]
  /\ at  \in [Workers -> WorkerStates]
  /\ prompts \in [Handoffs -> Nat]
  /\ returns \in [Handoffs -> Nat]
  /\ \A r \in Rows : row[r].owner = None <=> row[r].lease = "none"

\* No two workers can both write to a row: a claim makes every earlier claim
\* useless, also if both were made for one owner.
OneWriter ==
  \A w, v \in Workers :
    /\ at[w].pc = "holds" /\ at[v].pc = "holds" /\ at[w].row = at[v].row
    /\ PassesFence(w) /\ PassesFence(v)
    => w = v

\* The prompt of a hand-off is sent once, and once more for each time that a
\* reconciliation found that it had not arrived.
PromptsAreReconciled == \A r \in Handoffs : prompts[r] <= returns[r] + 1

\* Once a prompt may be under way, the hand-off is not treated as unsent (sent
\* again, or cancelled) but by a claim that is for reconciliation.
UncertaintyIsKept ==
  [][\A r \in Handoffs :
       /\ row[r].status \in {"sending", "unknown"}
       /\ row'[r].status \notin {"sending", "unknown", "started"}
       => row[r].mode = "reconcile_only"]_outboxVars

\* The workers whose latest claim is the row's latest.
Tenants(r) ==
  { w \in Workers : ClaimedBy(w, r) /\ at[w].claim = row[r].token /\ row[r].owner # None }

\* The rows keep the promise of a fenced lease.
Fenced == INSTANCE FencedDelivery WITH
  Deliveries <- Rows, Holders <- Workers, Stages <- Statuses, Absent <- "absent",
  Closed <- Settled,
  stage <- [r \in Rows |-> row[r].status], tenant <- [r \in Rows |-> Tenants(r)]
ImplementsFencedDelivery == Fenced!Spec
=============================================================================
