-------------------------- MODULE AgentOutboxProofs --------------------------
(***************************************************************************)
(* Theorems about AgentOutbox, for any rows, workers, owners and tokens.   *)
(*                                                                         *)
(* BaseInv holds of every execution: rows and claims have their types, a   *)
(* worker at work has a row and only allowed transitions under way, and an *)
(* owned row is open.                                                      *)
(*                                                                         *)
(* OneWriter is not inductive with it: BaseInv says nothing of the claims  *)
(* that are not yet read back, nor why a claim made for the same owner is  *)
(* told apart from the one before it.  FenceInv adds that all claims of a  *)
(* row have different tokens, and that the token a worker goes by is the   *)
(* one its own claim wrote, unless the row is settled and takes no write   *)
(* any more.  The theorems about the fence assume PromptReads: a claim is  *)
(* read back before its lease ends.  Without it OneWriter does not hold:   *)
(* two claims may get one token.                                           *)
(*                                                                         *)
(* Prompts are reconciled without PromptReads.  PromptInv counts, for each *)
(* hand-off, the workers that may yet send its prompt together with the    *)
(* prompts sent: they are never more than the returns allow.               *)
(***************************************************************************)
EXTENDS AgentOutbox, FiniteSetTheorems, TLAPS

Busy(w) == at[w].pc # "idle"

\* A claim is not newer than its row, and is its worker's until it is settled.
ClaimIsKept(w) ==
  LET r == at[w].row IN
    Busy(w) =>
      /\ at[w].claim <= row[r].token
      /\ at[w].pc = "holds" => at[w].token = at[w].claim \/ row[r].status \in Settled
      /\ at[w].pc = "claimed" =>
           \/ row[r].status \in Settled
           \/ at[w].claim = row[r].token /\ row[r].lease = "live"

\* A transition under way is one that the kind of the row allows.
PlanIsAllowed(w) ==
  at[w].next # None =>
    at[w].pc = "holds" /\ <<at[w].status, at[w].next>> \in Allowed(at[w].row)

ClaimsDiffer ==
  \A w, v \in Workers :
    w # v /\ Busy(w) /\ Busy(v) /\ at[w].row = at[v].row => at[w].claim # at[v].claim

\* Owned rows are open, and hand-offs of unknown fate are owned for
\* reconciliation only.
RowOK(r) ==
  row[r].owner # None =>
    /\ row[r].status \in Open
    /\ r \in Handoffs /\ row[r].status = "unknown" => row[r].mode = "reconcile_only"

\* What holds however late a claim is read back.
PlanInv ==
  /\ \A w \in Workers : Busy(w) => at[w].row \in Rows
  /\ \A w \in Workers : PlanIsAllowed(w)
  /\ \A r \in Rows : RowOK(r)

BaseInv == OutboxTypeOK /\ PlanInv

FenceInv ==
  /\ \A w \in Workers : ClaimIsKept(w)
  /\ ClaimsDiffer

OutboxInv == BaseInv /\ FenceInv

Modes == {"dispatch", "reconcile_only"}

\* What all claims have in common.
LegalClaim(w, r, statuses, next, mode) ==
  /\ r \in Rows /\ statuses \subseteq Open /\ next \in Open /\ mode \in Modes
  /\ r \in Handoffs /\ next = "unknown" => mode = "reconcile_only"
  /\ r \in Handoffs => next = IF row[r].status = "pending" THEN "leased" ELSE row[r].status
  /\ Claim(w, r, statuses, next, mode)
Claims(w) == \E r, statuses, next, mode : LegalClaim(w, r, statuses, next, mode)

\* A transition is written under the fence.
Applies(w) ==
  LET r == at[w].row IN
    /\ at[w].next # None /\ PassesFence(w) /\ row[r].status = at[w].status
    /\ LeaseHolds(r) /\ (r \in Handoffs => MayReturn(w))
    /\ Applied(w, r)

\* Steps after which only the worker knows something new.
Learns(w) ==
  /\ UNCHANGED row
  /\ \/ ReadClaim(w)
     \/ \E s \in Statuses : Intend(w, s)
     \/ Replayed(w) /\ at[w].next # None
     \/ SendPrompt(w)
     \/ Forget(w) /\ UNCHANGED <<prompts, returns>>

Releases(w) == ReleaseRootRunLease(w)

-----------------------------------------------------------------------------
LEMMA StatusFacts ==
  /\ Open \cap Settled = {} /\ Open \subseteq Statuses /\ Settled \subseteq Statuses
  /\ "absent" \notin Open /\ "absent" \notin Settled /\ Unowned \subseteq Statuses
  BY DEF Open, Settled, Statuses, Unowned

\* Every claim is legal.
LEMMA ClaimCases ==
  ASSUME OutboxTypeOK, NEW w \in Workers,
         \/ ClaimContinuation(w) \/ ClaimRootFinalDelivery(w)
         \/ ClaimFailedRootFinalDeliveryForReconcile(w)
         \/ ClaimWorkflowHandoff(w) \/ ClaimRootRunLease(w)
  PROVE  Claims(w)
<1> USE DEF Claims, LegalClaim, Rows, Modes, Open
<1>0. \A r \in Rows : row[r].mode \in Modes
  BY DEF OutboxTypeOK, RowStates
<1>1. CASE ClaimContinuation(w)
  <2>1. PICK r \in Continuations :
          Claim(w, r, {"pending", "leased", "delivered"}, "leased", row[r].mode)
    BY <1>1 DEF ClaimContinuation
  <2>2. r \notin Handoffs
    BY OutboxAssumption
  <2> QED BY <1>0, <2>1, <2>2
<1>2. CASE ClaimRootFinalDelivery(w)
  <2>1. PICK r \in RootFinals :
          Claim(w, r, {"pending", "journaled"}, row[r].status, row[r].mode)
    BY <1>2 DEF ClaimRootFinalDelivery
  <2>2. r \notin Handoffs /\ row[r].status \in {"pending", "journaled"}
    BY <2>1, OutboxAssumption DEF Claim
  <2> QED BY <1>0, <2>1, <2>2
<1>3. CASE ClaimFailedRootFinalDeliveryForReconcile(w)
  <2>1. PICK r \in RootFinals : Claim(w, r, {"failed"}, row[r].status, row[r].mode)
    BY <1>3 DEF ClaimFailedRootFinalDeliveryForReconcile
  <2>2. r \notin Handoffs /\ row[r].status = "failed"
    BY <2>1, OutboxAssumption DEF Claim
  <2> QED BY <1>0, <2>1, <2>2
<1>4. CASE ClaimWorkflowHandoff(w)
  <2>1. PICK r \in Handoffs, mode \in DOMAIN allowedHandoffClaim :
          Claim(w, r, allowedHandoffClaim[mode],
                IF row[r].status = "pending" THEN "leased" ELSE row[r].status, mode)
    BY <1>4 DEF ClaimWorkflowHandoff
  <2>2. mode \in Modes /\ row[r].status \in allowedHandoffClaim[mode]
    BY <2>1 DEF Claim, allowedHandoffClaim
  <2>3. CASE mode = "dispatch"
    <3>1. allowedHandoffClaim[mode] = {"pending", "leased"}
      BY <2>3 DEF allowedHandoffClaim
    <3> QED BY <2>1, <2>2, <2>3, <3>1
  <2>4. CASE mode = "reconcile_only"
    <3>1. allowedHandoffClaim[mode] = {"sending", "unknown"}
      BY <2>4 DEF allowedHandoffClaim
    <3> QED BY <2>1, <2>2, <2>4, <3>1
  <2> QED BY <2>2, <2>3, <2>4
<1>5. CASE ClaimRootRunLease(w)
  <2>1. PICK r \in RootLeases : Claim(w, r, {"pending"}, "pending", row[r].mode)
    BY <1>5 DEF ClaimRootRunLease
  <2>2. r \notin Handoffs
    BY OutboxAssumption
  <2> QED BY <1>0, <2>1, <2>2
<1> QED BY <1>1, <1>2, <1>3, <1>4, <1>5

\* A step is a claim, a write under the fence, a release, a discarded
\* continuation, the end of a lease, or changes no row.
LEMMA StepCases ==
  ASSUME OutboxTypeOK, OutboxNext
  PROVE  \/ \E w \in Workers : Claims(w) \/ Applies(w) \/ Learns(w) \/ Releases(w)
         \/ \E r \in Rows : LeaseEnds(r) \/ DiscardContinuation(r)
<1> SUFFICES ASSUME NEW w \in Workers, WorkerStep(w)
             PROVE  Claims(w) \/ Applies(w) \/ Learns(w) \/ Releases(w)
  BY DEF OutboxNext
<1>1. CASE transitionContinuation(w)
  <2>1. at[w].row \notin Handoffs
    BY <1>1, OutboxAssumption DEF transitionContinuation
  <2> QED BY <1>1, <2>1 DEF transitionContinuation, Applies, Learns, Refused
<1>2. CASE TransitionRootFinalDelivery(w)
  <2>1. at[w].row \notin Handoffs
    BY <1>2, OutboxAssumption DEF TransitionRootFinalDelivery
  <2> QED BY <1>2, <2>1 DEF TransitionRootFinalDelivery, Applies, Learns, Refused, Replayed, Current
<1>3. CASE TransitionWorkflowHandoff(w)
  BY <1>3 DEF TransitionWorkflowHandoff, Applies, Learns, Refused, Replayed, Current
<1>4. CASE ReadClaim(w) \/ (\E s \in Statuses : Intend(w, s)) \/ SendPrompt(w) \/ Crash(w)
  BY <1>4 DEF ReadClaim, Intend, SendPrompt, Crash, Learns
<1>5. CASE ReleaseRootRunLease(w)
  BY <1>5 DEF Releases
<1> QED BY <1>1, <1>2, <1>3, <1>4, <1>5, ClaimCases DEF WorkerStep

-----------------------------------------------------------------------------
(* The type invariant.                                                     *)

\* An idle worker is at the stage "idle".
LEMMA IdlePc == Idle.pc = "idle"
  BY DEF Idle

LEMMA IdleTypes == Idle \in WorkerStates
<1>1. "pending" \in Statuses
  BY DEF Statuses, Open
<1> QED BY <1>1 DEF Idle, WorkerStates

LEMMA PlanTypes ==
  ASSUME OutboxTypeOK, NEW w \in Workers, at[w].next # None
  PROVE  at[w].next \in Statuses
  BY DEF OutboxTypeOK, WorkerStates

LEMMA ClaimTypes ==
  ASSUME OutboxTypeOK, NEW w \in Workers, Claims(w)
  PROVE  OutboxTypeOK'
<1>1. PICK r, statuses, next, mode : LegalClaim(w, r, statuses, next, mode)
  BY DEF Claims
<1>2. OwnerOf[w] \in Owners /\ OwnerOf[w] # None
  BY OutboxAssumption
<1>3. NextToken(r) \in Nat
  BY <1>1 DEF LegalClaim, NextToken, OutboxTypeOK, RowStates
<1>4. row' \in [Rows -> RowStates]
  <2> DEFINE new == [row[r] EXCEPT !.status = next, !.mode = mode, !.owner = OwnerOf[w],
                                   !.lease = "live", !.token = NextToken(r)]
  <2>1. r \in Rows /\ next \in Statuses /\ mode \in Modes /\ row[r] \in RowStates
    BY <1>1, StatusFacts DEF LegalClaim, OutboxTypeOK
  <2>2. new \in RowStates
    BY <1>2, <1>3, <2>1 DEF RowStates, Modes
  <2>3. row' = [row EXCEPT ![r] = new]
    BY <1>1 DEF LegalClaim, Claim
  <2> HIDE DEF new
  <2> QED BY <2>2, <2>3 DEF OutboxTypeOK
<1>5. at' \in [Workers -> WorkerStates]
  <2> DEFINE new == [Idle EXCEPT !.pc = "claimed", !.row = r, !.claim = NextToken(r)]
  <2>1. r \in Rows
    BY <1>1 DEF LegalClaim
  <2>2. new \in WorkerStates
    BY <1>3, <2>1, IdleTypes DEF WorkerStates
  <2>3. at' = [at EXCEPT ![w] = new]
    BY <1>1 DEF LegalClaim, Claim
  <2> HIDE DEF new
  <2> QED BY <2>2, <2>3 DEF OutboxTypeOK
<1>6. \A q \in Rows : row'[q].owner = None <=> row'[q].lease = "none"
  BY <1>1, <1>2 DEF LegalClaim, Claim, OutboxTypeOK, RowStates
<1> QED BY <1>1, <1>4, <1>5, <1>6 DEF LegalClaim, Claim, OutboxTypeOK

LEMMA AnsweredTypes ==
  ASSUME OutboxTypeOK, NEW w \in Workers, at[w].next # None, Answered(w)
  PROVE  at' \in [Workers -> WorkerStates]
<1>1. at[w] \in WorkerStates /\ at[w].next \in Statuses
  BY PlanTypes DEF OutboxTypeOK
<1>2. Idle \in WorkerStates
  BY IdleTypes
<1> DEFINE moved == [at[w] EXCEPT !.status = at[w].next, !.rev = at[w].rev + 1,
                        !.next = None, !.recorded = FALSE, !.unsent = TRUE]
<1>3. moved \in WorkerStates
  <2> DEFINE rev == at[w].rev + 1
             x == [at[w] EXCEPT !.status = at[w].next, !.rev = rev]
  <2>1. x \in WorkerStates
    <3>1. rev \in Nat
      BY <1>1 DEF WorkerStates
    <3> HIDE DEF rev
    <3> QED BY <1>1, <3>1 DEF WorkerStates
  <2>2. \A y \in WorkerStates :
          [y EXCEPT !.next = None, !.recorded = FALSE, !.unsent = TRUE] \in WorkerStates
    BY DEF WorkerStates
  <2> QED BY ONLY <2>1, <2>2
<1>4. at' = [at EXCEPT ![w] = IF at[w].next \in Unowned THEN Idle ELSE moved]
  BY DEF Answered
<1> HIDE DEF moved
<1>5. (IF at[w].next \in Unowned THEN Idle ELSE moved) \in WorkerStates
  BY <1>2, <1>3
<1> QED BY <1>4, <1>5 DEF OutboxTypeOK

LEMMA WrittenTypes ==
  ASSUME OutboxTypeOK, NEW r \in Rows, NEW s \in Statuses, Written(r, s), LeaseHolds(r)
  PROVE  /\ row' \in [Rows -> RowStates]
         /\ \A q \in Rows : row'[q].owner = None <=> row'[q].lease = "none"
<1>1. row[r] \in RowStates
  BY DEF OutboxTypeOK
<1> DEFINE new ==
  [row[r] EXCEPT !.status = s,
              !.rev   = IF r \in Continuations THEN row[r].rev ELSE row[r].rev + 1,
              !.owner = IF s \in Unowned THEN None ELSE row[r].owner,
              !.lease = IF s \in Unowned THEN "none" ELSE row[r].lease,
              !.token = IF r \notin Continuations /\ s \in Refenced(r)
                          THEN row[r].token + 1 ELSE row[r].token]
<1>2. new \in RowStates
  <2> DEFINE rev == IF r \in Continuations THEN row[r].rev ELSE row[r].rev + 1
             owner == IF s \in Unowned THEN None ELSE row[r].owner
             lease == IF s \in Unowned THEN "none" ELSE row[r].lease
             token == IF r \notin Continuations /\ s \in Refenced(r)
                        THEN row[r].token + 1 ELSE row[r].token
  <2>1. /\ rev \in Nat /\ owner \in Owners \cup {None}
        /\ lease \in {"none", "live", "expired"} /\ token \in Nat
    BY <1>1 DEF RowStates
  <2> HIDE DEF rev, owner, lease, token
  <2>2. [row[r] EXCEPT !.status = s, !.rev = rev, !.owner = owner, !.lease = lease,
                       !.token = token] \in RowStates
    BY <1>1, <2>1 DEF RowStates
  <2> QED BY <2>2 DEF rev, owner, lease, token
<1>3. new.owner = None <=> new.lease = "none"
  BY <1>1 DEF RowStates, OutboxTypeOK
<1>4. row' = [row EXCEPT ![r] = new]
  BY DEF Written
<1> HIDE DEF new
<1> QED BY <1>2, <1>3, <1>4 DEF OutboxTypeOK

LEMMA AppliesTypes ==
  ASSUME BaseInv, NEW w \in Workers, Applies(w)
  PROVE  OutboxTypeOK'
<1>1. OutboxTypeOK /\ at[w].next # None /\ at[w].next \in Statuses
  BY PlanTypes DEF BaseInv, Applies
<1>2. at[w].row \in Rows
  BY <1>1 DEF BaseInv, PlanInv, PlanIsAllowed, Busy
<1>3. at' \in [Workers -> WorkerStates]
  <2>1. CASE Answered(w)
    BY <2>1, <1>1, AnsweredTypes
  <2>2. CASE at' = [at EXCEPT ![w].recorded = at[w].row \notin Continuations]
    <3>1. [at[w] EXCEPT !.recorded = at[w].row \notin Continuations] \in WorkerStates
      <4>1. at[w] \in WorkerStates
        BY <1>1 DEF OutboxTypeOK
      <4>2. (at[w].row \notin Continuations) \in BOOLEAN
        OBVIOUS
      <4> QED BY ONLY <4>1, <4>2 DEF WorkerStates
    <3> QED BY <1>1, <2>2, <3>1 DEF OutboxTypeOK
  <2> QED BY <2>1, <2>2 DEF Applies, Applied
<1>4. /\ row' \in [Rows -> RowStates]
      /\ \A q \in Rows : row'[q].owner = None <=> row'[q].lease = "none"
  BY <1>1, <1>2, WrittenTypes DEF Applies, Applied
<1>5. prompts' \in [Handoffs -> Nat] /\ returns' \in [Handoffs -> Nat]
  BY <1>1 DEF Applies, Applied, OutboxTypeOK
<1> QED BY <1>3, <1>4, <1>5 DEF OutboxTypeOK

LEMMA LearnsTypes ==
  ASSUME BaseInv, NEW w \in Workers, Learns(w)
  PROVE  OutboxTypeOK'
<1>0. OutboxTypeOK
  BY DEF BaseInv
<1>1. CASE ReadClaim(w)
  <2>1. at[w].row \in Rows
    BY <1>1 DEF ReadClaim, BaseInv, PlanInv, Busy
  <2>2. row[at[w].row] \in RowStates
    BY <1>0, <2>1 DEF OutboxTypeOK
  <2> DEFINE r == at[w].row
             read == [at[w] EXCEPT !.pc = "holds", !.token = row[r].token,
                        !.status = row[r].status, !.rev = row[r].rev]
  <2>3. at[w] \in WorkerStates
    BY <1>0 DEF OutboxTypeOK
  <2>4. read \in WorkerStates
    BY <2>2, <2>3 DEF WorkerStates, RowStates
  <2>5. at' = [at EXCEPT ![w] = read]
    BY <1>1 DEF ReadClaim
  <2> HIDE DEF read
  <2> QED BY <1>0, <1>1, <2>4, <2>5 DEF ReadClaim, OutboxTypeOK
<1>2. CASE \E s \in Statuses : Intend(w, s)
  <2>1. PICK s \in Statuses : Intend(w, s)
    BY <1>2
  <2>2. [at[w] EXCEPT !.next = s] \in WorkerStates
    <3>1. at[w] \in WorkerStates
      BY <1>0 DEF OutboxTypeOK
    <3> QED BY ONLY <3>1, s \in Statuses DEF WorkerStates
  <2> QED BY <1>0, <2>1, <2>2 DEF Intend, OutboxTypeOK
<1>3. CASE Replayed(w) /\ at[w].next # None
  BY <1>0, <1>3, AnsweredTypes DEF Replayed, OutboxTypeOK
<1>4. CASE SendPrompt(w)
  <2>1. [at[w] EXCEPT !.unsent = FALSE] \in WorkerStates
    BY <1>0 DEF OutboxTypeOK, WorkerStates
  <2>2. at' = [at EXCEPT ![w] = [at[w] EXCEPT !.unsent = FALSE]]
    BY <1>4 DEF SendPrompt
  <2> QED BY <1>0, <1>4, <2>1, <2>2 DEF SendPrompt, OutboxTypeOK
<1>5. CASE Forget(w) /\ UNCHANGED <<prompts, returns>>
  BY <1>0, <1>5, IdleTypes DEF Learns, Forget, OutboxTypeOK
<1> QED BY <1>1, <1>2, <1>3, <1>4, <1>5 DEF Learns

LEMMA OtherTypes ==
  ASSUME OutboxTypeOK,
         \/ \E w \in Workers : Releases(w)
         \/ \E r \in Rows : LeaseEnds(r) \/ DiscardContinuation(r)
  PROVE  OutboxTypeOK'
<1>1. CASE \E w \in Workers : Releases(w)
  <2>1. PICK w \in Workers : ReleaseRootRunLease(w)
    BY <1>1 DEF Releases
  <2>2. at' \in [Workers -> WorkerStates]
    BY <2>1, IdleTypes DEF ReleaseRootRunLease, Forget, OutboxTypeOK
  <2>3. at[w].row \in Rows
    BY <2>1 DEF ReleaseRootRunLease, Rows
  <2>4. /\ row' \in [Rows -> RowStates]
        /\ \A q \in Rows : row'[q].owner = None <=> row'[q].lease = "none"
    <3>1. CASE PassesFence(w)
      <4> DEFINE r == at[w].row
                 free == [row[r] EXCEPT !.owner = None, !.lease = "none"]
      <4>1. free \in RowStates /\ free.owner = None /\ free.lease = "none"
        <5>1. row[r] \in RowStates
          BY <2>3 DEF OutboxTypeOK
        <5> QED BY <5>1 DEF RowStates
      <4>2. row' = [row EXCEPT ![r] = free]
        BY <2>1, <3>1 DEF ReleaseRootRunLease
      <4> HIDE DEF free
      <4> QED BY <2>3, <4>1, <4>2 DEF OutboxTypeOK
    <3>2. CASE ~PassesFence(w)
      BY <2>1, <3>2 DEF ReleaseRootRunLease, OutboxTypeOK
    <3> QED BY <3>1, <3>2
  <2> QED BY <2>1, <2>2, <2>4 DEF ReleaseRootRunLease, OutboxTypeOK
<1>2. CASE \E r \in Rows : LeaseEnds(r)
  BY <1>2 DEF LeaseEnds, OutboxTypeOK, RowStates
<1>3. CASE \E r \in Rows : DiscardContinuation(r)
  <2>1. PICK r \in Rows : DiscardContinuation(r)
    BY <1>3
  <2> DEFINE gone == [row[r] EXCEPT !.status = "discarded", !.owner = None,
                        !.lease = "none", !.token = row[r].token + 1]
  <2>2. "discarded" \in Statuses
    BY DEF Statuses, Settled
  <2>3. gone \in RowStates /\ gone.owner = None /\ gone.lease = "none"
    <3>1. row[r] \in RowStates
      BY DEF OutboxTypeOK
    <3> DEFINE token == row[r].token + 1
    <3>2. token \in Nat
      BY <3>1 DEF RowStates
    <3> HIDE DEF token
    <3>3. LET x == [row[r] EXCEPT !.status = "discarded", !.owner = None,
                      !.lease = "none", !.token = token]
          IN x \in RowStates /\ x.owner = None /\ x.lease = "none"
      BY <2>2, <3>1, <3>2 DEF RowStates
    <3> QED BY <3>3 DEF token
  <2>4. row' = [row EXCEPT ![r] = gone]
    BY <2>1 DEF DiscardContinuation
  <2> HIDE DEF gone
  <2>5. /\ row' \in [Rows -> RowStates]
        /\ \A q \in Rows : row'[q].owner = None <=> row'[q].lease = "none"
    BY <2>3, <2>4 DEF OutboxTypeOK
  <2> QED BY <2>1, <2>5 DEF DiscardContinuation, OutboxTypeOK
<1> QED BY <1>1, <1>2, <1>3

LEMMA StepTypes ==
  ASSUME BaseInv, OutboxNext
  PROVE  OutboxTypeOK'
  BY StepCases, ClaimTypes, AppliesTypes, LearnsTypes, OtherTypes DEF BaseInv

-----------------------------------------------------------------------------
(* What a step does to a row and to a worker.                              *)

\* Claims: the token is the next one.
LEMMA ClaimDoes ==
  ASSUME OutboxTypeOK, NEW w \in Workers, NEW r, NEW statuses, NEW next, NEW mode,
         LegalClaim(w, r, statuses, next, mode)
  PROVE  /\ r \in Rows /\ ~Busy(w) /\ row[r].status \in Open /\ row[r].lease # "live"
         /\ \A q \in Rows : q # r => row'[q] = row[q]
         /\ row'[r].status = next /\ next \in Open /\ row'[r].mode = mode
         /\ row'[r].owner = OwnerOf[w] /\ row'[r].owner # None /\ row'[r].lease = "live"
         /\ row'[r].token = row[r].token + 1 /\ row[r].token \in Nat
         /\ \A v \in Workers : v # w => at'[v] = at[v]
         /\ at'[w].pc = "claimed" /\ at'[w].row = r /\ at'[w].claim = row[r].token + 1
         /\ at'[w].next = None /\ ~at'[w].recorded /\ ~at'[w].unsent
         /\ UNCHANGED <<prompts, returns>>
<1>1. r \in Rows /\ Claim(w, r, statuses, next, mode)
  BY DEF LegalClaim
<1>2. OwnerOf[w] # None
  BY OutboxAssumption
<1>3. row[r].token \in Nat
  BY <1>1 DEF OutboxTypeOK, RowStates
<1>4. /\ ~Busy(w) /\ row[r].status \in Open /\ row[r].lease # "live" /\ next \in Open
  BY <1>1 DEF LegalClaim, Claim, Busy
<1> DEFINE new == [row[r] EXCEPT !.status = next, !.mode = mode, !.owner = OwnerOf[w],
                     !.lease = "live", !.token = NextToken(r)]
           held == [Idle EXCEPT !.pc = "claimed", !.row = r, !.claim = NextToken(r)]
<1>5. row' = [row EXCEPT ![r] = new] /\ at' = [at EXCEPT ![w] = held]
  BY <1>1 DEF Claim
<1>6. /\ new.status = next /\ new.mode = mode /\ new.owner = OwnerOf[w]
      /\ new.lease = "live" /\ new.token = row[r].token + 1
  BY <1>1 DEF OutboxTypeOK, RowStates, NextToken
<1>7. /\ held.pc = "claimed" /\ held.row = r /\ held.claim = row[r].token + 1
      /\ held.next = None /\ ~held.recorded /\ ~held.unsent
  BY DEF Idle, NextToken
<1>8. UNCHANGED <<prompts, returns>>
  BY <1>1 DEF Claim
<1> HIDE DEF new, held
<1> QED BY <1>8, <1>1, <1>2, <1>3, <1>4, <1>5, <1>6, <1>7 DEF OutboxTypeOK

\* Writes: to a row whose owner and token are the writer's.
LEMMA AppliesDoes ==
  ASSUME BaseInv, NEW w \in Workers, Applies(w)
  PROVE  LET r == at[w].row
             s == at[w].next
         IN /\ Busy(w) /\ at[w].pc = "holds" /\ r \in Rows /\ s \in Statuses
            /\ <<row[r].status, s>> \in Allowed(r)
            /\ row[r].status \in Open /\ row[r].owner # None
            /\ \A q \in Rows : q # r => row'[q] = row[q]
            /\ row'[r].status = s /\ row'[r].mode = row[r].mode
            /\ row'[r].owner = (IF s \in Unowned THEN None ELSE row[r].owner)
            /\ row'[r].lease = (IF s \in Unowned THEN "none" ELSE row[r].lease)
            /\ \/ row'[r].token = row[r].token
               \/ row'[r].token = row[r].token + 1 /\ s \in Unowned
            /\ \A v \in Workers : v # w => at'[v] = at[v]
            /\ \/ at'[w] = Idle
               \/ /\ at'[w].pc = "holds" /\ at'[w].row = r /\ at'[w].claim = at[w].claim
                  /\ at'[w].token = at[w].token
                  /\ at'[w].next # None =>
                       at'[w].next = at[w].next /\ at'[w].status = at[w].status
<1> DEFINE r == at[w].row
           s == at[w].next
<1>0. OutboxTypeOK /\ s # None /\ PassesFence(w) /\ row[r].status = at[w].status /\ Applied(w, r)
  BY DEF BaseInv, Applies
<1>1. s \in Statuses
  BY <1>0, PlanTypes
<1>2. at[w].pc = "holds" /\ Busy(w) /\ <<at[w].status, s>> \in Allowed(r)
  BY <1>0 DEF BaseInv, PlanInv, PlanIsAllowed, Busy
<1>3. r \in Rows
  BY <1>2 DEF BaseInv, PlanInv
<1>4. row[r].owner # None /\ at[w].token = row[r].token
  BY <1>0, OutboxAssumption DEF PassesFence
<1>5. row[r].status \in Open
  BY <1>3, <1>4 DEF BaseInv, PlanInv, RowOK
<1> DEFINE rev == IF r \in Continuations THEN row[r].rev ELSE row[r].rev + 1
           owner == IF s \in Unowned THEN None ELSE row[r].owner
           lease == IF s \in Unowned THEN "none" ELSE row[r].lease
           bumped == r \notin Continuations /\ s \in Refenced(r)
           token == IF bumped THEN row[r].token + 1 ELSE row[r].token
           new == [row[r] EXCEPT !.status = s, !.rev = rev, !.owner = owner,
                                 !.lease = lease, !.token = token]
<1>7. row' = [row EXCEPT ![r] = new]
  BY <1>0 DEF Applied, Written
<1>8. /\ new.status = s /\ new.mode = row[r].mode /\ new.owner = owner
      /\ new.lease = lease /\ new.token = token
  <2> HIDE DEF rev, owner, lease, token
  <2> QED BY <1>0, <1>3 DEF OutboxTypeOK, RowStates
<1>9. \/ token = row[r].token
      \/ token = row[r].token + 1 /\ s \in Unowned
  BY DEF Refenced, Unowned
<1> HIDE DEF new, token
<1>10. /\ \A q \in Rows : q # r => row'[q] = row[q]
       /\ row'[r] = new
  BY <1>0, <1>3, <1>7 DEF OutboxTypeOK
<1>11. /\ \A v \in Workers : v # w => at'[v] = at[v]
       /\ \/ at'[w] = Idle
          \/ /\ at'[w].pc = "holds" /\ at'[w].row = r /\ at'[w].claim = at[w].claim
             /\ at'[w].token = at[w].token
             /\ at'[w].next # None =>
                  at'[w].next = at[w].next /\ at'[w].status = at[w].status
  <2>0. at \in [Workers -> WorkerStates] /\ at[w] \in WorkerStates
    BY <1>0 DEF OutboxTypeOK
  <2>1. CASE Answered(w)
    <3> DEFINE moved == [at[w] EXCEPT !.status = at[w].next, !.rev = at[w].rev + 1,
                        !.next = None, !.recorded = FALSE, !.unsent = TRUE]
    <3>1. /\ moved.pc = at[w].pc /\ moved.row = r /\ moved.claim = at[w].claim
          /\ moved.token = at[w].token /\ moved.next = None
      BY <2>0 DEF WorkerStates
    <3>2. at' = [at EXCEPT ![w] = IF at[w].next \in Unowned THEN Idle ELSE moved]
      BY <2>1 DEF Answered
    <3> HIDE DEF moved
    <3> QED BY <1>2, <2>0, <3>1, <3>2
  <2>2. CASE at' = [at EXCEPT ![w].recorded = at[w].row \notin Continuations]
    <3> DEFINE kept == [at[w] EXCEPT !.recorded = at[w].row \notin Continuations]
    <3>1. /\ kept.pc = at[w].pc /\ kept.row = r /\ kept.claim = at[w].claim
          /\ kept.token = at[w].token /\ kept.next = at[w].next /\ kept.status = at[w].status
      BY <2>0 DEF WorkerStates
    <3>2. at' = [at EXCEPT ![w] = kept]
      BY <2>2
    <3> HIDE DEF kept
    <3> QED BY <1>2, <2>0, <3>1, <3>2
  <2> QED BY <1>0, <2>1, <2>2 DEF Applied
<1> QED BY <1>0, <1>1, <1>2, <1>3, <1>4, <1>5, <1>8, <1>9, <1>10, <1>11

LEMMA LearnsDoes ==
  ASSUME BaseInv, NEW w \in Workers, Learns(w)
  PROVE  /\ row' = row
         /\ \A v \in Workers : v # w => at'[v] = at[v]
         /\ \/ at'[w] = Idle
            \/ /\ at'[w].row = at[w].row /\ at'[w].claim = at[w].claim
               /\ \/ at'[w].pc = at[w].pc /\ at'[w].token = at[w].token
                  \/ /\ at[w].pc = "claimed" /\ at'[w].pc = "holds"
                     /\ at'[w].token = row[at[w].row].token
               /\ PlanIsAllowed(w)'
<1>0. at \in [Workers -> WorkerStates] /\ at[w] \in WorkerStates /\ PlanIsAllowed(w)
  BY DEF BaseInv, OutboxTypeOK, PlanInv
<1>1. CASE ReadClaim(w)
  <2> DEFINE r == at[w].row
             read == [at[w] EXCEPT !.pc = "holds", !.token = row[r].token,
                        !.status = row[r].status, !.rev = row[r].rev]
  <2>1. at' = [at EXCEPT ![w] = read] /\ at[w].pc = "claimed"
    BY <1>1 DEF ReadClaim
  <2>2. /\ read.pc = "holds" /\ read.row = r /\ read.claim = at[w].claim
        /\ read.token = row[r].token /\ read.next = at[w].next
    BY <1>0 DEF WorkerStates
  <2>3. at[w].next = None
    BY <1>0, <2>1 DEF PlanIsAllowed
  <2> HIDE DEF read
  <2> QED BY <1>0, <2>1, <2>2, <2>3 DEF Learns, PlanIsAllowed
<1>2. CASE \E s \in Statuses : Intend(w, s)
  <2>1. PICK s \in Statuses : Intend(w, s)
    BY <1>2
  <2> DEFINE new == [at[w] EXCEPT !.next = s]
  <2>2. at' = [at EXCEPT ![w] = new] /\ at[w].pc = "holds"
        /\ <<at[w].status, s>> \in Allowed(at[w].row)
    BY <2>1 DEF Intend
  <2>3. /\ new.pc = at[w].pc /\ new.row = at[w].row /\ new.claim = at[w].claim
        /\ new.token = at[w].token /\ new.next = s /\ new.status = at[w].status
    BY <1>0 DEF WorkerStates
  <2> HIDE DEF new
  <2>4. at'[w] = new
    BY <1>0, <2>2
  <2>6. PlanIsAllowed(w)'
    BY <2>2, <2>3, <2>4 DEF PlanIsAllowed, Allowed
  <2> QED BY <1>0, <2>2, <2>3, <2>4, <2>6 DEF Learns
<1>3. CASE Replayed(w) /\ at[w].next # None
  <2> DEFINE moved == [at[w] EXCEPT !.status = at[w].next, !.rev = at[w].rev + 1,
                        !.next = None, !.recorded = FALSE, !.unsent = TRUE]
  <2>1. /\ moved.pc = at[w].pc /\ moved.row = at[w].row /\ moved.claim = at[w].claim
        /\ moved.token = at[w].token /\ moved.next = None
    BY <1>0 DEF WorkerStates
  <2>2. at' = [at EXCEPT ![w] = IF at[w].next \in Unowned THEN Idle ELSE moved]
    BY <1>3 DEF Replayed, Answered
  <2> HIDE DEF moved
  <2> QED BY <1>0, <2>1, <2>2 DEF Learns, PlanIsAllowed
<1>4. CASE SendPrompt(w)
  <2> DEFINE new == [at[w] EXCEPT !.unsent = FALSE]
  <2>1. at' = [at EXCEPT ![w] = new]
    BY <1>4 DEF SendPrompt
  <2>2. /\ new.pc = at[w].pc /\ new.row = at[w].row /\ new.claim = at[w].claim
        /\ new.token = at[w].token /\ new.next = at[w].next /\ new.status = at[w].status
    BY <1>0 DEF WorkerStates
  <2> HIDE DEF new
  <2>3. at'[w] = new
    BY <1>0, <2>1
  <2>4. PlanIsAllowed(w)'
    BY <1>0, <2>2, <2>3 DEF PlanIsAllowed, Allowed
  <2> QED BY <1>0, <2>1, <2>2, <2>3, <2>4 DEF Learns
<1>5. CASE Forget(w) /\ UNCHANGED <<prompts, returns>>
  BY <1>0, <1>5 DEF Learns, Forget
<1> QED BY <1>1, <1>2, <1>3, <1>4, <1>5 DEF Learns

LEMMA ReleasesDoes ==
  ASSUME BaseInv, NEW w \in Workers, Releases(w)
  PROVE  /\ Busy(w) /\ at'[w] = Idle /\ \A v \in Workers : v # w => at'[v] = at[v]
         /\ at[w].row \in Rows
         /\ \/ row' = row
            \/ /\ \A q \in Rows : q # at[w].row => row'[q] = row[q]
               /\ PassesFence(w) /\ at[w].token = row[at[w].row].token
               /\ row[at[w].row].status \in Open /\ row[at[w].row].owner # None
               /\ row'[at[w].row].owner = None
               /\ row'[at[w].row].token = row[at[w].row].token
               /\ row'[at[w].row].status = row[at[w].row].status
<1> DEFINE r == at[w].row
           free == [row[r] EXCEPT !.owner = None, !.lease = "none"]
<1>1. r \in Rows /\ at[w].pc = "holds" /\ at'  = [at EXCEPT ![w] = Idle]
  BY DEF Releases, ReleaseRootRunLease, Forget, Rows
<1>2. CASE ~PassesFence(w)
  BY <1>1, <1>2 DEF Releases, ReleaseRootRunLease, BaseInv, OutboxTypeOK, Busy
<1>3. CASE PassesFence(w)
  <2>1. row' = [row EXCEPT ![r] = free]
    BY <1>3 DEF Releases, ReleaseRootRunLease
  <2>2. row[r] \in RowStates /\ RowOK(r)
    BY <1>1 DEF BaseInv, OutboxTypeOK, PlanInv
  <2>3. free.owner = None /\ free.token = row[r].token /\ free.status = row[r].status
    BY <2>2 DEF RowStates
  <2>4. row[r].owner # None /\ at[w].token = row[r].token
    BY <1>3, OutboxAssumption DEF PassesFence
  <2>5. row[r].status \in Open
    BY <2>2, <2>4 DEF RowOK
  <2> HIDE DEF free
  <2> QED BY <1>1, <1>3, <2>1, <2>3, <2>4, <2>5 DEF BaseInv, OutboxTypeOK, Busy
<1> QED BY <1>2, <1>3

\* The end of a lease and a discarded continuation touch one row and no worker.
LEMMA OtherDoes ==
  ASSUME OutboxTypeOK, NEW r \in Rows, LeaseEnds(r) \/ DiscardContinuation(r)
  PROVE  /\ UNCHANGED <<at, prompts, returns>>
         /\ \A q \in Rows : q # r => row'[q] = row[q]
         /\ row'[r].mode = row[r].mode
         /\ \/ /\ LeaseEnds(r) /\ row'[r].status = row[r].status
               /\ row'[r].owner = row[r].owner /\ row'[r].token = row[r].token
            \/ /\ DiscardContinuation(r) /\ r \in Continuations /\ r \notin Handoffs
               /\ row[r].status \in Open /\ row'[r].status = "discarded"
               /\ row'[r].owner = None /\ row'[r].token = row[r].token + 1
<1>0. row[r] \in RowStates
  BY DEF OutboxTypeOK
<1>1. CASE LeaseEnds(r)
  <2> DEFINE over == [row[r] EXCEPT !.lease = "expired"]
  <2>1. row' = [row EXCEPT ![r] = over]
    BY <1>1 DEF LeaseEnds
  <2>2. /\ over.status = row[r].status /\ over.owner = row[r].owner
        /\ over.token = row[r].token /\ over.mode = row[r].mode
    BY <1>0 DEF RowStates
  <2> HIDE DEF over
  <2> QED BY <1>1, <2>1, <2>2 DEF LeaseEnds, OutboxTypeOK
<1>2. CASE DiscardContinuation(r)
  <2> DEFINE gone == [row[r] EXCEPT !.status = "discarded", !.owner = None,
                        !.lease = "none", !.token = row[r].token + 1]
  <2>1. row' = [row EXCEPT ![r] = gone]
    BY <1>2 DEF DiscardContinuation
  <2>2. /\ gone.status = "discarded" /\ gone.owner = None
        /\ gone.token = row[r].token + 1 /\ gone.mode = row[r].mode
    BY <1>0 DEF RowStates
  <2> HIDE DEF gone
  <2>3. r \notin Handoffs
    BY <1>2, OutboxAssumption DEF DiscardContinuation
  <2> QED BY <1>2, <2>1, <2>2, <2>3 DEF DiscardContinuation, OutboxTypeOK
<1> QED BY <1>1, <1>2

-----------------------------------------------------------------------------
(* What holds however late a claim is read back.                           *)

\* A transition that keeps the owner keeps the row open.
LEMMA OwnedStaysOpen ==
  ASSUME NEW r, NEW from \in Open, NEW s \in Statuses, <<from, s>> \in Allowed(r),
         s \notin Unowned
  PROVE  s \in Open
  BY DEF Statuses, Open, Settled, Unowned, Allowed, allowedContinuationTransition,
         allowedRootFinalTransition, allowedHandoffTransition

LEMMA ClaimPlan ==
  ASSUME BaseInv, NEW w \in Workers, Claims(w)
  PROVE  PlanInv'
<1>1. PICK r, statuses, next, mode : LegalClaim(w, r, statuses, next, mode)
  BY DEF Claims
<1>2. /\ r \in Rows
      /\ \A q \in Rows : q # r => row'[q] = row[q]
      /\ row'[r].status = next /\ next \in Open /\ row'[r].mode = mode
      /\ \A v \in Workers : v # w => at'[v] = at[v]
      /\ at'[w].row = r /\ at'[w].next = None
  BY <1>1, ClaimDoes DEF BaseInv
<1>3. \A q \in Rows : RowOK(q)'
  BY <1>1, <1>2 DEF BaseInv, PlanInv, RowOK, LegalClaim
<1>4. \A v \in Workers : PlanIsAllowed(v)' /\ (Busy(v) => at[v].row \in Rows)'
  BY <1>2 DEF BaseInv, PlanInv, PlanIsAllowed, Busy, Allowed
<1> QED BY <1>3, <1>4 DEF PlanInv

LEMMA AppliesPlan ==
  ASSUME BaseInv, NEW w \in Workers, Applies(w)
  PROVE  PlanInv'
<1>0. PICK r \in Rows : r = at[w].row
  BY AppliesDoes
<1> DEFINE s == at[w].next
<1>1. /\ at[w].pc = "holds" /\ r = at[w].row /\ s \in Statuses
      /\ <<row[r].status, s>> \in Allowed(r)
      /\ row[r].status \in Open /\ row[r].owner # None
      /\ \A q \in Rows : q # r => row'[q] = row[q]
      /\ row'[r].status = s /\ row'[r].mode = row[r].mode
      /\ row'[r].owner = (IF s \in Unowned THEN None ELSE row[r].owner)
  BY <1>0, AppliesDoes
<1>2. /\ \A v \in Workers : v # w => at'[v] = at[v]
      /\ \/ at'[w] = Idle
         \/ /\ at'[w].pc = "holds" /\ at'[w].row = r
            /\ at'[w].next # None =>
                 at'[w].next = at[w].next /\ at'[w].status = at[w].status
  BY <1>0, AppliesDoes
<1>3. \A q \in Rows : RowOK(q)'
  <2>1. s \notin Unowned => s \in Open /\ s # "unknown"
    BY <1>1, OwnedStaysOpen DEF Unowned
  <2> QED BY <1>1, <2>1 DEF BaseInv, PlanInv, RowOK
<1>4. \A v \in Workers : PlanIsAllowed(v)' /\ (Busy(v) => at[v].row \in Rows)'
  <2>1. PlanIsAllowed(w)' /\ (Busy(w) => at[w].row \in Rows)'
    BY <1>0, <1>1, <1>2 DEF BaseInv, PlanInv, PlanIsAllowed, Busy, Allowed, Idle
  <2> QED BY <1>2, <2>1 DEF BaseInv, PlanInv, PlanIsAllowed, Busy, Allowed
<1> QED BY <1>3, <1>4 DEF PlanInv

LEMMA LearnsPlan ==
  ASSUME BaseInv, NEW w \in Workers, Learns(w)
  PROVE  PlanInv'
<1>1. /\ row' = row
      /\ \A v \in Workers : v # w => at'[v] = at[v]
      /\ \/ at'[w] = Idle
         \/ /\ at'[w].row = at[w].row
            /\ \/ at'[w].pc = at[w].pc
               \/ at[w].pc = "claimed" /\ at'[w].pc = "holds"
            /\ PlanIsAllowed(w)'
  BY LearnsDoes
<1>2. \A v \in Workers : PlanIsAllowed(v)' /\ (Busy(v) => at[v].row \in Rows)'
  BY <1>1 DEF BaseInv, PlanInv, PlanIsAllowed, Busy, Allowed, Idle
<1> QED BY <1>1, <1>2 DEF BaseInv, PlanInv, RowOK

LEMMA ReleasesPlan ==
  ASSUME BaseInv, NEW w \in Workers, Releases(w)
  PROVE  PlanInv'
<1>1. /\ at'[w] = Idle /\ \A v \in Workers : v # w => at'[v] = at[v]
      /\ at[w].row \in Rows
      /\ \/ row' = row
         \/ /\ \A q \in Rows : q # at[w].row => row'[q] = row[q]
            /\ row'[at[w].row].owner = None
  BY ReleasesDoes
<1>2. \A v \in Workers : PlanIsAllowed(v)' /\ (Busy(v) => at[v].row \in Rows)'
  BY <1>1 DEF BaseInv, PlanInv, PlanIsAllowed, Busy, Allowed, Idle
<1> QED BY <1>1, <1>2 DEF BaseInv, PlanInv, RowOK

LEMMA OtherPlan ==
  ASSUME BaseInv, NEW r \in Rows, LeaseEnds(r) \/ DiscardContinuation(r)
  PROVE  PlanInv'
<1>1. /\ at' = at
      /\ \A q \in Rows : q # r => row'[q] = row[q]
      /\ row'[r].mode = row[r].mode
      /\ \/ row'[r].status = row[r].status /\ row'[r].owner = row[r].owner
         \/ row'[r].owner = None
  BY OtherDoes DEF BaseInv
<1>2. \A q \in Rows : RowOK(q)'
  BY <1>1 DEF BaseInv, PlanInv, RowOK
<1> QED BY <1>1, <1>2 DEF BaseInv, PlanInv, PlanIsAllowed, Busy, Allowed

LEMMA InitBase == OutboxInit => BaseInv
<1> SUFFICES ASSUME OutboxInit PROVE BaseInv
  OBVIOUS
<1>1. \A s \in {"pending", "absent"} : Unclaimed(s) \in RowStates
  BY DEF Unclaimed, RowStates, Statuses, Open
<1>2. \A r \in Rows : row[r].owner = None /\ row[r].lease = "none"
  BY DEF OutboxInit, Unclaimed
<1>3. row \in [Rows -> RowStates]
  BY <1>1 DEF OutboxInit
<1>4. OutboxTypeOK
  BY <1>2, <1>3, IdleTypes DEF OutboxInit, OutboxTypeOK
<1>5. PlanInv
  BY <1>2 DEF OutboxInit, PlanInv, PlanIsAllowed, RowOK, Busy, Idle
<1> QED BY <1>4, <1>5 DEF BaseInv

LEMMA StepBase == BaseInv /\ [OutboxNext]_outboxVars => BaseInv'
<1>1. ASSUME BaseInv, OutboxNext PROVE BaseInv'
  BY <1>1, StepTypes, StepCases, ClaimPlan, AppliesPlan, LearnsPlan, ReleasesPlan, OtherPlan
     DEF BaseInv
<1>2. ASSUME BaseInv, UNCHANGED outboxVars PROVE BaseInv'
  BY <1>2 DEF BaseInv, OutboxTypeOK, PlanInv, PlanIsAllowed, RowOK, Busy, Allowed, outboxVars
<1> QED BY <1>1, <1>2

\* Only allowed transitions are under way, and owned rows are open: this holds
\* also if a claim is read back after its lease ended.
THEOREM BaseInvariant == OutboxSpec => []BaseInv
  BY InitBase, StepBase, PTL DEF OutboxSpec

\* Rows, claims and histories keep the types of their Go fields, and a row has an
\* owner exactly if it has a lease (OutboxTypeOK).
THEOREM OutboxTypes == OutboxSpec => []OutboxTypeOK
<1>1. BaseInv => OutboxTypeOK
  BY DEF BaseInv
<1> QED BY <1>1, BaseInvariant, PTL

-----------------------------------------------------------------------------
(* The invariant of the fence.                                             *)

LEMMA IdleIsKept ==
  ASSUME NEW w \in Workers, at'[w] = Idle
  PROVE  ~Busy(w)' /\ ClaimIsKept(w)'
  BY DEF Busy, ClaimIsKept, Idle

\* A worker that does not move keeps its claim as long as its row does.
LEMMA OthersKeep ==
  ASSUME OutboxInv, NEW v \in Workers, at'[v] = at[v],
         Busy(v) => row'[at[v].row] = row[at[v].row]
  PROVE  ClaimIsKept(v)'
  BY DEF OutboxInv, FenceInv, ClaimIsKept, Busy

\* Whoever passes the fence of an open row has the latest claim of it.
LEMMA LatestWrites ==
  ASSUME OutboxInv, NEW w \in Workers, at[w].pc = "holds", PassesFence(w)
  PROVE  at[w].claim = row[at[w].row].token
<1>1. row[at[w].row].owner # None /\ at[w].token = row[at[w].row].token
  BY OutboxAssumption DEF PassesFence
<1>2. at[w].row \in Rows /\ ClaimIsKept(w) /\ Busy(w)
  BY DEF OutboxInv, BaseInv, PlanInv, FenceInv, Busy
<1>3. row[at[w].row].status \notin Settled
  BY <1>1, <1>2, StatusFacts DEF OutboxInv, BaseInv, PlanInv, RowOK
<1> QED BY <1>1, <1>2, <1>3 DEF ClaimIsKept

LEMMA ClaimFence ==
  ASSUME OutboxInv, NEW w \in Workers, Claims(w)
  PROVE  FenceInv'
<1>1. PICK r, statuses, next, mode : LegalClaim(w, r, statuses, next, mode)
  BY DEF Claims
<1>2. OutboxTypeOK
  BY DEF OutboxInv, BaseInv
<1> DEFINE Does ==
         /\ r \in Rows /\ ~Busy(w) /\ row[r].status \in Open /\ row[r].lease # "live"
         /\ \A q \in Rows : q # r => row'[q] = row[q]
         /\ row'[r].status = next /\ next \in Open /\ row'[r].mode = mode
         /\ row'[r].owner = OwnerOf[w] /\ row'[r].owner # None /\ row'[r].lease = "live"
         /\ row'[r].token = row[r].token + 1 /\ row[r].token \in Nat
         /\ \A v \in Workers : v # w => at'[v] = at[v]
         /\ at'[w].pc = "claimed" /\ at'[w].row = r /\ at'[w].claim = row[r].token + 1
         /\ at'[w].next = None
<1>3. Does
  BY <1>1, <1>2, ClaimDoes
<1>4. \A v \in Workers : ClaimIsKept(v)'
  <2> SUFFICES ASSUME NEW v \in Workers PROVE ClaimIsKept(v)'
    OBVIOUS
  <2>0. ClaimIsKept(v) /\ at[v].claim \in Nat /\ (Busy(v) => at[v].row \in Rows)
    BY DEF OutboxInv, BaseInv, PlanInv, FenceInv, OutboxTypeOK, WorkerStates
  <2>1. CASE v = w
    BY <1>3, <2>1 DEF ClaimIsKept, Busy
  <2>2. CASE v # w /\ (Busy(v) => at[v].row # r)
    BY <1>3, <2>0, <2>2, OthersKeep DEF ClaimIsKept
  <2>3. CASE v # w /\ Busy(v) /\ at[v].row = r
    <3>1. at'[v] = at[v] /\ at[v].pc # "claimed"
      BY <1>3, <2>0, <2>3, StatusFacts DEF ClaimIsKept
    <3>2. at[v].claim <= row[r].token /\ (at[v].pc = "holds" => at[v].token = at[v].claim)
      BY <1>3, <2>0, <2>3, StatusFacts DEF ClaimIsKept
    <3>3. at[v].claim <= row'[r].token
      BY <1>3, <2>0, <3>2
    <3> QED BY <1>3, <2>0, <2>3, <3>1, <3>2, <3>3 DEF ClaimIsKept, Busy
  <2> QED BY <2>1, <2>2, <2>3
<1>5. ClaimsDiffer'
  <2> SUFFICES ASSUME NEW u \in Workers, NEW v \in Workers, u # v, Busy(u)', Busy(v)',
                      at'[u].row = at'[v].row
               PROVE  at'[u].claim # at'[v].claim
    BY DEF ClaimsDiffer
  <2>0. \A x \in Workers : x # w /\ Busy(x) /\ at[x].row = r =>
          at[x].claim # row[r].token + 1
    BY <1>3 DEF OutboxInv, BaseInv, FenceInv, OutboxTypeOK, WorkerStates, ClaimIsKept
  <2>1. CASE u = w
    BY <1>3, <2>0, <2>1 DEF Busy
  <2>2. CASE v = w
    BY <1>3, <2>0, <2>2 DEF Busy
  <2>3. CASE u # w /\ v # w
    BY <1>3, <2>3 DEF OutboxInv, FenceInv, ClaimsDiffer, Busy
  <2> QED BY <2>1, <2>2, <2>3
<1> QED BY <1>4, <1>5 DEF FenceInv

\* A write leaves no other claim of the row that could matter.
LEMMA AppliesFence ==
  ASSUME OutboxInv, NEW w \in Workers, Applies(w)
  PROVE  FenceInv'
<1> DEFINE r == at[w].row
           s == at[w].next
<1>1. /\ Busy(w) /\ at[w].pc = "holds" /\ r \in Rows /\ s \in Statuses
      /\ <<row[r].status, s>> \in Allowed(r)
      /\ row[r].status \in Open /\ row[r].owner # None
      /\ at[w].claim = row[r].token
  BY AppliesDoes, LatestWrites DEF OutboxInv, Applies
<1>2. /\ \A q \in Rows : q # r => row'[q] = row[q]
      /\ row'[r].status = s /\ row'[r].mode = row[r].mode
      /\ row'[r].owner = (IF s \in Unowned THEN None ELSE row[r].owner)
      /\ row'[r].lease = (IF s \in Unowned THEN "none" ELSE row[r].lease)
  BY AppliesDoes DEF OutboxInv
<1>3. row[r].token \in Nat /\ row'[r].token \in Nat /\ row[r].token <= row'[r].token
  <2>1. row[r].token \in Nat
    BY <1>1 DEF OutboxInv, BaseInv, OutboxTypeOK, RowStates
  <2>2. row'[r].token = row[r].token \/ row'[r].token = row[r].token + 1
    BY AppliesDoes DEF OutboxInv
  <2> QED BY <2>1, <2>2
<1>4. \A v \in Workers : v # w => at'[v] = at[v]
  BY AppliesDoes DEF OutboxInv
<1>5. \/ at'[w] = Idle
      \/ /\ at'[w].pc = "holds" /\ at'[w].row = r /\ at'[w].claim = at[w].claim
         /\ at'[w].token = at[w].token
         /\ at'[w].next # None =>
              at'[w].next = at[w].next /\ at'[w].status = at[w].status
  BY AppliesDoes DEF OutboxInv
<1>6. at[w].token = at[w].claim /\ s # None
  BY <1>1, StatusFacts DEF OutboxInv, FenceInv, ClaimIsKept, Applies
<1>7. s \in Settled => s \in Unowned
  BY <1>1 DEF Allowed, allowedContinuationTransition, allowedRootFinalTransition,
              allowedHandoffTransition, Settled, Unowned
<1>8. \A v \in Workers : ClaimIsKept(v)'
  <2> SUFFICES ASSUME NEW v \in Workers PROVE ClaimIsKept(v)'
    OBVIOUS
  <2>0. ClaimIsKept(v) /\ at[v].claim \in Nat /\ (Busy(v) => at[v].row \in Rows)
    BY DEF OutboxInv, BaseInv, PlanInv, FenceInv, OutboxTypeOK, WorkerStates
  <2>1. CASE v = w /\ at'[w] = Idle
    BY <2>1, IdleIsKept
  <2>2. CASE v = w /\ at'[w] # Idle
    <3>1. ClaimIsKept(w)'
      BY <1>1, <1>3, <1>5, <1>6, <2>2 DEF ClaimIsKept, Busy
    <3> QED BY <2>2, <3>1
  <2>3. CASE v # w /\ (Busy(v) => at[v].row # r)
    BY <1>2, <1>4, <2>0, <2>3, OthersKeep DEF ClaimIsKept
  <2>4. CASE v # w /\ Busy(v) /\ at[v].row = r
    <3>1. at[v].claim # row[r].token
      BY <1>1, <2>4 DEF OutboxInv, FenceInv, ClaimsDiffer
    <3>2. at[v].pc = "holds" /\ at[v].token = at[v].claim
      BY <1>1, <2>0, <2>4, <3>1, StatusFacts
         DEF ClaimIsKept, OutboxInv, BaseInv, OutboxTypeOK, WorkerStates, Busy
    <3>3. at[v].claim <= row'[r].token
      BY <1>3, <2>0, <2>4 DEF ClaimIsKept
    <3> QED BY <1>1, <1>4, <2>0, <2>4, <3>2, <3>3 DEF ClaimIsKept, Busy
  <2> QED BY <2>1, <2>2, <2>3, <2>4
<1>9. ClaimsDiffer'
  <2> SUFFICES ASSUME NEW u \in Workers, NEW v \in Workers, u # v, Busy(u)', Busy(v)',
                      at'[u].row = at'[v].row
               PROVE  at'[u].claim # at'[v].claim
    BY DEF ClaimsDiffer
  <2>1. /\ Busy(u) /\ at'[u].row = at[u].row /\ at'[u].claim = at[u].claim
        /\ Busy(v) /\ at'[v].row = at[v].row /\ at'[v].claim = at[v].claim
    BY <1>1, <1>4, <1>5, IdleIsKept DEF Busy
  <2> QED BY <2>1 DEF OutboxInv, FenceInv, ClaimsDiffer
<1> QED BY <1>8, <1>9 DEF FenceInv

LEMMA LearnsFence ==
  ASSUME OutboxInv, NEW w \in Workers, Learns(w)
  PROVE  FenceInv'
<1>1. /\ row' = row
      /\ \A v \in Workers : v # w => at'[v] = at[v]
      /\ \/ at'[w] = Idle
         \/ /\ at'[w].row = at[w].row /\ at'[w].claim = at[w].claim
            /\ \/ at'[w].pc = at[w].pc /\ at'[w].token = at[w].token
               \/ /\ at[w].pc = "claimed" /\ at'[w].pc = "holds"
                  /\ at'[w].token = row[at[w].row].token
            /\ PlanIsAllowed(w)'
  BY LearnsDoes DEF OutboxInv
<1>2. \A v \in Workers : ClaimIsKept(v)'
  <2> SUFFICES ASSUME NEW v \in Workers PROVE ClaimIsKept(v)'
    OBVIOUS
  <2>1. CASE v # w
    BY <1>1, <2>1, OthersKeep
  <2>2. CASE v = w /\ at'[w] = Idle
    BY <2>2, IdleIsKept
  <2>3. CASE v = w /\ at'[w] # Idle
    <3>1. ClaimIsKept(w)
      BY DEF OutboxInv, FenceInv
    <3>2. ClaimIsKept(w)'
      BY <1>1, <2>3, <3>1 DEF ClaimIsKept, Busy
    <3> QED BY <1>1, <2>3, <3>2
  <2> QED BY <2>1, <2>2, <2>3
<1>3. ClaimsDiffer'
  <2> SUFFICES ASSUME NEW u \in Workers, NEW v \in Workers, u # v, Busy(u)', Busy(v)',
                      at'[u].row = at'[v].row
               PROVE  at'[u].claim # at'[v].claim
    BY DEF ClaimsDiffer
  <2>1. \A x \in Workers : Busy(x)' =>
          Busy(x) /\ at'[x].row = at[x].row /\ at'[x].claim = at[x].claim
    <3> TAKE x \in Workers
    <3>1. CASE x # w
      BY <1>1, <3>1 DEF Busy
    <3>2. CASE x = w
      BY ONLY <1>1, <3>2, IdlePc DEF Busy
    <3> QED BY <3>1, <3>2
  <2> QED BY <2>1 DEF OutboxInv, FenceInv, ClaimsDiffer
<1> QED BY <1>2, <1>3 DEF FenceInv

\* Claims of others differ from the one that is given back.
LEMMA ReleasesFence ==
  ASSUME OutboxInv, NEW w \in Workers, Releases(w)
  PROVE  FenceInv'
<1> DEFINE r == at[w].row
<1>1. /\ Busy(w) /\ at'[w] = Idle /\ \A v \in Workers : v # w => at'[v] = at[v]
      /\ r \in Rows
      /\ \/ row' = row
         \/ /\ \A q \in Rows : q # r => row'[q] = row[q]
            /\ at[w].claim = row[r].token /\ row[r].status \in Open
            /\ row'[r].owner = None /\ row'[r].token = row[r].token
            /\ row'[r].status = row[r].status
  <2>1. BaseInv
    BY DEF OutboxInv
  <2>2. PassesFence(w) => at[w].claim = row[r].token
    <3>1. at[w].pc = "holds"
      BY DEF Releases, ReleaseRootRunLease
    <3> QED BY <3>1, LatestWrites
  <2> QED BY <2>1, <2>2, ReleasesDoes
<1>2. \A v \in Workers : ClaimIsKept(v)'
  <2> SUFFICES ASSUME NEW v \in Workers PROVE ClaimIsKept(v)'
    OBVIOUS
  <2>0. ClaimIsKept(v) /\ (Busy(v) => at[v].row \in Rows)
    BY DEF OutboxInv, BaseInv, PlanInv, FenceInv
  <2>1. CASE v = w
    BY <1>1, <2>1, IdleIsKept
  <2>2. CASE v # w /\ (row' = row \/ (Busy(v) => at[v].row # r))
    BY <1>1, <2>0, <2>2, OthersKeep DEF ClaimIsKept
  <2>3. CASE v # w /\ row' # row /\ Busy(v) /\ at[v].row = r
    <3>1. at[v].claim # row[r].token
      BY <1>1, <2>3 DEF OutboxInv, FenceInv, ClaimsDiffer
    <3>2. at[v].pc = "holds" /\ at[v].token = at[v].claim
      BY <1>1, <2>0, <2>3, <3>1, StatusFacts
        DEF ClaimIsKept, OutboxInv, BaseInv, OutboxTypeOK, WorkerStates, Busy
    <3> QED BY <1>1, <2>0, <2>3, <3>2 DEF ClaimIsKept, Busy
  <2> QED BY <2>1, <2>2, <2>3
<1>3. ClaimsDiffer'
  <2>1. \A x \in Workers : Busy(x)' => x # w
    BY <1>1, IdleIsKept
  <2> QED BY <1>1, <2>1 DEF OutboxInv, FenceInv, ClaimsDiffer, Busy
<1> QED BY <1>2, <1>3 DEF FenceInv

LEMMA DiscardFence ==
  ASSUME OutboxInv, NEW r \in Rows, DiscardContinuation(r)
  PROVE  FenceInv'
<1> DEFINE gone == [row[r] EXCEPT !.status = "discarded", !.owner = None,
                      !.lease = "none", !.token = row[r].token + 1]
<1>1. row' = [row EXCEPT ![r] = gone] /\ at' = at
  BY DEF DiscardContinuation
<1>2. row[r] \in RowStates
  BY DEF OutboxInv, BaseInv, OutboxTypeOK
<1>3. gone.status \in Settled /\ gone.owner = None /\ gone.token = row[r].token + 1
  BY <1>2 DEF RowStates, Settled
<1> HIDE DEF gone
<1>4. row'[r] = gone /\ \A q \in Rows : q # r => row'[q] = row[q]
  BY <1>1 DEF OutboxInv, BaseInv, OutboxTypeOK
<1>5. \A v \in Workers : ClaimIsKept(v)'
  <2> SUFFICES ASSUME NEW v \in Workers PROVE ClaimIsKept(v)'
    OBVIOUS
  <2>0. /\ ClaimIsKept(v) /\ at[v].claim \in Nat /\ row[r].token \in Nat
        /\ Busy(v) => at[v].row \in Rows
    BY <1>2 DEF OutboxInv, BaseInv, PlanInv, FenceInv, OutboxTypeOK, WorkerStates, RowStates
  <2>1. CASE Busy(v) => at[v].row # r
    BY <1>1, <1>4, <2>0, <2>1, OthersKeep DEF ClaimIsKept
  <2>2. CASE Busy(v) /\ at[v].row = r
    <3>1. at[v].claim <= row'[r].token
      BY <1>3, <1>4, <2>0, <2>2 DEF ClaimIsKept
    <3> QED BY <1>1, <1>3, <1>4, <2>0, <2>2, <3>1 DEF ClaimIsKept, Busy
  <2> QED BY <2>1, <2>2
<1>6. ClaimsDiffer'
  BY <1>1 DEF OutboxInv, FenceInv, ClaimsDiffer, Busy
<1> QED BY <1>5, <1>6 DEF FenceInv

\* This is where a claim must have been read back.
LEMMA LeaseEndsFence ==
  ASSUME OutboxInv, PromptReads, NEW r \in Rows, LeaseEnds(r)
  PROVE  FenceInv'
<1> DEFINE over == [row[r] EXCEPT !.lease = "expired"]
<1>1. row' = [row EXCEPT ![r] = over] /\ at' = at
      /\ \A v \in Workers : ~(at[v].pc = "claimed" /\ at[v].row = r)
  BY DEF LeaseEnds
<1>2. row[r] \in RowStates
  BY DEF OutboxInv, BaseInv, OutboxTypeOK
<1>3. /\ over.status = row[r].status /\ over.owner = row[r].owner
      /\ over.token = row[r].token /\ over.mode = row[r].mode
  BY <1>2 DEF RowStates
<1> HIDE DEF over
<1>4. row'[r] = over /\ \A q \in Rows : q # r => row'[q] = row[q]
  BY <1>1 DEF OutboxInv, BaseInv, OutboxTypeOK
<1>5. \A v \in Workers : ClaimIsKept(v)'
  <2> SUFFICES ASSUME NEW v \in Workers PROVE ClaimIsKept(v)'
    OBVIOUS
  <2>0. ClaimIsKept(v) /\ (Busy(v) => at[v].row \in Rows)
    BY DEF OutboxInv, BaseInv, PlanInv, FenceInv
  <2>1. CASE Busy(v) => at[v].row # r
    BY <1>1, <1>4, <2>0, <2>1, OthersKeep DEF ClaimIsKept
  <2>2. CASE Busy(v) /\ at[v].row = r
    BY <1>1, <1>3, <1>4, <2>0, <2>2 DEF ClaimIsKept, Busy
  <2> QED BY <2>1, <2>2
<1>6. ClaimsDiffer'
  BY <1>1 DEF OutboxInv, FenceInv, ClaimsDiffer, Busy
<1> QED BY <1>5, <1>6 DEF FenceInv

LEMMA InitFence == OutboxInit => OutboxInv
<1> SUFFICES ASSUME OutboxInit PROVE OutboxInv
  OBVIOUS
<1>1. FenceInv
  BY DEF OutboxInit, FenceInv, ClaimIsKept, ClaimsDiffer, Busy, Idle
<1> QED BY <1>1, InitBase DEF OutboxInv

LEMMA StutterFence == OutboxInv /\ UNCHANGED outboxVars => OutboxInv'
<1>1. FenceInv /\ UNCHANGED outboxVars => FenceInv'
  BY DEF FenceInv, ClaimIsKept, ClaimsDiffer, Busy, outboxVars
<1> QED BY <1>1, StepBase DEF OutboxInv

LEMMA NextFence ==
  ASSUME OutboxInv, PromptReads, OutboxNext
  PROVE  OutboxInv'
<1>1. BaseInv /\ OutboxTypeOK /\ BaseInv'
  BY StepBase DEF OutboxInv, BaseInv
<1>2. FenceInv'
  BY <1>1, StepCases, ClaimFence, AppliesFence, LearnsFence, ReleasesFence, DiscardFence,
     LeaseEndsFence
<1> QED BY <1>1, <1>2 DEF OutboxInv

-----------------------------------------------------------------------------
(* Theorems.                                                               *)

\* The inductive invariant of the rows and of those who claim them.
THEOREM OutboxInvariant ==
  ASSUME PromptReads
  PROVE  OutboxSpec => []OutboxInv
<1>1. OutboxInv /\ [OutboxNext]_outboxVars => OutboxInv'
  BY NextFence, StutterFence
<1> QED BY InitFence, <1>1, PTL DEF OutboxSpec

\* Two claims that both pass the fence would have one token.
LEMMA FenceSeparates ==
  ASSUME OutboxInv
  PROVE  OneWriter
<1> SUFFICES ASSUME NEW w \in Workers, NEW v \in Workers, w # v,
                    at[w].pc = "holds", at[v].pc = "holds", at[w].row = at[v].row,
                    PassesFence(w), PassesFence(v)
             PROVE  FALSE
  BY DEF OneWriter
<1> DEFINE r == at[w].row
<1>1. row[r].owner # None /\ at[w].token = row[r].token /\ at[v].token = row[r].token
  BY OutboxAssumption DEF PassesFence
<1>2. ClaimIsKept(w) /\ ClaimIsKept(v) /\ Busy(w) /\ Busy(v) /\ r \in Rows
  BY DEF OutboxInv, BaseInv, PlanInv, FenceInv, Busy
<1>3. row[r].status \notin Settled
  BY <1>1, <1>2, StatusFacts DEF OutboxInv, BaseInv, PlanInv, RowOK
<1>4. at[w].claim = at[v].claim
  BY <1>1, <1>2, <1>3 DEF ClaimIsKept
<1> QED BY <1>2, <1>4 DEF OutboxInv, FenceInv, ClaimsDiffer

\* At no time can two workers write to one row, however late they are.
THEOREM OneWriterHolds ==
  ASSUME PromptReads
  PROVE  OutboxSpec => []OneWriter
<1>1. OutboxInv => OneWriter
  BY FenceSeparates
<1> QED BY <1>1, OutboxInvariant, PTL

\* What one step does to a hand-off whose prompt may be under way.
LEMMA UncertainStep ==
  ASSUME BaseInv, OutboxNext, NEW h \in Handoffs,
         row[h].status \in {"sending", "unknown"},
         row'[h].status \notin {"sending", "unknown", "started"}
  PROVE  row[h].mode = "reconcile_only"
<1>0. h \in Rows /\ OutboxTypeOK
  BY DEF Rows, BaseInv
<1>1. ASSUME NEW w \in Workers, Claims(w) PROVE FALSE
  <2>1. PICK r, statuses, next, mode : LegalClaim(w, r, statuses, next, mode)
    BY <1>1 DEF Claims
  <2>2. /\ row'[r].status = next /\ \A q \in Rows : q # r => row'[q] = row[q]
    BY <1>0, <2>1, ClaimDoes
  <2> QED BY <1>0, <2>1, <2>2 DEF LegalClaim
<1>2. ASSUME NEW w \in Workers, Applies(w) PROVE row[h].mode = "reconcile_only"
  <2> DEFINE r == at[w].row
             s == at[w].next
  <2>2. /\ r \in Rows /\ <<row[r].status, s>> \in Allowed(r) /\ row[r].owner # None
        /\ row'[r].status = s /\ \A q \in Rows : q # r => row'[q] = row[q]
    BY <1>2, AppliesDoes
  <2>3. r = h
    BY <1>0, <2>2
  <2>4. <<row[h].status, s>> \in allowedHandoffTransition
    BY <2>2, <2>3, OutboxAssumption DEF Allowed
  <2>5. s = "pending" \/ row[h].status = "unknown"
    BY <2>2, <2>3, <2>4 DEF allowedHandoffTransition
  <2>6. CASE s = "pending"
    BY <1>2, <2>3, <2>6 DEF Applies, MayReturn
  <2>7. CASE row[h].status = "unknown"
    BY <1>0, <2>2, <2>3, <2>7 DEF BaseInv, PlanInv, RowOK
  <2> QED BY <2>5, <2>6, <2>7
<1>3. ASSUME NEW w \in Workers, Learns(w) PROVE FALSE
  BY <1>3 DEF Learns
<1>4. ASSUME NEW w \in Workers, Releases(w) PROVE FALSE
  BY <1>0, <1>4, ReleasesDoes
<1>5. ASSUME NEW r \in Rows, LeaseEnds(r) \/ DiscardContinuation(r) PROVE FALSE
  BY <1>0, <1>5, OtherDoes
<1> QED BY <1>0, <1>1, <1>2, <1>3, <1>4, <1>5, StepCases

\* A prompt that may be under way is given up or sent again only by a claim for
\* reconciliation, whenever the claims are read back (UncertaintyIsKept).
THEOREM UncertaintyHolds == OutboxSpec => UncertaintyIsKept
<1> DEFINE Kept == \A r \in Handoffs :
       /\ row[r].status \in {"sending", "unknown"}
       /\ row'[r].status \notin {"sending", "unknown", "started"}
       => row[r].mode = "reconcile_only"
<1>1. BaseInv /\ [OutboxNext]_outboxVars => [Kept]_outboxVars
  BY UncertainStep
<1> QED BY <1>1, BaseInvariant, PTL DEF OutboxSpec, UncertaintyIsKept

-----------------------------------------------------------------------------
(* How often a prompt is sent.                                             *)

\* Worker w was answered that hand-off r is "sending", or the ledger holds that
\* answer for it, and it has not sent the prompt.
MaySend(w, r) ==
  /\ ClaimedBy(w, r)
  /\ \/ at[w].status = "sending" /\ at[w].unsent
     \/ at[w].next = "sending" /\ at[w].recorded

Senders(r) == { w \in Workers : MaySend(w, r) }

\* A hand-off that left "leased" has used its one prompt, sent or not.
Used(r) == IF row[r].status \in {"absent", "pending", "leased"} THEN 0 ELSE 1

\* The prompts sent and those that may still be sent are paid for by the returns
\* to pending and the dispatch under way.
Budget(r) ==
  /\ IsFiniteSet(Senders(r))
  /\ prompts[r] + Cardinality(Senders(r)) <= returns[r] + Used(r)

\* Nothing is left to send or to be replayed from before the claim.
FreshClaim(w) ==
  /\ at[w].pc # "holds" => ~at[w].unsent
  /\ at[w].next = None => ~at[w].recorded

PromptInv == BaseInv /\ (\A w \in Workers : FreshClaim(w)) /\ (\A r \in Handoffs : Budget(r))

LEMMA IdleIsFresh ==
  ASSUME NEW w \in Workers, at'[w] = Idle
  PROVE  FreshClaim(w)' /\ \A q : ~MaySend(w, q)'
  BY DEF FreshClaim, MaySend, ClaimedBy, Idle

\* The budget is kept where nobody new may send, nothing is sent, and a return
\* to pending is counted.
LEMMA BudgetKept ==
  ASSUME OutboxTypeOK, OutboxTypeOK', NEW q \in Handoffs, Budget(q),
         \A v \in Workers : MaySend(v, q)' => MaySend(v, q),
         prompts'[q] = prompts[q],
         returns[q] + Used(q) <= returns'[q] + Used(q)'
  PROVE  Budget(q)'
<1>1. Senders(q)' \subseteq Senders(q) /\ IsFiniteSet(Senders(q))
  BY DEF Senders, Budget
<1>2. /\ IsFiniteSet(Senders(q)') /\ Cardinality(Senders(q)') <= Cardinality(Senders(q))
      /\ Cardinality(Senders(q)) \in Nat /\ Cardinality(Senders(q)') \in Nat
  BY <1>1, FS_Subset, FS_CardinalityType
<1>3. /\ prompts[q] \in Nat /\ returns[q] \in Nat /\ returns'[q] \in Nat
      /\ Used(q) \in Nat /\ Used(q)' \in Nat
  BY DEF OutboxTypeOK, Used
<1> QED BY <1>2, <1>3 DEF Budget

\* What a transition of hand-off r does to its budget.
LEMMA AppliesAt ==
  ASSUME BaseInv, NEW w \in Workers, FreshClaim(w), Applies(w)
  PROVE  /\ FreshClaim(w)'
         /\ \A q : MaySend(w, q)' => q = at[w].row /\ (at[w].next = "sending" \/ MaySend(w, q))
<1>0. at[w] \in WorkerStates /\ at \in [Workers -> WorkerStates] /\ at[w].next # None
  BY DEF BaseInv, OutboxTypeOK, Applies
<1>1. at[w].pc = "holds"
  BY <1>0 DEF BaseInv, PlanInv, PlanIsAllowed
<1>2. CASE Answered(w)
  <2> DEFINE moved == [at[w] EXCEPT !.status = at[w].next, !.rev = at[w].rev + 1,
                        !.next = None, !.recorded = FALSE, !.unsent = TRUE]
  <2>1. /\ moved.pc = at[w].pc /\ moved.row = at[w].row /\ moved.status = at[w].next
        /\ moved.next = None /\ moved.recorded = FALSE
    BY <1>0 DEF WorkerStates
  <2>2. at' = [at EXCEPT ![w] = IF at[w].next \in Unowned THEN Idle ELSE moved]
    BY <1>2 DEF Answered
  <2> HIDE DEF moved
  <2>3. at'[w] = Idle \/ at'[w] = moved
    BY <1>0, <2>2
  <2>4. CASE at'[w] = moved
    BY <1>1, <2>1, <2>4 DEF FreshClaim, MaySend, ClaimedBy
  <2> QED BY <2>3, <2>4, IdleIsFresh
<1>3. CASE at' = [at EXCEPT ![w].recorded = at[w].row \notin Continuations]
  <2> DEFINE kept == [at[w] EXCEPT !.recorded = at[w].row \notin Continuations]
  <2>1. /\ kept.pc = at[w].pc /\ kept.row = at[w].row /\ kept.status = at[w].status
        /\ kept.next = at[w].next /\ kept.unsent = at[w].unsent
    BY <1>0 DEF WorkerStates
  <2>2. at'[w] = kept
    BY <1>0, <1>3
  <2> HIDE DEF kept
  <2> QED BY <1>0, <1>1, <2>1, <2>2 DEF FreshClaim, MaySend, ClaimedBy
<1> QED BY <1>2, <1>3 DEF Applies, Applied

LEMMA AppliesPrompt ==
  ASSUME PromptInv, NEW w \in Workers, Applies(w)
  PROVE  PromptInv'
<1>0. /\ BaseInv /\ OutboxTypeOK /\ BaseInv' /\ OutboxTypeOK'
  BY AppliesPlan, AppliesTypes DEF PromptInv, BaseInv
<1>1. PICK r \in Rows : r = at[w].row
  BY <1>0, AppliesDoes
<1> DEFINE s == at[w].next
<1>2. /\ <<row[r].status, s>> \in Allowed(r) /\ row'[r].status = s
      /\ \A q \in Rows : q # r => row'[q] = row[q]
      /\ \A v \in Workers : v # w => at'[v] = at[v]
      /\ at[w].pc = "holds"
  BY <1>0, <1>1, AppliesDoes
<1>3. /\ prompts' = prompts
      /\ \A q \in Handoffs :
           returns'[q] = IF q = r /\ s = "pending" THEN returns[q] + 1 ELSE returns[q]
  BY <1>0, <1>1 DEF Applies, Applied, OutboxTypeOK
<1>4. /\ FreshClaim(w)'
      /\ \A q : MaySend(w, q)' => q = r /\ (s = "sending" \/ MaySend(w, q))
  BY <1>0, <1>1, AppliesAt DEF PromptInv
<1>5. \A v \in Workers : FreshClaim(v)'
  BY <1>2, <1>4 DEF PromptInv, FreshClaim
<1>6. \A v \in Workers : \A q : v # w /\ MaySend(v, q)' => MaySend(v, q)
  BY <1>2 DEF MaySend, ClaimedBy
<1>7. ASSUME NEW q \in Handoffs PROVE Budget(q)'
  <2>0. /\ Budget(q) /\ q \in Rows
        /\ prompts[q] \in Nat /\ returns[q] \in Nat /\ Used(q) \in {0, 1} /\ Used(q)' \in {0, 1}
    BY <1>0, <1>7 DEF PromptInv, Rows, OutboxTypeOK, Used
  <2>1. CASE q # r
    <3>1. Used(q)' = Used(q) /\ returns'[q] = returns[q]
      BY <1>2, <1>3, <2>0, <2>1 DEF Used
    <3>2. \A v \in Workers : MaySend(v, q)' => MaySend(v, q)
      BY <1>4, <1>6, <2>1
    <3> QED BY <1>0, <1>3, <2>0, <3>1, <3>2, BudgetKept
  <2>2. CASE q = r /\ s # "sending"
    <3>1. <<row[r].status, s>> \in allowedHandoffTransition
      BY <1>2, <2>2, OutboxAssumption DEF Allowed
    <3>2. s # "pending" => Used(q)' = 1
      BY <1>2, <2>2, <3>1 DEF Used, allowedHandoffTransition
    <3>3. returns[q] + Used(q) <= returns'[q] + Used(q)'
      BY <1>3, <2>0, <2>2, <3>2
    <3>4. \A v \in Workers : MaySend(v, q)' => MaySend(v, q)
      BY <1>4, <1>6, <2>2
    <3> QED BY <1>0, <1>3, <2>0, <3>3, <3>4, BudgetKept
  <2>3. CASE q = r /\ s = "sending"
    <3>1. <<row[r].status, s>> \in allowedHandoffTransition
      BY <1>2, <2>3, OutboxAssumption DEF Allowed
    <3>2. Used(q) = 0 /\ Used(q)' = 1
      BY <1>2, <2>3, <3>1 DEF Used, allowedHandoffTransition
    <3>3. returns'[q] = returns[q]
      BY <1>3, <2>3
    <3>4. Senders(q)' \subseteq Senders(q) \cup {w}
      BY <1>6 DEF Senders
    <3>5. /\ IsFiniteSet(Senders(q) \cup {w})
          /\ Cardinality(Senders(q) \cup {w}) <= Cardinality(Senders(q)) + 1
          /\ Cardinality(Senders(q)) \in Nat /\ Cardinality(Senders(q) \cup {w}) \in Nat
      <4>1. IsFiniteSet(Senders(q)) /\ Cardinality(Senders(q)) \in Nat
        BY <2>0, FS_CardinalityType DEF Budget
      <4>2. /\ IsFiniteSet(Senders(q) \cup {w})
            /\ \/ Cardinality(Senders(q) \cup {w}) = Cardinality(Senders(q))
               \/ Cardinality(Senders(q) \cup {w}) = Cardinality(Senders(q)) + 1
        BY <4>1, FS_AddElement
      <4> QED BY <4>1, <4>2
    <3>6. /\ IsFiniteSet(Senders(q)') /\ Cardinality(Senders(q)') \in Nat
          /\ Cardinality(Senders(q)') <= Cardinality(Senders(q) \cup {w})
      BY <3>4, <3>5, FS_Subset, FS_CardinalityType
    <3>7. prompts[q] + Cardinality(Senders(q)) <= returns[q] + 0
      BY <2>0, <3>2 DEF Budget
    <3>8. prompts'[q] + Cardinality(Senders(q)') <= returns'[q] + Used(q)'
      BY <1>3, <2>0, <3>2, <3>3, <3>5, <3>6, <3>7
    <3> QED BY <3>6, <3>8 DEF Budget
  <2> QED BY <2>1, <2>2, <2>3
<1> QED BY <1>0, <1>5, <1>7 DEF PromptInv

LEMMA ClaimPrompt ==
  ASSUME PromptInv, NEW w \in Workers, Claims(w)
  PROVE  PromptInv'
<1>0. /\ BaseInv /\ OutboxTypeOK /\ BaseInv' /\ OutboxTypeOK'
  BY ClaimPlan, ClaimTypes DEF PromptInv, BaseInv
<1>1. PICK r, statuses, next, mode : LegalClaim(w, r, statuses, next, mode)
  BY DEF Claims
<1>2. /\ \A q \in Rows : q # r => row'[q] = row[q]
      /\ row'[r].status = next /\ row[r].status \in Open
      /\ \A v \in Workers : v # w => at'[v] = at[v]
      /\ ~at'[w].recorded /\ ~at'[w].unsent
      /\ UNCHANGED <<prompts, returns>>
  BY <1>0, <1>1, ClaimDoes
<1>3. \A v \in Workers : FreshClaim(v)'
  BY <1>2 DEF PromptInv, FreshClaim
<1>4. ASSUME NEW q \in Handoffs PROVE Budget(q)'
  <2>1. \A v \in Workers : MaySend(v, q)' => MaySend(v, q)
    BY <1>2 DEF MaySend, ClaimedBy
  <2>2. Used(q)' = Used(q)
    BY <1>1, <1>2 DEF Used, LegalClaim, Rows
  <2> QED BY <1>0, <1>2, <2>1, <2>2, BudgetKept DEF PromptInv, OutboxTypeOK, Used
<1> QED BY <1>0, <1>3, <1>4 DEF PromptInv

\* A prompt is sent by one who might send it, and he will not again.
LEMMA SendPromptPrompt ==
  ASSUME PromptInv, BaseInv', NEW w \in Workers, SendPrompt(w), row' = row
  PROVE  PromptInv'
<1>0. /\ BaseInv /\ OutboxTypeOK /\ OutboxTypeOK' /\ at[w] \in WorkerStates
      /\ at \in [Workers -> WorkerStates]
  BY DEF PromptInv, BaseInv, OutboxTypeOK
<1>1. PICK r \in Handoffs : r = at[w].row
  BY DEF SendPrompt
<1> DEFINE new == [at[w] EXCEPT !.unsent = FALSE]
<1>2. /\ new.pc = at[w].pc /\ new.row = at[w].row /\ new.status = at[w].status
      /\ new.next = at[w].next /\ new.recorded = at[w].recorded /\ new.unsent = FALSE
  BY <1>0 DEF WorkerStates
<1>3. at' = [at EXCEPT ![w] = new]
  BY DEF SendPrompt
<1> HIDE DEF new
<1>4. /\ at'[w] = new /\ \A v \in Workers : v # w => at'[v] = at[v]
      /\ at[w].status = "sending" /\ at[w].unsent
  BY <1>0, <1>3 DEF SendPrompt
<1>5. \A v \in Workers : FreshClaim(v)'
  BY <1>2, <1>4 DEF PromptInv, FreshClaim
<1>6. r \notin Continuations \cup RootFinals /\ r \in Rows /\ at[w].pc # "idle"
  <2>1. at[w].pc = "holds"
    BY <1>0, <1>4 DEF PromptInv, FreshClaim
  <2> QED BY <2>1, OutboxAssumption DEF Rows
<1>7. ~(at[w].next = "sending" /\ at[w].recorded)
  <2>1. <<"sending", "sending">> \notin Allowed(r)
    BY <1>6 DEF Allowed, allowedHandoffTransition
  <2>2. at[w].next # None => at[w].next # "sending"
    BY <1>0, <1>1, <1>4, <2>1 DEF BaseInv, PlanInv, PlanIsAllowed
  <2> QED BY <2>2 DEF PromptInv, FreshClaim
<1>8. MaySend(w, r) /\ \A q : ~MaySend(w, q)'
  BY <1>1, <1>2, <1>4, <1>6, <1>7 DEF MaySend, ClaimedBy
<1>9. /\ \A q \in Handoffs : Used(q)' = Used(q)
      /\ returns' = returns
      /\ \A q \in Handoffs : prompts'[q] = IF q = r THEN prompts[q] + 1 ELSE prompts[q]
  BY <1>0, <1>1 DEF Used, SendPrompt, OutboxTypeOK
<1>10. \A v \in Workers : \A q : v # w => (MaySend(v, q)' <=> MaySend(v, q))
  BY <1>4 DEF MaySend, ClaimedBy
<1>11. ASSUME NEW q \in Handoffs PROVE Budget(q)'
  <2>0. Budget(q) /\ prompts[q] \in Nat /\ returns[q] \in Nat /\ Used(q) \in {0, 1}
    BY <1>0 DEF PromptInv, OutboxTypeOK, Used
  <2>1. CASE q # r
    BY <1>0, <1>8, <1>9, <1>10, <2>0, <2>1, BudgetKept
  <2>2. CASE q = r
    <3>1. Senders(q)' = Senders(q) \ {w} /\ w \in Senders(q)
      BY <1>8, <1>10, <2>2 DEF Senders
    <3>2. IsFiniteSet(Senders(q)) /\ Cardinality(Senders(q)) \in Nat
      BY <2>0, FS_CardinalityType DEF Budget
    <3>3. /\ IsFiniteSet(Senders(q)')
          /\ Cardinality(Senders(q)') = Cardinality(Senders(q)) - 1
      BY <3>1, <3>2, FS_RemoveElement
    <3> QED BY <1>9, <2>0, <2>2, <3>2, <3>3 DEF Budget
  <2> QED BY <2>1, <2>2
<1> QED BY <1>5, <1>11 DEF PromptInv

LEMMA LearnsAt ==
  ASSUME BaseInv, NEW w \in Workers, FreshClaim(w), Learns(w), ~SendPrompt(w)
  PROVE  /\ FreshClaim(w)'
         /\ \A q : MaySend(w, q)' => MaySend(w, q)
         /\ UNCHANGED <<prompts, returns>>
<1>0. at \in [Workers -> WorkerStates] /\ at[w] \in WorkerStates /\ PlanIsAllowed(w)
  BY DEF BaseInv, OutboxTypeOK, PlanInv
<1>1. CASE ReadClaim(w)
  <2> DEFINE r == at[w].row
             read == [at[w] EXCEPT !.pc = "holds", !.token = row[r].token,
                        !.status = row[r].status, !.rev = row[r].rev]
  <2>1. at' = [at EXCEPT ![w] = read] /\ at[w].pc = "claimed" /\ UNCHANGED <<prompts, returns>>
    BY <1>1 DEF ReadClaim
  <2>2. /\ read.pc = "holds" /\ read.row = r /\ read.next = at[w].next
        /\ read.recorded = at[w].recorded /\ read.unsent = at[w].unsent
    BY <1>0 DEF WorkerStates
  <2> HIDE DEF read
  <2>3. at'[w] = read
    BY <1>0, <2>1
  <2>4. ~at[w].unsent /\ ~at[w].recorded
    BY <1>0, <2>1 DEF PlanIsAllowed, FreshClaim
  <2> QED BY <2>1, <2>2, <2>3, <2>4 DEF FreshClaim, MaySend, ClaimedBy
<1>2. CASE \E s \in Statuses : Intend(w, s)
  <2>1. PICK s \in Statuses : Intend(w, s)
    BY <1>2
  <2> DEFINE new == [at[w] EXCEPT !.next = s]
  <2>2. /\ at' = [at EXCEPT ![w] = new] /\ at[w].pc = "holds" /\ at[w].next = None
        /\ UNCHANGED <<prompts, returns>>
    BY <2>1 DEF Intend
  <2>3. /\ new.pc = at[w].pc /\ new.row = at[w].row /\ new.status = at[w].status
        /\ new.recorded = at[w].recorded /\ new.unsent = at[w].unsent
    BY <1>0 DEF WorkerStates
  <2> HIDE DEF new
  <2>4. at'[w] = new /\ ~at[w].recorded
    BY <1>0, <2>2 DEF FreshClaim
  <2> QED BY <2>2, <2>3, <2>4 DEF FreshClaim, MaySend, ClaimedBy
<1>3. CASE Replayed(w) /\ at[w].next # None
  <2> DEFINE moved == [at[w] EXCEPT !.status = at[w].next, !.rev = at[w].rev + 1,
                        !.next = None, !.recorded = FALSE, !.unsent = TRUE]
  <2>1. /\ moved.pc = at[w].pc /\ moved.row = at[w].row /\ moved.status = at[w].next
        /\ moved.next = None /\ moved.recorded = FALSE
    BY <1>0 DEF WorkerStates
  <2>2. /\ at' = [at EXCEPT ![w] = IF at[w].next \in Unowned THEN Idle ELSE moved]
        /\ at[w].recorded /\ UNCHANGED <<prompts, returns>>
    BY <1>3 DEF Replayed, Answered
  <2>3. at[w].pc = "holds"
    BY <1>0, <1>3 DEF PlanIsAllowed
  <2> HIDE DEF moved
  <2>4. at'[w] = Idle \/ at'[w] = moved
    BY <1>0, <2>2
  <2>5. CASE at'[w] = moved
    BY <2>1, <2>2, <2>3, <2>5 DEF FreshClaim, MaySend, ClaimedBy
  <2> QED BY <2>2, <2>4, <2>5, IdleIsFresh
<1>4. CASE Forget(w) /\ UNCHANGED <<prompts, returns>>
  <2>1. at'[w] = Idle
    BY <1>0, <1>4 DEF Forget
  <2> QED BY <1>4, <2>1, IdleIsFresh
<1> QED BY <1>1, <1>2, <1>3, <1>4 DEF Learns

LEMMA LearnsPrompt ==
  ASSUME PromptInv, NEW w \in Workers, Learns(w)
  PROVE  PromptInv'
<1>0. /\ BaseInv /\ OutboxTypeOK /\ BaseInv' /\ OutboxTypeOK' /\ row' = row
      /\ \A v \in Workers : v # w => at'[v] = at[v]
  BY LearnsPlan, LearnsTypes, LearnsDoes DEF PromptInv, BaseInv
<1>1. CASE SendPrompt(w)
  BY <1>0, <1>1, SendPromptPrompt
<1>2. CASE ~SendPrompt(w)
  <2>1. /\ FreshClaim(w)'
        /\ \A q : MaySend(w, q)' => MaySend(w, q)
        /\ UNCHANGED <<prompts, returns>>
    BY <1>0, <1>2, LearnsAt DEF PromptInv
  <2>2. \A v \in Workers : FreshClaim(v)'
    BY <1>0, <2>1 DEF PromptInv, FreshClaim
  <2>3. ASSUME NEW q \in Handoffs PROVE Budget(q)'
    <3>1. \A v \in Workers : MaySend(v, q)' => MaySend(v, q)
      BY <1>0, <2>1 DEF MaySend, ClaimedBy
    <3>2. Used(q)' = Used(q) /\ Used(q) \in Nat /\ returns[q] \in Nat /\ Budget(q)
      BY <1>0 DEF Used, PromptInv, OutboxTypeOK
    <3> QED BY <1>0, <2>1, <3>1, <3>2, BudgetKept
  <2> QED BY <1>0, <2>2, <2>3 DEF PromptInv
<1> QED BY <1>1, <1>2

\* The other steps write no hand-off and let nobody send.
LEMMA OtherPrompt ==
  ASSUME PromptInv, BaseInv', UNCHANGED <<prompts, returns>>,
         \A q \in Handoffs : row'[q].status = row[q].status,
         \A v \in Workers : at'[v] = at[v] \/ at'[v] = Idle
  PROVE  PromptInv'
<1>0. OutboxTypeOK /\ OutboxTypeOK'
  BY DEF PromptInv, BaseInv
<1>1. \A v \in Workers : FreshClaim(v)'
  BY IdleIsFresh DEF PromptInv, FreshClaim
<1>2. ASSUME NEW q \in Handoffs PROVE Budget(q)'
  <2>1. \A v \in Workers : MaySend(v, q)' => MaySend(v, q)
    BY IdleIsFresh DEF MaySend, ClaimedBy
  <2>2. Used(q)' = Used(q) /\ Used(q) \in Nat /\ returns[q] \in Nat /\ Budget(q)
    BY <1>0 DEF Used, PromptInv, OutboxTypeOK
  <2> QED BY <1>0, <2>1, <2>2, BudgetKept
<1> QED BY <1>1, <1>2 DEF PromptInv

LEMMA InitPrompt == OutboxInit => PromptInv
<1> SUFFICES ASSUME OutboxInit PROVE PromptInv
  OBVIOUS
<1>1. ASSUME NEW q \in Handoffs PROVE Budget(q)
  <2>1. Senders(q) = {}
    BY DEF OutboxInit, Senders, MaySend, ClaimedBy, Idle
  <2>2. prompts[q] = 0 /\ returns[q] = 0 /\ Used(q) \in {0, 1}
    BY DEF OutboxInit, Used
  <2> QED BY <2>1, <2>2, FS_EmptySet DEF Budget
<1>2. \A w \in Workers : FreshClaim(w)
  BY DEF OutboxInit, FreshClaim, Idle
<1> QED BY <1>1, <1>2, InitBase DEF PromptInv

LEMMA StepPrompt == PromptInv /\ [OutboxNext]_outboxVars => PromptInv'
<1> SUFFICES ASSUME PromptInv, [OutboxNext]_outboxVars PROVE PromptInv'
  OBVIOUS
<1>0. /\ BaseInv /\ OutboxTypeOK /\ BaseInv'
      /\ \A q \in Handoffs : q \in Rows
  BY StepBase DEF PromptInv, BaseInv, Rows
<1>1. CASE UNCHANGED outboxVars
  BY <1>0, <1>1, OtherPrompt DEF outboxVars
<1>2. ASSUME NEW w \in Workers, Releases(w) PROVE PromptInv'
  <2>1. UNCHANGED <<prompts, returns>>
    BY <1>2 DEF Releases, ReleaseRootRunLease
  <2>2. \A q \in Handoffs : row'[q].status = row[q].status
    BY <1>0, <1>2, ReleasesDoes
  <2>3. \A v \in Workers : at'[v] = at[v] \/ at'[v] = Idle
    BY <1>0, <1>2, ReleasesDoes
  <2> QED BY <1>0, <2>1, <2>2, <2>3, OtherPrompt
<1>3. ASSUME NEW r \in Rows, LeaseEnds(r) \/ DiscardContinuation(r) PROVE PromptInv'
  <2>1. /\ UNCHANGED <<at, prompts, returns>>
        /\ \A q \in Handoffs : row'[q].status = row[q].status
    BY <1>0, <1>3, OtherDoes
  <2> QED BY <1>0, <2>1, OtherPrompt
<1> QED BY <1>0, <1>1, <1>2, <1>3, StepCases, ClaimPrompt, AppliesPrompt, LearnsPrompt

LEMMA PromptsOfInv == PromptInv => PromptsAreReconciled
<1> SUFFICES ASSUME PromptInv, NEW r \in Handoffs PROVE prompts[r] <= returns[r] + 1
  BY DEF PromptsAreReconciled
<1>1. Budget(r) /\ prompts[r] \in Nat /\ returns[r] \in Nat /\ Used(r) \in {0, 1}
  BY DEF PromptInv, BaseInv, OutboxTypeOK, Used
<1>2. Cardinality(Senders(r)) \in Nat
  BY <1>1, FS_CardinalityType DEF Budget
<1> QED BY <1>1, <1>2 DEF Budget

\* A prompt is sent once, and once more for each return to pending, with any
\* number of workers that stall, repeat their commands or die, and whenever they
\* read their claims back (PromptsAreReconciled).
THEOREM PromptsReconciled == OutboxSpec => []PromptsAreReconciled
  BY InitPrompt, StepPrompt, PromptsOfInv, PTL DEF OutboxSpec

-----------------------------------------------------------------------------
(* Refinement: the rows keep the promise of a fenced lease.                *)

Stage  == [r \in Rows |-> row[r].status]
Tenant == [r \in Rows |-> Tenants(r)]

\* An owned, open row has no tenant but the one whose claim is its latest.
LEMMA SoleTenant ==
  ASSUME OutboxInv, NEW w \in Workers, Busy(w), row[at[w].row].owner # None,
         at[w].claim = row[at[w].row].token
  PROVE  Tenants(at[w].row) = {w}
  BY DEF OutboxInv, FenceInv, ClaimsDiffer, Tenants, ClaimedBy, Busy

\* Rows that do not change keep their tenants, but for one who forgets them.
LEMMA TenantsKept ==
  ASSUME OutboxInv, NEW q \in Rows, row'[q] = row[q], NEW w \in Workers,
         \A v \in Workers : v # w => at'[v] = at[v],
         \/ at'[w].pc = "idle"
         \/ /\ Busy(w) /\ at'[w].pc # "idle" /\ at'[w].row = at[w].row
            /\ at'[w].claim = at[w].claim
  PROVE  Tenants(q)' = IF at'[w].pc = "idle" THEN Tenants(q) \ {w} ELSE Tenants(q)
  BY DEF Tenants, ClaimedBy, Busy

LEMMA OpenIsUnderWay == Fenced!UnderWay = Open
  BY StatusFacts DEF Fenced!UnderWay, Statuses

LEMMA ClaimRefines ==
  ASSUME OutboxInv, NEW w \in Workers, Claims(w)
  PROVE  \E r \in Rows : Fenced!Take(w, r)
<1>1. PICK r, statuses, next, mode : LegalClaim(w, r, statuses, next, mode)
  BY DEF Claims
<1>2. /\ r \in Rows /\ ~Busy(w) /\ row[r].status \in Open
      /\ \A q \in Rows : q # r => row'[q] = row[q]
      /\ row'[r].status = next /\ next \in Open /\ row'[r].owner # None
      /\ row'[r].token = row[r].token + 1 /\ row[r].token \in Nat
      /\ \A v \in Workers : v # w => at'[v] = at[v]
      /\ at'[w].pc = "claimed" /\ at'[w].row = r /\ at'[w].claim = row[r].token + 1
  BY <1>1, ClaimDoes DEF OutboxInv, BaseInv
<1>3. \A v \in Workers : Busy(v) /\ at[v].row = r => at[v].claim # row[r].token + 1
  BY <1>2 DEF OutboxInv, BaseInv, FenceInv, OutboxTypeOK, WorkerStates, ClaimIsKept
<1>4. Tenants(r)' = {w}
  BY <1>2, <1>3 DEF Tenants, ClaimedBy, Busy
<1>5. \A q \in Rows : q # r => Tenants(q)' = Tenants(q)
  BY <1>2 DEF Tenants, ClaimedBy, Busy
<1>6. Tenant' = [Tenant EXCEPT ![r] = {w}]
  BY <1>2, <1>4, <1>5 DEF Tenant
<1>7. Stage' = [Stage EXCEPT ![r] = next]
  BY <1>2 DEF Stage
<1>8. Fenced!MoveTo(r, next)
  BY <1>2, <1>7, StatusFacts DEF Fenced!MoveTo, Stage
<1>9. /\ Stage[r] \in Fenced!UnderWay
      /\ \E s \in Fenced!UnderWay : Fenced!MoveTo(r, s)
  BY <1>2, <1>8, OpenIsUnderWay DEF Stage
<1> QED BY <1>2, <1>6, <1>9 DEF Fenced!Take, Stage, Tenant

LEMMA AppliesRefines ==
  ASSUME OutboxInv, NEW w \in Workers, Applies(w)
  PROVE  \E r \in Rows : Fenced!Change(w, r)
<1>0. PICK r \in Rows : r = at[w].row
  BY AppliesDoes DEF OutboxInv
<1> DEFINE s == at[w].next
<1>1. /\ Busy(w) /\ r = at[w].row /\ r \in Rows /\ s \in Statuses
      /\ row[r].status \in Open /\ row[r].owner # None /\ at[w].claim = row[r].token
      /\ <<row[r].status, s>> \in Allowed(r)
      /\ \A q \in Rows : q # r => row'[q] = row[q]
      /\ row'[r].status = s
      /\ \A v \in Workers : v # w => at'[v] = at[v]
  BY <1>0, AppliesDoes, LatestWrites DEF OutboxInv, Applies
<1>2. /\ row'[r].owner = (IF s \in Unowned THEN None ELSE row[r].owner)
      /\ \/ row'[r].token = row[r].token
         \/ row'[r].token = row[r].token + 1 /\ s \in Unowned
      /\ \/ at'[w] = Idle
         \/ at'[w].pc = "holds" /\ at'[w].row = r /\ at'[w].claim = at[w].claim
  BY <1>0, AppliesDoes, LatestWrites DEF OutboxInv, Applies
<1>3. Tenants(r) = {w}
  BY <1>1, SoleTenant
<1>4. Tenants(r)' \in SUBSET {w}
  <2>1. CASE s \in Unowned
    BY <1>2, <2>1 DEF Tenants
  <2>2. CASE s \notin Unowned
    <3>1. row'[r].token = row[r].token
      BY <1>2, <2>2
    <3>2. \A v \in Workers : v # w /\ Busy(v) /\ at[v].row = r => at[v].claim # row[r].token
      BY <1>1 DEF OutboxInv, FenceInv, ClaimsDiffer
    <3> QED BY <1>1, <3>1, <3>2 DEF Tenants, ClaimedBy, Busy
  <2> QED BY <2>1, <2>2
<1>5. \A q \in Rows : q # r => Tenants(q)' = Tenants(q)
  <2> SUFFICES ASSUME NEW q \in Rows, q # r PROVE Tenants(q)' = Tenants(q)
    OBVIOUS
  <2>1. at'[w].pc = "idle" \/ at'[w].row = r
    BY <1>2 DEF Idle
  <2> QED BY <1>1, <2>1 DEF Tenants, ClaimedBy
<1>6. Tenant' = [Tenant EXCEPT ![r] = Tenants(r)']
  BY <1>1, <1>5 DEF Tenant
<1>7. Stage' = [Stage EXCEPT ![r] = s]
  BY <1>1 DEF Stage
<1>8. Stage[r] \in Fenced!UnderWay
  BY <1>1, OpenIsUnderWay DEF Stage
<1>9. \E t \in Statuses : Fenced!MoveTo(r, t)
  <2>1. s # "absent"
    BY <1>1 DEF Allowed, allowedContinuationTransition, allowedRootFinalTransition,
                allowedHandoffTransition
  <2> QED BY <1>1, <1>7, <2>1 DEF Fenced!MoveTo, Stage
<1>10. \E kept \in SUBSET {w} : Tenant' = [Tenant EXCEPT ![r] = kept]
  BY <1>4, <1>6
<1>11. Tenant[r] = {w}
  BY <1>1, <1>3 DEF Tenant
<1> QED BY <1>1, <1>8, <1>9, <1>10, <1>11 DEF Fenced!Change, Stage, Tenant

\* To know more, or to forget, changes no stage.
LEMMA LearnsRefines ==
  ASSUME OutboxInv, NEW w \in Workers, Learns(w)
  PROVE  \/ \E r \in Rows : Fenced!GiveUp(w, r)
         \/ UNCHANGED <<Stage, Tenant>>
<1>1. /\ row' = row
      /\ \A v \in Workers : v # w => at'[v] = at[v]
      /\ \/ at'[w] = Idle
         \/ /\ at'[w].row = at[w].row /\ at'[w].claim = at[w].claim
            /\ \/ at'[w].pc = at[w].pc
               \/ at[w].pc = "claimed" /\ at'[w].pc = "holds"
  BY LearnsDoes DEF OutboxInv
<1>2. Stage' = Stage
  BY <1>1 DEF Stage
<1>3. CASE at'[w] = Idle /\ Busy(w)
  <2> DEFINE r == at[w].row
  <2>1. r \in Rows
    BY <1>3 DEF OutboxInv, BaseInv, PlanInv, FenceInv, ClaimIsKept
  <2>2. \A q \in Rows : Tenants(q)' = IF q = r THEN Tenants(q) \ {w} ELSE Tenants(q)
    BY <1>1, <1>3 DEF Tenants, ClaimedBy, Idle
  <2>3. Tenant' = [Tenant EXCEPT ![r] = Tenant[r] \ {w}]
    BY <2>1, <2>2 DEF Tenant
  <2> QED BY <1>2, <2>1, <2>3 DEF Fenced!GiveUp, Stage, Tenant
<1>4. CASE ~(at'[w] = Idle /\ Busy(w))
  <2>1. \A v \in Workers, q \in Rows : ClaimedBy(v, q) <=> ClaimedBy(v, q)'
    BY <1>1, <1>4 DEF ClaimedBy, Idle, Busy
  <2>2. \A v \in Workers : Busy(v) => at'[v].claim = at[v].claim
    BY <1>1, <1>4
  <2>3. \A q \in Rows : Tenants(q)' = Tenants(q)
    BY <1>1, <2>1, <2>2 DEF Tenants, ClaimedBy, Busy
  <2> QED BY <1>2, <2>3 DEF Tenant
<1> QED BY <1>3, <1>4

LEMMA ReleasesRefines ==
  ASSUME OutboxInv, NEW w \in Workers, Releases(w)
  PROVE  \E r \in Rows : Fenced!GiveUp(w, r)
<1>0. PICK r \in Rows : r = at[w].row
  BY ReleasesDoes DEF OutboxInv
<1>1. /\ Busy(w) /\ at'[w] = Idle /\ \A v \in Workers : v # w => at'[v] = at[v]
      /\ r = at[w].row /\ r \in Rows
      /\ \/ row' = row
         \/ /\ \A q \in Rows : q # r => row'[q] = row[q]
            /\ at[w].claim = row[r].token /\ row[r].owner # None
            /\ row'[r].owner = None
            /\ row'[r].status = row[r].status
  BY <1>0, ReleasesDoes, LatestWrites DEF OutboxInv, Releases, ReleaseRootRunLease
<1>2. Stage' = Stage
  BY <1>1 DEF Stage
<1>3. Tenants(r)' = Tenants(r) \ {w}
  <2>1. CASE row' = row
    BY <1>1, <2>1 DEF Tenants, ClaimedBy, Idle
  <2>2. CASE row' # row
    BY <1>1, <2>2, SoleTenant DEF Tenants
  <2> QED BY <2>1, <2>2
<1>4. \A q \in Rows : q # r => Tenants(q)' = Tenants(q)
  BY <1>1 DEF Tenants, ClaimedBy, Idle
<1>5. Tenant' = [Tenant EXCEPT ![r] = Tenant[r] \ {w}]
  BY <1>1, <1>3, <1>4 DEF Tenant
<1> QED BY <1>1, <1>2, <1>5 DEF Fenced!GiveUp, Stage, Tenant

\* Rows that appear or are called off under their workers' hands.
Discards(r) ==
  /\ r \in Continuations /\ row[r].status \in Open
  /\ row'[r].status = "discarded" /\ row'[r].owner = None
  /\ row[r].token <= row'[r].token

Appears(r) == row[r].status = "absent" /\ row'[r] = Unclaimed("pending")

LEMMA OrderRefines ==
  ASSUME OutboxTypeOK', UNCHANGED at,
         \A r \in Rows : row'[r] = row[r] \/ Discards(r) \/ Appears(r)
  PROVE  Fenced!Order
<1>1. Stage' \in [Rows -> Statuses] /\ Tenant' \in [Rows -> SUBSET Workers]
  BY DEF OutboxTypeOK, RowStates, Stage, Tenant, Tenants
<1>2. ASSUME NEW r \in Rows
      PROVE  Fenced!Appears(r) \/ Fenced!Revoked(r) \/ Fenced!Stays(r)
  <2>0. /\ Stage[r] = row[r].status /\ Stage'[r] = row'[r].status
        /\ Tenant[r] = Tenants(r) /\ Tenant'[r] = Tenants(r)'
    BY DEF Stage, Tenant
  <2>1. CASE row'[r] = row[r]
    <3>1. Tenants(r)' = Tenants(r)
      BY <2>1 DEF Tenants, ClaimedBy
    <3> QED BY <2>0, <2>1, <3>1 DEF Fenced!Stays, Stage, Tenant
  <2>2. CASE Discards(r)
    <3>1. Tenants(r)' = {}
      BY <2>2 DEF Tenants, Discards
    <3>2. row[r].status \in Fenced!UnderWay /\ row'[r].status \in Settled
      BY <2>2, OpenIsUnderWay DEF Discards, Settled
    <3> QED BY <2>0, <3>1, <3>2 DEF Fenced!Revoked, Stage, Tenant
  <2>3. CASE Appears(r)
    <3>1. row'[r].owner = None /\ row'[r].status = "pending"
      BY <2>3 DEF Appears, Unclaimed
    <3>2. Tenants(r)' = {}
      BY <3>1 DEF Tenants
    <3>3. row[r].status = "absent" /\ row'[r].status \in Fenced!UnderWay
      BY <2>3, <3>1, OpenIsUnderWay DEF Appears, Open
    <3> QED BY <2>0, <3>2, <3>3 DEF Fenced!Appears, Stage, Tenant
  <2> QED BY <2>1, <2>2, <2>3
<1> QED BY <1>1, <1>2 DEF Fenced!Order, Stage, Tenant

LEMMA DiscardRefines ==
  ASSUME OutboxInv, NEW r \in Rows, DiscardContinuation(r)
  PROVE  Fenced!Order
<1> DEFINE n == row[r].token + 1
           gone == [row[r] EXCEPT !.status = "discarded", !.owner = None,
                                  !.lease = "none", !.token = n]
<1>1. /\ OutboxTypeOK' /\ row[r] \in RowStates /\ row \in [Rows -> RowStates]
      /\ row' = [row EXCEPT ![r] = gone] /\ UNCHANGED at
      /\ r \in Continuations /\ row[r].status \in Open
  BY OtherTypes DEF DiscardContinuation, OutboxInv, BaseInv, OutboxTypeOK
<1>2. n \in Nat /\ row[r].token <= n
  BY <1>1 DEF RowStates
<1>3. gone.status = "discarded" /\ gone.owner = None /\ gone.token = n
  <2> HIDE DEF n
  <2> QED BY <1>1 DEF RowStates
<1> HIDE DEF gone, n
<1>4. row'[r] = gone /\ \A q \in Rows : q # r => row'[q] = row[q]
  BY <1>1
<1>5. Discards(r)
  BY <1>1, <1>2, <1>3, <1>4 DEF Discards
<1> QED BY <1>1, <1>4, <1>5, OrderRefines

LEMMA LeaseEndsRefines ==
  ASSUME OutboxInv, NEW r \in Rows, LeaseEnds(r)
  PROVE  UNCHANGED <<Stage, Tenant>>
<1>1. row' = [row EXCEPT ![r] = [row[r] EXCEPT !.lease = "expired"]] /\ at' = at
      /\ row[r] \in RowStates
  BY DEF LeaseEnds, OutboxInv, BaseInv, OutboxTypeOK
<1>2. \A q \in Rows : /\ row'[q].status = row[q].status /\ row'[q].owner = row[q].owner
                       /\ row'[q].token = row[q].token
  BY <1>1 DEF OutboxInv, BaseInv, OutboxTypeOK, RowStates
<1>3. \A q \in Rows : Tenants(q)' = Tenants(q)
  BY <1>1, <1>2 DEF Tenants, ClaimedBy
<1> QED BY <1>2, <1>3 DEF Stage, Tenant

\* Every step of the workers, and of who takes their rows from them, is a step
\* of FencedDelivery or changes neither stages nor holders.
LEMMA StepRefines ==
  ASSUME OutboxInv, [OutboxNext]_outboxVars
  PROVE  [Fenced!Next]_(Fenced!vars)
<1>1. Fenced!vars = <<Stage, Tenant>> /\ Fenced!vars' = <<Stage', Tenant'>>
  BY DEF Fenced!vars, Stage, Tenant
<1>2. CASE UNCHANGED outboxVars
  BY <1>1, <1>2 DEF outboxVars, Stage, Tenant, Tenants, ClaimedBy
<1>3. CASE OutboxNext
  BY <1>1, <1>3, StepCases, ClaimRefines, AppliesRefines, LearnsRefines, ReleasesRefines,
     DiscardRefines, LeaseEndsRefines DEF Fenced!Next, OutboxInv, BaseInv
<1> QED BY <1>2, <1>3

LEMMA InitRefines == OutboxInit => Fenced!Init
<1> SUFFICES ASSUME OutboxInit PROVE Fenced!Init
  OBVIOUS
<1>1. \A r \in Rows : row[r].status \in Open \cup {"absent"} /\ Tenants(r) = {}
  BY DEF OutboxInit, Unclaimed, Tenants, ClaimedBy, Idle, Open
<1> QED BY <1>1, OpenIsUnderWay DEF Fenced!Init

\* AgentOutbox implements FencedDelivery: what columns and tokens, stalled and
\* dead workers make of a row is what its one holder, its successors and those
\* who call it off have agreed on.
THEOREM FencedDeliveryHolds ==
  ASSUME PromptReads
  PROVE  OutboxSpec => ImplementsFencedDelivery
<1>1. OutboxInv /\ [OutboxNext]_outboxVars => [Fenced!Next]_(Fenced!vars)
  BY StepRefines
<1> QED BY InitRefines, <1>1, OutboxInvariant, PTL
     DEF OutboxSpec, ImplementsFencedDelivery, Fenced!Spec
=============================================================================
