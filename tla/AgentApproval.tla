---------------------------- MODULE AgentApproval ----------------------------
(***************************************************************************)
(* The approval boundary in front of paid image and video generation.      *)
(* While it runs, an agent asks the user to confirm a generation plan (a   *)
(* card, one row of agent_selections), the user decides, and the agent     *)
(* then calls the generation tool with the card's id.  The module composes *)
(*                                                                         *)
(*   - the runs of AgentRuns, whose terminal transitions settle the cards  *)
(*     the user has not decided;                                           *)
(*   - the selection service and repository (service/selection/store.go,   *)
(*     repository/agent_selection_repo.go);                                *)
(*   - the ask and generate tools of the agent's MCP server (app/mcp),     *)
(*     which run concurrently and may outlive the run that called them.    *)
(*                                                                         *)
(* Both callers of ClaimGenerationUse derive the request fingerprint from  *)
(* the confirmed intent, so every call for one card carries the same one   *)
(* and a claim is modelled as a bit.  A wall-clock expiry is the bit due,  *)
(* which the passage of time sets at any moment.                           *)
(***************************************************************************)
EXTENDS AgentRuns

CONSTANTS
  Cards,      \* selection ids
  Questions,  \* what FindReusable compares: kind, title, prompt, contract
  Asks,       \* ask tool calls that may be in flight together
  Calls       \* generate tool calls that may be in flight together

VARIABLES
  card,   \* the agent_selections rows
  ask,    \* the ask tool calls: "idle", or found nothing and about to create
  call,   \* the generate tool calls
  spent   \* history: requests sent to the provider on the authority of a card

cardVars     == <<card, ask, call, spent>>
approvalVars == <<runVars, cardVars>>

ASSUME NoneNotCard == None \notin Cards \cup Questions

Decided    == {"submitted", "selected"}  \* "selected" also stands for "custom"
CardStatus == {"unused", "pending", "cancelled", "expired"} \cup Decided

Pending(s) == card[s].status = "pending"

\* Mutant: the update by run does not compare the status.
PendingOf_AnyStatus(r) == {s \in Cards : card[s].status # "unused" /\ card[s].run = r}

PendingOf(r) == {s \in Cards : Pending(s) /\ card[s].run = r}
Due == {s \in Cards : Pending(s) /\ card[s].due}

SetStatus(S, status) ==
  [s \in Cards |-> IF s \in S THEN [card[s] EXCEPT !.status = status] ELSE card[s]]

CancelPendingByRun(r) == card' = SetStatus(PendingOf(r), "cancelled")
ExpirePendingByRun(r) == card' = SetStatus(PendingOf(r), "expired")

-----------------------------------------------------------------------------
(* Time, and the reads that expire what is due.                            *)

PassTTL(s) ==
  /\ card[s].status # "unused"
  /\ ~card[s].due
  /\ card' = [card EXCEPT ![s].due = TRUE]
  /\ UNCHANGED <<runVars, ask, call, spent>>

\* Get, ListPending and the polls of WaitForSelection.
SweepExpired(S) ==
  /\ S # {} /\ S \subseteq Due
  /\ card' = SetStatus(S, "expired")
  /\ UNCHANGED <<runVars, ask, call, spent>>

-----------------------------------------------------------------------------
(* The ask tools: FindReusable, then Create, in two critical sections.     *)

NoAsk == [pc |-> "idle", run |-> None, question |-> None]

Reusable(s, r, q) ==
  /\ card[s].run = r /\ card[s].question = q
  /\ ~card[s].claimed /\ ~card[s].due

PendingReusable(r, q) == {s \in Cards : Pending(s) /\ Reusable(s, r, q)}

\* A reusable card answers the ask; a decided one only for two minutes, so it
\* may be too old.  Otherwise the ask goes on to create a card.
FindReusable(k) ==
  /\ ask[k].pc = "idle"
  /\ card' = SetStatus(Due, "expired")
  /\ \E r \in Runs, q \in Questions :
       /\ work[r] = "running"
       /\ \/ /\ \E s \in Cards : /\ Reusable(s, r, q)
                                 /\ card[s].status \in Decided \cup {"pending"}
             /\ UNCHANGED ask
          \/ /\ PendingReusable(r, q) = {}
             /\ ask' = [ask EXCEPT ![k] = [pc |-> "creating", run |-> r, question |-> q]]
  /\ UNCHANGED <<runVars, call, spent>>

Create(k) ==
  /\ ask[k].pc = "creating"
  /\ \E s \in Cards :
       /\ card[s].status = "unused"
       /\ card' = [card EXCEPT ![s] =
            [status |-> "pending", run |-> ask[k].run, question |-> ask[k].question,
             due |-> FALSE, claimed |-> FALSE, outcome |-> "none"]]
  /\ ask' = [ask EXCEPT ![k] = NoAsk]
  /\ UNCHANGED <<runVars, call, spent>>

-----------------------------------------------------------------------------
(* The user decides: Decide holds the session mutex through WithRunStatus   *)
(* while it updates the row, so the run's status is stable.                *)

\* Mutant: the status of the run is not looked at.
DecisionFor_Unguarded(s, answer) == IF card[s].due THEN "expired" ELSE answer
DecisionFor(s, answer) ==
  CASE card[s].due                          -> "expired"
    [] Current.status[card[s].run] = "running"   -> answer
    [] Current.status[card[s].run] = "cancelled" -> "cancelled"
    [] OTHER                                -> "expired"

Decide(s) ==
  /\ Pending(s)
  /\ Keep(Current)
  /\ \E answer \in Decided \cup {"cancelled"} :
       card' = SetStatus({s}, DecisionFor(s, answer))
  /\ UNCHANGED <<workVars, closing, cancel, ask, call, spent>>

-----------------------------------------------------------------------------
(* The generate tools: prepare, ClaimGenerationUse, execute, complete.     *)

Authorizes(s, r) == card[s].status = "submitted" /\ card[s].run = r

NoCall == [pc |-> "idle", run |-> None, card |-> None]

CallAt(c, pc) == call' = [call EXCEPT ![c].pc = pc]
Answer(c)     == call' = [call EXCEPT ![c] = NoCall]

\* A tool call that is refused changes nothing.
PrepareGeneration(c) ==
  /\ call[c].pc = "idle"
  /\ \E r \in Runs, s \in Cards :
       /\ work[r] = "running"
       /\ Authorizes(s, r)
       /\ call' = [call EXCEPT ![c] = [pc |-> "reading", run |-> r, card |-> s]]
  /\ UNCHANGED <<runVars, card, ask, spent>>

\* The first read of ClaimGenerationUse: a claimed card is answered with its
\* outcome or "in progress or unknown", an expired one is refused.
ReadClaim(c) ==
  LET s == call[c].card
  IN  /\ call[c].pc = "reading"
      /\ IF Authorizes(s, call[c].run) /\ ~card[s].claimed /\ ~card[s].due
           THEN CallAt(c, "claiming")
           ELSE Answer(c)
      /\ UNCHANGED <<runVars, card, ask, spent>>

\* Mutant: the update does not compare the claim columns.
Claimable_NoCompare(s, r) == Authorizes(s, r)

Claimable(s, r) == Authorizes(s, r) /\ ~card[s].claimed

\* The compare-and-swap; its clock is the one of the first read.  The loser
\* reads the winner's claim and answers like ReadClaim.
Claim(c) ==
  LET s == call[c].card
  IN  /\ call[c].pc = "claiming"
      /\ \/ /\ Claimable(s, call[c].run)
            /\ card' = [card EXCEPT ![s].claimed = TRUE]
            /\ CallAt(c, "executing")
         \/ /\ ~Claimable(s, call[c].run)
            /\ Answer(c)
            /\ UNCHANGED card
      /\ UNCHANGED <<runVars, ask, spent>>

\* The provider gets the request, or execution fails before it is sent.
Execute(c) ==
  /\ call[c].pc = "executing"
  /\ \/ spent' = [spent EXCEPT ![call[c].card] = @ + 1]
     \/ UNCHANGED spent
  /\ CallAt(c, "completing")
  /\ UNCHANGED <<runVars, card, ask>>

\* The outcome is stored once, or persisting it fails.
CompleteGenerationUse(c) ==
  LET s == call[c].card
  IN  /\ call[c].pc = "completing"
      /\ \/ /\ card[s].claimed /\ card[s].outcome = "none"
            /\ card' = [card EXCEPT ![s].outcome = "stored"]
         \/ UNCHANGED card
      /\ Answer(c)
      /\ UNCHANGED <<runVars, ask, spent>>

-----------------------------------------------------------------------------
(* Composition with the runs.                                              *)

\* The RunTerminalHandler wired in app/wire.go.
HandleTerminalRun(r) ==
  /\ NotifyTerminal(r)
  /\ IF fate[r] = "cancelled" THEN CancelPendingByRun(r) ELSE ExpirePendingByRun(r)
  /\ UNCHANGED <<ask, call, spent>>

\* The onCancelled callback wired in app/app.go, on the run statusFn answered.
SettleCancelled(c) ==
  /\ OnCancelled(c)
  /\ IF cancel[c].run = None THEN UNCHANGED card ELSE CancelPendingByRun(cancel[c].run)
  /\ UNCHANGED <<ask, call, spent>>

\* Mutant: a restart releases the claims that have no outcome.
Crash_ReleasesClaims ==
  /\ Restart
  /\ ask'  = [k \in Asks |-> NoAsk]
  /\ call' = [c \in Calls |-> NoCall]
  /\ card' = [s \in Cards |-> [card[s] EXCEPT !.claimed = card[s].outcome = "stored"]]
  /\ UNCHANGED spent

Crash ==
  /\ Restart
  /\ ask'  = [k \in Asks |-> NoAsk]
  /\ call' = [c \in Calls |-> NoCall]
  /\ UNCHANGED <<card, spent>>

\* Steps of AgentRuns that do not reach the selections.
RunOnlyStep ==
  \/ \E r \in Runs : BeginLifecycleWork(r)
  \/ \E r \in Runs : \/ StartRun(r) \/ SpawnRun(r) \/ FailPreparation(r)
                     \/ ClearACPSessionID(r) \/ SetACPSessionState(r)
                     \/ FinishGoroutineRun(r)
  \/ \E r \in Runs : RunnerReturns(r)
  \/ \E c \in Cancels : CancelRun(c) \/ ReadCancelledStatus(c)
  \/ CachePersistedSessionIfAbsent
  \/ BeginClose
  \/ FinishClose

Init ==
  /\ RunsInit
  /\ card  = [s \in Cards |-> [status |-> "unused", run |-> None, question |-> None,
                               due |-> FALSE, claimed |-> FALSE, outcome |-> "none"]]
  /\ ask   = [k \in Asks |-> NoAsk]
  /\ call  = [c \in Calls |-> NoCall]
  /\ spent = [s \in Cards |-> 0]

Next ==
  \/ RunOnlyStep /\ UNCHANGED cardVars
  \/ \E r \in Runs : HandleTerminalRun(r)
  \/ \E c \in Cancels : SettleCancelled(c)
  \/ \E s \in Cards : PassTTL(s)
  \/ \E S \in SUBSET Cards : SweepExpired(S)
  \/ \E k \in Asks : FindReusable(k)
  \/ \E k \in Asks : Create(k)
  \/ \E s \in Cards : Decide(s)
  \/ \E c \in Calls : PrepareGeneration(c)
  \/ \E c \in Calls : ReadClaim(c)
  \/ \E c \in Calls : Claim(c)
  \/ \E c \in Calls : Execute(c)
  \/ \E c \in Calls : CompleteGenerationUse(c)
  \/ Crash

Spec == Init /\ [][Next]_approvalVars

-----------------------------------------------------------------------------
SelectionRow ==
  [status : CardStatus, run : MaybeRun, question : Questions \cup {None},
   due : BOOLEAN, claimed : BOOLEAN, outcome : {"none", "stored"}]

AskCall == [pc : {"idle", "creating"}, run : MaybeRun, question : Questions \cup {None}]

CallStates == {"idle", "reading", "claiming", "executing", "completing"}
ToolCall   == [pc : CallStates, run : MaybeRun, card : Cards \cup {None}]

CardTypeOK ==
  /\ card \in [Cards -> SelectionRow]
  /\ \A s \in Cards : card[s].status # "unused" => card[s].run \in Runs

AskTypeOK ==
  /\ ask \in [Asks -> AskCall]
  /\ \A k \in Asks : ask[k].pc # "idle" => ask[k].run \in Runs /\ ask[k].question \in Questions

CallTypeOK ==
  /\ call \in [Calls -> ToolCall]
  /\ \A c \in Calls : call[c].pc # "idle" => call[c].run \in Runs /\ call[c].card \in Cards

\* The types of the selection rows and of the tool calls in flight.
ApprovalTypeOK ==
  /\ CardTypeOK
  /\ AskTypeOK
  /\ CallTypeOK
  /\ spent \in [Cards -> Nat]

-----------------------------------------------------------------------------
(* Safety.                                                                 *)

\* One confirmation pays for at most one provider request: across concurrent
\* tool calls, retries after an unknown outcome, a failed completion and
\* crashes between the claim and its completion.
AtMostOneSpend == \A s \in Cards : spent[s] <= 1

\* Nothing is sent to the provider on a card the user did not submit, nor by a
\* caller that does not hold the durable claim.
SpendWasApprovedAndClaimed ==
  \A s \in Cards : spent[s] > 0 => card[s].status = "submitted" /\ card[s].claimed

\* The decision guard: a card becomes decided only while the run that asked is
\* running, so a submit that loses the race with a cancellation, a failure or a
\* restart of the server is never recorded as an approval.
DecisionNeedsLiveRun ==
  [][\A s \in Cards :
       /\ card[s].status \notin Decided
       /\ card'[s].status \in Decided
       => loaded' /\ session'.status[card[s].run] = "running"]_approvalVars

\* A card that left pending keeps its status and its run: a terminal run, a
\* sweep or a second click never overwrites the answer that won.
DecisionIsFinal ==
  [][\A s \in Cards :
       card[s].status \notin {"unused", "pending"} =>
         card'[s].status = card[s].status /\ card'[s].run = card[s].run]_approvalVars

\* The whole protocol implements the abstract promise of ApprovedSpend.
PhaseOf(s) ==
  CASE card[s].status = "unused"    -> "unasked"
    [] card[s].status = "pending"   -> "asked"
    [] card[s].status \in {"cancelled", "expired", "selected"} -> "refused"
    [] card[s].status = "submitted" -> IF card[s].outcome = "stored" THEN "closed"
                                       ELSE IF card[s].claimed THEN "claimed" ELSE "approved"

Promise == INSTANCE ApprovedSpend WITH phase <- [s \in Cards |-> PhaseOf(s)], spends <- spent

ImplementsApprovedSpend == Promise!Spec

-----------------------------------------------------------------------------
(* A statement the code makes about itself and does not keep.              *)

\* "Cancelling pending selections with agent run": a cancel request settles
\* cards of the run it cancelled, never of a run that is executing.
CancelSparesExecutingRun ==
  [][\A c \in Cancels :
       SettleCancelled(c) =>
         \A s \in Cards : Pending(s) /\ Executing(card[s].run) => card'[s] = card[s]]_approvalVars
=============================================================================
