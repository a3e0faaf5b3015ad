---------------------------- MODULE ApprovedSpend ----------------------------
(***************************************************************************)
(* What the generation confirmation promises the user, without saying how: *)
(* a card that is put before the user is approved or refused once; only an *)
(* approved card can be claimed, by one caller; only the claim can spend   *)
(* it (send its request to the provider), and it can do so once.  A claim  *)
(* may be given up at any time without spending.                           *)
(*                                                                         *)
(* AgentApproval implements this with database rows, tool calls and crashes.*)
(***************************************************************************)
EXTENDS Naturals

CONSTANT Cards

VARIABLES
  phase,   \* the phase of each card
  spends   \* how often its request was sent to the provider

vars == <<phase, spends>>

Phases == {"unasked", "asked", "approved", "refused", "claimed", "closed"}

Init ==
  /\ phase  = [s \in Cards |-> "unasked"]
  /\ spends = [s \in Cards |-> 0]

Move(s, from, to) ==
  /\ phase[s] = from
  /\ phase' = [phase EXCEPT ![s] = to]

Ask(s)     == Move(s, "unasked", "asked")    /\ UNCHANGED spends
Approve(s) == Move(s, "asked", "approved")   /\ UNCHANGED spends
Claim(s)   == Move(s, "approved", "claimed") /\ UNCHANGED spends
Close(s)   == Move(s, "claimed", "closed")   /\ UNCHANGED spends

\* One cancellation, expiry sweep or terminal run refuses a set of cards.
Refuse(S) ==
  /\ \A s \in S : phase[s] = "asked"
  /\ phase' = [s \in Cards |-> IF s \in S THEN "refused" ELSE phase[s]]
  /\ UNCHANGED spends

Spend(s) ==
  /\ phase[s] = "claimed"
  /\ spends[s] = 0
  /\ spends' = [spends EXCEPT ![s] = 1]
  /\ UNCHANGED phase

Next ==
  \/ \E s \in Cards : Ask(s) \/ Approve(s) \/ Claim(s) \/ Spend(s) \/ Close(s)
  \/ \E S \in SUBSET Cards : Refuse(S)

Spec == Init /\ [][Next]_vars
=============================================================================
