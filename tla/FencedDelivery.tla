--------------------------- MODULE FencedDelivery ---------------------------
(***************************************************************************)
(* What a lease with a fence promises, without saying how: a delivery has  *)
(* at most one holder; only its holder changes it; a closed delivery stays *)
(* as it is.  Anybody may take over a delivery that is not closed, which   *)
(* ends the tenure of the holder before it.  Those who order deliveries    *)
(* may let several appear and close others over their holders' heads, all  *)
(* in one step; a delivery appears once, and has no holder then.           *)
(*                                                                         *)
(* AgentOutbox implements this with lease columns, tokens and crashes, and *)
(* AgentWorkflow among the transactions that write its rows.               *)
(***************************************************************************)
CONSTANTS
  Deliveries,
  Holders,
  Stages,     \* how far a delivery can be
  Absent,     \* the stage of one that has not appeared
  Closed      \* those of the stages that it never leaves

VARIABLES
  stage,      \* how far each delivery is
  tenant      \* its holder, as a set of at most one

vars == <<stage, tenant>>

\* The stages of a delivery that somebody may work on.
UnderWay == Stages \ (Closed \cup {Absent})

Init ==
  /\ stage  \in [Deliveries -> UnderWay \cup {Absent}]
  /\ tenant = [d \in Deliveries |-> {}]

\* Work moves one delivery, and does not make it unseen.
MoveTo(d, s) == s \in Stages \ {Absent} /\ stage' = [stage EXCEPT ![d] = s]

Take(h, d) ==
  /\ stage[d] \in UnderWay
  /\ \E s \in UnderWay : MoveTo(d, s)
  /\ tenant' = [tenant EXCEPT ![d] = {h}]

Change(h, d) ==
  /\ tenant[d] = {h}
  /\ stage[d] \in UnderWay
  /\ \E s \in Stages : MoveTo(d, s)
  /\ \E kept \in SUBSET {h} : tenant' = [tenant EXCEPT ![d] = kept]

GiveUp(h, d) ==
  /\ tenant' = [tenant EXCEPT ![d] = @ \ {h}]
  /\ UNCHANGED stage

Appears(d) == stage[d] = Absent  /\ stage'[d] \in UnderWay /\ tenant'[d] = {}
Revoked(d) == stage[d] \in UnderWay /\ stage'[d] \in Closed /\ tenant'[d] = {}
Stays(d)   == stage'[d] = stage[d] /\ tenant'[d] = tenant[d]

\* Several deliveries are ordered and called off at once.
Order ==
  /\ stage'  \in [Deliveries -> Stages]
  /\ tenant' \in [Deliveries -> SUBSET Holders]
  /\ \A d \in Deliveries : Appears(d) \/ Revoked(d) \/ Stays(d)

Next ==
  \/ Order
  \/ \E d \in Deliveries, h \in Holders : Take(h, d) \/ Change(h, d) \/ GiveUp(h, d)

Spec == Init /\ [][Next]_vars
=============================================================================
