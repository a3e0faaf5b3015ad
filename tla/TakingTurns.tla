----------------------------- MODULE TakingTurns -----------------------------
(***************************************************************************)
(* What a queue before a resource for one promises, without saying how: a  *)
(* request is admitted only when no other one is; a new request does not   *)
(* pass those that wait; one that is admitted does not return to the queue *)
(* and keeps its outcome.  The user may delete a request at any time.      *)
(*                                                                         *)
(* SeedanceQueue implements this with rows, a mutex, goroutines and polls. *)
(***************************************************************************)
CONSTANT Requests

VARIABLE phase   \* the phase of each request

vars == phase

Phases == {"unborn", "queued", "admitted", "completed", "failed", "deleted"}

NoneIs(p) == \A r \in Requests : phase[r] # p

Init == phase = [r \in Requests |-> "unborn"]

Moves(r, from, to) ==
  /\ phase[r] = from
  /\ phase' = [phase EXCEPT ![r] = to]

Joins(r)  == Moves(r, "unborn", "queued")
Enters(r) == NoneIs("queued") /\ NoneIs("admitted") /\ Moves(r, "unborn", "admitted")
Admit(r)  == NoneIs("admitted") /\ Moves(r, "queued", "admitted")
Finish(r) == \E outcome \in {"completed", "failed"} : Moves(r, "admitted", outcome)
Delete(r) == \E from \in Phases \ {"unborn"} : Moves(r, from, "deleted")

Next == \E r \in Requests : Joins(r) \/ Enters(r) \/ Admit(r) \/ Finish(r) \/ Delete(r)

Spec == Init /\ [][Next]_vars
=============================================================================
