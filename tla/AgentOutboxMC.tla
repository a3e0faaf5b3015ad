---------------------------- MODULE AgentOutboxMC ----------------------------
(* Model values and symmetry for the TLC runs of AgentOutbox. *)
EXTENDS AgentOutbox, TLC

CONSTANTS w1, w2, w3, server, other

\* Two workers of one server and one of another.
TwoServers == (w1 :> server) @@ (w2 :> server) @@ (w3 :> other)

\* The workers of one server are interchangeable.
Symmetry == Permutations({w1, w2})
=============================================================================
