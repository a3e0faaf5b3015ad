------------------------- MODULE AgentEventStreamMC -------------------------
(* Publishers and their events for the TLC runs of AgentEventStream. *)
EXTENDS AgentEventStream, TLC

CONSTANTS runner, tool

\* The run's own events, and one of a tool that works for it.
Script == (runner :> <<"delta","terminal">>) @@ (tool :> <<"activity","editDelta">>)
=============================================================================
