--------------------------- MODULE AgentWorkflowMC ---------------------------
(* Model values, symmetry and bounds for the TLC runs of AgentWorkflow. *)
EXTENDS AgentWorkflow, TLC

CONSTANTS a, b, c, finalA, finalB, finalC, handA, handB, handC, contA, contB, contC, c1, c2

Final        == (a :> finalA) @@ (b :> finalB) @@ (c :> finalC)
Handoff      == (a :> handA) @@ (b :> handB) @@ (c :> handC)
Continuation == (a :> contA) @@ (b :> contB) @@ (c :> contC)

\* A worker claims in its own name.
OwnName == [x \in Workers |-> x]

\* Workflows are interchangeable together with their rows, and so are clients.
WithRows(p) ==
  p @@ [f \in RootFinals |-> Final[p[CHOOSE w \in Workflows : Final[w] = f]]]
    @@ [h \in Handoffs |-> Handoff[p[CHOOSE w \in Workflows : Handoff[w] = h]]]
    @@ [k \in Continuations |-> Continuation[p[CHOOSE w \in Workflows : Continuation[w] = k]]]
Symmetry == { WithRows(p) @@ q : p \in Permutations({a, b, c}), q \in Permutations({c1, c2}) }

\* Bound: hand-offs are left to the run of AgentOutbox.
HandoffsWait == \A h \in Handoffs : row[h].status \in {"absent", "pending"} /\ row[h].owner = None

\* Bound: invocations, on which nothing else depends, are written to while
\* little else has happened.
InvocationsEarly ==
  \A w \in Workflows : invocation[w].rev > 1 => session.rev <= 1 /\ workflow[w].rev + task[w].rev <= 3

\* Bound: continuations belong to the first workflow of the session.
ContinuationsEarly ==
  \A k \in Continuations : row[k].status # "absent" => session.rev <= 2
=============================================================================
