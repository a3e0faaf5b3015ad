---------------------------- MODULE ImageTaskMC ----------------------------
(* The kinds of task for the TLC runs of ImageTask. *)
EXTENDS ImageTask

\* Both values of both attributes: a task without a target is in no respect
\* different for Jimeng, save for what is done about orphans.
SomeKinds == { [jimeng |-> TRUE, target |-> TRUE], [jimeng |-> FALSE, target |-> FALSE] }
=============================================================================
