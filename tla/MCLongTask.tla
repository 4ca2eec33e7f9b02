------------------------------ MODULE MCLongTask ------------------------------
(* Instances of the agent loop for TLC: one journal, two tool calls. *)
EXTENDS AgentLoop, TLC

\* The calls are interchangeable, and so are the fingerprints.
Symmetric == Permutations(Calls) \cup Permutations(Fingerprints)

=============================================================================
