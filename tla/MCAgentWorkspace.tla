-------------------------- MODULE MCAgentWorkspace --------------------------
(***************************************************************************)
(* Small instances of AgentWorkspace.                                      *)
(***************************************************************************)
EXTENDS AgentWorkspace, TLC

CONSTANTS c1, c2

\* One resource each, and everything at once.
Ask(fields, size) == [f \in Fields \cup {"storage"} |-> IF f \in fields THEN size ELSE Same]

SomeSpecs == {Ask({"cpu"}, 2), Ask({"memory"}, 2), Ask({"storage"}, 2),
              Ask({"cpu", "memory", "storage"}, 1)}

CallSymmetry == Permutations(Calls)

=============================================================================
