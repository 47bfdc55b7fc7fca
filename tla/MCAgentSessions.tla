-------------------------- MODULE MCAgentSessions --------------------------
(***************************************************************************)
(* Small instances of AgentSessions.                                       *)
(***************************************************************************)
EXTENDS AgentSessions, TLC

CONSTANTS t1, t2, t3, s1, s2

\* Turns are alike, and so are sessions.
TurnSymmetry == Permutations(Turns) \cup Permutations(Sessions)

=============================================================================
