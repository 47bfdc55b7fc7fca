------------------------------ MODULE MCScreens ------------------------------
(***************************************************************************)
(* Small instances of Screens: every panel of Pages with each of its       *)
(* operations, for users who wait and users who do not.                    *)
(***************************************************************************)
EXTENDS Screens, Pages

CONSTANTS a, b

MCKeys == {a, b}

\* A panel with one of its operations.
Single(p) == {[p EXCEPT !.ops = {op}] : op \in p.ops} \cup {p : q \in IF p.ops = {} THEN {p} ELSE {}}

MCWorlds ==
    {[panel |-> q, now |-> n] :
        q \in UNION {Single(p) : p \in Panels \cup {Registering}},
        n \in {{"in-turn"}, {"in-turn", "lossy"}, {"lossy"}, {"settling"}}}

=============================================================================
