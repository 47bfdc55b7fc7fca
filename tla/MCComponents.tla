---------------------------- MODULE MCComponents ----------------------------
(***************************************************************************)
(* Small instances of Components.  A behaviour either has requests that    *)
(* overlap, on a built-in and an imported component, in a cluster nobody   *)
(* else touches; or requests one at a time on the built-in one while       *)
(* others install operators and charts of their own.                       *)
(***************************************************************************)
EXTENDS Components, TLC

CONSTANTS kserve, own, system, others, c1, c2

MCNext ==
    /\ TurnNext
    /\ IF inTurn
       THEN UNCHANGED <<calls[c2], items[own], manual[own], csv[own]>>
       ELSE UNCHANGED <<manual, csv>>

MCSpec == TurnInit /\ [][MCNext]_<<vars, inTurn>> /\ Fairness

=============================================================================
