--------------------------- MODULE GitLabLFSTurns ---------------------------
(***************************************************************************)
(* GitLabLFS with its circumstances: a behaviour either has uploads that   *)
(* overlap and requests that fail as Failing says, or uploads one at a     *)
(* time whose reads of .gitattributes neither fail nor are cut off.        *)
(***************************************************************************)
EXTENDS GitLabLFS

VARIABLE inTurn \* whether uploads run one at a time

Readable == INSTANCE GitLabLFS WITH Failing <- Failing \ {"readAttrs"}

OneRuns == \A c, d \in Calls : calls[c].at # "idle" /\ calls[d].at # "idle" => c = d

TurnInit == Init /\ inTurn \in BOOLEAN

TurnNext ==
    /\ IF inTurn THEN Readable!Next /\ OneRuns' ELSE Next
    /\ UNCHANGED inTurn

TurnSpec == TurnInit /\ [][TurnNext]_<<vars, inTurn>>

\* "appends ... to .gitattributes if no matching line is already there": for
\* uploads in turn, whose reads get to the end of a file of at most 64 KiB,
\* patterns are never lost, whatever else fails.  Without any of the three the
\* code loses some: it writes back what it has read, and no more.
PatternsKeptInTurn == [][inTurn => KeepsPatterns]_vars

=============================================================================
