---------------------------- MODULE MCGitLabLFS ----------------------------
(***************************************************************************)
(* Small instances of GitLabLFS, overlapping and in turn.                  *)
(***************************************************************************)
EXTENDS GitLabLFSTurns, TLC

CONSTANTS weights, tokenizer, bins, onnx, empty, b1, c1, c2

\* Paths are alike, and so are patterns, uploads and contents that are not empty.
Symmetry ==
    Permutations(Calls) \cup Permutations(Blobs \ {Empty})
        \cup Permutations(Paths) \cup Permutations(Globs)

=============================================================================
