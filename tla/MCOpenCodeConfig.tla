-------------------------- MODULE MCOpenCodeConfig --------------------------
(***************************************************************************)
(* Small instances of OpenCodeConfig.                                      *)
(***************************************************************************)
EXTENDS OpenCodeConfig

CONSTANTS qwen, llama, c1, c2

=============================================================================
