--------------------------- MODULE MCClientStores ---------------------------
(***************************************************************************)
(* Small instances of ClientStores: two namespaces, an object in each and  *)
(* one more.                                                               *)
(***************************************************************************)
EXTENDS ClientStores, TLC

CONSTANTS a, b, x, y

OneEach == x :> a @@ y :> b

\* Every store: with a user who waits, with one who does not, and without a
\* backend.
EveryStore == [store : Stores, now : {{"in-turn"}, {"in-turn", "lossy"}, {"in-order"}, {"lossy"}, {"in-turn", "offline"}}]

\* AI Storage, and a user who changes the namespace before its list is there.
AIStorageOnly == [store : {AIStorage}, now : {{}}]

=============================================================================
