------------------------------ MODULE MCPublish ------------------------------
(* Small instances of Publish: one member, one admin, one namespace. *)
EXTENDS Publish, TLC

CONSTANTS member, admin, ns1

MCUsers == {member, admin}
MCAdmins == {admin}
MCNamespaces == {ns1}
MCMembership == {<<member, ns1>>}

\* Model ids, request ids and handlers are only compared for equality.
Symmetry == Permutations(ModelIds) \cup Permutations(RequestIds)
                \cup Permutations(Calls)

=============================================================================
