---------------------------- MODULE PublishReview ----------------------------
(***************************************************************************)
(* What the publish workflow promises, with every operation one step: a    *)
(* request starts pending, one review decides it, approval and             *)
(* publication are the same event, and a decided request changes no more.  *)
(***************************************************************************)
CONSTANT RequestIds

VARIABLES
    status,    \* the status of every request, "unused" before it is opened
    published  \* the requests whose model was copied into the catalog

Init ==
    /\ status = [r \in RequestIds |-> "unused"]
    /\ published = {}

Open(r) ==
    /\ status[r] = "unused"
    /\ status' = [status EXCEPT ![r] = "pending"]
    /\ UNCHANGED published

Approve(r) ==
    /\ status[r] = "pending"
    /\ status' = [status EXCEPT ![r] = "approved"]
    /\ published' = published \cup {r}

Reject(r) ==
    /\ status[r] = "pending"
    /\ status' = [status EXCEPT ![r] = "rejected"]
    /\ UNCHANGED published

Remove(r) ==
    /\ status[r] \in {"pending", "approved", "rejected"}
    /\ status' = [status EXCEPT ![r] = "deleted"]
    /\ UNCHANGED published

Next == \E r \in RequestIds : Open(r) \/ Approve(r) \/ Reject(r) \/ Remove(r)

Spec == Init /\ [][Next]_<<status, published>>

=============================================================================
