--------------------------- MODULE AgentWorkspace ---------------------------
(***************************************************************************)
(* A user's agent workspace: a Deployment, a Service and a PVC that the    *)
(* backend creates on first login, edits, restarts and deletes, each with  *)
(* API-server calls of its own and no transaction around them.             *)
(* Source: backend/internal/agentworkspace.                                *)
(*                                                                         *)
(* One user's objects are modelled; the calls are the requests of their    *)
(* tabs.  Any API call may fail, which ends its request.                   *)
(***************************************************************************)
EXTENDS Naturals

CONSTANTS
    Worlds,  \* the circumstances to look at
    Sizes,   \* quantities a resource can have
    Default, \* the quantity Options gives a new Deployment or PVC
    Same,    \* an empty string of ResourceSpec: leave unchanged
    Specs,   \* bound: the updates users ask for
    Calls    \* bound: requests in flight at once

Fields == {"cpu", "memory"}

ResourceSpec == [Fields \cup {"storage"} -> Sizes \cup {Same}]

\* What the user asks for, and whether requests are in flight together.
Circumstances == {"ensure", "delete", "update", "restart", "overlap"}

ASSUME WorkspaceAssumption ==
    /\ Worlds \subseteq SUBSET Circumstances
    /\ Sizes \subseteq Nat
    /\ Default \in Sizes
    /\ Same \notin Sizes
    /\ Specs \subseteq ResourceSpec

VARIABLES
    deploy,  \* the Deployment: its phase and its container's resources
    service, \* whether the Service exists
    pvc,     \* the PVC: its phase and its size
    calls,   \* the requests in flight
    world    \* the circumstances of this behaviour

vars == <<deploy, service, pvc, calls, world>>

\* "terminating": deleted, but held by a finalizer (foreground deletion of the
\* Deployment, protection of a PVC that a pod mounts).
Phase == {"absent", "live", "terminating"}

Resources  == [Fields -> Sizes]
Deployment == [phase : Phase, res : Resources]
Claim      == [phase : Phase, size : Sizes]

\* spec: what an update sets; res: the Deployment it read; stale: the object
\* it read has changed since, so its resourceVersion will be refused.
Call == [at    : {"idle", "get", "pvcGet", "pvcCreate", "service", "deploy", "reget",
                  "delDeploy", "delService", "delPvc",
                  "read", "write", "pvcRead", "pvcWrite", "restart"},
         spec  : ResourceSpec,
         res   : Resources,
         stale : BOOLEAN]

NewResources == [f \in Fields |-> Default]

IdleCall == [at |-> "idle", spec |-> [f \in Fields \cup {"storage"} |-> Same],
             res |-> NewResources, stale |-> FALSE]

TypeOK ==
    /\ deploy \in Deployment
    /\ service \in BOOLEAN
    /\ pvc \in Claim
    /\ calls \in [Calls -> Call]
    /\ world \in Worlds

Init ==
    /\ deploy = [phase |-> "absent", res |-> NewResources]
    /\ service = FALSE
    /\ pvc = [phase |-> "absent", size |-> Default]
    /\ calls = [c \in Calls |-> IdleCall]
    /\ world \in Worlds

-----------------------------------------------------------------------------

Goto(c, at) == calls' = [calls EXCEPT ![c] = [@ EXCEPT !.at = at]]
Return(c)   == calls' = [calls EXCEPT ![c] = IdleCall]

\* Goroutine c goes on with locals k after an object changed: whoever waits
\* to write that object (at the given point) holds an old resourceVersion.
Changed(c, k, at) ==
    calls' = [d \in Calls |->
                IF d = c THEN k
                ELSE IF calls[d].at = at THEN [calls[d] EXCEPT !.stale = TRUE]
                ELSE calls[d]]

MayBegin(c, op) ==
    /\ op \in world
    /\ calls[c].at = "idle"
    /\ "overlap" \notin world => \A d \in Calls : calls[d].at = "idle"

Begin(c, op, at) ==
    /\ MayBegin(c, op)
    /\ Goto(c, at)
    /\ UNCHANGED <<deploy, service, pvc>>

BeginEnsure(c)  == Begin(c, "ensure", "get")
BeginDelete(c)  == Begin(c, "delete", "delDeploy")
BeginRestart(c) == Begin(c, "restart", "restart")

BeginUpdate(c, spec) ==
    /\ MayBegin(c, "update")
    /\ calls' = [calls EXCEPT ![c] = [IdleCall EXCEPT !.at = "read", !.spec = spec]]
    /\ UNCHANGED <<deploy, service, pvc>>

\* What the API server refuses: objects that are not there, writes with an
\* old resourceVersion, a claim that would shrink.
Refused(k) ==
    \/ k.at \in {"read", "restart"} /\ deploy.phase = "absent"
    \/ k.at = "pvcRead" /\ pvc.phase = "absent"
    \/ k.at \in {"write", "pvcWrite"} /\ k.stale
    \/ k.at = "pvcWrite" /\ k.spec["storage"] < pvc.size

\* A request ends at an API call that is refused, or fails, or whose context
\* is cancelled.
Abort(c) ==
    /\ calls[c].at # "idle"
    /\ Return(c)
    /\ UNCHANGED <<deploy, service, pvc>>

-----------------------------------------------------------------------------
(* Ensure: PVC, then Service, then Deployment, unless there is one *)

\* Whatever its phase, a Deployment that is there is the workspace.
EnsureGet(c) ==
    /\ calls[c].at = "get"
    /\ IF deploy.phase = "absent" THEN Goto(c, "pvcGet") ELSE Return(c)
    /\ UNCHANGED <<deploy, service, pvc>>

\* Mutant: takes a PVC that is there for a workspace that is.
EnsurePvcGetSkips(c) ==
    /\ calls[c].at = "pvcGet"
    /\ Goto(c, IF pvc.phase = "absent" THEN "pvcCreate" ELSE "deploy")
    /\ UNCHANGED <<deploy, service, pvc>>

EnsurePvcGet(c) ==
    /\ calls[c].at = "pvcGet"
    /\ Goto(c, IF pvc.phase = "absent" THEN "pvcCreate" ELSE "service")
    /\ UNCHANGED <<deploy, service, pvc>>

\* AlreadyExists is success here and below.
EnsurePvcCreate(c) ==
    /\ calls[c].at = "pvcCreate"
    /\ pvc' = IF pvc.phase = "absent" THEN [phase |-> "live", size |-> Default] ELSE pvc
    /\ Goto(c, "service")
    /\ UNCHANGED <<deploy, service>>

EnsureService(c) ==
    /\ calls[c].at = "service"
    /\ service' = TRUE
    /\ Goto(c, "deploy")
    /\ UNCHANGED <<deploy, pvc>>

EnsureDeployment(c) ==
    /\ calls[c].at = "deploy"
    /\ deploy' = IF deploy.phase = "absent"
                 THEN [phase |-> "live", res |-> NewResources] ELSE deploy
    /\ Goto(c, "reget")
    /\ UNCHANGED <<service, pvc>>

\* The Get that answers the request; NotFound is an error by now.
EnsureReget(c) ==
    /\ calls[c].at = "reget"
    /\ Return(c)
    /\ UNCHANGED <<deploy, service, pvc>>

-----------------------------------------------------------------------------
(* Delete: Deployment, Service, PVC; not found counts as deleted.  A deletion
   that waits for finalizers is a change of the object. *)

\* Mutant: carries on after the API call failed.
DeleteDeploymentBestEffort(c) ==
    /\ calls[c].at = "delDeploy"
    /\ deploy' \in {deploy,
                    [deploy EXCEPT !.phase = IF @ = "live" THEN "terminating" ELSE @]}
    /\ Changed(c, [IdleCall EXCEPT !.at = "delService"], "write")
    /\ UNCHANGED <<service, pvc>>

DeleteDeployment(c) ==
    /\ calls[c].at = "delDeploy"
    /\ deploy' = [deploy EXCEPT !.phase = IF @ = "live" THEN "terminating" ELSE @]
    /\ Changed(c, [IdleCall EXCEPT !.at = "delService"], "write")
    /\ UNCHANGED <<service, pvc>>

DeleteService(c) ==
    /\ calls[c].at = "delService"
    /\ service' = FALSE
    /\ Goto(c, "delPvc")
    /\ UNCHANGED <<deploy, pvc>>

DeletePvc(c) ==
    /\ calls[c].at = "delPvc"
    /\ pvc' = [pvc EXCEPT !.phase = IF @ = "live" THEN "terminating" ELSE @]
    /\ Changed(c, IdleCall, "pvcWrite")
    /\ UNCHANGED <<deploy, service>>

\* Finalizers are done: a terminating object goes, and with it every
\* resourceVersion read from it.
CollectDeployment ==
    /\ deploy.phase = "terminating"
    /\ deploy' = [deploy EXCEPT !.phase = "absent"]
    /\ calls' = [c \in Calls |-> IF calls[c].at = "write"
                                 THEN [calls[c] EXCEPT !.stale = TRUE] ELSE calls[c]]
    /\ UNCHANGED <<service, pvc>>

CollectPvc ==
    /\ pvc.phase = "terminating"
    /\ pvc' = [pvc EXCEPT !.phase = "absent"]
    /\ calls' = [c \in Calls |-> IF calls[c].at = "pvcWrite"
                                 THEN [calls[c] EXCEPT !.stale = TRUE] ELSE calls[c]]
    /\ UNCHANGED <<deploy, service>>

-----------------------------------------------------------------------------
(* UpdateResources: read-modify-write of the Deployment, then of the PVC *)

Read(c) ==
    /\ calls[c].at = "read"
    /\ ~Refused(calls[c])
    /\ calls' = [calls EXCEPT ![c] = [@ EXCEPT !.at = "write", !.res = deploy.res,
                                               !.stale = FALSE]]
    /\ UNCHANGED <<deploy, service, pvc>>

\* setQuantity on every field of the copy.
Edited(k) == [f \in Fields |-> IF k.spec[f] = Same THEN k.res[f] ELSE k.spec[f]]

AfterWrite(k) ==
    IF k.spec["storage"] = Same THEN IdleCall ELSE [k EXCEPT !.at = "pvcRead"]

\* Mutant: a write that does not carry the resourceVersion it read.
WriteUnconditionally(c) ==
    /\ calls[c].at = "write"
    /\ deploy.phase # "absent"
    /\ deploy' = [deploy EXCEPT !.res = Edited(calls[c])]
    /\ IF deploy' = deploy
       THEN calls' = [calls EXCEPT ![c] = AfterWrite(calls[c])]
       ELSE Changed(c, AfterWrite(calls[c]), "write")
    /\ UNCHANGED <<service, pvc>>

\* The write that the API server accepts; a write that changes nothing leaves
\* the resourceVersion alone.  A refused one is Abort.
Write(c) ==
    /\ calls[c].at = "write"
    /\ ~Refused(calls[c])
    /\ deploy' = [deploy EXCEPT !.res = Edited(calls[c])]
    /\ IF deploy' = deploy
       THEN calls' = [calls EXCEPT ![c] = AfterWrite(calls[c])]
       ELSE Changed(c, AfterWrite(calls[c]), "write")
    /\ UNCHANGED <<service, pvc>>

PvcRead(c) ==
    /\ calls[c].at = "pvcRead"
    /\ ~Refused(calls[c])
    /\ calls' = [calls EXCEPT ![c] = [@ EXCEPT !.at = "pvcWrite", !.stale = FALSE]]
    /\ UNCHANGED <<deploy, service, pvc>>

\* A claim grows or keeps its size; the API server refuses to shrink it.
PvcWrite(c) ==
    /\ calls[c].at = "pvcWrite"
    /\ ~Refused(calls[c])
    /\ pvc' = [pvc EXCEPT !.size = calls[c].spec["storage"]]
    /\ IF pvc' = pvc THEN Return(c) ELSE Changed(c, IdleCall, "pvcWrite")
    /\ UNCHANGED <<deploy, service>>

\* A merge patch of an annotation: it needs no resourceVersion and makes those
\* read before it stale.
Restart(c) ==
    /\ calls[c].at = "restart"
    /\ ~Refused(calls[c])
    /\ Changed(c, IdleCall, "write")
    /\ UNCHANGED <<deploy, service, pvc>>

-----------------------------------------------------------------------------

Step ==
    \/ \E c \in Calls :
        \/ BeginEnsure(c) \/ BeginDelete(c) \/ BeginRestart(c) \/ Abort(c)
        \/ EnsureGet(c) \/ EnsurePvcGet(c) \/ EnsurePvcCreate(c)
        \/ EnsureService(c) \/ EnsureDeployment(c) \/ EnsureReget(c)
        \/ DeleteDeployment(c) \/ DeleteService(c) \/ DeletePvc(c)
        \/ Read(c) \/ Write(c) \/ PvcRead(c) \/ PvcWrite(c) \/ Restart(c)
        \/ \E spec \in Specs : BeginUpdate(c, spec)
    \/ CollectDeployment
    \/ CollectPvc

Next == Step /\ UNCHANGED world

Spec == Init /\ [][Next]_vars

-----------------------------------------------------------------------------

\* The Deployment is created last and found first: as long as nobody deletes
\* the workspace, one that exists has its PVC and its Service, whichever API
\* call of whichever Ensure failed on the way.
LiveDeploymentHasParts ==
    "delete" \notin world /\ deploy.phase # "absent" =>
        service /\ pvc.phase = "live"

\* What the requests in flight know, for the invariant above.
EnsureProgress ==
    "delete" \notin world =>
        /\ deploy.phase # "terminating" /\ pvc.phase # "terminating"
        /\ \A c \in Calls :
            /\ calls[c].at \notin {"delDeploy", "delService", "delPvc"}
            /\ calls[c].at \in {"service", "deploy"} => pvc.phase = "live"
            /\ calls[c].at = "deploy" => service

\* A copy that is not stale is the Deployment as it stands.
FreshCopies ==
    \A c \in Calls : calls[c].at = "write" /\ ~calls[c].stale =>
        deploy.phase # "absent" /\ calls[c].res = deploy.res

\* "Empty strings mean leave unchanged", with any overlap of updates, restarts
\* and failures: a resource changes only to what an update in progress asks.
OnlyAskedChanges ==
    [][deploy.phase # "absent" =>
        \A f \in Fields : deploy'.res[f] # deploy.res[f] =>
            \E c \in Calls : /\ calls[c].at = "write"
                             /\ calls[c].spec[f] = deploy'.res[f]]_vars

\* "not-found is treated as success so repeated deletes are idempotent": a
\* Delete that gets through leaves nothing behind, also when an earlier one
\* failed half way, if no other request is in flight.
DeleteLeavesNothing ==
    []["overlap" \notin world => \A c \in Calls : DeletePvc(c) =>
        deploy.phase # "live" /\ ~service /\ pvc'.phase # "live"]_vars

=============================================================================
