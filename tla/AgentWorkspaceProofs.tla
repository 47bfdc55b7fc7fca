------------------------ MODULE AgentWorkspaceProofs ------------------------
(***************************************************************************)
(* Proofs about the agent workspace: about AgentWorkspace, for any number  *)
(* of requests in flight, any updates and any failures of the API server,  *)
(* and about WorkspacePage, the console's page of it, for any number of    *)
(* clicks, polls and mishaps.                                              *)
(***************************************************************************)
EXTENDS AgentWorkspace, WorkspacePage, FiniteSetTheorems, TLAPS

\* The PVC is written only when the update asks for a size.
ResizeAsked ==
    \A c \in Calls : calls[c].at \in {"pvcRead", "pvcWrite"} => calls[c].spec["storage"] # Same

\* The inductive invariant: what holds of the objects, and what the requests
\* in flight know of them.
IInv == TypeOK /\ LiveDeploymentHasParts /\ EnsureProgress /\ FreshCopies /\ ResizeAsked

\* What the last three ask of locals k with the given objects.
Knows(k, d, s, p) ==
    /\ "delete" \notin world =>
        /\ k.at \notin {"delDeploy", "delService", "delPvc"}
        /\ k.at \in {"service", "deploy"} => p.phase = "live"
        /\ k.at = "deploy" => s
    /\ k.at = "write" /\ ~k.stale => d.phase # "absent" /\ k.res = d.res
    /\ k.at \in {"pvcRead", "pvcWrite"} => k.spec["storage"] # Same

-----------------------------------------------------------------------------

\* The locals of a goroutine between requests are well typed.
LEMMA IdleTypes == IdleCall \in Call /\ IdleCall.at = "idle"
  BY WorkspaceAssumption DEF IdleCall, Call, ResourceSpec, Resources, NewResources

\* The invariant on the requests in flight, goroutine by goroutine.
LEMMA InvOfKnows ==
    ASSUME world' = world, TypeOK', LiveDeploymentHasParts',
           "delete" \notin world => deploy'.phase # "terminating" /\ pvc'.phase # "terminating",
           \A d \in Calls : Knows(calls'[d], deploy', service', pvc')
    PROVE  IInv'
  BY DEF IInv, EnsureProgress, FreshCopies, ResizeAsked, Knows

\* And back.
LEMMA KnowsOfInv ==
    ASSUME IInv, NEW d \in Calls
    PROVE  /\ calls[d] \in Call
           /\ Knows(calls[d], deploy, service, pvc)
           /\ "delete" \notin world => deploy.phase # "terminating" /\ pvc.phase # "terminating"
  BY DEF IInv, TypeOK, EnsureProgress, FreshCopies, ResizeAsked, Knows

\* A goroutine moves on to locals k; no object changes.
LEMMA LocalStep ==
    ASSUME IInv, world' = world, NEW c \in Calls, NEW k \in Call,
           calls' = [calls EXCEPT ![c] = k], UNCHANGED <<deploy, service, pvc>>,
           Knows(k, deploy, service, pvc)
    PROVE  IInv'
  <1>1. TypeOK'
    BY DEF IInv, TypeOK
  <1>2. LiveDeploymentHasParts'
    BY DEF IInv, LiveDeploymentHasParts
  <1>3. \A d \in Calls : calls'[d] = IF d = c THEN k ELSE calls[d]
    BY DEF IInv, TypeOK
  <1>4. \A d \in Calls : Knows(calls'[d], deploy, service, pvc)
    BY <1>3, KnowsOfInv
  <1>5. "delete" \notin world => deploy.phase # "terminating" /\ pvc.phase # "terminating"
    BY KnowsOfInv
  <1>6. QED
    BY <1>1, <1>2, <1>4, <1>5, InvOfKnows

\* Moving the program counter changes nothing else.
LEMMA GotoTypes ==
    ASSUME NEW old \in Call,
           NEW at \in {"pvcGet", "pvcCreate", "service", "deploy", "reget", "delPvc", "pvcRead"},
           NEW k, k = [old EXCEPT !.at = at]
    PROVE  k \in Call /\ k.at = at /\ k.spec = old.spec
  BY DEF Call

\* What making old copies stale does to the goroutines: c gets locals k, those
\* at the given point are stale, the others are as they were.
LEMMA ChangedTypes ==
    ASSUME TypeOK, NEW c \in Calls, NEW k \in Call, NEW at, Changed(c, k, at)
    PROVE  /\ calls' \in [Calls -> Call]
           /\ calls'[c] = k
           /\ \A d \in Calls \ {c} :
                /\ calls'[d].at = calls[d].at /\ calls'[d].spec = calls[d].spec
                /\ calls[d].at = at => calls'[d].stale
                /\ calls[d].at # at => calls'[d] = calls[d]
  <1>1. \A d \in Calls : calls[d] \in Call
    BY DEF TypeOK
  <1>2. \A d \in Calls : /\ [calls[d] EXCEPT !.stale = TRUE] \in Call
                         /\ [calls[d] EXCEPT !.stale = TRUE].at = calls[d].at
                         /\ [calls[d] EXCEPT !.stale = TRUE].spec = calls[d].spec
                         /\ [calls[d] EXCEPT !.stale = TRUE].stale
    BY <1>1 DEF Call
  <1>3. QED
    BY <1>1, <1>2 DEF Changed

\* A deployment, PVC or set of resources with one field replaced.
LEMMA ObjectTypes ==
    ASSUME TypeOK, NEW p \in Phase, NEW size \in Sizes, NEW res \in Resources
    PROVE  /\ [deploy EXCEPT !.phase = p] \in Deployment
           /\ [deploy EXCEPT !.phase = p].phase = p
           /\ [deploy EXCEPT !.res = res] \in Deployment
           /\ [deploy EXCEPT !.res = res].phase = deploy.phase
           /\ [deploy EXCEPT !.res = res].res = res
           /\ [pvc EXCEPT !.phase = p] \in Claim
           /\ [pvc EXCEPT !.phase = p].phase = p
           /\ [pvc EXCEPT !.size = size] \in Claim
           /\ [pvc EXCEPT !.size = size].phase = pvc.phase
  BY DEF TypeOK, Deployment, Claim

-----------------------------------------------------------------------------
(* Steps that change no object *)

\* A request ends, refused or answered.
LEMMA ReturnStep ==
    ASSUME IInv, world' = world, NEW c \in Calls, Return(c), UNCHANGED <<deploy, service, pvc>>
    PROVE  IInv'
  <1>1. Knows(IdleCall, deploy, service, pvc)
    BY IdleTypes DEF Knows
  <1>2. QED
    BY <1>1, IdleTypes, LocalStep DEF Return

\* A request moves on to a point where it knows no object of that moment.
LEMMA GotoStep ==
    ASSUME IInv, world' = world, NEW c \in Calls,
           NEW at \in {"pvcGet", "pvcCreate", "service", "deploy", "reget", "delPvc"},
           Goto(c, at), UNCHANGED <<deploy, service, pvc>>,
           at = "delPvc" => "delete" \in world,
           at \in {"service", "deploy"} /\ "delete" \notin world => pvc.phase = "live",
           at = "deploy" /\ "delete" \notin world => service
    PROVE  IInv'
  <1> DEFINE k == [calls[c] EXCEPT !.at = at]
  <1>1. k \in Call /\ k.at = at
    BY KnowsOfInv, GotoTypes
  <1>2. calls' = [calls EXCEPT ![c] = k]
    BY DEF Goto
  <1> HIDE DEF k
  <1>3. Knows(k, deploy, service, pvc)
    BY <1>1 DEF Knows
  <1>4. QED
    BY <1>1, <1>2, <1>3, LocalStep

\* A request begins.
LEMMA BeginStep ==
    ASSUME IInv, world' = world, NEW c \in Calls,
           \/ BeginEnsure(c) \/ BeginDelete(c) \/ BeginRestart(c)
           \/ \E spec \in Specs : BeginUpdate(c, spec)
    PROVE  IInv'
  <1>1. ASSUME NEW op, NEW at \in {"get", "delDeploy", "restart"}, Begin(c, op, at),
               at = "delDeploy" => op = "delete"
        PROVE  IInv'
    <2> DEFINE k == [calls[c] EXCEPT !.at = at]
    <2>1. k \in Call /\ k.at = at
      BY KnowsOfInv DEF Call
    <2>2. calls' = [calls EXCEPT ![c] = k] /\ UNCHANGED <<deploy, service, pvc>> /\ op \in world
      BY <1>1 DEF Begin, MayBegin, Goto
    <2> HIDE DEF k
    <2>3. Knows(k, deploy, service, pvc)
      BY <1>1, <2>1, <2>2 DEF Knows
    <2>4. QED
      BY <2>1, <2>2, <2>3, LocalStep
  <1>2. ASSUME NEW spec \in Specs, BeginUpdate(c, spec) PROVE IInv'
    <2> DEFINE k == [IdleCall EXCEPT !.at = "read", !.spec = spec]
    <2>1. k \in Call /\ k.at = "read"
      BY WorkspaceAssumption, IdleTypes DEF Call
    <2>2. calls' = [calls EXCEPT ![c] = k] /\ UNCHANGED <<deploy, service, pvc>>
      BY <1>2 DEF BeginUpdate, MayBegin
    <2> HIDE DEF k
    <2>3. Knows(k, deploy, service, pvc)
      BY <2>1 DEF Knows
    <2>4. QED
      BY <2>1, <2>2, <2>3, LocalStep
  <1>3. QED
    BY <1>1, <1>2 DEF BeginEnsure, BeginDelete, BeginRestart

\* The reads of UpdateResources.
LEMMA ReadStep ==
    ASSUME IInv, world' = world, NEW c \in Calls, Read(c) \/ PvcRead(c)
    PROVE  IInv'
  <1>0. calls[c] \in Call /\ deploy.res \in Resources
    BY DEF IInv, TypeOK, Deployment
  <1>1. CASE Read(c)
    <2> DEFINE k == [calls[c] EXCEPT !.at = "write", !.res = deploy.res, !.stale = FALSE]
    <2>1. k \in Call /\ k.at = "write" /\ k.res = deploy.res
      BY <1>0 DEF Call
    <2>2. /\ calls' = [calls EXCEPT ![c] = k]
          /\ UNCHANGED <<deploy, service, pvc>>
          /\ deploy.phase # "absent"
      BY <1>1 DEF Read, Refused
    <2> HIDE DEF k
    <2>3. Knows(k, deploy, service, pvc)
      BY <2>1, <2>2 DEF Knows
    <2>4. QED
      BY <2>1, <2>2, <2>3, LocalStep
  <1>2. CASE PvcRead(c)
    <2> DEFINE k == [calls[c] EXCEPT !.at = "pvcWrite", !.stale = FALSE]
    <2>1. k \in Call /\ k.at = "pvcWrite" /\ k.spec = calls[c].spec
      BY <1>0 DEF Call
    <2>2. /\ calls' = [calls EXCEPT ![c] = k]
          /\ UNCHANGED <<deploy, service, pvc>>
          /\ calls[c].at = "pvcRead"
      BY <1>2 DEF PvcRead
    <2> HIDE DEF k
    <2>3. Knows(k, deploy, service, pvc)
      BY <2>1, <2>2, KnowsOfInv DEF Knows
    <2>4. QED
      BY <2>1, <2>2, <2>3, LocalStep
  <1>3. QED
    BY <1>1, <1>2

-----------------------------------------------------------------------------
(* Ensure *)

\* The steps of Ensure that only look.
LEMMA EnsureLooks ==
    ASSUME IInv, world' = world, NEW c \in Calls, EnsureGet(c) \/ EnsurePvcGet(c) \/ EnsureReget(c)
    PROVE  IInv'
  <1>1. CASE EnsureGet(c)
    BY <1>1, GotoStep, ReturnStep DEF EnsureGet
  <1>2. CASE EnsurePvcGet(c)
    <2>1. pvc.phase # "absent" /\ "delete" \notin world => pvc.phase = "live"
      BY KnowsOfInv DEF IInv, TypeOK, Claim, Phase
    <2>2. QED
      BY <1>2, <2>1, GotoStep DEF EnsurePvcGet
  <1>3. CASE EnsureReget(c)
    BY <1>3, ReturnStep DEF EnsureReget
  <1>4. QED
    BY <1>1, <1>2, <1>3

\* The steps of Ensure that create: goroutine c moves on to locals k, and the
\* objects that others know of are still there, the Deployment as it was.
LEMMA CreateStep ==
    ASSUME IInv, world' = world, NEW c \in Calls, NEW k \in Call,
           calls' = [calls EXCEPT ![c] = k],
           TypeOK', LiveDeploymentHasParts',
           deploy.phase # "absent" => deploy' = deploy,
           deploy.phase # "terminating" => deploy'.phase # "terminating",
           service => service',
           pvc.phase # "absent" => pvc' = pvc,
           pvc.phase # "terminating" => pvc'.phase # "terminating",
           Knows(k, deploy', service', pvc')
    PROVE  IInv'
  <1>1. \A d \in Calls : calls'[d] = IF d = c THEN k ELSE calls[d]
    BY DEF IInv, TypeOK
  <1>2. ASSUME NEW d \in Calls PROVE Knows(calls'[d], deploy', service', pvc')
    <2>1. CASE d = c
      BY <1>1, <2>1
    <2>2. CASE d # c
      BY <1>1, <2>2, KnowsOfInv DEF Knows
    <2>3. QED
      BY <2>1, <2>2
  <1>3. "delete" \notin world => deploy'.phase # "terminating" /\ pvc'.phase # "terminating"
    BY KnowsOfInv
  <1>4. QED
    BY <1>2, <1>3, InvOfKnows

\* PVC, Service and Deployment, in that order.
LEMMA EnsureCreates ==
    ASSUME IInv, world' = world, NEW c \in Calls,
           EnsurePvcCreate(c) \/ EnsureService(c) \/ EnsureDeployment(c)
    PROVE  IInv'
  <1> DEFINE k(at) == [calls[c] EXCEPT !.at = at]
  <1>1. \A at \in {"service", "deploy", "reget"} : k(at) \in Call /\ k(at).at = at
    BY KnowsOfInv, GotoTypes
  <1>2. Knows(calls[c], deploy, service, pvc)
    BY KnowsOfInv
  <1>3. CASE EnsurePvcCreate(c)
    <2>1. calls' = [calls EXCEPT ![c] = k("service")] /\ UNCHANGED <<deploy, service>>
      BY <1>3 DEF EnsurePvcCreate, Goto
    <2>2. pvc' \in Claim /\ (pvc.phase # "absent" => pvc' = pvc)
                         /\ (pvc.phase = "absent" => pvc'.phase = "live")
      BY <1>3, WorkspaceAssumption DEF EnsurePvcCreate, IInv, TypeOK, Claim, Phase
    <2> HIDE DEF k
    <2>3. TypeOK'
      BY <1>1, <2>1, <2>2 DEF IInv, TypeOK
    <2>4. LiveDeploymentHasParts'
      BY <2>1, <2>2 DEF IInv, LiveDeploymentHasParts
    <2>5. "delete" \notin world => pvc'.phase = "live"
      BY <2>2, KnowsOfInv DEF IInv, TypeOK, Claim, Phase
    <2>6. Knows(k("service"), deploy', service', pvc')
      BY <1>1, <2>5 DEF Knows
    <2>7. QED
      BY <1>1, <2>1, <2>2, <2>3, <2>4, <2>6, CreateStep
  <1>4. CASE EnsureService(c)
    <2>1. calls' = [calls EXCEPT ![c] = k("deploy")] /\ UNCHANGED <<deploy, pvc>> /\ service'
      BY <1>4 DEF EnsureService, Goto
    <2>2. calls[c].at = "service" /\ service' = TRUE
      BY <1>4 DEF EnsureService
    <2> HIDE DEF k
    <2>3. TypeOK'
      BY <1>1, <2>1, <2>2 DEF IInv, TypeOK
    <2>4. LiveDeploymentHasParts'
      BY <2>1 DEF IInv, LiveDeploymentHasParts
    <2>5. "delete" \notin world => pvc'.phase = "live"
      BY <1>2, <2>1, <2>2 DEF Knows
    <2>6. Knows(k("deploy"), deploy', service', pvc')
      BY <1>1, <2>1, <2>5 DEF Knows
    <2>7. QED
      BY <1>1, <2>1, <2>3, <2>4, <2>6, CreateStep
  <1>5. CASE EnsureDeployment(c)
    <2>1. calls' = [calls EXCEPT ![c] = k("reget")] /\ UNCHANGED <<service, pvc>>
          /\ calls[c].at = "deploy"
      BY <1>5 DEF EnsureDeployment, Goto
    <2>2. NewResources \in Resources
      BY WorkspaceAssumption DEF NewResources, Resources
    <2>3. /\ deploy' \in Deployment
          /\ deploy.phase # "absent" => deploy' = deploy
          /\ deploy.phase = "absent" => deploy'.phase = "live"
      BY <1>5, <2>2 DEF EnsureDeployment, IInv, TypeOK, Deployment, Phase
    <2> HIDE DEF k
    <2>4. TypeOK'
      BY <1>1, <2>1, <2>3 DEF IInv, TypeOK
    <2>5. "delete" \notin world => service /\ pvc.phase = "live"
      BY <1>2, <2>1 DEF Knows
    <2>6. LiveDeploymentHasParts'
      BY <2>1, <2>5 DEF LiveDeploymentHasParts
    <2>7. Knows(k("reget"), deploy', service', pvc')
      BY <1>1 DEF Knows
    <2>8. QED
      BY <1>1, <2>1, <2>3, <2>4, <2>6, <2>7, CreateStep
  <1>6. QED
    BY <1>3, <1>4, <1>5

-----------------------------------------------------------------------------
(* Steps that change an object: copies read from it become stale *)

\* Goroutine d is as it was, but for its copy if it waits at the given point.
Outdated(d, at) ==
    /\ calls'[d].at = calls[d].at /\ calls'[d].spec = calls[d].spec
    /\ calls[d].at = at => calls'[d].stale
    /\ calls[d].at # at => calls'[d] = calls[d]

\* Without Delete, the phases stay and the Service stays; a Deployment that
\* changed has made the copies of it stale.
LEMMA ChangeStep ==
    ASSUME IInv, world' = world, NEW at,
           calls' \in [Calls -> Call],
           deploy' \in Deployment, service' \in BOOLEAN, pvc' \in Claim,
           "delete" \notin world =>
                deploy'.phase = deploy.phase /\ pvc'.phase = pvc.phase /\ service' = service,
           deploy' = deploy \/ at = "write",
           \A d \in Calls : Knows(calls'[d], deploy', service', pvc') \/ Outdated(d, at)
    PROVE  IInv'
  <1>1. TypeOK'
    BY DEF IInv, TypeOK
  <1>2. LiveDeploymentHasParts'
    BY DEF IInv, LiveDeploymentHasParts
  <1>3. ASSUME NEW d \in Calls, Outdated(d, at)
        PROVE  Knows(calls'[d], deploy', service', pvc')
    <2>1. Knows(calls[d], deploy, service, pvc)
      BY KnowsOfInv
    <2>2. CASE calls[d].at = at
      BY <1>3, <2>1, <2>2 DEF Outdated, Knows
    <2>3. CASE calls[d].at # at
      BY <1>3, <2>1, <2>3 DEF Outdated, Knows
    <2>4. QED
      BY <2>2, <2>3
  <1>4. \A d \in Calls : Knows(calls'[d], deploy', service', pvc')
    BY <1>3
  <1>5. "delete" \notin world => deploy'.phase # "terminating" /\ pvc'.phase # "terminating"
    BY DEF IInv, EnsureProgress
  <1>6. QED
    BY <1>1, <1>2, <1>4, <1>5, InvOfKnows

\* The same for the step of a goroutine that goes on with locals k.
LEMMA ChangedStep ==
    ASSUME IInv, world' = world, NEW c \in Calls, NEW k \in Call, NEW at, Changed(c, k, at),
           deploy' \in Deployment, service' \in BOOLEAN, pvc' \in Claim,
           "delete" \notin world =>
                deploy'.phase = deploy.phase /\ pvc'.phase = pvc.phase /\ service' = service,
           deploy' = deploy \/ at = "write",
           Knows(k, deploy', service', pvc')
    PROVE  IInv'
  <1>1. TypeOK
    BY DEF IInv
  <1>2. calls' \in [Calls -> Call] /\ calls'[c] = k
    BY <1>1, ChangedTypes
  <1>3. \A d \in Calls \ {c} : Outdated(d, at)
    BY <1>1, ChangedTypes DEF Outdated
  <1>4. \A d \in Calls : Knows(calls'[d], deploy', service', pvc') \/ Outdated(d, at)
    BY <1>2, <1>3
  <1>5. QED
    BY <1>2, <1>4, ChangeStep

\* A goroutine that is deleting implies that Delete is among the operations.
LEMMA Deleting ==
    ASSUME IInv, NEW c \in Calls, calls[c].at \in {"delDeploy", "delService", "delPvc"}
    PROVE  "delete" \in world
  BY DEF IInv, EnsureProgress

\* Delete.
LEMMA DeleteStep ==
    ASSUME IInv, world' = world, NEW c \in Calls,
           DeleteDeployment(c) \/ DeleteService(c) \/ DeletePvc(c)
    PROVE  IInv'
  <1>0. "delete" \in world
    BY Deleting DEF DeleteDeployment, DeleteService, DeletePvc
  <1>1. deploy \in Deployment /\ service \in BOOLEAN /\ pvc \in Claim
    BY DEF IInv, TypeOK
  <1>2. Knows(IdleCall, deploy, service, pvc) /\ Knows(IdleCall, deploy, service, pvc')
    BY IdleTypes DEF Knows
  <1>3. CASE DeleteDeployment(c)
    <2> DEFINE k == [IdleCall EXCEPT !.at = "delService"]
    <2>1. k \in Call /\ k.at = "delService"
      BY IdleTypes DEF Call
    <2>2. Changed(c, k, "write") /\ UNCHANGED <<service, pvc>>
      BY <1>3 DEF DeleteDeployment
    <2>3. deploy' \in Deployment
      BY <1>1, <1>3 DEF DeleteDeployment, Deployment, Phase
    <2> HIDE DEF k
    <2>4. Knows(k, deploy', service', pvc')
      BY <1>0, <2>1 DEF Knows
    <2>5. QED
      BY <1>0, <1>1, <2>1, <2>2, <2>3, <2>4, ChangedStep
  <1>4. CASE DeleteService(c)
    <2> DEFINE k == [calls[c] EXCEPT !.at = "delPvc"]
    <2>1. k \in Call /\ k.at = "delPvc"
      BY KnowsOfInv, GotoTypes
    <2>2. calls' = [calls EXCEPT ![c] = k] /\ UNCHANGED <<deploy, pvc>> /\ service' = FALSE
      BY <1>4 DEF DeleteService, Goto
    <2> HIDE DEF k
    <2>3. calls' \in [Calls -> Call] /\ calls'[c] = k
          /\ \A d \in Calls \ {c} : calls'[d] = calls[d]
      BY <2>1, <2>2 DEF IInv, TypeOK
    <2>4. Knows(k, deploy', service', pvc')
      BY <1>0, <2>1 DEF Knows
    <2>5. \A d \in Calls \ {c} : Outdated(d, "none")
      <3>1. \A d \in Calls : calls[d].at # "none"
        BY KnowsOfInv DEF Call
      <3>2. QED
        BY <2>3, <3>1 DEF Outdated
    <2>6. \A d \in Calls : Knows(calls'[d], deploy', service', pvc') \/ Outdated(d, "none")
      BY <2>3, <2>4, <2>5
    <2>7. QED
      BY <1>0, <1>1, <2>2, <2>3, <2>6, ChangeStep
  <1>5. CASE DeletePvc(c)
    <2>1. Changed(c, IdleCall, "pvcWrite") /\ UNCHANGED <<deploy, service>>
      BY <1>5 DEF DeletePvc
    <2>2. pvc' \in Claim
      BY <1>1, <1>5 DEF DeletePvc, Claim, Phase
    <2>3. QED
      BY <1>0, <1>1, <1>2, <2>1, <2>2, IdleTypes, ChangedStep
  <1>6. QED
    BY <1>3, <1>4, <1>5

\* The garbage collector.
LEMMA CollectStep ==
    ASSUME IInv, world' = world, CollectDeployment \/ CollectPvc
    PROVE  IInv'
  <1>0. "delete" \in world
    BY KnowsOfInv DEF IInv, EnsureProgress, CollectDeployment, CollectPvc
  <1>1. deploy \in Deployment /\ service \in BOOLEAN /\ pvc \in Claim
        /\ \A d \in Calls : calls[d] \in Call
    BY DEF IInv, TypeOK
  <1>2. \A d \in Calls : /\ [calls[d] EXCEPT !.stale = TRUE] \in Call
                         /\ [calls[d] EXCEPT !.stale = TRUE].at = calls[d].at
                         /\ [calls[d] EXCEPT !.stale = TRUE].spec = calls[d].spec
                         /\ [calls[d] EXCEPT !.stale = TRUE].stale
    BY <1>1 DEF Call
  <1>3. CASE CollectDeployment
    <2>1. deploy' \in Deployment /\ UNCHANGED <<service, pvc>>
      BY <1>1, <1>3 DEF CollectDeployment, Deployment, Phase
    <2>2. calls' \in [Calls -> Call] /\ \A d \in Calls : Outdated(d, "write")
      BY <1>1, <1>2, <1>3 DEF CollectDeployment, Outdated
    <2>3. QED
      BY <1>0, <1>1, <2>1, <2>2, ChangeStep
  <1>4. CASE CollectPvc
    <2>1. pvc' \in Claim /\ UNCHANGED <<service, deploy>>
      BY <1>1, <1>4 DEF CollectPvc, Claim, Phase
    <2>2. calls' \in [Calls -> Call] /\ \A d \in Calls : Outdated(d, "pvcWrite")
      BY <1>1, <1>2, <1>4 DEF CollectPvc, Outdated
    <2>3. QED
      BY <1>0, <1>1, <2>1, <2>2, ChangeStep
  <1>5. QED
    BY <1>3, <1>4

-----------------------------------------------------------------------------
(* Writes *)

\* setQuantity keeps the types, and a field not asked for.
LEMMA EditedTypes ==
    ASSUME NEW k \in Call
    PROVE  /\ Edited(k) \in Resources
           /\ \A f \in Fields : k.spec[f] = Same => Edited(k)[f] = k.res[f]
           /\ \A f \in Fields : k.spec[f] # Same => Edited(k)[f] = k.spec[f]
  <1>1. k.spec \in [Fields \cup {"storage"} -> Sizes \cup {Same}] /\ k.res \in [Fields -> Sizes]
    BY DEF Call, ResourceSpec, Resources
  <1>2. \A f \in Fields : /\ k.res[f] \in Sizes
                          /\ k.spec[f] # Same => k.spec[f] \in Sizes
    BY <1>1 DEF Fields
  <1>3. QED
    BY <1>2 DEF Edited, Resources

\* What UpdateResources does after its Deployment was accepted.
LEMMA AfterWriteTypes ==
    ASSUME IInv, NEW c \in Calls, NEW d, NEW s, NEW p
    PROVE  AfterWrite(calls[c]) \in Call /\ Knows(AfterWrite(calls[c]), d, s, p)
  <1> DEFINE k == [calls[c] EXCEPT !.at = "pvcRead"]
  <1>1. k \in Call /\ k.at = "pvcRead" /\ k.spec = calls[c].spec
    BY KnowsOfInv, GotoTypes
  <1>2. AfterWrite(calls[c]) = IF calls[c].spec["storage"] = Same THEN IdleCall ELSE k
    BY DEF AfterWrite
  <1> HIDE DEF k
  <1>3. QED
    BY <1>1, <1>2, IdleTypes DEF Knows

\* The accepted write of a Deployment that was read before.
LEMMA WriteStep ==
    ASSUME IInv, world' = world, NEW c \in Calls, Write(c)
    PROVE  IInv'
  <1>1. calls[c] \in Call /\ deploy \in Deployment /\ service \in BOOLEAN /\ pvc \in Claim
    BY DEF IInv, TypeOK
  <1>2. /\ deploy' = [deploy EXCEPT !.res = Edited(calls[c])]
        /\ UNCHANGED <<service, pvc>>
        /\ IF deploy' = deploy
           THEN calls' = [calls EXCEPT ![c] = AfterWrite(calls[c])]
           ELSE Changed(c, AfterWrite(calls[c]), "write")
    BY DEF Write
  <1>3. deploy' \in Deployment /\ deploy'.phase = deploy.phase
    BY <1>1, <1>2, EditedTypes DEF Deployment
  <1>4. /\ AfterWrite(calls[c]) \in Call
        /\ Knows(AfterWrite(calls[c]), deploy, service, pvc)
        /\ Knows(AfterWrite(calls[c]), deploy', service', pvc')
    BY AfterWriteTypes
  <1>5. CASE deploy' = deploy
    BY <1>2, <1>4, <1>5, LocalStep
  <1>6. CASE deploy' # deploy
    BY <1>1, <1>2, <1>3, <1>4, <1>6, ChangedStep
  <1>7. QED
    BY <1>5, <1>6

\* The accepted resize of the PVC.
LEMMA PvcWriteStep ==
    ASSUME IInv, world' = world, NEW c \in Calls, PvcWrite(c)
    PROVE  IInv'
  <1>1. calls[c] \in Call /\ deploy \in Deployment /\ service \in BOOLEAN /\ pvc \in Claim
    BY DEF IInv, TypeOK
  <1>2. /\ calls[c].at = "pvcWrite"
        /\ ~Refused(calls[c])
        /\ pvc' = [pvc EXCEPT !.size = calls[c].spec["storage"]]
        /\ UNCHANGED <<deploy, service>>
        /\ IF pvc' = pvc THEN Return(c) ELSE Changed(c, IdleCall, "pvcWrite")
    BY DEF PvcWrite
  <1>3. calls[c].spec["storage"] \in Sizes
    BY <1>1, <1>2 DEF IInv, ResizeAsked, Call, ResourceSpec
  <1>4. pvc' \in Claim /\ pvc'.phase = pvc.phase
    BY <1>1, <1>2, <1>3 DEF Claim
  <1>5. Knows(IdleCall, deploy', service', pvc')
    BY IdleTypes DEF Knows
  <1>6. CASE pvc' = pvc
    BY <1>2, <1>6, ReturnStep
  <1>7. CASE pvc' # pvc
    BY <1>1, <1>2, <1>4, <1>5, <1>7, IdleTypes, ChangedStep
  <1>8. QED
    BY <1>6, <1>7

\* The restart annotation.
LEMMA RestartStep ==
    ASSUME IInv, world' = world, NEW c \in Calls, Restart(c)
    PROVE  IInv'
  <1>1. Changed(c, IdleCall, "write") /\ UNCHANGED <<deploy, service, pvc>>
    BY DEF Restart
  <1>2. deploy \in Deployment /\ service \in BOOLEAN /\ pvc \in Claim
    BY DEF IInv, TypeOK
  <1>3. Knows(IdleCall, deploy', service', pvc')
    BY IdleTypes DEF Knows
  <1>4. QED
    BY <1>1, <1>2, <1>3, IdleTypes, ChangedStep

-----------------------------------------------------------------------------
(* The theorems *)

\* Nothing exists and nothing is in flight: the invariant holds.
LEMMA InitInv == Init => IInv
  <1> SUFFICES ASSUME Init PROVE IInv
    OBVIOUS
  <1>1. NewResources \in Resources
    BY WorkspaceAssumption DEF NewResources, Resources
  <1>2. TypeOK
    BY <1>1, IdleTypes, WorkspaceAssumption DEF Init, TypeOK, Deployment, Claim, Phase
  <1>3. \A c \in Calls : calls[c].at = "idle"
    BY IdleTypes DEF Init
  <1>4. QED
    BY <1>2, <1>3 DEF Init, IInv, LiveDeploymentHasParts, EnsureProgress, FreshCopies, ResizeAsked

\* Every step keeps the invariant.
LEMMA NextInv == IInv /\ [Next]_vars => IInv'
  <1> SUFFICES ASSUME IInv, [Next]_vars PROVE IInv'
    OBVIOUS
  <1>0. world' = world
    BY DEF Next, vars
  <1> USE <1>0
  <1>1. ASSUME NEW c \in Calls,
               \/ BeginEnsure(c) \/ BeginDelete(c) \/ BeginRestart(c)
               \/ \E spec \in Specs : BeginUpdate(c, spec)
        PROVE  IInv'
    BY <1>1, BeginStep
  <1>2. ASSUME NEW c \in Calls, Abort(c) PROVE IInv'
    BY <1>2, ReturnStep DEF Abort
  <1>3. ASSUME NEW c \in Calls, EnsureGet(c) \/ EnsurePvcGet(c) \/ EnsureReget(c)
        PROVE  IInv'
    BY <1>3, EnsureLooks
  <1>4. ASSUME NEW c \in Calls, EnsurePvcCreate(c) \/ EnsureService(c) \/ EnsureDeployment(c)
        PROVE  IInv'
    BY <1>4, EnsureCreates
  <1>5. ASSUME NEW c \in Calls, DeleteDeployment(c) \/ DeleteService(c) \/ DeletePvc(c)
        PROVE  IInv'
    BY <1>5, DeleteStep
  <1>6. ASSUME NEW c \in Calls, Read(c) \/ PvcRead(c) PROVE IInv'
    BY <1>6, ReadStep
  <1>7. ASSUME NEW c \in Calls, Write(c) PROVE IInv'
    BY <1>7, WriteStep
  <1>8. ASSUME NEW c \in Calls, PvcWrite(c) PROVE IInv'
    BY <1>8, PvcWriteStep
  <1>9. ASSUME NEW c \in Calls, Restart(c) PROVE IInv'
    BY <1>9, RestartStep
  <1>10. CASE CollectDeployment \/ CollectPvc
    BY <1>10, CollectStep
  <1>11. CASE UNCHANGED vars
    <2>1. UNCHANGED <<deploy, service, pvc, calls>>
      BY <1>11 DEF vars
    <2>2. QED
      BY <2>1 DEF IInv, TypeOK, LiveDeploymentHasParts, EnsureProgress, FreshCopies, ResizeAsked
  <1>12. QED
    BY <1>1, <1>2, <1>3, <1>4, <1>5, <1>6, <1>7, <1>8, <1>9, <1>10, <1>11 DEF Next, Step

\* The invariant holds throughout.
LEMMA Invariance == Spec => []IInv
  BY InitInv, NextInv, PTL DEF Spec

\* The objects and the requests' locals keep their types.
THEOREM TypeCorrect == Spec => []TypeOK
  <1>1. IInv => TypeOK
    BY DEF IInv
  <1>2. QED
    BY <1>1, Invariance, PTL

\* While nobody deletes the workspace, a Deployment that exists has its PVC
\* and its Service, whichever Ensure calls overlapped or failed.
THEOREM PartsPresent == Spec => []LiveDeploymentHasParts
  <1>1. IInv => LiveDeploymentHasParts
    BY DEF IInv
  <1>2. QED
    BY <1>1, Invariance, PTL

\* A resource of the Deployment changes only to what an update in progress
\* asks for: the resourceVersion makes Write a compare-and-swap on the copy.
THEOREM OnlyAsked == Spec => OnlyAskedChanges
  <1>1. ASSUME IInv, [Next]_vars
        PROVE  [deploy.phase # "absent" =>
                 \A f \in Fields : deploy'.res[f] # deploy.res[f] =>
                    \E c \in Calls : /\ calls[c].at = "write"
                                     /\ calls[c].spec[f] = deploy'.res[f]]_vars
    <2> SUFFICES ASSUME deploy.phase # "absent", NEW f \in Fields,
                        deploy'.res[f] # deploy.res[f]
                 PROVE  \E c \in Calls : /\ calls[c].at = "write"
                                         /\ calls[c].spec[f] = deploy'.res[f]
      OBVIOUS
    <2>1. deploy \in Deployment
      BY <1>1 DEF IInv, TypeOK
    <2>2. \A p : [deploy EXCEPT !.phase = p].res = deploy.res
      BY <2>1 DEF Deployment
    <2>3. \A c \in Calls : ~EnsureDeployment(c)
      BY DEF EnsureDeployment
    <2>4. \A c \in Calls : ~DeleteDeployment(c)
      BY <2>1 DEF DeleteDeployment, Deployment
    <2>5. ~CollectDeployment
      BY <2>2 DEF CollectDeployment
    <2>6. deploy' # deploy
      OBVIOUS
    <2>7. PICK c \in Calls : Write(c)
      BY <1>1, <2>3, <2>4, <2>5, <2>6
      DEF Next, Step, vars, BeginEnsure, BeginDelete, BeginRestart, Begin, BeginUpdate, Abort,
          EnsureGet, EnsurePvcGet, EnsurePvcCreate, EnsureService, EnsureReget,
          DeleteService, DeletePvc, Read, PvcRead, PvcWrite, Restart, CollectPvc
    <2>8. /\ calls[c] \in Call
          /\ calls[c].at = "write"
          /\ ~calls[c].stale
          /\ deploy' = [deploy EXCEPT !.res = Edited(calls[c])]
      BY <1>1, <2>7 DEF Write, Refused, IInv, TypeOK
    <2>9. calls[c].res = deploy.res
      BY <1>1, <2>8 DEF IInv, FreshCopies
    <2>10. deploy'.res = Edited(calls[c])
      BY <2>1, <2>8 DEF Deployment
    <2>11. QED
      BY <2>8, <2>9, <2>10, EditedTypes
  <1>2. QED
    BY <1>1, Invariance, PTL DEF Spec, OnlyAskedChanges


-----------------------------------------------------------------------------
(* Delete, when one request is in flight at a time *)

OneBusy == \A c, d \in Calls : calls[c].at # "idle" /\ calls[d].at # "idle" => c = d

\* How far a Delete has come shows in the objects.
DeleteProgress ==
    \A c \in Calls :
        /\ calls[c].at \in {"delService", "delPvc"} => deploy.phase # "live"
        /\ calls[c].at = "delPvc" => ~service

DeleteKnows == "overlap" \notin world => OneBusy /\ DeleteProgress

\* Goroutine c gets to the given point, and the others stay where they are.
Moves(c, at) ==
    /\ calls'[c].at = at
    /\ \A d \in Calls \ {c} : calls'[d].at = calls[d].at

LEMMA GotoMoves ==
    ASSUME TypeOK, NEW c \in Calls, NEW at, Goto(c, at)
    PROVE  Moves(c, at)
  BY DEF TypeOK, Call, Goto, Moves

LEMMA ReturnMoves ==
    ASSUME TypeOK, NEW c \in Calls, Return(c)
    PROVE  Moves(c, "idle")
  BY DEF TypeOK, Return, Moves, IdleCall

LEMMA ChangedMoves ==
    ASSUME TypeOK, NEW c \in Calls, NEW k, NEW at, Changed(c, k, at)
    PROVE  Moves(c, k.at)
  <1>1. \A d \in Calls : [calls[d] EXCEPT !.stale = TRUE].at = calls[d].at
    BY DEF TypeOK, Call
  <1>2. QED
    BY <1>1 DEF TypeOK, Changed, Moves

\* The request in flight moves on, or one begins: nobody else is anywhere, and
\* the objects are as far as a Delete that got there took them.
LEMMA LoneMove ==
    ASSUME OneBusy, NEW c \in Calls, NEW at, Moves(c, at),
           calls[c].at # "idle" \/ \A d \in Calls : calls[d].at = "idle",
           at \in {"delService", "delPvc"} => deploy'.phase # "live",
           at = "delPvc" => ~service'
    PROVE  OneBusy' /\ DeleteProgress'
  <1>1. \A d \in Calls \ {c} : calls'[d].at = "idle"
    BY DEF OneBusy, Moves
  <1>2. QED
    BY <1>1 DEF OneBusy, Moves, DeleteProgress

\* Every request but Delete goes on to a point that Delete does not have.
LEMMA OtherMoves ==
    ASSUME IInv, OneBusy, NEW c \in Calls, "overlap" \notin world,
           \/ BeginEnsure(c) \/ BeginDelete(c) \/ BeginRestart(c) \/ Abort(c)
           \/ EnsureGet(c) \/ EnsurePvcGet(c) \/ EnsurePvcCreate(c)
           \/ EnsureService(c) \/ EnsureDeployment(c) \/ EnsureReget(c)
           \/ Read(c) \/ Write(c) \/ PvcRead(c) \/ PvcWrite(c) \/ Restart(c)
           \/ \E spec \in Specs : BeginUpdate(c, spec)
    PROVE  OneBusy' /\ DeleteProgress'
  <1>0. TypeOK /\ calls[c] \in Call
    BY DEF IInv, TypeOK
  <1>1. ASSUME NEW at, Moves(c, at), at \notin {"delService", "delPvc"},
               calls[c].at # "idle" \/ \A d \in Calls : calls[d].at = "idle"
        PROVE  OneBusy' /\ DeleteProgress'
    BY <1>1, LoneMove
  <1>2. CASE BeginEnsure(c) \/ BeginDelete(c) \/ BeginRestart(c)
    <2>1. ASSUME NEW op, NEW at \in {"get", "delDeploy", "restart"}, Begin(c, op, at)
          PROVE  OneBusy' /\ DeleteProgress'
      BY <1>0, <1>1, <2>1, GotoMoves DEF Begin, MayBegin
    <2>2. QED
      BY <1>2, <2>1 DEF BeginEnsure, BeginDelete, BeginRestart
  <1>3. ASSUME NEW spec \in Specs, BeginUpdate(c, spec) PROVE OneBusy' /\ DeleteProgress'
    <2>1. PICK k : k = [IdleCall EXCEPT !.at = "read", !.spec = spec]
      OBVIOUS
    <2>2. k.at = "read" /\ calls' = [calls EXCEPT ![c] = k]
      BY <1>3, <2>1 DEF BeginUpdate, IdleCall
    <2>3. Moves(c, "read")
      BY <1>0, <2>2 DEF TypeOK, Moves
    <2>4. QED
      BY <1>1, <1>3, <2>3 DEF BeginUpdate, MayBegin
  <1>4. CASE Abort(c)
    BY <1>0, <1>1, <1>4, ReturnMoves DEF Abort
  <1>5. CASE EnsureGet(c)
    BY <1>0, <1>1, <1>5, ReturnMoves, GotoMoves DEF EnsureGet
  <1>6. CASE EnsurePvcGet(c)
    BY <1>0, <1>1, <1>6, GotoMoves DEF EnsurePvcGet
  <1>7. CASE EnsurePvcCreate(c)
    BY <1>0, <1>1, <1>7, GotoMoves DEF EnsurePvcCreate
  <1>8. CASE EnsureService(c)
    BY <1>0, <1>1, <1>8, GotoMoves DEF EnsureService
  <1>9. CASE EnsureDeployment(c)
    BY <1>0, <1>1, <1>9, GotoMoves DEF EnsureDeployment
  <1>10. CASE EnsureReget(c)
    BY <1>0, <1>1, <1>10, ReturnMoves DEF EnsureReget
  <1>11. CASE Read(c)
    <2>1. PICK k : k = [calls[c] EXCEPT !.at = "write", !.res = deploy.res, !.stale = FALSE]
      OBVIOUS
    <2>2. k.at = "write" /\ calls' = [calls EXCEPT ![c] = k] /\ calls[c].at # "idle"
      BY <1>0, <1>11, <2>1 DEF Read, Call
    <2>3. Moves(c, "write")
      BY <1>0, <2>2 DEF TypeOK, Moves
    <2>4. QED
      BY <1>1, <2>2, <2>3
  <1>12. CASE PvcRead(c)
    <2>1. PICK k : k = [calls[c] EXCEPT !.at = "pvcWrite", !.stale = FALSE]
      OBVIOUS
    <2>2. k.at = "pvcWrite" /\ calls' = [calls EXCEPT ![c] = k] /\ calls[c].at # "idle"
      BY <1>0, <1>12, <2>1 DEF PvcRead, Call
    <2>3. Moves(c, "pvcWrite")
      BY <1>0, <2>2 DEF TypeOK, Moves
    <2>4. QED
      BY <1>1, <2>2, <2>3
  <1>13. CASE Write(c)
    <2>1. PICK k : k = AfterWrite(calls[c])
      OBVIOUS
    <2>2. k.at \in {"idle", "pvcRead"}
      BY <1>0, <2>1, GotoTypes, IdleTypes DEF AfterWrite
    <2>3. /\ calls[c].at # "idle"
          /\ calls' = [calls EXCEPT ![c] = k] \/ Changed(c, k, "write")
      BY <1>13, <2>1 DEF Write
    <2>4. calls' = [calls EXCEPT ![c] = k] => Moves(c, k.at)
      BY <1>0 DEF TypeOK, Moves
    <2>5. Moves(c, k.at)
      BY <1>0, <2>3, <2>4, ChangedMoves
    <2>6. QED
      BY <1>1, <2>2, <2>3, <2>5
  <1>14. CASE PvcWrite(c)
    <2>1. calls[c].at # "idle" /\ (Return(c) \/ Changed(c, IdleCall, "pvcWrite"))
      BY <1>14 DEF PvcWrite
    <2>2. Moves(c, "idle")
      BY <1>0, <2>1, ReturnMoves, ChangedMoves, IdleTypes
    <2>3. QED
      BY <1>1, <2>1, <2>2
  <1>15. CASE Restart(c)
    <2>1. calls[c].at # "idle" /\ Changed(c, IdleCall, "write")
      BY <1>15 DEF Restart
    <2>2. Moves(c, "idle")
      BY <1>0, <2>1, ChangedMoves, IdleTypes
    <2>3. QED
      BY <1>1, <2>1, <2>2
  <1>16. QED
    BY <1>2, <1>3, <1>4, <1>5, <1>6, <1>7, <1>8, <1>9, <1>10, <1>11, <1>12, <1>13, <1>14, <1>15

\* Delete takes the Deployment away, then the Service, then the PVC.
LEMMA DeleteTakesAway ==
    ASSUME IInv, OneBusy, DeleteProgress, NEW c \in Calls,
           DeleteDeployment(c) \/ DeleteService(c) \/ DeletePvc(c)
    PROVE  OneBusy' /\ DeleteProgress'
  <1>0. TypeOK /\ calls[c] \in Call
    BY DEF IInv, TypeOK
  <1>1. CASE DeleteDeployment(c)
    <2>1. PICK k : k = [IdleCall EXCEPT !.at = "delService"]
      OBVIOUS
    <2>2. k.at = "delService" /\ Changed(c, k, "write") /\ calls[c].at # "idle"
      BY <1>1, <2>1 DEF DeleteDeployment, IdleCall
    <2>3. deploy'.phase # "live"
      BY <1>0, <1>1 DEF DeleteDeployment, TypeOK, Deployment
    <2>4. Moves(c, "delService")
      BY <1>0, <2>2, ChangedMoves
    <2>5. QED
      BY <2>2, <2>3, <2>4, LoneMove
  <1>2. CASE DeleteService(c)
    <2>1. /\ calls[c].at = "delService" /\ Goto(c, "delPvc")
          /\ ~service' /\ deploy' = deploy
      BY <1>2 DEF DeleteService
    <2>2. deploy'.phase # "live"
      BY <2>1 DEF DeleteProgress
    <2>3. Moves(c, "delPvc")
      BY <1>0, <2>1, GotoMoves
    <2>4. QED
      BY <2>1, <2>2, <2>3, LoneMove
  <1>3. CASE DeletePvc(c)
    <2>1. calls[c].at # "idle" /\ Changed(c, IdleCall, "pvcWrite")
      BY <1>3 DEF DeletePvc
    <2>2. Moves(c, "idle")
      BY <1>0, <2>1, ChangedMoves, IdleTypes
    <2>3. QED
      BY <2>1, <2>2, LoneMove
  <1>4. QED
    BY <1>1, <1>2, <1>3

\* The garbage collector moves nobody and brings nothing back.
LEMMA CollectorMoves ==
    ASSUME IInv, OneBusy, DeleteProgress, CollectDeployment \/ CollectPvc
    PROVE  OneBusy' /\ DeleteProgress'
  <1>0. TypeOK /\ \A d \in Calls : calls[d] \in Call
    BY DEF IInv, TypeOK
  <1>1. \A d \in Calls : [calls[d] EXCEPT !.stale = TRUE].at = calls[d].at
    BY <1>0 DEF Call
  <1>2. \A d \in Calls : calls'[d].at = calls[d].at
    BY <1>1 DEF CollectDeployment, CollectPvc
  <1>3. service' = service /\ (deploy' = deploy \/ deploy'.phase = "absent")
    BY <1>0 DEF CollectDeployment, CollectPvc, TypeOK, Deployment
  <1>4. OneBusy'
    BY <1>2 DEF OneBusy
  <1>5. DeleteProgress'
    BY <1>2, <1>3 DEF DeleteProgress
  <1>6. QED
    BY <1>4, <1>5

\* Every step keeps it.
LEMMA DeleteKnowsStep == IInv /\ DeleteKnows /\ [Next]_vars => DeleteKnows'
  <1> SUFFICES ASSUME IInv, OneBusy, DeleteProgress, [Next]_vars, "overlap" \notin world
               PROVE  OneBusy' /\ DeleteProgress'
    BY DEF DeleteKnows, Next, vars
  <1>1. CASE UNCHANGED vars
    BY <1>1 DEF vars, OneBusy, DeleteProgress
  <1>2. CASE CollectDeployment \/ CollectPvc
    BY <1>2, CollectorMoves
  <1>3. ASSUME NEW c \in Calls, DeleteDeployment(c) \/ DeleteService(c) \/ DeletePvc(c)
        PROVE  OneBusy' /\ DeleteProgress'
    BY <1>3, DeleteTakesAway
  <1>4. ASSUME NEW c \in Calls,
               \/ BeginEnsure(c) \/ BeginDelete(c) \/ BeginRestart(c) \/ Abort(c)
               \/ EnsureGet(c) \/ EnsurePvcGet(c) \/ EnsurePvcCreate(c)
               \/ EnsureService(c) \/ EnsureDeployment(c) \/ EnsureReget(c)
               \/ Read(c) \/ Write(c) \/ PvcRead(c) \/ PvcWrite(c) \/ Restart(c)
               \/ \E spec \in Specs : BeginUpdate(c, spec)
        PROVE  OneBusy' /\ DeleteProgress'
    BY <1>4, OtherMoves
  <1>5. QED
    BY <1>1, <1>2, <1>3, <1>4 DEF Next, Step

\* A Delete that gets through leaves nothing behind, also when an earlier one
\* failed half way, if no other request is in flight: not-found is success, so
\* the next Delete starts over and finds whatever is left.
THEOREM DeleteLeavesNothingAlone == Spec => DeleteLeavesNothing
  <1>1. Init => DeleteKnows
    BY IdleTypes DEF Init, DeleteKnows, OneBusy, DeleteProgress
  <1>2. ASSUME IInv, DeleteKnows, [Next]_vars
        PROVE  ["overlap" \notin world => \A c \in Calls : DeletePvc(c) =>
                    deploy.phase # "live" /\ ~service /\ pvc'.phase # "live"]_vars
    <2> SUFFICES ASSUME "overlap" \notin world, NEW c \in Calls, DeletePvc(c)
                 PROVE  deploy.phase # "live" /\ ~service /\ pvc'.phase # "live"
      OBVIOUS
    <2>1. deploy.phase # "live" /\ ~service
      BY <1>2 DEF DeleteKnows, DeleteProgress, DeletePvc
    <2>2. pvc'.phase # "live"
      BY <1>2 DEF DeletePvc, IInv, TypeOK, Claim
    <2>3. QED
      BY <2>1, <2>2
  <1>3. Spec => []DeleteKnows
    BY <1>1, DeleteKnowsStep, Invariance, PTL DEF Spec
  <1>4. QED
    BY <1>2, <1>3, Invariance, PTL DEF Spec, DeleteLeavesNothing

-----------------------------------------------------------------------------
(* The page of the workspace *)

StatusKinds    == {"get-or-create", "create", "poll"}
OperationKinds == {"restart", "resize"}

\* What counts once: an operation that the server has yet to handle, and a
\* Deployment that is not there.
Pending(kind) == IF \E r \in requests : r.kind = kind /\ r.at = "sent" THEN 1 ELSE 0
Missing       == IF deployment.exists THEN 0 ELSE 1

\* Every revision is owed to a click or an event, or is the first.
RevisionsCounted ==
    deployment.rev + Missing + Pending("restart") + Pending("resize") <= clicks + events + 1

\* Requests are few: some of those for the status, and one of each other kind.
Few(S) ==
    /\ IsFiniteSet(S)
    /\ Cardinality({r \in S : r.kind \in StatusKinds}) <= MaxPolls + 1
    /\ \A r, s \in S : r.kind = s.kind /\ r.kind \notin StatusKinds => r = s

\* What has been served says how the workspace is.
AnswersTell == \A r \in requests : r.at = "served" /\ r.kind # "mint" => r.got # "ok"

\* Grants are asked for, and the iframe is open, in ready only.
GrantsWhenReady ==
    /\ \A r \in requests : r.kind = "mint" => phase = "ready"
    /\ frame.open => phase = "ready"
    /\ due > 0 <=> phase = "ready"

\* With prompt answers one request is in flight, and none but for the grant
\* where the workspace runs; the cookie has more left than the next grant is
\* away.
OneInFlight ==
    /\ \A r, s \in requests : r = s
    /\ \A r \in requests : r.kind # "mint" => phase # "ready"
    /\ \A r \in requests : r.kind \in OperationKinds => phase = "starting"
    /\ phase = "ready" /\ Pending("mint") = 0 => cookie >= Life - MintEvery + due
    /\ frame.open => cookie >= Life - MintEvery

\* If also the old pod goes first and nobody interferes: who has been told that
\* the workspace runs, has been told of the pod that is there.
PodsAreCurrent ==
    /\ deployment.ready \in {0, deployment.rev}
    /\ phase = "ready" => deployment.exists /\ deployment.ready = deployment.rev
    /\ \A r \in requests : r.at = "served" /\ r.got = "Running" => deployment.exists /\ deployment.ready = deployment.rev
    /\ frame.open => frame.on = deployment.rev

PageInv ==
    /\ WorkspaceTypeOK /\ RevisionsCounted /\ Few(requests) /\ AnswersTell
    /\ BadgeAgrees /\ GrantsWhenReady
    /\ Prompt => OneInFlight
    /\ Prompt /\ Gap /\ ~Others => PodsAreCurrent

\* One element more.
LEMMA OneMore ==
  ASSUME NEW S, IsFiniteSet(S), NEW x
  PROVE  /\ IsFiniteSet(S \cup {x})
         /\ Cardinality(S) \in Nat /\ Cardinality(S \cup {x}) \in Nat
         /\ Cardinality(S \cup {x}) <= Cardinality(S) + 1
<1>1. IsFiniteSet(S \cup {x}) /\ Cardinality(S \cup {x}) = IF x \in S THEN Cardinality(S) ELSE Cardinality(S) + 1
  BY FS_AddElement
<1>2. Cardinality(S) \in Nat
  BY FS_CardinalityType
<1> QED BY <1>1, <1>2

LEMMA FewSubset ==
  ASSUME NEW S, Few(S), NEW T \in SUBSET S
  PROVE  Few(T)
<1> DEFINE P(X) == {r \in X : r.kind \in StatusKinds}
<1>1. IsFiniteSet(S) /\ IsFiniteSet(T)
  BY FS_Subset DEF Few
<1>2. P(S) \in SUBSET S /\ P(T) \in SUBSET P(S)
  OBVIOUS
<1>3. IsFiniteSet(P(S))
  BY <1>1, <1>2, FS_Subset
<1>4. Cardinality(P(T)) <= Cardinality(P(S)) /\ IsFiniteSet(P(T))
  BY <1>2, <1>3, FS_Subset
<1>5. Cardinality(P(S)) \in Nat /\ Cardinality(P(T)) \in Nat
  BY <1>3, <1>4, FS_CardinalityType
<1>6. Cardinality(P(T)) <= MaxPolls + 1
  BY <1>4, <1>5, WorkspacePageAssumption DEF Few
<1> QED BY <1>1, <1>6 DEF Few

LEMMA FewAdd ==
  ASSUME NEW S, Few(S), NEW x, x.kind \notin StatusKinds, \A r \in S : r.kind # x.kind
  PROVE  Few(S \cup {x})
<1>1. IsFiniteSet(S \cup {x})
  BY FS_AddElement DEF Few
<1>2. {r \in S \cup {x} : r.kind \in StatusKinds} = {r \in S : r.kind \in StatusKinds}
  OBVIOUS
<1> QED BY <1>1, <1>2 DEF Few

LEMMA FewReplace ==
  ASSUME NEW S, Few(S), NEW q \in S, NEW x,
         x.kind = q.kind \/ (x.kind \in StatusKinds /\ q.kind \in StatusKinds)
  PROVE  Few((S \ {q}) \cup {x})
<1> DEFINE P(X) == {r \in X : r.kind \in StatusKinds}
           T == (S \ {q}) \cup {x}
<1>1. IsFiniteSet(S) /\ IsFiniteSet(T)
  BY FS_AddElement, FS_RemoveElement DEF Few
<1>2. IsFiniteSet(P(S))
  <2>1. P(S) \in SUBSET S
    OBVIOUS
  <2> QED BY <1>1, <2>1, FS_Subset
<1>3. CASE q.kind \in StatusKinds
  <2>1. q \in P(S) /\ P(T) = (P(S) \ {q}) \cup {x}
    BY <1>3
  <2>2. IsFiniteSet(P(S) \ {q}) /\ Cardinality(P(S) \ {q}) = Cardinality(P(S)) - 1
    BY <1>2, <2>1, FS_RemoveElement
  <2>3. Cardinality(P(S)) \in Nat
    BY <1>2, FS_CardinalityType
  <2>4. Cardinality((P(S) \ {q}) \cup {x}) <= Cardinality(P(S) \ {q}) + 1
    BY <2>2, OneMore
  <2>5. Cardinality(P(T)) \in Nat /\ Cardinality(P(S) \ {q}) \in Nat
    BY <2>1, <2>2, OneMore
  <2>6. Cardinality(P(T)) <= MaxPolls + 1
    <3>1. Cardinality(P(S)) <= MaxPolls + 1
      BY DEF Few
    <3>2. Cardinality(P(T)) <= Cardinality(P(S) \ {q}) + 1
      BY <2>1, <2>4
    <3> HIDE DEF P, T
    <3> QED BY <2>2, <2>3, <2>5, <3>1, <3>2, WorkspacePageAssumption
  <2>7. \A r, s \in T : r.kind = s.kind /\ r.kind \notin StatusKinds => r = s
    BY <1>3 DEF Few
  <2> QED BY <1>1, <2>6, <2>7 DEF Few
<1>4. CASE q.kind \notin StatusKinds
  <2>1. P(T) = P(S)
    BY <1>4
  <2>2. \A r \in S \ {q} : r.kind # q.kind
    BY <1>4 DEF Few
  <2>3. \A r, s \in T : r.kind = s.kind /\ r.kind \notin StatusKinds => r = s
    BY <1>4, <2>2 DEF Few
  <2> QED BY <1>1, <2>1, <2>3 DEF Few
<1> QED BY <1>3, <1>4

\* There are more numbers than requests.
LEMMA NumberIsFree ==
  ASSUME WorkspaceTypeOK, Few(requests)
  PROVE  FreeNumber \in Numbering
<1> USE WorkspacePageAssumption
<1> DEFINE P == {r \in requests : r.kind \in StatusKinds}
           one(k) == CHOOSE r \in requests : r.kind = k
           A == P \cup {one("mint")}
           B == A \cup {one("restart")}
           C == B \cup {one("resize")}
<1>1. IsFiniteSet(P) /\ Cardinality(P) \in Nat /\ Cardinality(P) <= MaxPolls + 1
  <2>1. P \in SUBSET requests
    OBVIOUS
  <2>2. IsFiniteSet(P)
    BY <2>1, FS_Subset DEF Few
  <2> QED BY <2>2, FS_CardinalityType DEF Few
<1> HIDE DEF P, one
<1>2. IsFiniteSet(A) /\ Cardinality(A) \in Nat /\ Cardinality(A) <= Cardinality(P) + 1
  BY <1>1, OneMore
<1> HIDE DEF A
<1>3. IsFiniteSet(B) /\ Cardinality(B) \in Nat /\ Cardinality(B) <= Cardinality(A) + 1
  BY <1>2, OneMore
<1> HIDE DEF B
<1>4. IsFiniteSet(C) /\ Cardinality(C) \in Nat /\ Cardinality(C) <= Cardinality(B) + 1
  BY <1>3, OneMore
<1>5. ASSUME NEW r \in requests PROVE r \in C
  <2>1. r.kind \in StatusKinds \cup {"mint", "restart", "resize"}
    BY DEF WorkspaceTypeOK, Request, StatusKinds
  <2>2. ASSUME NEW k, r.kind = k, k \notin StatusKinds PROVE r = one(k)
    <3>1. one(k) \in requests /\ one(k).kind = k
      BY <2>2 DEF one
    <3> QED BY <2>2, <3>1 DEF Few
  <2>3. "mint" \notin StatusKinds /\ "restart" \notin StatusKinds /\ "resize" \notin StatusKinds
    BY DEF StatusKinds
  <2> QED BY <2>1, <2>2, <2>3 DEF A, B, P
<1> HIDE DEF C
<1>6. IsFiniteSet(requests) /\ Cardinality(requests) \in Nat /\ Cardinality(requests) <= Cardinality(C)
  <2>1. requests \in SUBSET C
    BY <1>5
  <2> QED BY <1>4, <2>1, FS_Subset, FS_CardinalityType
<1>7. IsFiniteSet(Numbering) /\ Cardinality(Numbering) = MaxPolls + MaxClicks + 5
  BY FS_Interval DEF Numbering
<1>8. Cardinality(requests) < Cardinality(Numbering)
  BY <1>1, <1>2, <1>3, <1>4, <1>6, <1>7
<1>9. \E i \in Numbering : \A r \in requests : r.n # i
  <2> SUFFICES ASSUME \A i \in Numbering : \E r \in requests : r.n = i PROVE FALSE  OBVIOUS
  <2> DEFINE f == [i \in Numbering |-> CHOOSE r \in requests : r.n = i]
  <2>1. \A i \in Numbering : f[i] \in requests /\ f[i].n = i
    OBVIOUS
  <2>2. f \in [Numbering -> requests]
    BY <2>1
  <2> HIDE DEF f
  <2>3. \E x, y \in Numbering : x # y /\ f[x] = f[y]
    BY <1>6, <1>7, <1>8, <2>2, FS_PigeonHole
  <2> QED BY <2>1, <2>3
<1> QED BY <1>9 DEF FreeNumber

LEMMA SentType ==
  ASSUME WorkspaceTypeOK, Few(requests),
         NEW k \in {"get-or-create", "create", "poll", "mint", "restart", "resize"}
  PROVE  /\ Sent(k) \in Request
         /\ Sent(k).kind = k /\ Sent(k).at = "sent" /\ Sent(k).got = "ok"
  BY NumberIsFree DEF Sent, Request

\* What is counted, and keeps its type.
Counted == WorkspaceTypeOK /\ RevisionsCounted /\ Few(requests) /\ AnswersTell

Phases == {"init", "starting", "ready", "unavailable", "error"}

\* No operation has been sent.
NoNewOperation == \A r \in requests' : r.kind \in OperationKinds /\ r.at = "sent" => r \in requests

\* The effects of a phase change the requests by a grant only.
LEMMA EnterEffects ==
  ASSUME Counted, NEW p \in Phases, NEW rs \in SUBSET Request, Few(rs), Enter(p, rs)
  PROVE  /\ phase' = p
         /\ grant' \in BOOLEAN /\ due' \in 0..MintEvery /\ frame' \in [open : BOOLEAN, on : Revisions]
         /\ requests' \subseteq Request /\ Few(requests')
         /\ \A r \in requests' :
               r \in rs \/ (r.kind = "mint" /\ r.at = "sent" /\ p = "ready" /\ phase # "ready")
         /\ \A r \in rs : r.kind # "mint" => r \in requests'
<1> USE WorkspacePageAssumption
<1>t. WorkspaceTypeOK /\ Few(requests)
  BY DEF Counted
<1>1. CASE p = phase
  BY <1>1, <1>t DEF Enter, WorkspaceTypeOK
<1>2. CASE p # phase
  <2> DEFINE S == {r \in rs : r.kind # "mint"}
             m == Sent("mint")
  <2>1. /\ phase' = p /\ grant' = FALSE /\ frame' = NoFrame
        /\ due' = IF p = "ready" THEN MintEvery ELSE 0
        /\ requests' = S \cup {m : x \in {p} \cap {"ready"}}
    BY <1>2 DEF Enter
  <2>2. m \in Request /\ m.kind = "mint" /\ m.at = "sent"
    BY <1>t, SentType
  <2> HIDE DEF m
  <2>3. frame' \in [open : BOOLEAN, on : Revisions]
    BY <2>1 DEF NoFrame, Revisions
  <2>4. Few(S)
    BY FewSubset
  <2>5. grant' \in BOOLEAN /\ due' \in 0..MintEvery
    <3>1. due' = MintEvery \/ due' = 0
      BY <2>1
    <3>2. grant' = FALSE
      BY <2>1
    <3>3. MintEvery \in Nat
      BY WorkspacePageAssumption
    <3>4. MintEvery \in 0..MintEvery /\ 0 \in 0..MintEvery
      BY <3>3
    <3>5. due' \in 0..MintEvery
      BY <3>1, <3>4
    <3> QED BY <3>2, <3>5
  <2>6. CASE p = "ready"
    <3>1. requests' = S \cup {m}
      BY <2>1, <2>6
    <3>2. Few(requests')
      <4>1. Few(S \cup {m})
        BY <2>2, <2>4, FewAdd DEF StatusKinds
      <4> QED BY <3>1, <4>1
    <3>3. requests' \subseteq Request
      BY <2>2, <3>1
    <3>4. \A r \in requests' : r \in rs \/ (r.kind = "mint" /\ r.at = "sent" /\ p = "ready" /\ phase # "ready")
      BY <1>2, <2>2, <2>6, <3>1
    <3>5. \A r \in rs : r.kind # "mint" => r \in requests'
      BY <3>1
    <3> QED BY <2>1, <2>3, <2>5, <3>2, <3>3, <3>4, <3>5
  <2>7. CASE p # "ready"
    <3>1. requests' = S
      BY <2>1, <2>7
    <3>2. requests' \subseteq Request /\ requests' \subseteq rs /\ \A r \in rs : r.kind # "mint" => r \in requests'
      BY <3>1
    <3> QED BY <2>1, <2>3, <2>4, <2>5, <3>1, <3>2
  <2> QED BY <2>6, <2>7
<1> QED BY <1>1, <1>2

LEMMA PendingKept ==
  ASSUME NoNewOperation, NEW k \in OperationKinds
  PROVE  /\ Pending(k) \in {0, 1} /\ Pending(k)' \in {0, 1}
         /\ Pending(k)' <= Pending(k)
  BY DEF NoNewOperation, Pending

LEMMA RevisionsKept ==
  ASSUME Counted, NoNewOperation, UNCHANGED <<deployment, clicks, events>>
  PROVE  RevisionsCounted'
<1>1. /\ deployment.rev \in Nat /\ Missing \in {0, 1} /\ clicks \in Nat /\ events \in Nat
      /\ Missing' = Missing
  BY DEF Counted, WorkspaceTypeOK, Revisions, Missing
<1>2. "restart" \in OperationKinds /\ "resize" \in OperationKinds
  BY DEF OperationKinds
<1>3. /\ Pending("restart") \in {0, 1} /\ Pending("restart")' \in {0, 1}
      /\ Pending("restart")' <= Pending("restart")
  BY <1>2, PendingKept
<1>4. /\ Pending("resize") \in {0, 1} /\ Pending("resize")' \in {0, 1}
      /\ Pending("resize")' <= Pending("resize")
  BY <1>2, PendingKept
<1> QED BY <1>1, <1>3, <1>4 DEF RevisionsCounted, Counted

\* phaseForStatus is defined on every status.
LEMMA PhaseOfType ==
  ASSUME NEW st \in Statuses
  PROVE  PhaseOf(st) \in Phases /\ (PhaseOf(st) = "ready" <=> st = "Running")
  BY DEF Statuses, PhaseOf, Phases

LEMMA InitCounted == WorkspaceInit => Counted
<1> SUFFICES ASSUME WorkspaceInit PROVE Counted  OBVIOUS
<1> USE WorkspacePageAssumption
<1> DEFINE first == [n |-> 0, kind |-> "get-or-create", at |-> "sent", got |-> "ok"]
<1>1. requests = {first} /\ first \in Request
  BY DEF WorkspaceInit, Request, Numbering
<1>2. deployment \in [exists : BOOLEAN, rev : Revisions, scaled : BOOLEAN, ready : Revisions]
  <2>1. 0 \in Revisions /\ 1 \in Revisions
    BY DEF Revisions
  <2>2. CASE deployment = [exists |-> FALSE, rev |-> 0, scaled |-> TRUE, ready |-> 0]
    BY <2>1, <2>2
  <2>3. ASSUME NEW y \in {0, 1}, deployment = [exists |-> TRUE, rev |-> 1, scaled |-> TRUE, ready |-> y]
        PROVE  deployment \in [exists : BOOLEAN, rev : Revisions, scaled : BOOLEAN, ready : Revisions]
    BY <2>1, <2>3
  <2> QED BY <2>2, <2>3 DEF WorkspaceInit
<1>3. frame \in [open : BOOLEAN, on : Revisions]
  BY DEF WorkspaceInit, NoFrame, Revisions
<1>4. /\ cookie \in 0..Life /\ due \in 0..MintEvery /\ clicks \in 0..MaxClicks /\ events \in 0..MaxEvents
      /\ clicks = 0 /\ events = 0
  BY DEF WorkspaceInit
<1>5. WorkspaceTypeOK
  <2>1. requests \subseteq Request
    BY <1>1
  <2>2. /\ phase = "init" /\ badge = "none" /\ grant = FALSE /\ form = "closed"
        /\ circumstances \in WorkspaceWorlds
    BY DEF WorkspaceInit
  <2>3. /\ phase \in {"init", "starting", "ready", "unavailable", "error"}
        /\ badge \in Statuses \cup {"none"} /\ grant \in BOOLEAN
        /\ form \in {"closed", "clean", "typed"}
    BY <2>2
  <2> HIDE DEF first
  <2> QED BY <1>2, <1>3, <1>4, <2>1, <2>2, <2>3 DEF WorkspaceTypeOK
<1>6. Pending("restart") = 0 /\ Pending("resize") = 0
  BY <1>1 DEF Pending
<1>7. deployment.rev + Missing = 1 /\ deployment.rev \in Nat /\ Missing \in Nat
  BY DEF WorkspaceInit, Missing
<1>8. RevisionsCounted
  BY <1>4, <1>6, <1>7 DEF RevisionsCounted
<1>9. Few(requests)
  <2>1. {r \in requests : r.kind \in StatusKinds} = {first}
    BY <1>1 DEF StatusKinds
  <2>2. IsFiniteSet(requests) /\ Cardinality({r \in requests : r.kind \in StatusKinds}) = 1
    BY <1>1, <2>1, FS_Singleton
  <2> QED BY <1>1, <2>2 DEF Few
<1>10. AnswersTell
  BY <1>1 DEF AnswersTell
<1> QED BY <1>5, <1>8, <1>9, <1>10 DEF Counted

\* What the counted facts say of the numbers.
LEMMA CountedFacts ==
  ASSUME Counted
  PROVE  /\ deployment \in [exists : BOOLEAN, rev : Revisions, scaled : BOOLEAN, ready : Revisions]
         /\ deployment.rev \in Nat /\ clicks \in Nat /\ events \in Nat
         /\ clicks <= MaxClicks /\ events <= MaxEvents
         /\ Missing \in {0, 1} /\ Pending("restart") \in {0, 1} /\ Pending("resize") \in {0, 1}
         /\ deployment.rev + Missing + Pending("restart") + Pending("resize") <= clicks + events + 1
  BY WorkspacePageAssumption DEF Counted, WorkspaceTypeOK, Revisions, Missing, Pending, RevisionsCounted

LEMMA PodReadyCounted == Counted /\ PodReady => Counted'
<1> SUFFICES ASSUME Counted, PodReady PROVE Counted'  OBVIOUS
<1>1. PICK d : d = [deployment EXCEPT !.ready = deployment.rev]
  OBVIOUS
<1>2. deployment' = d /\ UNCHANGED <<phase, badge, grant, cookie, due, frame, form, requests, clicks, events, circumstances>>
  BY <1>1 DEF PodReady
<1>3. /\ d \in [exists : BOOLEAN, rev : Revisions, scaled : BOOLEAN, ready : Revisions]
      /\ d.exists = deployment.exists /\ d.rev = deployment.rev
  BY <1>1, CountedFacts
<1>4. WorkspaceTypeOK'
  BY <1>2, <1>3 DEF Counted, WorkspaceTypeOK
<1>5. RevisionsCounted'
  BY <1>2, <1>3 DEF Counted, RevisionsCounted, Missing, Pending
<1> QED BY <1>2, <1>4, <1>5 DEF Counted, AnswersTell

LEMMA ElsewhereCounted == Counted /\ Elsewhere => Counted'
<1> SUFFICES ASSUME Counted, Elsewhere PROVE Counted'  OBVIOUS
<1> USE WorkspacePageAssumption
<1> DEFINE D == [exists : BOOLEAN, rev : Revisions, scaled : BOOLEAN, ready : Revisions]
<1>0. /\ deployment.exists /\ events < MaxEvents /\ events' = events + 1
      /\ deployment' \in {[deployment EXCEPT !.scaled = ~@, !.ready = 0], Rolled(deployment),
                          [deployment EXCEPT !.exists = FALSE, !.ready = 0]}
      /\ UNCHANGED <<phase, badge, grant, cookie, due, frame, form, requests, clicks, circumstances>>
  BY DEF Elsewhere
<1>1. deployment \in D /\ deployment.rev \in Nat /\ 0 \in Revisions
  BY CountedFacts DEF Revisions
<1>2. deployment.rev <= MaxClicks + MaxEvents
  BY <1>0, <1>1, CountedFacts
<1>3. deployment.rev + 1 \in Revisions
  BY <1>1, <1>2 DEF Revisions
<1>4. /\ deployment' \in D
      /\ \/ deployment'.rev = deployment.rev
         \/ deployment'.rev = deployment.rev + 1 /\ deployment'.exists
  <2>1. CASE deployment' = [deployment EXCEPT !.scaled = ~@, !.ready = 0]
    <3>1. PICK b : b = ~deployment.scaled
      OBVIOUS
    <3>2. b \in BOOLEAN /\ deployment' = [deployment EXCEPT !.scaled = b, !.ready = 0]
      BY <1>1, <2>1, <3>1
    <3> QED BY <1>1, <3>2
  <2>2. CASE deployment' = Rolled(deployment)
    <3>1. PICK n : n = deployment.rev + 1
      OBVIOUS
    <3>2. PICK y : y = IF Gap THEN 0 ELSE deployment.ready
      OBVIOUS
    <3>3. deployment' = [deployment EXCEPT !.rev = n, !.ready = y] /\ n \in Revisions /\ y \in Revisions
      BY <1>1, <1>3, <2>2, <3>1, <3>2 DEF Rolled
    <3> QED BY <1>0, <1>1, <3>1, <3>3
  <2>3. CASE deployment' = [deployment EXCEPT !.exists = FALSE, !.ready = 0]
    BY <1>1, <2>3
  <2> QED BY <1>0, <2>1, <2>2, <2>3
<1>5. events' \in 0..MaxEvents
  BY <1>0, CountedFacts
<1>6. WorkspaceTypeOK'
  BY <1>0, <1>4, <1>5 DEF Counted, WorkspaceTypeOK
<1>7. RevisionsCounted'
  <2>1. /\ Missing = 0
        /\ \/ deployment'.rev = deployment.rev
           \/ deployment'.rev = deployment.rev + 1 /\ Missing' = 0
    BY <1>0, <1>4 DEF Missing
  <2>2. Pending("restart")' = Pending("restart") /\ Pending("resize")' = Pending("resize")
    BY <1>0 DEF Pending
  <2>3. deployment'.rev \in Nat /\ Missing' \in {0, 1}
    BY <1>4 DEF Missing, Revisions
  <2> QED BY <1>0, <2>1, <2>2, <2>3, CountedFacts DEF RevisionsCounted
<1> QED BY <1>0, <1>6, <1>7 DEF Counted, AnswersTell

\* What stays counted when only the page and its requests change.
LEMMA PageCounted ==
  ASSUME Counted, UNCHANGED <<deployment, clicks, events, circumstances>>, NoNewOperation,
         phase' \in Phases, badge' \in Statuses \cup {"none"}, grant' \in BOOLEAN,
         cookie' \in 0..Life, due' \in 0..MintEvery, frame' \in [open : BOOLEAN, on : Revisions],
         form' \in {"closed", "clean", "typed"},
         requests' \subseteq Request, Few(requests'),
         \A r \in requests' : r \in requests \/ r.at = "sent"
  PROVE  Counted'
<1>1. WorkspaceTypeOK'
  BY DEF Counted, WorkspaceTypeOK, Phases
<1>2. AnswersTell'
  BY DEF Counted, AnswersTell
<1> QED BY <1>1, <1>2, RevisionsKept DEF Counted

LEMMA PollCounted == Counted /\ Poll => Counted'
<1> SUFFICES ASSUME Counted, Poll PROVE Counted'  OBVIOUS
<1> USE WorkspacePageAssumption
<1> DEFINE P(S) == {r \in S : r.kind \in StatusKinds}
           x == Sent("poll")
<1>t. WorkspaceTypeOK /\ Few(requests)
  BY DEF Counted
<1>1. x \in Request /\ x.kind = "poll" /\ x.at = "sent" /\ requests' = requests \cup {x}
  BY <1>t, SentType DEF Poll
<1> HIDE DEF x
<1>2. UNION {InFlight(k) : k \in {"poll", "get-or-create", "create"}} = P(requests)
  BY DEF InFlight, StatusKinds
<1>3. Cardinality(P(requests)) < MaxPolls
  BY <1>2 DEF Poll
<1>4. P(requests') = P(requests) \cup {x}
  BY <1>1 DEF StatusKinds
<1>5. IsFiniteSet(requests) /\ IsFiniteSet(P(requests))
  <2>1. P(requests) \in SUBSET requests
    OBVIOUS
  <2> QED BY <1>t, <2>1, FS_Subset DEF Few
<1>6. /\ Cardinality(P(requests)) \in Nat /\ Cardinality(P(requests) \cup {x}) \in Nat
      /\ Cardinality(P(requests) \cup {x}) <= Cardinality(P(requests)) + 1
      /\ IsFiniteSet(requests \cup {x})
  BY <1>5, OneMore
<1>7. Cardinality(P(requests')) <= MaxPolls + 1
  <2>1. Cardinality(P(requests')) = Cardinality(P(requests) \cup {x})
    BY <1>4
  <2> HIDE DEF P
  <2> QED BY <1>3, <1>6, <2>1
<1>8. Few(requests')
  <2>1. \A r, s \in requests' : r.kind = s.kind /\ r.kind \notin StatusKinds => r = s
    BY <1>1, <1>t DEF Few, StatusKinds
  <2> QED BY <1>1, <1>6, <1>7, <2>1 DEF Few
<1>9. NoNewOperation /\ requests' \subseteq Request /\ \A r \in requests' : r \in requests \/ r.at = "sent"
  BY <1>1, <1>t DEF NoNewOperation, OperationKinds, WorkspaceTypeOK
<1> QED BY <1>8, <1>9, <1>t, PageCounted DEF Poll, WorkspaceTypeOK, Phases

LEMMA TickCounted == Counted /\ Tick => Counted'
<1> SUFFICES ASSUME Counted, Tick PROVE Counted'  OBVIOUS
<1> USE WorkspacePageAssumption
<1> DEFINE x == Sent("mint")
<1>t. WorkspaceTypeOK /\ Few(requests)
  BY DEF Counted
<1>1. x \in Request /\ x.kind = "mint" /\ x.at = "sent"
  BY <1>t, SentType
<1>2. requests = {} /\ requests' \in {{x}, {}}
  BY DEF Tick
<1>3. Few({}) /\ Few({x})
  <2>1. Few({})
    BY <1>2, <1>t
  <2>2. Few({} \cup {x})
    BY <1>1, <2>1, FewAdd DEF StatusKinds
  <2> QED BY <2>1, <2>2
<1> HIDE DEF x
<1>4. /\ requests' \subseteq Request /\ Few(requests') /\ NoNewOperation
      /\ \A r \in requests' : r \in requests \/ r.at = "sent"
  BY <1>1, <1>2, <1>3 DEF NoNewOperation, OperationKinds
<1>5. cookie' \in 0..Life
  BY <1>t DEF Tick, WorkspaceTypeOK
<1>6. due' \in 0..MintEvery
  <2>1. due \in 0..MintEvery /\ MintEvery \in 0..MintEvery
    BY <1>t DEF WorkspaceTypeOK
  <2>2. due' = MintEvery \/ due' = IF due = 0 THEN 0 ELSE due - 1
    BY DEF Tick
  <2> QED BY <2>1, <2>2
<1> QED BY <1>4, <1>5, <1>6, <1>t, PageCounted DEF Tick, WorkspaceTypeOK, Phases

\* Restart and Resize owe the server a revision.
LEMMA ClicksCounted ==
  ASSUME Counted, NEW kind \in OperationKinds, Clicks(kind),
         UNCHANGED <<deployment, badge, cookie, form, events, circumstances>>
  PROVE  Counted'
<1> USE WorkspacePageAssumption
<1> DEFINE x == Sent(kind)
           rs == requests \cup {x}
<1>t. WorkspaceTypeOK /\ Few(requests)
  BY DEF Counted
<1>0. kind \in {"restart", "resize"} /\ kind \notin StatusKinds /\ kind # "mint"
  BY DEF OperationKinds, StatusKinds
<1>1. x \in Request /\ x.kind = kind /\ x.at = "sent"
  BY <1>0, <1>t, SentType
<1>2. \A r \in requests : r.kind # kind
  BY DEF Clicks, InFlight
<1>3. clicks < MaxClicks /\ clicks' = clicks + 1 /\ Enter("starting", rs)
  BY DEF Clicks, MayClick
<1> HIDE DEF x
<1>4. rs \in SUBSET Request /\ Few(rs)
  BY <1>0, <1>1, <1>2, <1>t, FewAdd DEF WorkspaceTypeOK
<1> HIDE DEF rs
<1>5. "starting" \in Phases
  BY DEF Phases
<1>6. /\ phase' = "starting"
      /\ grant' \in BOOLEAN /\ due' \in 0..MintEvery /\ frame' \in [open : BOOLEAN, on : Revisions]
      /\ requests' \subseteq Request /\ Few(requests')
      /\ \A r \in requests' : r \in rs
  BY <1>3, <1>4, <1>5, EnterEffects
<1>7. clicks' \in 0..MaxClicks
  BY <1>3, CountedFacts
<1>8. WorkspaceTypeOK'
  BY <1>6, <1>7, <1>t DEF WorkspaceTypeOK
<1>9. RevisionsCounted'
  <2>1. Pending(kind) = 0 /\ Pending(kind)' \in {0, 1}
    BY <1>2 DEF Pending
  <2>2. ASSUME NEW k \in OperationKinds, k # kind
        PROVE  Pending(k) \in {0, 1} /\ Pending(k)' \in {0, 1} /\ Pending(k)' <= Pending(k)
    BY <1>1, <1>6, <2>2 DEF Pending, rs
  <2>3. Missing' = Missing
    BY DEF Missing
  <2>4. CASE kind = "restart"
    <3>1. Pending("resize") \in {0, 1} /\ Pending("resize")' \in {0, 1} /\ Pending("resize")' <= Pending("resize")
      BY <2>2, <2>4 DEF OperationKinds
    <3> QED BY <1>3, <2>1, <2>3, <2>4, <3>1, CountedFacts DEF RevisionsCounted
  <2>5. CASE kind = "resize"
    <3>1. Pending("restart") \in {0, 1} /\ Pending("restart")' \in {0, 1} /\ Pending("restart")' <= Pending("restart")
      BY <2>2, <2>5 DEF OperationKinds
    <3> QED BY <1>3, <2>1, <2>3, <2>5, <3>1, CountedFacts DEF RevisionsCounted
  <2> QED BY <2>4, <2>5 DEF OperationKinds
<1>10. AnswersTell'
  BY <1>1, <1>6 DEF Counted, AnswersTell, rs
<1> QED BY <1>6, <1>8, <1>9, <1>10 DEF Counted

LEMMA EditFormCounted == Counted /\ EditForm => Counted'
<1> SUFFICES ASSUME Counted, EditForm PROVE Counted'  OBVIOUS
<1>t. WorkspaceTypeOK /\ Few(requests)
  BY DEF Counted
<1>1. form' \in {"closed", "clean", "typed"}
  BY <1>t DEF EditForm, WorkspaceTypeOK
<1>2. NoNewOperation
  BY DEF EditForm, NoNewOperation
<1> QED BY <1>1, <1>2, <1>t, PageCounted DEF EditForm, WorkspaceTypeOK, Phases

LEMMA StatusType ==
  ASSUME deployment.exists \in BOOLEAN
  PROVE  Status \in Statuses \cup {"not-found"}
  BY DEF Status, Statuses

\* A request that the server has handled takes the place of the one it was.
LEMMA ServeCounted ==
  ASSUME Counted, NEW r \in requests, ServeRequest(r)
  PROVE  Counted'
<1> USE WorkspacePageAssumption
<1> DEFINE D == [exists : BOOLEAN, rev : Revisions, scaled : BOOLEAN, ready : Revisions]
<1>t. WorkspaceTypeOK /\ Few(requests) /\ r \in Request
  BY DEF Counted, WorkspaceTypeOK
<1>0. /\ r.at = "sent"
      /\ UNCHANGED <<phase, badge, grant, due, frame, form, clicks, events, circumstances>>
      /\ cookie' \in 0..Life
  BY <1>t DEF ServeRequest, WorkspaceTypeOK
<1>1. PICK g : g = IF r.kind = "mint" THEN "ok" ELSE Status'
  OBVIOUS
<1>2. PICK x : x = [r EXCEPT !.at = "served", !.got = g]
  OBVIOUS
<1>3. requests' = (requests \ {r}) \cup {x}
  BY <1>1, <1>2 DEF ServeRequest
<1>4. deployment \in D /\ deployment.rev \in Nat /\ deployment.exists \in BOOLEAN /\ 0 \in Revisions
  BY CountedFacts DEF Revisions
<1>5. Pending("restart")' \in {0, 1} /\ Pending("resize")' \in {0, 1} /\ Missing' \in {0, 1}
  BY DEF Pending, Missing
<1>6. x.kind = r.kind /\ x.at = "served"
  BY <1>2, <1>t DEF Request
<1>7. ASSUME NEW k PROVE Pending(k)' <= Pending(k) /\ Pending(k) \in {0, 1} /\ Pending(k)' \in {0, 1}
  BY <1>3, <1>6 DEF Pending
<1>8. ASSUME NEW k \in OperationKinds, r.kind = k PROVE Pending(k) = 1 /\ Pending(k)' = 0
  <2>1. \A q \in requests \ {r} : q.kind # k
    BY <1>8, <1>t DEF Few, OperationKinds, StatusKinds
  <2>2. \A q \in requests' : ~(q.kind = k /\ q.at = "sent")
    BY <1>3, <1>6, <2>1
  <2> QED BY <1>0, <1>8, <2>2 DEF Pending
<1>9. /\ deployment' \in D
      /\ \/ deployment' = deployment
         \/ deployment'.rev = deployment.rev + 1 /\ Missing' = 0 /\ Missing = 1
         \/ deployment'.rev = deployment.rev + 1 /\ Missing' = Missing /\ r.kind \in OperationKinds
  <2>1. CASE r.kind = "create" /\ ~deployment.exists
    <3>1. deployment' = Created(deployment) /\ Missing = 1
      BY <2>1 DEF ServeRequest, Missing
    <3>2. deployment.rev + 1 \in Revisions
      BY <1>4, <3>1, CountedFacts DEF Revisions
    <3> QED BY <1>4, <3>1, <3>2 DEF Created, Missing
  <2>2. CASE r.kind \in {"restart", "resize"} /\ deployment.exists
    <3>1. deployment' = Rolled(deployment)
      BY <2>2 DEF ServeRequest
    <3>2. deployment.rev + 1 \in Revisions
      <4>1. Pending("restart") = 1 \/ Pending("resize") = 1
        BY <1>8, <2>2 DEF OperationKinds
      <4> QED BY <1>4, <4>1, CountedFacts DEF Revisions
    <3>3. PICK n : n = deployment.rev + 1
      OBVIOUS
    <3>4. PICK y : y = IF Gap THEN 0 ELSE deployment.ready
      OBVIOUS
    <3>5. deployment' = [deployment EXCEPT !.rev = n, !.ready = y] /\ y \in Revisions /\ n \in Revisions
      BY <1>4, <3>1, <3>2, <3>3, <3>4 DEF Rolled
    <3>6. deployment' \in D /\ deployment'.rev = n /\ deployment'.exists = deployment.exists
      BY <1>4, <3>5
    <3> QED BY <2>2, <3>3, <3>6 DEF Missing, OperationKinds
  <2>3. CASE ~(r.kind = "create" /\ ~deployment.exists) /\ ~(r.kind \in {"restart", "resize"} /\ deployment.exists)
    BY <1>4, <2>3 DEF ServeRequest
  <2> QED BY <2>1, <2>2, <2>3
<1>10. RevisionsCounted'
  <2> DEFINE a == Pending("restart")  b == Pending("resize")
  <2>1. a' <= a /\ b' <= b /\ a \in {0, 1} /\ b \in {0, 1} /\ a' \in {0, 1} /\ b' \in {0, 1}
    BY <1>7
  <2>2. r.kind \in OperationKinds => (a = 1 /\ a' = 0) \/ (b = 1 /\ b' = 0)
    BY <1>8 DEF OperationKinds
  <2>3. deployment.rev + Missing + a + b <= clicks + events + 1 /\ Missing \in {0, 1}
        /\ clicks \in Nat /\ events \in Nat
    BY CountedFacts
  <2>4. deployment' = deployment => Missing' = Missing
    BY DEF Missing
  <2> HIDE DEF a, b
  <2>5. deployment'.rev + Missing' + a' + b' <= clicks + events + 1
    <3>1. CASE deployment' = deployment
      BY <1>4, <2>1, <2>3, <2>4, <3>1
    <3>2. CASE deployment'.rev = deployment.rev + 1 /\ Missing' = 0 /\ Missing = 1
      BY <1>4, <2>1, <2>3, <3>2
    <3>3. CASE deployment'.rev = deployment.rev + 1 /\ Missing' = Missing /\ r.kind \in OperationKinds
      BY <1>4, <2>1, <2>2, <2>3, <3>3
    <3> QED BY <1>9, <3>1, <3>2, <3>3
  <2> QED BY <1>0, <2>5 DEF RevisionsCounted, a, b
<1>11. g \in Statuses \cup {"not-found", "ok"} /\ (r.kind # "mint" => g # "ok")
  <2>1. deployment'.exists \in BOOLEAN
    BY <1>9
  <2>2. Status' \in Statuses \cup {"not-found"}
    BY <2>1 DEF Status, Statuses
  <2>3. "ok" \notin Statuses \cup {"not-found"}
    BY DEF Statuses
  <2> QED BY <1>1, <2>2, <2>3
<1>12. x \in Request /\ x.got = g
  BY <1>2, <1>11, <1>t DEF Request
<1>13. Few(requests')
  BY <1>3, <1>6, <1>t, FewReplace
<1>14. WorkspaceTypeOK'
  <2>1. requests' \subseteq Request
    BY <1>3, <1>12, <1>t DEF WorkspaceTypeOK
  <2> QED BY <1>0, <1>9, <1>t, <2>1 DEF WorkspaceTypeOK
<1>15. AnswersTell'
  BY <1>3, <1>6, <1>11, <1>12 DEF Counted, AnswersTell
<1> QED BY <1>10, <1>13, <1>14, <1>15 DEF Counted

\* What is answered lets the page go on with what is left of the requests.
LEMMA RestCounted ==
  ASSUME Counted, NEW r \in requests
  PROVE  requests \ {r} \in SUBSET Request /\ Few(requests \ {r})
<1>1. requests \ {r} \in SUBSET requests
  OBVIOUS
<1> QED BY <1>1, FewSubset DEF Counted, WorkspaceTypeOK

\* A request for the status that replaces another.
LEMMA AgainCounted ==
  ASSUME Counted, NEW r \in requests, r.kind \in StatusKinds, NEW k \in {"get-or-create", "create"}
  PROVE  /\ (requests \ {r}) \cup {Sent(k)} \in SUBSET Request
         /\ Few((requests \ {r}) \cup {Sent(k)})
         /\ Sent(k).kind = k /\ Sent(k).at = "sent"
<1>1. Sent(k) \in Request /\ Sent(k).kind = k /\ Sent(k).at = "sent"
  BY SentType DEF Counted
<1>2. Few((requests \ {r}) \cup {Sent(k)})
  BY <1>1, FewReplace DEF Counted, StatusKinds
<1> QED BY <1>1, <1>2 DEF Counted, WorkspaceTypeOK

LEMMA StatusAnsweredCounted ==
  ASSUME Counted, NEW r \in requests, StatusAnswered(r)
  PROVE  Counted'
<1>t. WorkspaceTypeOK /\ r \in Request
  BY DEF Counted, WorkspaceTypeOK
<1>0. /\ r.kind \in StatusKinds /\ r.kind # "mint" /\ r.at = "served"
      /\ UNCHANGED <<deployment, cookie, clicks, events, circumstances>>
  BY DEF StatusAnswered, Answers, StatusKinds
<1>1. CASE r.got # "not-found"
  <2> DEFINE rs == requests \ {r}
  <2>1. r.got \in Statuses
    BY <1>0, <1>1, <1>t DEF Counted, AnswersTell, Request
  <2>2. badge' = r.got /\ Enter(PhaseOf(r.got), rs) /\ form' = Refilled
    BY <1>1 DEF StatusAnswered, Apply
  <2>3. PhaseOf(r.got) \in Phases
    BY <2>1, PhaseOfType
  <2>4. rs \in SUBSET Request /\ Few(rs)
    BY RestCounted
  <2>5. /\ phase' \in Phases
        /\ grant' \in BOOLEAN /\ due' \in 0..MintEvery /\ frame' \in [open : BOOLEAN, on : Revisions]
        /\ requests' \subseteq Request /\ Few(requests')
        /\ \A q \in requests' : q \in rs \/ (q.kind = "mint" /\ q.at = "sent")
    BY <2>2, <2>3, <2>4, EnterEffects
  <2>6. NoNewOperation /\ \A q \in requests' : q \in requests \/ q.at = "sent"
    BY <2>5 DEF NoNewOperation, OperationKinds
  <2>7. badge' \in Statuses \cup {"none"} /\ form' \in {"closed", "clean", "typed"} /\ cookie' \in 0..Life
    BY <1>0, <1>t, <2>1, <2>2 DEF Refilled, WorkspaceTypeOK
  <2> QED BY <1>0, <2>5, <2>6, <2>7, PageCounted
<1>2. CASE r.got = "not-found" /\ r.kind = "poll"
  <2>1. PICK rs : rs = (requests \ {r}) \cup {Sent("get-or-create")}
    OBVIOUS
  <2>2. Enter("init", rs) /\ UNCHANGED <<badge, form>>
    BY <1>2, <2>1 DEF StatusAnswered
  <2>3. rs \in SUBSET Request /\ Few(rs) /\ \A q \in rs : q \in requests \/ (q.kind = "get-or-create" /\ q.at = "sent")
    BY <1>0, <2>1, AgainCounted
  <2>4. /\ phase' \in Phases
        /\ grant' \in BOOLEAN /\ due' \in 0..MintEvery /\ frame' \in [open : BOOLEAN, on : Revisions]
        /\ requests' \subseteq Request /\ Few(requests')
        /\ \A q \in requests' : q \in rs \/ (q.kind = "mint" /\ q.at = "sent")
    <3>1. "init" \in Phases
      BY DEF Phases
    <3> QED BY <2>2, <2>3, <3>1, EnterEffects
  <2>5. NoNewOperation /\ \A q \in requests' : q \in requests \/ q.at = "sent"
    BY <2>3, <2>4 DEF NoNewOperation, OperationKinds
  <2>6. badge' \in Statuses \cup {"none"} /\ form' \in {"closed", "clean", "typed"} /\ cookie' \in 0..Life
    BY <1>0, <1>t, <2>2 DEF WorkspaceTypeOK
  <2> QED BY <1>0, <2>4, <2>5, <2>6, PageCounted
<1>3. CASE r.got = "not-found" /\ r.kind # "poll"
  <2>1. PICK rs : rs = (requests \ {r}) \cup {Sent("create")}
    OBVIOUS
  <2>2. requests' = rs /\ UNCHANGED <<phase, grant, due, frame, badge, form>>
    BY <1>3, <2>1 DEF StatusAnswered
  <2>3. rs \in SUBSET Request /\ Few(rs) /\ \A q \in rs : q \in requests \/ (q.kind = "create" /\ q.at = "sent")
    BY <1>0, <2>1, AgainCounted
  <2>4. NoNewOperation /\ \A q \in requests' : q \in requests \/ q.at = "sent"
    BY <2>2, <2>3 DEF NoNewOperation, OperationKinds
  <2> QED BY <1>0, <1>t, <2>2, <2>3, <2>4, PageCounted DEF WorkspaceTypeOK, Phases
<1> QED BY <1>1, <1>2, <1>3

LEMMA MintAnsweredCounted ==
  ASSUME Counted, NEW r \in requests, MintAnswered(r)
  PROVE  Counted'
<1>t. WorkspaceTypeOK
  BY DEF Counted
<1>1. /\ requests' = requests \ {r} /\ grant' = TRUE
      /\ UNCHANGED <<deployment, phase, badge, cookie, due, form, clicks, events, circumstances>>
      /\ frame' = IF grant THEN frame ELSE Opened
  BY DEF MintAnswered
<1>2. requests' \subseteq Request /\ Few(requests')
  BY <1>1, RestCounted
<1>3. frame' \in [open : BOOLEAN, on : Revisions]
  <2>1. deployment.ready \in Revisions
    BY CountedFacts
  <2> QED BY <1>1, <1>t, <2>1 DEF Opened, WorkspaceTypeOK
<1>4. NoNewOperation /\ \A q \in requests' : q \in requests \/ q.at = "sent"
  BY <1>1 DEF NoNewOperation
<1> QED BY <1>1, <1>2, <1>3, <1>4, <1>t, PageCounted DEF WorkspaceTypeOK, Phases

\* The page goes to a phase that is not ready, with what is left of the
\* requests.
LEMMA LeaveCounted ==
  ASSUME Counted, NEW r \in requests, NEW p \in Phases, p # "ready", Enter(p, requests \ {r}),
         UNCHANGED <<deployment, cookie, clicks, events, circumstances>>,
         badge' \in Statuses \cup {"none"}, form' \in {"closed", "clean", "typed"}
  PROVE  Counted'
<1>1. requests \ {r} \in SUBSET Request /\ Few(requests \ {r})
  BY RestCounted
<1>2. /\ phase' \in Phases
      /\ grant' \in BOOLEAN /\ due' \in 0..MintEvery /\ frame' \in [open : BOOLEAN, on : Revisions]
      /\ requests' \subseteq Request /\ Few(requests')
      /\ \A q \in requests' : q \in requests
  BY <1>1, EnterEffects
<1>3. NoNewOperation /\ \A q \in requests' : q \in requests \/ q.at = "sent"
  BY <1>2 DEF NoNewOperation
<1>4. cookie' \in 0..Life
  BY DEF Counted, WorkspaceTypeOK
<1> QED BY <1>2, <1>3, <1>4, PageCounted

LEMMA OperationAnsweredCounted ==
  ASSUME Counted, NEW r \in requests, OperationAnswered(r)
  PROVE  Counted'
<1>t. WorkspaceTypeOK
  BY DEF Counted
<1>1. UNCHANGED <<deployment, cookie, clicks, events, circumstances>>
  BY DEF OperationAnswered
<1>2. \E p \in {"error", "starting"} : Enter(p, requests \ {r})
  BY DEF OperationAnswered, Apply, PhaseOf
<1>3. badge' \in Statuses \cup {"none"} /\ form' \in {"closed", "clean", "typed"}
  BY <1>t DEF OperationAnswered, Apply, Refilled, WorkspaceTypeOK, Statuses
<1> QED BY <1>1, <1>2, <1>3, LeaveCounted DEF Phases

LEMMA RequestFailsCounted ==
  ASSUME Counted, NEW r \in requests, RequestFails(r)
  PROVE  Counted'
  BY LeaveCounted DEF RequestFails, Phases, Counted, WorkspaceTypeOK

\* A step of the page, of the cluster or of a request.
LEMMA PageSteps ==
  ASSUME WorkspaceNext
  PROVE  \/ PodReady \/ Elsewhere \/ Poll \/ Tick \/ ClickRestart \/ EditForm \/ SubmitResize
         \/ \E r \in requests :
               ServeRequest(r) \/ StatusAnswered(r) \/ MintAnswered(r) \/ OperationAnswered(r) \/ RequestFails(r)
  BY DEF WorkspaceNext, AnswerRequest

LEMMA StepCounted == Counted /\ [WorkspaceNext]_workspaceVars => Counted'
<1> SUFFICES ASSUME Counted, [WorkspaceNext]_workspaceVars PROVE Counted'  OBVIOUS
<1>1. CASE PodReady \/ Elsewhere \/ Poll \/ Tick \/ EditForm
  BY <1>1, PodReadyCounted, ElsewhereCounted, PollCounted, TickCounted, EditFormCounted
<1>2. CASE ClickRestart \/ SubmitResize
  <2>1. \E k \in OperationKinds : Clicks(k)
    BY <1>2 DEF ClickRestart, SubmitResize, OperationKinds
  <2>2. UNCHANGED <<deployment, badge, cookie, form, events, circumstances>>
    BY <1>2 DEF ClickRestart, SubmitResize
  <2> QED BY <2>1, <2>2, ClicksCounted
<1>3. CASE \E r \in requests :
             ServeRequest(r) \/ StatusAnswered(r) \/ MintAnswered(r) \/ OperationAnswered(r) \/ RequestFails(r)
  BY <1>3, ServeCounted, StatusAnsweredCounted, MintAnsweredCounted, OperationAnsweredCounted, RequestFailsCounted
<1>4. CASE UNCHANGED workspaceVars
  BY <1>4 DEF workspaceVars, Counted, WorkspaceTypeOK, RevisionsCounted, AnswersTell, Missing, Pending
<1> QED BY <1>1, <1>2, <1>3, <1>4, PageSteps

\* Header and body of the page.
LEMMA StepBadge ==
  ASSUME Counted, BadgeAgrees, [WorkspaceNext]_workspaceVars
  PROVE  BadgeAgrees'
<1> DEFINE Quiet == {"poll", "mint"}
<1>a. ASSUME UNCHANGED <<phase, badge>>,
             \A r \in requests : r.kind \notin Quiet => \E q \in requests' : q.kind = r.kind
      PROVE  BadgeAgrees'
  <2> SUFFICES ASSUME \A r \in requests' : r.kind \in Quiet, phase' # "error"
               PROVE  badge' # "none" /\ phase' = PhaseOf(badge')
    BY DEF BadgeAgrees, PhaseOf
  <2>1. \A r \in requests : r.kind \in Quiet
    BY <1>a
  <2>2. badge # "none" /\ phase = PhaseOf(badge)
    BY <1>a, <2>1 DEF BadgeAgrees
  <2> QED BY <1>a, <2>2
<1>b. ASSUME \E r \in requests' : r.kind \notin Quiet PROVE BadgeAgrees'
  BY <1>b DEF BadgeAgrees
<1>c. ASSUME NEW st \in Statuses, badge' = st, phase' = PhaseOf(st) PROVE BadgeAgrees'
  BY <1>c DEF BadgeAgrees, Statuses, PhaseOf
<1>d. ASSUME phase' = "error" PROVE BadgeAgrees'
  BY <1>d DEF BadgeAgrees
<1>1. CASE PodReady \/ Elsewhere \/ Poll \/ EditForm
  BY <1>a, <1>1 DEF PodReady, Elsewhere, Poll, EditForm
<1>2. CASE Tick
  BY <1>a, <1>2 DEF Tick
<1>3. CASE ClickRestart \/ SubmitResize
  <2>1. PICK k \in OperationKinds : Clicks(k)
    BY <1>3 DEF ClickRestart, SubmitResize, OperationKinds
  <2>2. PICK x : x = Sent(k)
    OBVIOUS
  <2>3. x.kind = k /\ x \in Request
    BY <2>2, SentType DEF Counted, OperationKinds
  <2>4. Few(requests \cup {x}) /\ requests \cup {x} \in SUBSET Request
    BY <2>1, <2>3, FewAdd DEF Counted, WorkspaceTypeOK, Clicks, InFlight, OperationKinds, StatusKinds
  <2>5. Enter("starting", requests \cup {x})
    BY <2>1, <2>2 DEF Clicks
  <2>6. x \in requests'
    BY <2>3, <2>4, <2>5, EnterEffects DEF Phases, OperationKinds
  <2> QED BY <1>b, <2>3, <2>6 DEF OperationKinds
<1>4. ASSUME NEW r \in requests, ServeRequest(r) PROVE BadgeAgrees'
  <2>1. PICK g : requests' = (requests \ {r}) \cup {[r EXCEPT !.at = "served", !.got = g]}
    BY <1>4 DEF ServeRequest
  <2>2. PICK x : x = [r EXCEPT !.at = "served", !.got = g]
    OBVIOUS
  <2>3. x.kind = r.kind /\ requests' = (requests \ {r}) \cup {x}
    BY <2>1, <2>2 DEF Counted, WorkspaceTypeOK, Request
  <2> QED BY <1>4, <1>a, <2>3 DEF ServeRequest
<1>5. ASSUME NEW r \in requests, StatusAnswered(r) PROVE BadgeAgrees'
  <2>0. r.kind \in StatusKinds /\ r.at = "served" /\ r.kind # "mint"
    BY <1>5 DEF StatusAnswered, Answers, StatusKinds
  <2>1. CASE r.got # "not-found"
    <3>1. r.got \in Statuses
      BY <2>0, <2>1 DEF Counted, AnswersTell, WorkspaceTypeOK, Request
    <3>2. badge' = r.got /\ phase' = PhaseOf(r.got)
      BY <1>5, <2>1 DEF StatusAnswered, Apply, Enter
    <3> QED BY <1>c, <3>1, <3>2
  <2>2. CASE r.got = "not-found"
    <3>1. PICK k \in {"get-or-create", "create"} :
            LET rs == (requests \ {r}) \cup {Sent(k)} IN Enter("init", rs) \/ requests' = rs
      BY <1>5, <2>2 DEF StatusAnswered
    <3>2. PICK x : x = Sent(k)
      OBVIOUS
    <3>3. PICK rs : rs = (requests \ {r}) \cup {x}
      OBVIOUS
    <3>4. rs \in SUBSET Request /\ Few(rs) /\ x.kind = k
      BY <2>0, <3>2, <3>3, AgainCounted
    <3>5. x \in requests'
      <4>1. CASE requests' = rs
        BY <3>3, <4>1
      <4>2. CASE Enter("init", rs)
        BY <3>3, <3>4, <4>2, EnterEffects DEF Phases
      <4> QED BY <3>1, <3>2, <3>3, <4>1, <4>2
    <3> QED BY <1>b, <3>4, <3>5
  <2> QED BY <2>1, <2>2
<1>6. ASSUME NEW r \in requests, MintAnswered(r) PROVE BadgeAgrees'
  BY <1>6, <1>a DEF MintAnswered, Answers
<1>7. ASSUME NEW r \in requests, OperationAnswered(r) PROVE BadgeAgrees'
  <2>1. (badge' = "Starting" /\ phase' = PhaseOf("Starting")) \/ phase' = "error"
    BY <1>7 DEF OperationAnswered, Apply, Enter
  <2> QED BY <1>c, <1>d, <2>1 DEF Statuses
<1>8. ASSUME NEW r \in requests, RequestFails(r) PROVE BadgeAgrees'
  BY <1>8, <1>d DEF RequestFails, Enter
<1>9. CASE UNCHANGED workspaceVars
  BY <1>a, <1>9 DEF workspaceVars
<1> QED BY <1>1, <1>2, <1>3, <1>4, <1>5, <1>6, <1>7, <1>8, <1>9, PageSteps

\* The effects of a phase keep grants and iframe where they belong.
LEMMA EnterGrants ==
  ASSUME Counted, GrantsWhenReady, NEW p \in Phases, NEW rs, Enter(p, rs),
         \A r \in rs : r.kind = "mint" => r \in requests
  PROVE  /\ GrantsWhenReady'
         /\ frame' \in {frame, NoFrame}
         /\ p # "ready" => ~frame'.open /\ \A r \in requests' : r \in rs /\ r.kind # "mint"
<1> USE WorkspacePageAssumption
<1>1. CASE p = phase
  BY <1>1 DEF Enter, GrantsWhenReady
<1>2. CASE p # phase
  <2>1. PICK m : m = Sent("mint")
    OBVIOUS
  <2>2. m.kind = "mint"
    BY <2>1 DEF Sent
  <2>3. /\ phase' = p /\ frame' = NoFrame
        /\ due' = IF p = "ready" THEN MintEvery ELSE 0
        /\ \A r \in requests' : (r \in rs /\ r.kind # "mint") \/ (r = m /\ p = "ready")
    BY <1>2, <2>1 DEF Enter
  <2>4. due' > 0 <=> p = "ready"
    <3>1. MintEvery > 0
      BY WorkspacePageAssumption
    <3>2. (p = "ready" /\ due' = MintEvery) \/ (p # "ready" /\ due' = 0)
      BY <2>3
    <3> QED BY <3>1, <3>2
  <2> QED BY <2>2, <2>3, <2>4 DEF GrantsWhenReady, NoFrame
<1> QED BY <1>1, <1>2

LEMMA StepGrants ==
  ASSUME Counted, GrantsWhenReady, [WorkspaceNext]_workspaceVars
  PROVE  GrantsWhenReady'
<1> USE WorkspacePageAssumption
<1>a. ASSUME UNCHANGED <<phase, due, frame>>,
             \A r \in requests' : r.kind = "mint" => \E q \in requests : q.kind = "mint"
      PROVE  GrantsWhenReady'
  BY <1>a DEF GrantsWhenReady
<1>1. CASE PodReady \/ Elsewhere \/ EditForm
  BY <1>1, <1>a DEF PodReady, Elsewhere, EditForm
<1>2. CASE Poll
  <2>1. Sent("poll").kind # "mint"
    BY DEF Sent
  <2> QED BY <1>2, <1>a, <2>1 DEF Poll
<1>3. CASE Tick
  <2>1. due \in Nat /\ MintEvery > 0 /\ (due > 0 <=> phase = "ready")
    BY DEF Counted, WorkspaceTypeOK, GrantsWhenReady
  <2>2. UNCHANGED <<phase, frame>> /\ requests = {}
    BY <1>3 DEF Tick
  <2>3. CASE due = 1
    <3>1. due' = MintEvery /\ phase' = "ready"
      BY <1>3, <2>1, <2>2, <2>3 DEF Tick
    <3> QED BY <2>1, <2>2, <3>1 DEF GrantsWhenReady
  <2>4. CASE due # 1
    <3>1. due' = (IF due = 0 THEN 0 ELSE due - 1) /\ requests' = {}
      BY <1>3, <2>2, <2>4 DEF Tick
    <3>2. due' > 0 <=> phase' = "ready"
      BY <2>1, <2>2, <2>4, <3>1
    <3> QED BY <2>2, <3>1, <3>2 DEF GrantsWhenReady
  <2> QED BY <2>3, <2>4
<1>4. CASE ClickRestart \/ SubmitResize
  <2>1. PICK k \in OperationKinds : Clicks(k)
    BY <1>4 DEF ClickRestart, SubmitResize, OperationKinds
  <2>2. Sent(k).kind # "mint"
    BY DEF Sent, OperationKinds
  <2>3. Enter("starting", requests \cup {Sent(k)})
    BY <2>1 DEF Clicks
  <2> QED BY <2>2, <2>3, EnterGrants DEF Phases
<1>5. ASSUME NEW r \in requests, ServeRequest(r) PROVE GrantsWhenReady'
  <2>1. PICK g : requests' = (requests \ {r}) \cup {[r EXCEPT !.at = "served", !.got = g]}
    BY <1>5 DEF ServeRequest
  <2>2. PICK x : x = [r EXCEPT !.at = "served", !.got = g]
    OBVIOUS
  <2>3. x.kind = r.kind /\ requests' = (requests \ {r}) \cup {x}
    BY <2>1, <2>2 DEF Counted, WorkspaceTypeOK, Request
  <2> QED BY <1>5, <1>a, <2>3 DEF ServeRequest
<1>6. ASSUME NEW r \in requests, StatusAnswered(r) PROVE GrantsWhenReady'
  <2>0. r.kind \in StatusKinds /\ r.at = "served" /\ r.kind # "mint"
    BY <1>6 DEF StatusAnswered, Answers, StatusKinds
  <2>1. CASE r.got # "not-found"
    <3>1. r.got \in Statuses
      BY <2>0, <2>1 DEF Counted, AnswersTell, WorkspaceTypeOK, Request
    <3>2. Enter(PhaseOf(r.got), requests \ {r})
      BY <1>6, <2>1 DEF StatusAnswered, Apply
    <3>3. PhaseOf(r.got) \in Phases
      BY <3>1, PhaseOfType
    <3> QED BY <3>2, <3>3, EnterGrants
  <2>2. CASE r.got = "not-found"
    <3>1. PICK k \in {"get-or-create", "create"} :
            LET rs == (requests \ {r}) \cup {Sent(k)}
            IN  Enter("init", rs) \/ (requests' = rs /\ UNCHANGED <<phase, due, frame>>)
      BY <1>6, <2>2 DEF StatusAnswered
    <3>2. Sent(k).kind # "mint"
      BY DEF Sent
    <3>3. CASE Enter("init", (requests \ {r}) \cup {Sent(k)})
      BY <3>2, <3>3, EnterGrants DEF Phases
    <3> QED BY <1>a, <3>1, <3>2, <3>3
  <2> QED BY <2>1, <2>2
<1>7. ASSUME NEW r \in requests, MintAnswered(r) PROVE GrantsWhenReady'
  <2>1. phase = "ready" /\ UNCHANGED <<phase, due>> /\ requests' = requests \ {r}
    BY <1>7 DEF MintAnswered, Answers, GrantsWhenReady
  <2> QED BY <2>1 DEF GrantsWhenReady
<1>8. ASSUME NEW r \in requests, OperationAnswered(r) \/ RequestFails(r) PROVE GrantsWhenReady'
  <2>1. PICK p \in {"error", "starting"} : Enter(p, requests \ {r})
    BY <1>8 DEF OperationAnswered, Apply, PhaseOf, RequestFails
  <2> QED BY <2>1, EnterGrants DEF Phases
<1>9. CASE UNCHANGED workspaceVars
  BY <1>a, <1>9 DEF workspaceVars
<1> QED BY <1>1, <1>2, <1>3, <1>4, <1>5, <1>6, <1>7, <1>8, <1>9, PageSteps

\* A page without a pending grant that is not ready, with one request or none.
LEMMA OneLeaves ==
  ASSUME ~frame'.open, phase' # "ready",
         \A r, s \in requests' : r = s,
         \A r \in requests' : r.kind \in OperationKinds => phase' = "starting"
  PROVE  OneInFlight'
  BY DEF OneInFlight

LEMMA StepOne ==
  ASSUME Counted, GrantsWhenReady, Prompt, OneInFlight, [WorkspaceNext]_workspaceVars
  PROVE  OneInFlight'
<1> USE WorkspacePageAssumption
<1>t. /\ cookie \in Nat /\ due \in Nat /\ due <= MintEvery /\ Life \in Nat /\ MintEvery \in Nat /\ MintEvery < Life
      /\ due > 0 <=> phase = "ready"
      /\ frame.open => phase = "ready"
  BY DEF Counted, WorkspaceTypeOK, GrantsWhenReady
<1>1. CASE PodReady \/ Elsewhere \/ EditForm \/ UNCHANGED workspaceVars
  <2>1. UNCHANGED <<requests, phase, due, cookie, frame>>
    BY <1>1 DEF PodReady, Elsewhere, EditForm, workspaceVars
  <2> QED BY <2>1 DEF OneInFlight, Pending
<1>2. CASE Poll
  <2>1. requests' = {Sent("poll")} /\ phase' = phase /\ phase # "ready" /\ frame' = frame
    BY <1>2 DEF Poll, Polling
  <2>2. Sent("poll").kind = "poll"
    BY DEF Sent
  <2> QED BY <1>t, <2>1, <2>2, OneLeaves DEF OperationKinds
<1>3. CASE Tick
  <2>1. requests = {} /\ UNCHANGED <<phase, frame>> /\ cookie' = (IF cookie = 0 THEN 0 ELSE cookie - 1)
    BY <1>3 DEF Tick
  <2>2. Pending("mint") = 0
    BY <2>1 DEF Pending
  <2>3. PICK m : m = Sent("mint")
    OBVIOUS
  <2>4. m.kind = "mint" /\ m.at = "sent"
    BY <2>3 DEF Sent
  <2>5. requests' \subseteq {m}
    BY <1>3, <2>1, <2>3 DEF Tick
  <2>6. frame.open => cookie >= Life - MintEvery + due /\ due > 0
    BY <1>t, <2>2 DEF OneInFlight
  <2>7. frame'.open => cookie' >= Life - MintEvery
    <3>1. frame.open => cookie # 0 /\ cookie - 1 >= Life - MintEvery
      BY <1>t, <2>6
    <3> QED BY <2>1, <3>1
  <2>8. phase' = "ready" /\ Pending("mint")' = 0 => cookie' >= Life - MintEvery + due'
    <3> SUFFICES ASSUME phase = "ready", Pending("mint")' = 0 PROVE cookie' >= Life - MintEvery + due'
      BY <2>1
    <3>1. requests' = {}
      BY <2>4, <2>5 DEF Pending
    <3>2. due # 1
      BY <1>3, <2>3, <3>1 DEF Tick
    <3>3. due' = (IF due = 0 THEN 0 ELSE due - 1)
      BY <1>3, <3>2 DEF Tick
    <3>4. cookie >= Life - MintEvery + due /\ due > 0
      BY <1>t, <2>2 DEF OneInFlight
    <3> QED BY <1>t, <2>1, <3>3, <3>4
  <2> QED BY <2>4, <2>5, <2>7, <2>8 DEF OneInFlight, OperationKinds
<1>4. CASE ClickRestart \/ SubmitResize
  <2>1. PICK k \in OperationKinds : Clicks(k)
    BY <1>4 DEF ClickRestart, SubmitResize, OperationKinds
  <2>2. requests = {} /\ Enter("starting", requests \cup {Sent(k)})
    BY <2>1 DEF Clicks
  <2>3. Sent(k).kind # "mint"
    BY DEF Sent, OperationKinds
  <2>4. ~frame'.open /\ phase' = "starting" /\ requests' \subseteq {Sent(k)}
    BY <2>2, <2>3, EnterGrants DEF Phases, Enter
  <2> QED BY <2>4, OneLeaves
<1>5. ASSUME NEW r \in requests, ServeRequest(r) PROVE OneInFlight'
  <2>1. PICK g : requests' = (requests \ {r}) \cup {[r EXCEPT !.at = "served", !.got = g]}
    BY <1>5 DEF ServeRequest
  <2>2. PICK x : x = [r EXCEPT !.at = "served", !.got = g]
    OBVIOUS
  <2>3. requests = {r}
    BY DEF OneInFlight
  <2>4. x.kind = r.kind /\ x.at = "served" /\ requests' = {x}
    BY <2>1, <2>2, <2>3 DEF Counted, WorkspaceTypeOK, Request
  <2>5. UNCHANGED <<phase, due, frame>> /\ cookie' = IF r.kind = "mint" THEN Life ELSE cookie
    BY <1>5 DEF ServeRequest
  <2>6. CASE r.kind = "mint"
    <3>1. cookie' = Life
      BY <2>5, <2>6
    <3>2. cookie' >= Life - MintEvery + due' /\ cookie' >= Life - MintEvery
      BY <1>t, <2>5, <3>1
    <3> QED BY <2>4, <2>5, <2>6, <3>2 DEF OneInFlight, OperationKinds
  <2>7. CASE r.kind # "mint"
    <3>1. phase # "ready" /\ ~frame.open
      BY <1>t, <2>7 DEF OneInFlight
    <3>2. r.kind \in OperationKinds => phase = "starting"
      BY DEF OneInFlight
    <3> QED BY <2>4, <2>5, <3>1, <3>2, OneLeaves
  <2> QED BY <2>6, <2>7
<1>6. ASSUME NEW r \in requests, StatusAnswered(r) PROVE OneInFlight'
  <2>0. r.kind \in StatusKinds /\ r.at = "served" /\ r.kind # "mint"
    BY <1>6 DEF StatusAnswered, Answers, StatusKinds
  <2>1. requests = {r} /\ phase # "ready"
    BY <2>0 DEF OneInFlight
  <2>2. CASE r.got # "not-found"
    <3>1. r.got \in Statuses
      BY <2>0, <2>2 DEF Counted, AnswersTell, WorkspaceTypeOK, Request
    <3>2. PICK p : p = PhaseOf(r.got)
      OBVIOUS
    <3>3. Enter(p, {}) /\ p \in Phases
      <4>1. requests \ {r} = {}
        BY <2>1
      <4> QED BY <1>6, <2>2, <3>1, <3>2, <4>1, PhaseOfType DEF StatusAnswered, Apply
    <3>4. CASE p = "ready"
      <4>1. PICK m : m = Sent("mint")
        OBVIOUS
      <4>2. m.kind = "mint" /\ m.at = "sent"
        BY <4>1 DEF Sent
      <4>3. requests' = {m} /\ frame' = NoFrame
        BY <2>1, <3>3, <3>4, <4>1 DEF Enter
      <4>4. Pending("mint")' = 1
        BY <4>2, <4>3 DEF Pending
      <4> QED BY <4>2, <4>3, <4>4 DEF OneInFlight, OperationKinds, NoFrame
    <3>5. CASE p # "ready"
      <4>1. ~frame'.open /\ requests' = {} /\ phase' = p
        BY <3>3, <3>5, EnterGrants DEF Enter
      <4> QED BY <3>5, <4>1, OneLeaves
    <3> QED BY <3>4, <3>5
  <2>3. CASE r.got = "not-found"
    <3>1. PICK k \in {"get-or-create", "create"} :
            LET rs == (requests \ {r}) \cup {Sent(k)}
            IN  Enter("init", rs) \/ (requests' = rs /\ UNCHANGED <<phase, due, frame>>)
      BY <1>6, <2>3 DEF StatusAnswered
    <3>2. PICK x : x = Sent(k)
      OBVIOUS
    <3>3. x.kind = k
      BY <3>2 DEF Sent
    <3>4. (requests \ {r}) \cup {Sent(k)} = {x}
      BY <2>1, <3>2
    <3>5. requests' \subseteq {x} /\ ~frame'.open /\ phase' # "ready"
      <4>1. CASE Enter("init", {x})
        <5>1. ~frame'.open /\ \A q \in requests' : q \in {x}
          BY <3>3, <4>1, EnterGrants DEF Phases
        <5>2. phase' = "init"
          BY <4>1 DEF Enter
        <5> QED BY <5>1, <5>2
      <4>2. CASE requests' = {x} /\ UNCHANGED <<phase, due, frame>>
        BY <1>t, <2>1, <4>2
      <4> QED BY <3>1, <3>4, <4>1, <4>2
    <3> QED BY <3>3, <3>5, OneLeaves DEF OperationKinds
  <2> QED BY <2>2, <2>3
<1>7. ASSUME NEW r \in requests, MintAnswered(r) PROVE OneInFlight'
  <2>1. r.kind = "mint" /\ r.at = "served" /\ requests = {r} /\ phase = "ready"
    BY <1>7 DEF MintAnswered, Answers, OneInFlight, GrantsWhenReady
  <2>2. Pending("mint") = 0
    BY <2>1 DEF Pending
  <2>3. cookie >= Life - MintEvery + due
    BY <2>1, <2>2 DEF OneInFlight
  <2>4. requests' = {} /\ UNCHANGED <<phase, cookie, due>>
    BY <1>7, <2>1 DEF MintAnswered
  <2>5. cookie' >= Life - MintEvery + due' /\ cookie' >= Life - MintEvery
    BY <1>t, <2>3, <2>4
  <2> QED BY <2>4, <2>5 DEF OneInFlight
<1>8. ASSUME NEW r \in requests, OperationAnswered(r) \/ RequestFails(r) PROVE OneInFlight'
  <2>1. PICK p \in {"error", "starting"} : Enter(p, requests \ {r})
    BY <1>8 DEF OperationAnswered, Apply, PhaseOf, RequestFails
  <2>2. requests \ {r} = {}
    BY DEF OneInFlight
  <2>3. ~frame'.open /\ requests' = {}
    BY <2>1, <2>2, EnterGrants DEF Phases
  <2>4. phase' = p
    BY <2>1 DEF Enter
  <2> QED BY <2>3, <2>4, OneLeaves
<1> QED BY <1>1, <1>2, <1>3, <1>4, <1>5, <1>6, <1>7, <1>8, PageSteps

LEMMA StepPods ==
  ASSUME Counted, GrantsWhenReady, OneInFlight, Prompt, Gap, ~Others, PodsAreCurrent, [WorkspaceNext]_workspaceVars
  PROVE  PodsAreCurrent'
<1>t. /\ deployment \in [exists : BOOLEAN, rev : Revisions, scaled : BOOLEAN, ready : Revisions]
      /\ deployment.rev \in Nat
  BY CountedFacts
\* The Deployment stays, and no answer is new.
<1>a. ASSUME UNCHANGED deployment,
             \A r \in requests' : r \in requests \/ r.at = "sent",
             phase' = "ready" => phase = "ready",
             frame'.open => frame' = frame
      PROVE  PodsAreCurrent'
  BY <1>a DEF PodsAreCurrent
<1>1. CASE PodReady
  <2>1. PICK d : d = [deployment EXCEPT !.ready = deployment.rev]
    OBVIOUS
  <2>2. d.exists = deployment.exists /\ d.ready = d.rev /\ d.rev = deployment.rev
    BY <1>t, <2>1
  <2>3. deployment' = d /\ deployment.exists /\ UNCHANGED <<phase, frame, requests>>
    BY <1>1, <2>1 DEF PodReady
  <2> QED BY <2>2, <2>3 DEF PodsAreCurrent
<1>2. CASE Elsewhere
  BY <1>2 DEF Elsewhere
<1>3. CASE Poll
  <2>1. Sent("poll").at = "sent"
    BY DEF Sent
  <2> QED BY <1>3, <1>a, <2>1 DEF Poll
<1>4. CASE Tick
  <2>1. Sent("mint").at = "sent"
    BY DEF Sent
  <2> QED BY <1>4, <1>a, <2>1 DEF Tick
<1>5. CASE EditForm \/ UNCHANGED workspaceVars
  BY <1>5, <1>a DEF EditForm, workspaceVars
<1>6. CASE ClickRestart \/ SubmitResize
  <2>1. PICK k \in OperationKinds : Clicks(k)
    BY <1>6 DEF ClickRestart, SubmitResize, OperationKinds
  <2>2. Sent(k).kind # "mint" /\ Sent(k).at = "sent"
    BY DEF Sent, OperationKinds
  <2>3. Enter("starting", requests \cup {Sent(k)})
    BY <2>1 DEF Clicks
  <2>4. ~frame'.open /\ \A r \in requests' : r \in requests \cup {Sent(k)}
    BY <2>2, <2>3, EnterGrants DEF Phases
  <2>5. phase' = "starting" /\ UNCHANGED deployment
    BY <1>6, <2>3 DEF Enter, ClickRestart, SubmitResize
  <2> QED BY <1>a, <2>2, <2>4, <2>5
<1>7. ASSUME NEW r \in requests, ServeRequest(r) PROVE PodsAreCurrent'
  <2>1. PICK g : g = IF r.kind = "mint" THEN "ok" ELSE Status'
    OBVIOUS
  <2>2. PICK x : x = [r EXCEPT !.at = "served", !.got = g]
    OBVIOUS
  <2>3. requests = {r}
    BY DEF OneInFlight
  <2>4. requests' = {x} /\ UNCHANGED <<phase, frame>>
    BY <1>7, <2>1, <2>2, <2>3 DEF ServeRequest
  <2>5. x.got = g
    BY <2>2 DEF Counted, WorkspaceTypeOK, Request
  <2>6. g = "Running" => deployment'.exists /\ deployment'.ready # 0
    BY <2>1 DEF Status
  <2>7. CASE deployment' = deployment
    BY <2>4, <2>5, <2>6, <2>7 DEF PodsAreCurrent
  <2>8. CASE phase # "ready" /\ deployment'.ready = 0
    <3>1. ~frame.open
      BY <2>8 DEF GrantsWhenReady
    <3> QED BY <2>4, <2>5, <2>6, <2>8, <3>1 DEF PodsAreCurrent
  <2>9. CASE r.kind = "create" /\ ~deployment.exists
    <3>1. deployment' = Created(deployment)
      BY <1>7, <2>9 DEF ServeRequest
    <3>2. deployment'.ready = 0
      BY <3>1 DEF Created
    <3> QED BY <2>8, <2>9, <3>2 DEF PodsAreCurrent
  <2>10. CASE r.kind \in {"restart", "resize"} /\ deployment.exists
    <3>1. deployment' = Rolled(deployment) /\ phase = "starting"
      BY <1>7, <2>10 DEF ServeRequest, OneInFlight, OperationKinds
    <3>2. deployment'.ready = 0
      BY <1>t, <3>1 DEF Rolled
    <3> QED BY <2>8, <3>1, <3>2
  <2>11. CASE ~(r.kind = "create" /\ ~deployment.exists) /\ ~(r.kind \in {"restart", "resize"} /\ deployment.exists)
    <3>1. deployment' = deployment
      BY <1>7, <2>11 DEF ServeRequest
    <3> QED BY <2>7, <3>1
  <2> QED BY <2>9, <2>10, <2>11
<1>8. ASSUME NEW r \in requests, StatusAnswered(r) PROVE PodsAreCurrent'
  <2>0. r.kind \in StatusKinds /\ r.at = "served" /\ r.kind # "mint" /\ UNCHANGED deployment
    BY <1>8 DEF StatusAnswered, Answers, StatusKinds
  <2>1. CASE r.got # "not-found"
    <3>1. r.got \in Statuses
      BY <2>0, <2>1 DEF Counted, AnswersTell, WorkspaceTypeOK, Request
    <3>2. PICK p : p = PhaseOf(r.got)
      OBVIOUS
    <3>3. Enter(p, requests \ {r}) /\ p \in Phases /\ (p = "ready" <=> r.got = "Running")
      BY <1>8, <2>1, <3>1, <3>2, PhaseOfType DEF StatusAnswered, Apply
    <3>4. /\ phase' = p
          /\ \A q \in requests' : q \in requests \ {r} \/ q.at = "sent"
      BY <3>3, RestCounted, EnterEffects
    <3>5. frame' \in {frame, NoFrame} /\ ~NoFrame.open
      BY <3>3, EnterGrants DEF NoFrame
    <3>6. phase' = "ready" => deployment.exists /\ deployment.ready = deployment.rev
      BY <2>0, <3>3, <3>4 DEF PodsAreCurrent
    <3> QED BY <2>0, <3>4, <3>5, <3>6 DEF PodsAreCurrent
  <2>2. CASE r.got = "not-found"
    <3>1. PICK k \in {"get-or-create", "create"} :
            LET rs == (requests \ {r}) \cup {Sent(k)}
            IN  Enter("init", rs) \/ (requests' = rs /\ UNCHANGED <<phase, due, frame>>)
      BY <1>8, <2>2 DEF StatusAnswered
    <3>2. PICK x : x = Sent(k)
      OBVIOUS
    <3>3. PICK rs : rs = (requests \ {r}) \cup {x}
      OBVIOUS
    <3>4. x.kind = k /\ x.at = "sent"
      BY <3>2 DEF Sent
    <3>5. CASE Enter("init", rs)
      <4>1. ~frame'.open /\ \A q \in requests' : q \in rs
        BY <3>3, <3>4, <3>5, EnterGrants DEF Phases
      <4>2. phase' = "init"
        BY <3>5 DEF Enter
      <4> QED BY <1>a, <2>0, <3>3, <3>4, <4>1, <4>2
    <3>6. CASE requests' = rs /\ UNCHANGED <<phase, due, frame>>
      BY <1>a, <2>0, <3>3, <3>4, <3>6
    <3> QED BY <3>1, <3>2, <3>3, <3>5, <3>6
  <2> QED BY <2>1, <2>2
<1>9. ASSUME NEW r \in requests, MintAnswered(r) PROVE PodsAreCurrent'
  <2>1. phase = "ready" /\ UNCHANGED <<deployment, phase>> /\ requests' = requests \ {r}
    BY <1>9 DEF MintAnswered, Answers, GrantsWhenReady
  <2>2. frame' = frame \/ frame' = Opened
    BY <1>9 DEF MintAnswered
  <2> QED BY <2>1, <2>2 DEF PodsAreCurrent, Opened
<1>10. ASSUME NEW r \in requests, OperationAnswered(r) \/ RequestFails(r) PROVE PodsAreCurrent'
  <2>1. PICK p \in {"error", "starting"} : Enter(p, requests \ {r})
    BY <1>10 DEF OperationAnswered, Apply, PhaseOf, RequestFails
  <2>2. ~frame'.open /\ \A q \in requests' : q \in requests
    BY <2>1, EnterGrants DEF Phases
  <2>3. phase' = p /\ UNCHANGED deployment
    BY <1>10, <2>1 DEF Enter, OperationAnswered, RequestFails
  <2> QED BY <1>a, <2>2, <2>3
<1> QED BY <1>1, <1>2, <1>3, <1>4, <1>5, <1>6, <1>7, <1>8, <1>9, <1>10, PageSteps

LEMMA InitPage == WorkspaceInit => PageInv
<1> SUFFICES ASSUME WorkspaceInit PROVE PageInv  OBVIOUS
<1> USE WorkspacePageAssumption
<1>1. requests = {[n |-> 0, kind |-> "get-or-create", at |-> "sent", got |-> "ok"]}
  BY DEF WorkspaceInit
<1>2. phase = "init" /\ frame = NoFrame /\ due = 0
  BY DEF WorkspaceInit
<1>3. BadgeAgrees
  BY <1>1 DEF BadgeAgrees
<1>4. GrantsWhenReady
  BY <1>1, <1>2 DEF GrantsWhenReady, NoFrame
<1>5. OneInFlight
  BY <1>1, <1>2 DEF OneInFlight, NoFrame, OperationKinds
<1>6. PodsAreCurrent
  BY <1>1, <1>2 DEF WorkspaceInit, PodsAreCurrent, NoFrame
<1> QED BY <1>3, <1>4, <1>5, <1>6, InitCounted DEF PageInv, Counted

LEMMA StepPage == PageInv /\ [WorkspaceNext]_workspaceVars => PageInv'
<1> SUFFICES ASSUME PageInv, [WorkspaceNext]_workspaceVars PROVE PageInv'  OBVIOUS
<1>1. Counted /\ BadgeAgrees /\ GrantsWhenReady
  BY DEF PageInv, Counted
<1>2. circumstances' = circumstances
  BY DEF WorkspaceNext, PodReady, Elsewhere, Poll, Tick, ClickRestart, EditForm, SubmitResize, AnswerRequest,
         ServeRequest, StatusAnswered, MintAnswered, OperationAnswered, RequestFails, workspaceVars
<1>3. Counted' /\ BadgeAgrees' /\ GrantsWhenReady'
  BY <1>1, StepCounted, StepBadge, StepGrants
<1>4. ASSUME Prompt' PROVE OneInFlight'
  BY <1>1, <1>2, <1>4, StepOne DEF PageInv, Prompt
<1>5. ASSUME (Prompt /\ Gap /\ ~Others)' PROVE PodsAreCurrent'
  BY <1>1, <1>2, <1>5, StepPods DEF PageInv, Prompt, Gap, Others
<1> QED BY <1>3, <1>4, <1>5 DEF PageInv, Counted

\* Header, body and iframe of the page agree with each other, with the cookie
\* and with the Deployment, for any number of clicks, polls and mishaps and any
\* two intervals of which the grant's is the shorter.  (AgentWorkspace.tsx:110)
THEOREM PageAgrees == WorkspaceSpec => []WorkspacePageInv
<1>1. PageInv => WorkspacePageInv
  <2> SUFFICES ASSUME PageInv PROVE WorkspacePageInv  OBVIOUS
  <2>1. CookieIsValid
    <3> SUFFICES ASSUME Prompt, frame.open PROVE cookie > 0
      BY DEF CookieIsValid
    <3>1. cookie \in Nat /\ cookie >= Life - MintEvery
      BY DEF PageInv, OneInFlight, WorkspaceTypeOK
    <3> QED BY <3>1, WorkspacePageAssumption
  <2>2. FrameOnCurrentPod
    BY DEF PageInv, PodsAreCurrent, FrameOnCurrentPod
  <2> QED BY <2>1, <2>2 DEF PageInv, WorkspacePageInv
<1> QED BY <1>1, InitPage, StepPage, PTL DEF WorkspaceSpec

\* What is typed into the resize form stays while the workspace runs, if each
\* answer comes before the next poll: nothing but a grant is then in flight.
\* (AgentWorkspace.tsx:353)
THEOREM TypedTextStays == WorkspaceSpec => TypedStays
<1> DEFINE Stays == Prompt /\ phase = "ready" /\ form = "typed" => form' # "clean"
<1>1. ASSUME PageInv, [WorkspaceNext]_workspaceVars PROVE [Stays]_workspaceVars
  <2> SUFFICES ASSUME Prompt, phase = "ready", form = "typed" PROVE form' # "clean"
    OBVIOUS
  <2>1. \A r \in requests : r.kind = "mint"
    BY <1>1 DEF PageInv, OneInFlight
  <2>2. CASE EditForm
    BY <2>2 DEF EditForm
  <2>3. ASSUME NEW r \in requests, StatusAnswered(r) \/ OperationAnswered(r) PROVE FALSE
    BY <2>1, <2>3 DEF StatusAnswered, OperationAnswered, Answers
  <2>4. ASSUME NEW r \in requests, ServeRequest(r) \/ MintAnswered(r) \/ RequestFails(r) PROVE form' = form
    BY <2>4 DEF ServeRequest, MintAnswered, RequestFails
  <2>5. CASE PodReady \/ Elsewhere \/ Poll \/ Tick \/ ClickRestart \/ SubmitResize \/ UNCHANGED workspaceVars
    BY <2>5 DEF PodReady, Elsewhere, Poll, Tick, ClickRestart, SubmitResize, workspaceVars
  <2> QED BY <1>1, <2>2, <2>3, <2>4, <2>5, PageSteps
<1> QED BY <1>1, InitPage, StepPage, PTL DEF WorkspaceSpec, TypedStays

=============================================================================
