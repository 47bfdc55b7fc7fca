------------------------------- MODULE Publish -------------------------------
(***************************************************************************)
(* The Model Hub and the publish workflow: private models are registered   *)
(* in namespaces, a member of the namespace asks for one to be copied into *)
(* the public catalog, and a platform admin approves or rejects.           *)
(* Sources: backend/internal/models (service, store) and                   *)
(* backend/internal/publish (service, store).                              *)
(*                                                                         *)
(* Every store method runs under the store's mutex (or in one SQL          *)
(* statement / transaction), so it is one step.  A publish handler is      *)
(* SEVERAL store calls with nothing held between them: calls[c] is the     *)
(* handler goroutine c, with its program counter and its local copies.     *)
(***************************************************************************)
EXTENDS Naturals, FiniteSets

CONSTANTS
    Users,       \* callers with a bearer token (User.Name)
    Admins,      \* those with IsPlatformAdmin
    Namespaces,  \* Kubernetes namespaces
    Membership,  \* Users \X Namespaces pairs the SubjectAccessReview allows
    Names,       \* model names
    PublicURIs,  \* URIs IsPublicSource accepts (hf://, modelscope://, ...)
    PrivateURIs, \* URIs it does not (s3://, pvc://, gitlab://, ...)
    ModelIds,    \* bound: model ids newID("m") can mint
    RequestIds,  \* bound: request ids newID("pub") can mint
    Calls,       \* bound: publish handlers in flight at once
    None,        \* the empty string of an id, namespace or user field
    Postgres     \* TRUE with KNAIC_DB_URL set, FALSE with the memory stores

ASSUME PublishAssumption ==
    /\ Admins \subseteq Users
    /\ Membership \subseteq Users \X Namespaces
    /\ PublicURIs \cap PrivateURIs = {}
    /\ None \notin Namespaces \cup Names \cup ModelIds \cup RequestIds \cup Users
    /\ None \notin PublicURIs \cup PrivateURIs
    /\ Postgres \in BOOLEAN

VARIABLES
    models,    \* the model store, one row per id newID can mint
    requests,  \* the publish request store, likewise
    calls      \* the publish handlers

vars == <<models, requests, calls>>

URIs == PublicURIs \cup PrivateURIs

\* "unused": the id has not been minted; "deleted": its row was removed, and
\* the random id is not minted again.  A deleted row keeps only history: what
\* a model was a copy of, and the target of a request.
Model == [scope  : {"unused", "public", "private", "deleted"},
          ns     : Namespaces \cup {None},
          name   : Names \cup {None},
          uri    : URIs \cup {None},
          origin : RequestIds \cup {None}]  \* history: the request published

Request == [status  : {"unused", "pending", "approved", "rejected", "deleted"},
            model   : ModelIds \cup {None},
            ns      : Namespaces \cup {None},
            uri     : URIs \cup {None},
            target  : Names \cup {None},
            by      : Users \cup {None},
            catalog : ModelIds \cup {None}]

\* at: what the handler does next.  user, req: its arguments; model, ns, uri:
\* the ModelSnapshot it holds; target: CreateRequest.TargetName; catalog: the
\* id CreatePublicFromRequest returned.
Call == [at     : {"idle", "create", "fetch", "copy", "record", "reject", "delete"},
         user   : Users \cup {None},
         req    : RequestIds \cup {None},
         model  : ModelIds \cup {None},
         ns     : Namespaces \cup {None},
         uri    : URIs \cup {None},
         target : Names \cup {None},
         catalog: ModelIds \cup {None}]

UnusedModel == [scope |-> "unused", ns |-> None, name |-> None, uri |-> None,
                origin |-> None]

UnusedRequest == [status |-> "unused", model |-> None, ns |-> None,
                  uri |-> None, target |-> None, by |-> None,
                  catalog |-> None]

IdleCall == [at |-> "idle", user |-> None, req |-> None, model |-> None,
             ns |-> None, uri |-> None, target |-> None, catalog |-> None]

TypeOK ==
    /\ models \in [ModelIds -> Model]
    /\ requests \in [RequestIds -> Request]
    /\ calls \in [Calls -> Call]

Init ==
    /\ models = [m \in ModelIds |-> UnusedModel]
    /\ requests = [r \in RequestIds |-> UnusedRequest]
    /\ calls = [c \in Calls |-> IdleCall]

-----------------------------------------------------------------------------
(* The model hub *)

ModelExists(m) == models[m].scope \in {"public", "private"}
RequestExists(r) == requests[r].status \in {"pending", "approved", "rejected"}

\* models.Service.gateWrite: admins write anywhere, members in their namespace.
GateWrite(u, scope, ns) ==
    \/ u \in Admins
    \/ scope = "private" /\ <<u, ns>> \in Membership

\* The URI prefixes anyone can reach; publish.IsPublicURI mirrors the rule.
IsPublicSource(uri) == uri \in PublicURIs
IsPublicURI(uri) == IsPublicSource(uri)

\* Mutant: uniqueness forgotten for the public catalog.
NameTakenPrivateOnly(scope, ns, name) ==
    /\ scope = "private"
    /\ \E m \in ModelIds : /\ models[m].scope = scope
                           /\ models[m].ns = ns
                           /\ models[m].name = name

\* Store.Create refuses a second (scope, namespace, name); knaic_models_uniq
\* is the same rule in SQL.
NameTaken(scope, ns, name) ==
    \E m \in ModelIds : /\ models[m].scope = scope
                        /\ models[m].ns = ns
                        /\ models[m].name = name

\* Create, Import and Upload differ in how they obtain the name and the URI.
\* Public models have no namespace (namespaceFor); an admin may leave it empty.
CreateModel(u, scope, ns, name, uri) ==
    /\ GateWrite(u, scope, ns)
    /\ scope = "public" => ns = None
    /\ ~NameTaken(scope, ns, name)
    /\ \E m \in ModelIds :
        /\ models[m].scope = "unused"
        /\ models' = [models EXCEPT ![m] =
                        [scope |-> scope, ns |-> ns, name |-> name,
                         uri |-> uri, origin |-> None]]
    /\ UNCHANGED <<requests, calls>>

\* The gate reads only fields no update changes, so Get and Delete are one step.
DeleteModel(u, m) ==
    /\ ModelExists(m)
    /\ GateWrite(u, models[m].scope, models[m].ns)
    /\ models' = [models EXCEPT ![m] =
                    [UnusedModel EXCEPT !.scope = "deleted",
                                        !.origin = models[m].origin]]
    /\ UNCHANGED <<requests, calls>>

-----------------------------------------------------------------------------
(* Opening a request *)

Return(c) == calls' = [calls EXCEPT ![c] = IdleCall]

\* Service.Create up to the store call: the private model is read, its URI
\* must be public and its namespace writable by the caller.
BeginCreate(c, u, m, target) ==
    /\ calls[c].at = "idle"
    /\ models[m].scope = "private"
    /\ GateWrite(u, "private", models[m].ns)
    /\ IsPublicURI(models[m].uri)
    /\ models[m].ns # None
    /\ calls' = [calls EXCEPT ![c] =
                    [IdleCall EXCEPT !.at = "create", !.user = u, !.model = m,
                                     !.ns = models[m].ns, !.uri = models[m].uri,
                                     !.target = target]]
    /\ UNCHANGED <<models, requests>>

\* Mutant: looks for the wrong status.
DuplicateApproved(model) ==
    /\ ~Postgres
    /\ \E r \in RequestIds : /\ requests[r].model = model
                             /\ requests[r].status = "approved"

\* Only the memory store refuses a second pending request for a model; the
\* SQL table has no such constraint.
DuplicatePending(model) ==
    /\ ~Postgres
    /\ \E r \in RequestIds : /\ requests[r].model = model
                             /\ requests[r].status = "pending"

StoreRequest(c) ==
    /\ calls[c].at = "create"
    /\ \/ /\ DuplicatePending(calls[c].model)
          /\ UNCHANGED requests
       \/ /\ ~DuplicatePending(calls[c].model)
          /\ \E r \in RequestIds :
                /\ requests[r].status = "unused"
                /\ requests' = [requests EXCEPT ![r] =
                        [UnusedRequest EXCEPT !.status = "pending",
                                              !.model = calls[c].model,
                                              !.ns = calls[c].ns,
                                              !.uri = calls[c].uri,
                                              !.target = calls[c].target,
                                              !.by = calls[c].user]]
    /\ Return(c)
    /\ UNCHANGED models

-----------------------------------------------------------------------------
(* Reviewing a request *)

\* Mutant: any existing request may be reviewed.
MayReviewAgain(u, r) ==
    /\ u \in Admins
    /\ RequestExists(r)

\* The guard both reviews start with: an admin, and a pending request.
MayReview(u, r) ==
    /\ u \in Admins
    /\ requests[r].status = "pending"

BeginApprove(c, u, r) ==
    /\ calls[c].at = "idle"
    /\ MayReview(u, r)
    /\ calls' = [calls EXCEPT ![c] = [IdleCall EXCEPT !.at = "fetch", !.user = u,
                                        !.req = r, !.model = requests[r].model,
                                        !.target = requests[r].target]]
    /\ UNCHANGED <<models, requests>>

\* Mutant: finds the model by namespace instead of id.
FetchPrivateByName(c) ==
    /\ calls[c].at = "fetch"
    /\ \E m \in ModelIds :
        /\ models[m].scope = "private"
        /\ models[m].ns = requests[calls[c].req].ns
        /\ calls' = [calls EXCEPT ![c] = [@ EXCEPT !.at = "copy",
                                                  !.ns = models[m].ns,
                                                  !.uri = models[m].uri]]
    /\ UNCHANGED <<models, requests>>

\* GetPrivateForPublish again, at approval: ErrNotFound ends the handler.
FetchPrivate(c) ==
    /\ calls[c].at = "fetch"
    /\ LET m == calls[c].model IN
        IF models[m].scope = "private"
        THEN calls' = [calls EXCEPT ![c] = [@ EXCEPT !.at = "copy",
                                                     !.ns = models[m].ns,
                                                     !.uri = models[m].uri]]
        ELSE Return(c)
    /\ UNCHANGED <<models, requests>>

\* CreatePublicFromRequest: the URI must be public, the name free.
CopyToCatalog(c) ==
    /\ calls[c].at = "copy"
    /\ \/ /\ \/ ~IsPublicSource(calls[c].uri)
             \/ NameTaken("public", None, calls[c].target)
          /\ Return(c)
          /\ UNCHANGED models
       \/ /\ IsPublicSource(calls[c].uri)
          /\ ~NameTaken("public", None, calls[c].target)
          /\ \E m \in ModelIds :
                /\ models[m].scope = "unused"
                /\ models' = [models EXCEPT ![m] =
                        [scope |-> "public", ns |-> None,
                         name |-> calls[c].target, uri |-> calls[c].uri,
                         origin |-> calls[c].req]]
                /\ calls' = [calls EXCEPT ![c] = [@ EXCEPT !.at = "record",
                                                           !.catalog = m]]
    /\ UNCHANGED requests

\* Mutant: forgets the catalog id.
RecordApprovalNoCatalog(c) ==
    /\ calls[c].at = "record"
    /\ LET r == calls[c].req IN
        requests' = IF RequestExists(r)
                    THEN [requests EXCEPT ![r].status = "approved"]
                    ELSE requests
    /\ Return(c)
    /\ UNCHANGED models

\* Store.Update with Approve's mutator, which sets the status whatever it is
\* by now; ErrNotFound if the request went away.
RecordApproval(c) ==
    /\ calls[c].at = "record"
    /\ LET r == calls[c].req IN
        requests' = IF RequestExists(r)
                    THEN [requests EXCEPT ![r] =
                            [@ EXCEPT !.status = "approved",
                                      !.catalog = calls[c].catalog]]
                    ELSE requests
    /\ Return(c)
    /\ UNCHANGED models

BeginReject(c, u, r) ==
    /\ calls[c].at = "idle"
    /\ MayReview(u, r)
    /\ calls' = [calls EXCEPT ![c] = [IdleCall EXCEPT !.at = "reject", !.user = u,
                                                      !.req = r]]
    /\ UNCHANGED <<models, requests>>

\* Store.Update with Reject's mutator: it leaves CatalogModelID alone.
RecordRejection(c) ==
    /\ calls[c].at = "reject"
    /\ LET r == calls[c].req IN
        requests' = IF RequestExists(r)
                    THEN [requests EXCEPT ![r].status = "rejected"]
                    ELSE requests
    /\ Return(c)
    /\ UNCHANGED models

-----------------------------------------------------------------------------
(* Deleting a request *)

\* Admins delete anything, owners withdraw their own pending requests.
BeginDelete(c, u, r) ==
    /\ calls[c].at = "idle"
    /\ RequestExists(r)
    /\ \/ u \in Admins
       \/ requests[r].by = u /\ requests[r].status = "pending"
    /\ calls' = [calls EXCEPT ![c] = [IdleCall EXCEPT !.at = "delete", !.user = u,
                                                      !.req = r]]
    /\ UNCHANGED <<models, requests>>

RemoveRequest(c) ==
    /\ calls[c].at = "delete"
    /\ LET r == calls[c].req IN
        requests' = IF RequestExists(r)
                    THEN [requests EXCEPT ![r] =
                            [UnusedRequest EXCEPT !.status = "deleted",
                                                  !.target = requests[r].target]]
                    ELSE requests
    /\ Return(c)
    /\ UNCHANGED models

\* Mutant: a memory store handler gives up between two calls.
AbortAnyStore(c) ==
    /\ calls[c].at # "idle"
    /\ Return(c)
    /\ UNCHANGED <<models, requests>>

\* With Postgres a handler can end between any two store calls: its request
\* context is cancelled, a query fails, or the process dies and the rows stay.
\* The memory stores ignore the context and die with the process.
Abort(c) ==
    /\ Postgres
    /\ calls[c].at # "idle"
    /\ Return(c)
    /\ UNCHANGED <<models, requests>>

-----------------------------------------------------------------------------

Step(c) ==
    \/ StoreRequest(c)
    \/ FetchPrivate(c)
    \/ CopyToCatalog(c)
    \/ RecordApproval(c)
    \/ RecordRejection(c)
    \/ RemoveRequest(c)
    \/ Abort(c)

HubStep(u) ==
    \/ \E scope \in {"public", "private"}, ns \in Namespaces \cup {None},
          name \in Names, uri \in URIs : CreateModel(u, scope, ns, name, uri)
    \/ \E m \in ModelIds : DeleteModel(u, m)

CallStep(c, u) ==
    \/ \E m \in ModelIds, target \in Names : BeginCreate(c, u, m, target)
    \/ \E r \in RequestIds : \/ BeginApprove(c, u, r)
                             \/ BeginReject(c, u, r)
                             \/ BeginDelete(c, u, r)

Next ==
    \/ \E u \in Users : HubStep(u)
    \/ \E c \in Calls, u \in Users : CallStep(c, u)
    \/ \E c \in Calls : Step(c)

Spec == Init /\ [][Next]_vars

-----------------------------------------------------------------------------
(* What the stores and handlers keep true whatever the interleaving *)

\* No two live models share scope, namespace and name: Store.Create's check
\* and its insertion are one critical section (or one unique index).
UniqueModelNames ==
    \A m, n \in ModelIds :
        /\ ModelExists(m) /\ ModelExists(n)
        /\ models[m].scope = models[n].scope
        /\ models[m].ns = models[n].ns
        /\ models[m].name = models[n].name
        => m = n

\* However many approvals of one request race, at most one catalog copy of it
\* is live: the second CreatePublicFromRequest finds the target name taken.
AtMostOnePublishedCopy ==
    \A m, n \in ModelIds :
        /\ ModelExists(m) /\ ModelExists(n)
        /\ models[m].origin # None
        /\ models[m].origin = models[n].origin
        => m = n

\* The catalog entry an approval records is the copy made for THAT request,
\* under the target name and with the URI the reviewer saw in it, although
\* Approve reads the private model again and does not compare.
PublishedWhatWasReviewed ==
    \A r \in RequestIds :
        LET q == requests[r] IN
        /\ q.status = "approved" => q.catalog # None
        /\ q.catalog # None =>
            /\ models[q.catalog].origin = r
            /\ ModelExists(q.catalog) => /\ models[q.catalog].name = q.target
                                         /\ models[q.catalog].uri = q.uri

\* A published model never carries a URI that needs namespace credentials.
PublishedIsPublic ==
    \A m \in ModelIds :
        ModelExists(m) /\ models[m].origin # None
            => models[m].uri \in PublicURIs

\* The memory store holds at most one pending request per private model
\* (the ErrConflict of its Create), through any reviews and withdrawals.
OnePendingPerModel ==
    ~Postgres =>
        \A r, s \in RequestIds :
            /\ requests[r].status = "pending"
            /\ requests[s].status = "pending"
            /\ requests[r].model = requests[s].model
            => r = s

-----------------------------------------------------------------------------
(* The inductive invariant behind them *)

\* A model id is minted once, and a copy was made for a request that was
\* opened, under its target name.
ModelHistory ==
    \A m \in ModelIds :
        /\ models[m].scope = "unused" => models[m].origin = None
        /\ models[m].origin # None =>
            /\ requests[models[m].origin].status # "unused"
            /\ ModelExists(m) =>
                /\ models[m].scope = "public"
                /\ models[m].ns = None
                /\ models[m].name = requests[models[m].origin].target
                /\ models[m].uri \in PublicURIs

\* Model m is, or was until it was deleted, a private model with this URI.
PrivateSource(m, uri) ==
    /\ m \in ModelIds
    /\ models[m].scope \in {"private", "deleted"}
    /\ models[m].scope = "private" => models[m].uri = uri

\* A request still names the URI of the model it was opened for.
RequestLinks ==
    \A r \in RequestIds :
        RequestExists(r) => PrivateSource(requests[r].model, requests[r].uri)

\* The locals k of a handler agree with the rows they were read from, as long
\* as these rows exist.
CallLink(k) ==
    /\ k.at = "create" => PrivateSource(k.model, k.uri)
    /\ k.at = "fetch" => k.model \in ModelIds
    /\ k.at \notin {"idle", "create"} => k.req \in RequestIds
    /\ k.at \in {"fetch", "copy", "record"} =>
        /\ requests[k.req].status # "unused"
        /\ requests[k.req].target = k.target
        /\ RequestExists(k.req) => requests[k.req].model = k.model
    /\ k.at \in {"copy", "record"} /\ RequestExists(k.req) =>
        requests[k.req].uri = k.uri
    /\ k.at = "record" =>
        /\ k.catalog \in ModelIds
        /\ models[k.catalog].origin = k.req
        /\ ModelExists(k.catalog) => /\ models[k.catalog].name = k.target
                                     /\ models[k.catalog].uri = k.uri

CallLinks == \A c \in Calls : CallLink(calls[c])

\* Rows and handlers agree: what lets an approval publish, three store calls
\* after the check, exactly what the request asked for.
PublishInv ==
    /\ ModelHistory
    /\ RequestLinks
    /\ CallLinks

-----------------------------------------------------------------------------
(* What the workflow promises; it holds when handlers do not overlap *)

\* An admin approves (which creates the public copy) OR rejects: a rejected
\* request has no live copy in the catalog once no handler is running.
RejectedNotInCatalog ==
    (\A c \in Calls : calls[c].at = "idle") =>
        \A r \in RequestIds, m \in ModelIds :
            requests[r].status = "rejected" /\ ModelExists(m)
                => models[m].origin # r

\* The copy an approval is about to record is not yet published.
Unrecorded == {calls[c].req : c \in {d \in Calls : calls[d].at = "record"}}

PublishedRequests ==
    {r \in RequestIds : \E m \in ModelIds : models[m].origin = r} \ Unrecorded

Review == INSTANCE PublishReview
            WITH status    <- [r \in RequestIds |-> requests[r].status],
                 published <- PublishedRequests

\* Without overlap the handlers implement the one-step review of PublishReview:
\* only a pending request is approved or rejected, a decision is never replaced
\* by another, and what is rejected has not been published.
ReviewSpec == Review!Spec

=============================================================================
