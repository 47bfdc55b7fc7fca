---------------------------- MODULE PublishProofs ----------------------------
(* Proofs about Publish, for any number of users, models, requests and      *)
(* handlers, and for both kinds of store.                                   *)
EXTENDS Publish, TLAPS

-----------------------------------------------------------------------------
(* Types *)

\* The rows and locals a handler builds, field by field.
LEMMA RowTypes ==
    ASSUME TypeOK
    PROVE  /\ \A c \in Calls :
                /\ calls[c] \in Call
                /\ calls[c].user \in Users \cup {None}
                /\ calls[c].req \in RequestIds \cup {None}
                /\ calls[c].model \in ModelIds \cup {None}
                /\ calls[c].ns \in Namespaces \cup {None}
                /\ calls[c].uri \in URIs \cup {None}
                /\ calls[c].target \in Names \cup {None}
                /\ calls[c].catalog \in ModelIds \cup {None}
           /\ \A r \in RequestIds :
                /\ requests[r] \in Request
                /\ requests[r].model \in ModelIds \cup {None}
                /\ requests[r].target \in Names \cup {None}
           /\ \A m \in ModelIds :
                /\ models[m] \in Model
                /\ models[m].ns \in Namespaces \cup {None}
                /\ models[m].uri \in URIs \cup {None}
                /\ models[m].origin \in RequestIds \cup {None}
  BY DEF TypeOK, Model, Request, Call

\* An idle handler's locals are empty.
LEMMA IdleTypes == IdleCall \in Call
  BY DEF IdleCall, Call

\* A handler that returns keeps the types.
LEMMA ReturnTypes ==
    ASSUME TypeOK, NEW c \in Calls, Return(c)
    PROVE  calls' \in [Calls -> Call]
  BY IdleTypes DEF TypeOK, Return

\* Every step of the hub and of the handlers keeps the types of the stores
\* and of the handlers' locals.
LEMMA TypeStep == TypeOK /\ CallLinks /\ [Next]_vars => TypeOK'
  <1> SUFFICES ASSUME TypeOK, CallLinks, [Next]_vars PROVE TypeOK'
    OBVIOUS
  <1>1. ASSUME NEW u \in Users, HubStep(u) PROVE TypeOK'
    <2>1. ASSUME NEW scope \in {"public", "private"},
                 NEW ns \in Namespaces \cup {None}, NEW name \in Names,
                 NEW uri \in URIs, CreateModel(u, scope, ns, name, uri)
          PROVE  TypeOK'
      BY <2>1 DEF CreateModel, TypeOK, Model
    <2>2. ASSUME NEW m \in ModelIds, DeleteModel(u, m) PROVE TypeOK'
      BY <2>2 DEF DeleteModel, TypeOK, Model, UnusedModel
    <2>3. QED
      BY <1>1, <2>1, <2>2 DEF HubStep
  <1>2. ASSUME NEW c \in Calls, NEW u \in Users, CallStep(c, u) PROVE TypeOK'
    <2>1. ASSUME NEW m \in ModelIds, NEW target \in Names,
                 BeginCreate(c, u, m, target)
          PROVE  TypeOK'
      <3>1. [IdleCall EXCEPT !.at = "create", !.user = u, !.model = m,
                             !.ns = models[m].ns, !.uri = models[m].uri,
                             !.target = target] \in Call
        BY RowTypes DEF IdleCall, Call
      <3>2. QED
        BY <2>1, <3>1 DEF BeginCreate, TypeOK
    <2>2. ASSUME NEW r \in RequestIds, BeginApprove(c, u, r) PROVE TypeOK'
      <3>1. [IdleCall EXCEPT !.at = "fetch", !.user = u, !.req = r,
                             !.model = requests[r].model,
                             !.target = requests[r].target] \in Call
        BY RowTypes DEF IdleCall, Call
      <3>2. QED
        BY <2>2, <3>1 DEF BeginApprove, TypeOK
    <2>3. ASSUME NEW r \in RequestIds, BeginReject(c, u, r) PROVE TypeOK'
      BY <2>3 DEF BeginReject, TypeOK, IdleCall, Call
    <2>4. ASSUME NEW r \in RequestIds, BeginDelete(c, u, r) PROVE TypeOK'
      BY <2>4 DEF BeginDelete, TypeOK, IdleCall, Call
    <2>5. QED
      BY <1>2, <2>1, <2>2, <2>3, <2>4 DEF CallStep
  <1>3. ASSUME NEW c \in Calls, Step(c) PROVE TypeOK'
    <2> DEFINE k == calls[c]
    <2>1. CASE StoreRequest(c)
      <3>1. [UnusedRequest EXCEPT !.status = "pending", !.model = k.model,
                                  !.ns = k.ns, !.uri = k.uri,
                                  !.target = k.target, !.by = k.user] \in Request
        BY RowTypes DEF UnusedRequest, Request
      <3>2. QED
        BY <2>1, <3>1, ReturnTypes DEF StoreRequest, TypeOK
    <2>2. CASE FetchPrivate(c)
      <3>1. ASSUME NEW m \in ModelIds
            PROVE  [k EXCEPT !.at = "copy", !.ns = models[m].ns,
                             !.uri = models[m].uri] \in Call
        BY RowTypes DEF Call
      <3>2. k.model \in ModelIds
        BY <2>2 DEF FetchPrivate, CallLinks, CallLink
      <3>3. QED
        BY <2>2, <3>1, <3>2, ReturnTypes DEF FetchPrivate, TypeOK
    <2>3. CASE CopyToCatalog(c)
      <3>1. [scope |-> "public", ns |-> None, name |-> k.target,
             uri |-> k.uri, origin |-> k.req] \in Model
        BY RowTypes DEF Model
      <3>2. ASSUME NEW m \in ModelIds
            PROVE  [k EXCEPT !.at = "record", !.catalog = m] \in Call
        BY RowTypes DEF Call
      <3>3. QED
        BY <2>3, <3>1, <3>2, ReturnTypes DEF CopyToCatalog, TypeOK
    <2>4. CASE RecordApproval(c)
      <3>1. k.req \in RequestIds
        BY <2>4 DEF RecordApproval, CallLinks, CallLink
      <3>2. [requests[k.req] EXCEPT !.status = "approved",
                                    !.catalog = k.catalog] \in Request
        BY <3>1, RowTypes DEF Request
      <3>3. QED
        BY <2>4, <3>1, <3>2, ReturnTypes DEF RecordApproval, TypeOK
    <2>5. CASE RecordRejection(c)
      <3>1. k.req \in RequestIds
        BY <2>5 DEF RecordRejection, CallLinks, CallLink
      <3>2. [requests EXCEPT ![k.req].status = "rejected"]
                \in [RequestIds -> Request]
        BY <3>1 DEF TypeOK, Request
      <3>3. QED
        BY <2>5, <3>2, ReturnTypes DEF RecordRejection, TypeOK
    <2>6. CASE RemoveRequest(c)
      <3>1. k.req \in RequestIds
        BY <2>6 DEF RemoveRequest, CallLinks, CallLink
      <3>2. [UnusedRequest EXCEPT !.status = "deleted",
                                  !.target = requests[k.req].target] \in Request
        BY <3>1, RowTypes DEF UnusedRequest, Request
      <3>3. QED
        BY <2>6, <3>1, <3>2, ReturnTypes DEF RemoveRequest, TypeOK
    <2>7. CASE Abort(c)
      BY <2>7, ReturnTypes DEF Abort, TypeOK
    <2>8. QED
      BY <1>3, <2>1, <2>2, <2>3, <2>4, <2>5, <2>6, <2>7 DEF Step
  <1>4. CASE UNCHANGED vars
    BY <1>4 DEF vars, TypeOK
  <1>5. QED
    BY <1>1, <1>2, <1>3, <1>4 DEF Next

-----------------------------------------------------------------------------
(* The inductive invariant *)

IInv ==
    /\ TypeOK
    /\ PublishInv
    /\ UniqueModelNames
    /\ PublishedWhatWasReviewed
    /\ OnePendingPerModel

\* A step that touches no row keeps every conjunct about rows, and the locals
\* of a handler need only be checked for the handler that moved.
LEMMA LocalStep ==
    ASSUME IInv, UNCHANGED <<models, requests>>, NEW c \in Calls, NEW k,
           calls' = [calls EXCEPT ![c] = k], CallLink(k)
    PROVE  /\ PublishInv'
           /\ UniqueModelNames'
           /\ PublishedWhatWasReviewed'
           /\ OnePendingPerModel'
  <1> USE DEF IInv, PublishInv
  <1>1. ModelHistory' /\ RequestLinks'
    BY DEF ModelHistory, RequestLinks, ModelExists, RequestExists, PrivateSource
  <1>2. CallLinks'
    <2>1. ASSUME NEW d \in Calls PROVE CallLink(calls[d])'
      <3>1. CallLink(calls'[d])
        BY DEF CallLinks, TypeOK
      <3>2. QED
        BY <3>1 DEF CallLink, PrivateSource, RequestExists, ModelExists
    <2>2. QED
      BY <2>1 DEF CallLinks
  <1>3. UniqueModelNames' /\ PublishedWhatWasReviewed' /\ OnePendingPerModel'
    BY DEF UniqueModelNames, PublishedWhatWasReviewed, OnePendingPerModel,
           ModelExists
  <1>4. QED
    BY <1>1, <1>2, <1>3

\* A handler that returns without touching a row.
LEMMA ReturnStep ==
    ASSUME IInv, UNCHANGED <<models, requests>>, NEW c \in Calls, Return(c)
    PROVE  /\ PublishInv'
           /\ UniqueModelNames'
           /\ PublishedWhatWasReviewed'
           /\ OnePendingPerModel'
  <1>1. CallLink(IdleCall)
    BY DEF CallLink, IdleCall
  <1>2. QED
    BY <1>1, LocalStep DEF Return

\* The conjuncts of IInv about rows and locals, without the types.
Rest ==
    /\ PublishInv
    /\ UniqueModelNames
    /\ PublishedWhatWasReviewed
    /\ OnePendingPerModel

USE DEF Rest, IInv, PublishInv

\* A registered model takes an unused id and a free name.
LEMMA CreateModelStep ==
    ASSUME IInv, TypeOK', NEW u \in Users, NEW scope \in {"public", "private"},
           NEW ns \in Namespaces \cup {None}, NEW name \in Names, NEW uri \in URIs,
           CreateModel(u, scope, ns, name, uri)
    PROVE  Rest'
  <1>1. PICK m \in ModelIds :
            /\ models[m].scope = "unused"
            /\ models' = [models EXCEPT ![m] =
                            [scope |-> scope, ns |-> ns, name |-> name,
                             uri |-> uri, origin |-> None]]
    BY DEF CreateModel
  <1>2. UNCHANGED <<requests, calls>> /\ ~NameTaken(scope, ns, name)
    BY DEF CreateModel
  <1> USE DEF TypeOK, ModelExists, RequestExists
  <1>3. ModelHistory'
    BY <1>1, <1>2 DEF ModelHistory
  <1>4. RequestLinks'
    BY <1>1, <1>2 DEF RequestLinks, PrivateSource
  <1>5. ASSUME NEW c \in Calls PROVE CallLink(calls[c])'
    <2>1. CallLink(calls[c])
      BY DEF CallLinks
    <2>2. calls[c].at = "record" => calls[c].catalog # m
      BY <1>1, <2>1, PublishAssumption DEF CallLink, ModelHistory
    <2>3. calls[c].at = "create" => calls[c].model # m
      BY <1>1, <2>1 DEF CallLink, PrivateSource
    <2>4. QED
      BY <1>1, <1>2, <2>1, <2>2, <2>3 DEF CallLink, PrivateSource
  <1>6. UniqueModelNames'
    BY <1>1, <1>2 DEF UniqueModelNames, NameTaken
  <1>7. PublishedWhatWasReviewed'
    <2>1. ASSUME NEW r \in RequestIds, requests[r].catalog # None
          PROVE  requests[r].catalog \in ModelIds /\ requests[r].catalog # m
      BY <1>1, <2>1, PublishAssumption
         DEF PublishedWhatWasReviewed, ModelHistory, Request
    <2>2. QED
      BY <1>1, <1>2, <2>1 DEF PublishedWhatWasReviewed
  <1>8. OnePendingPerModel'
    BY <1>2 DEF OnePendingPerModel
  <1>9. QED
    BY <1>3, <1>4, <1>5, <1>6, <1>7, <1>8 DEF CallLinks

\* A removed model leaves its origin behind and nothing else.
LEMMA DeleteModelStep ==
    ASSUME IInv, TypeOK', NEW u \in Users, NEW m \in ModelIds, DeleteModel(u, m)
    PROVE  Rest'
  <1>1. models' = [models EXCEPT ![m] = [UnusedModel EXCEPT !.scope = "deleted",
                                                !.origin = models[m].origin]]
    BY DEF DeleteModel
  <1>2. UNCHANGED <<requests, calls>> /\ ModelExists(m)
    BY DEF DeleteModel
  <1> USE DEF TypeOK, ModelExists, RequestExists, UnusedModel
  <1>3. ModelHistory'
    BY <1>1, <1>2 DEF ModelHistory
  <1>4. RequestLinks'
    BY <1>1, <1>2 DEF RequestLinks, PrivateSource
  <1>5. ASSUME NEW c \in Calls PROVE CallLink(calls[c])'
    <2>1. CallLink(calls[c])
      BY DEF CallLinks
    <2>2. QED
      BY <1>1, <1>2, <2>1 DEF CallLink, PrivateSource
  <1>6. UniqueModelNames'
    BY <1>1, <1>2 DEF UniqueModelNames
  <1>7. PublishedWhatWasReviewed'
    BY <1>1, <1>2, PublishAssumption DEF PublishedWhatWasReviewed, Request
  <1>8. OnePendingPerModel'
    BY <1>2 DEF OnePendingPerModel
  <1>9. QED
    BY <1>3, <1>4, <1>5, <1>6, <1>7, <1>8 DEF CallLinks

\* A stored request takes an unused id; its model is still the one read.
LEMMA StoreRequestStep ==
    ASSUME IInv, TypeOK', NEW c \in Calls, StoreRequest(c)
    PROVE  Rest'
  <1> DEFINE k == calls[c]
  <1>1. CASE UNCHANGED requests
    BY <1>1, ReturnStep DEF StoreRequest
  <1>2. CASE ~DuplicatePending(k.model)
    <2>1. PICK r \in RequestIds :
            /\ requests[r].status = "unused"
            /\ requests' = [requests EXCEPT ![r] =
                    [UnusedRequest EXCEPT !.status = "pending",
                                          !.model = k.model, !.ns = k.ns,
                                          !.uri = k.uri, !.target = k.target,
                                          !.by = k.user]]
      BY <1>2, <1>1 DEF StoreRequest
    <2>2. /\ UNCHANGED models
          /\ calls' = [calls EXCEPT ![c] = IdleCall]
          /\ PrivateSource(k.model, k.uri)
      BY DEF StoreRequest, Return, CallLinks, CallLink
    <2> USE DEF TypeOK, ModelExists, RequestExists, UnusedRequest
    <2>3. ModelHistory'
      <3>1. ASSUME NEW m \in ModelIds, models[m].origin # None
            PROVE  models[m].origin \in RequestIds /\ models[m].origin # r
        BY <2>1, <3>1 DEF ModelHistory, Model
      <3>2. QED
        BY <2>1, <2>2, <3>1 DEF ModelHistory
    <2>4. RequestLinks'
      BY <2>1, <2>2 DEF RequestLinks, PrivateSource
    <2>5. ASSUME NEW d \in Calls PROVE CallLink(calls[d])'
      <3>1. CASE d = c
        BY <2>2, <3>1 DEF CallLink, IdleCall
      <3>2. CASE d # c
        <4>1. CallLink(calls[d]) /\ calls'[d] = calls[d]
          BY <2>2, <3>2 DEF CallLinks
        <4>2. calls[d].at \in {"fetch", "copy", "record"} => calls[d].req # r
          BY <2>1, <4>1 DEF CallLink
        <4>3. QED
          BY <2>1, <2>2, <4>1, <4>2 DEF CallLink, PrivateSource
      <3>3. QED
        BY <3>1, <3>2
    <2>6. UniqueModelNames'
      BY <2>2 DEF UniqueModelNames
    <2>7. PublishedWhatWasReviewed'
      BY <2>1, <2>2 DEF PublishedWhatWasReviewed
    <2>8. OnePendingPerModel'
      BY <1>2, <2>1, <2>2 DEF OnePendingPerModel, DuplicatePending
    <2>9. QED
      BY <2>3, <2>4, <2>5, <2>6, <2>7, <2>8 DEF CallLinks
  <1>3. QED
    BY <1>1, <1>2 DEF StoreRequest

\* The copy takes an unused id and a free public name.
LEMMA CopyStep ==
    ASSUME IInv, TypeOK', NEW c \in Calls, CopyToCatalog(c)
    PROVE  Rest'
  <1> DEFINE k == calls[c]
  <1>1. CASE UNCHANGED models /\ Return(c)
    BY <1>1, ReturnStep DEF CopyToCatalog
  <1>2. CASE IsPublicSource(k.uri) /\ ~NameTaken("public", None, k.target)
    <2>1. PICK m \in ModelIds :
            /\ models[m].scope = "unused"
            /\ models' = [models EXCEPT ![m] =
                    [scope |-> "public", ns |-> None, name |-> k.target,
                     uri |-> k.uri, origin |-> k.req]]
            /\ calls' = [calls EXCEPT ![c] = [@ EXCEPT !.at = "record",
                                                       !.catalog = m]]
      BY <1>2, <1>1 DEF CopyToCatalog
    <2>2. UNCHANGED requests /\ k.at = "copy" /\ k \in Call /\ CallLink(k)
      BY RowTypes DEF CopyToCatalog, CallLinks
    <2> USE DEF TypeOK, ModelExists, RequestExists
    <2>3. ModelHistory'
      BY <1>2, <2>1, <2>2 DEF ModelHistory, CallLink, IsPublicSource
    <2>4. RequestLinks'
      BY <2>1, <2>2 DEF RequestLinks, PrivateSource
    <2>5. ASSUME NEW d \in Calls PROVE CallLink(calls[d])'
      <3>1. CASE d = c
        <4>1. calls'[d] = [k EXCEPT !.at = "record", !.catalog = m]
          BY <2>1, <3>1
        <4>2. /\ calls'[d].at = "record" /\ calls'[d].catalog = m
              /\ calls'[d].req = k.req /\ calls'[d].target = k.target
              /\ calls'[d].model = k.model /\ calls'[d].uri = k.uri
          BY <2>2, <4>1 DEF Call
        <4>3. QED
          BY <2>1, <2>2, <4>2 DEF CallLink
      <3>2. CASE d # c
        <4>1. CallLink(calls[d]) /\ calls'[d] = calls[d]
          BY <2>1, <3>2 DEF CallLinks
        <4>2. calls[d].at = "record" => calls[d].catalog # m
          BY <2>1, <4>1, PublishAssumption DEF CallLink, ModelHistory
        <4>3. calls[d].at = "create" => calls[d].model # m
          BY <2>1, <4>1 DEF CallLink, PrivateSource
        <4>4. QED
          BY <2>1, <2>2, <4>1, <4>2, <4>3 DEF CallLink, PrivateSource
      <3>3. QED
        BY <3>1, <3>2
    <2>6. UniqueModelNames'
      BY <1>2, <2>1 DEF UniqueModelNames, NameTaken
    <2>7. PublishedWhatWasReviewed'
      <3>1. ASSUME NEW r \in RequestIds, requests[r].catalog # None
            PROVE  requests[r].catalog \in ModelIds /\ requests[r].catalog # m
        BY <2>1, <3>1, PublishAssumption
           DEF PublishedWhatWasReviewed, ModelHistory, Request
      <3>2. QED
        BY <2>1, <2>2, <3>1 DEF PublishedWhatWasReviewed
    <2>8. OnePendingPerModel'
      BY <2>2 DEF OnePendingPerModel
    <2>9. QED
      BY <2>3, <2>4, <2>5, <2>6, <2>7, <2>8 DEF CallLinks
  <1>3. QED
    BY <1>1, <1>2 DEF CopyToCatalog

\* A handler that ends by rewriting the row of request r, keeping what the
\* other handlers and the copies rely on: its target, and its model and URI
\* unless the row goes away.
LEMMA RewriteStep ==
    ASSUME IInv, TypeOK', NEW c \in Calls, NEW r \in RequestIds, NEW q,
           UNCHANGED models, Return(c),
           requests' = [requests EXCEPT ![r] = q],
           q.status \in {"approved", "rejected", "deleted"},
           RequestExists(r),
           q.target = requests[r].target,
           q.status # "deleted" => /\ q.model = requests[r].model
                                   /\ q.uri = requests[r].uri,
           q.status = "approved" => q.catalog # None,
           q.catalog # None =>
                /\ models[q.catalog].origin = r
                /\ ModelExists(q.catalog) => /\ models[q.catalog].name = q.target
                                             /\ models[q.catalog].uri = q.uri
    PROVE  Rest'
  <1> USE DEF TypeOK, ModelExists, RequestExists
  <1>1. ModelHistory'
    BY RowTypes DEF ModelHistory
  <1>2. RequestLinks'
    BY DEF RequestLinks, PrivateSource
  <1>3. ASSUME NEW d \in Calls PROVE CallLink(calls[d])'
    <2>1. CASE d = c
      BY <2>1 DEF Return, CallLink, IdleCall
    <2>2. CASE d # c
      <3>1. CallLink(calls[d]) /\ calls'[d] = calls[d]
        BY <2>2 DEF Return, CallLinks
      <3>2. QED
        BY <3>1 DEF CallLink, PrivateSource
    <2>3. QED
      BY <2>1, <2>2
  <1>4. UniqueModelNames'
    BY DEF UniqueModelNames
  <1>5. PublishedWhatWasReviewed'
    BY DEF PublishedWhatWasReviewed
  <1>6. OnePendingPerModel'
    BY DEF OnePendingPerModel
  <1>7. QED
    BY <1>1, <1>2, <1>3, <1>4, <1>5, <1>6 DEF CallLinks

\* The mutator of Approve: the catalog id it records is the copy it made.
LEMMA RecordApprovalStep ==
    ASSUME IInv, TypeOK', NEW c \in Calls, RecordApproval(c)
    PROVE  Rest'
  <1> DEFINE k == calls[c]
             r == k.req
             q == [requests[r] EXCEPT !.status = "approved", !.catalog = k.catalog]
  <1>1. CallLink(k) /\ r \in RequestIds /\ UNCHANGED models /\ Return(c)
    BY DEF RecordApproval, CallLinks, CallLink
  <1>2. CASE UNCHANGED requests
    BY <1>1, <1>2, ReturnStep
  <1>3. CASE RequestExists(r)
    <2>1. requests' = [requests EXCEPT ![r] = q]
      BY <1>3 DEF RecordApproval
    <2>2. /\ q.status = "approved" /\ q.catalog = k.catalog
          /\ q.target = requests[r].target
          /\ q.model = requests[r].model
          /\ q.uri = requests[r].uri
      BY <1>1, RowTypes DEF Request
    <2>3. /\ k.catalog \in ModelIds /\ models[k.catalog].origin = r
          /\ ModelExists(k.catalog) => /\ models[k.catalog].name = q.target
                                       /\ models[k.catalog].uri = q.uri
      BY <1>1, <1>3, <2>2 DEF RecordApproval, CallLink
    <2> HIDE DEF q
    <2>4. QED
      BY <1>1, <1>3, <2>1, <2>2, <2>3, RewriteStep, PublishAssumption
  <1>4. QED
    BY <1>2, <1>3 DEF RecordApproval

\* The mutator of Reject leaves the catalog id alone.
LEMMA RecordRejectionStep ==
    ASSUME IInv, TypeOK', NEW c \in Calls, RecordRejection(c)
    PROVE  Rest'
  <1> DEFINE r == calls[c].req
             q == [requests[r] EXCEPT !.status = "rejected"]
  <1>1. r \in RequestIds /\ UNCHANGED models /\ Return(c)
    BY DEF RecordRejection, CallLinks, CallLink
  <1>2. CASE UNCHANGED requests
    BY <1>1, <1>2, ReturnStep
  <1>3. CASE RequestExists(r)
    <2>1. requests' = [requests EXCEPT ![r] = q]
      BY <1>3, RowTypes, <1>1 DEF RecordRejection, Request
    <2>2. /\ q.status = "rejected" /\ q.catalog = requests[r].catalog
          /\ q.target = requests[r].target
          /\ q.model = requests[r].model
          /\ q.uri = requests[r].uri
      BY <1>1, RowTypes DEF Request
    <2>3. q.catalog # None =>
            /\ models[q.catalog].origin = r
            /\ ModelExists(q.catalog) => /\ models[q.catalog].name = q.target
                                         /\ models[q.catalog].uri = q.uri
      BY <1>1, <2>2 DEF PublishedWhatWasReviewed
    <2> HIDE DEF q
    <2>4. QED
      BY <1>1, <1>3, <2>1, <2>2, <2>3, RewriteStep
  <1>4. QED
    BY <1>2, <1>3 DEF RecordRejection

\* A removed request leaves its target behind.
LEMMA RemoveRequestStep ==
    ASSUME IInv, TypeOK', NEW c \in Calls, RemoveRequest(c)
    PROVE  Rest'
  <1> DEFINE r == calls[c].req
             q == [UnusedRequest EXCEPT !.status = "deleted",
                                        !.target = requests[r].target]
  <1>1. r \in RequestIds /\ UNCHANGED models /\ Return(c)
    BY DEF RemoveRequest, CallLinks, CallLink
  <1>2. CASE UNCHANGED requests
    BY <1>1, <1>2, ReturnStep
  <1>3. CASE RequestExists(r)
    <2>1. requests' = [requests EXCEPT ![r] = q]
      BY <1>3 DEF RemoveRequest
    <2>2. /\ q.status = "deleted" /\ q.catalog = None
          /\ q.target = requests[r].target
      BY DEF UnusedRequest
    <2> HIDE DEF q
    <2>3. QED
      BY <1>1, <1>3, <2>1, <2>2, RewriteStep
  <1>4. QED
    BY <1>2, <1>3 DEF RemoveRequest

\* Every step keeps the inductive invariant.
LEMMA InvStep == IInv /\ [Next]_vars => IInv'
  <1> SUFFICES ASSUME IInv, [Next]_vars PROVE IInv'
    OBVIOUS
  <1>1. TypeOK'
    BY TypeStep
  <1>2. ASSUME NEW u \in Users, HubStep(u) PROVE Rest'
    BY <1>1, <1>2, CreateModelStep, DeleteModelStep DEF HubStep
  <1>3. ASSUME NEW c \in Calls, NEW u \in Users, CallStep(c, u) PROVE Rest'
    <2>1. ASSUME NEW m \in ModelIds, NEW target \in Names,
                 BeginCreate(c, u, m, target)
          PROVE  Rest'
      <3> DEFINE k == [IdleCall EXCEPT !.at = "create", !.user = u, !.model = m,
                                       !.ns = models[m].ns, !.uri = models[m].uri,
                                       !.target = target]
      <3>1. CallLink(k)
        BY <2>1 DEF BeginCreate, CallLink, IdleCall, PrivateSource
      <3> HIDE DEF k
      <3>2. calls' = [calls EXCEPT ![c] = k] /\ UNCHANGED <<models, requests>>
        BY <2>1 DEF BeginCreate, k
      <3>3. QED
        BY <3>1, <3>2, LocalStep
    <2>2. ASSUME NEW r \in RequestIds, BeginApprove(c, u, r) PROVE Rest'
      <3> DEFINE k == [IdleCall EXCEPT !.at = "fetch", !.user = u, !.req = r,
                                       !.model = requests[r].model,
                                       !.target = requests[r].target]
      <3>1. requests[r].status = "pending" /\ requests[r].model \in ModelIds
        BY <2>2 DEF BeginApprove, MayReview, RequestLinks, RequestExists,
                    PrivateSource
      <3>2. CallLink(k)
        BY <3>1 DEF CallLink, IdleCall
      <3> HIDE DEF k
      <3>3. calls' = [calls EXCEPT ![c] = k] /\ UNCHANGED <<models, requests>>
        BY <2>2 DEF BeginApprove, k
      <3>4. QED
        BY <3>2, <3>3, LocalStep
    <2>3. ASSUME NEW r \in RequestIds, BeginReject(c, u, r) PROVE Rest'
      <3> DEFINE k == [IdleCall EXCEPT !.at = "reject", !.user = u, !.req = r]
      <3>1. CallLink(k)
        BY DEF CallLink, IdleCall
      <3> HIDE DEF k
      <3>2. calls' = [calls EXCEPT ![c] = k] /\ UNCHANGED <<models, requests>>
        BY <2>3 DEF BeginReject, k
      <3>3. QED
        BY <3>1, <3>2, LocalStep
    <2>4. ASSUME NEW r \in RequestIds, BeginDelete(c, u, r) PROVE Rest'
      <3> DEFINE k == [IdleCall EXCEPT !.at = "delete", !.user = u, !.req = r]
      <3>1. CallLink(k)
        BY DEF CallLink, IdleCall
      <3> HIDE DEF k
      <3>2. calls' = [calls EXCEPT ![c] = k] /\ UNCHANGED <<models, requests>>
        BY <2>4 DEF BeginDelete, k
      <3>3. QED
        BY <3>1, <3>2, LocalStep
    <2>5. QED
      BY <1>3, <2>1, <2>2, <2>3, <2>4 DEF CallStep
  <1>4. ASSUME NEW c \in Calls, Step(c) PROVE Rest'
    <2>1. CASE FetchPrivate(c)
      <3> DEFINE m == calls[c].model
                 k == [calls[c] EXCEPT !.at = "copy", !.ns = models[m].ns,
                                       !.uri = models[m].uri]
      <3>1. /\ calls[c].at = "fetch" /\ CallLink(calls[c])
            /\ UNCHANGED <<models, requests>>
        BY <2>1 DEF FetchPrivate, CallLinks
      <3>2. CASE Return(c)
        BY <3>1, <3>2, ReturnStep
      <3>3. CASE models[m].scope = "private"
        <4>1. /\ k.at = "copy" /\ k.req = calls[c].req
              /\ k.model = calls[c].model /\ k.target = calls[c].target
              /\ k.uri = models[m].uri
          BY RowTypes DEF Call
        <4>2. RequestExists(k.req) => requests[k.req].uri = k.uri
          BY <3>1, <3>3, <4>1 DEF CallLink, RequestLinks, PrivateSource
        <4>3. CallLink(k)
          BY <3>1, <4>1, <4>2 DEF CallLink
        <4> HIDE DEF k
        <4>4. calls' = [calls EXCEPT ![c] = k]
          BY <2>1, <3>3 DEF FetchPrivate, k
        <4>5. QED
          BY <3>1, <4>3, <4>4, LocalStep
      <3>4. QED
        BY <2>1, <3>2, <3>3 DEF FetchPrivate
    <2>2. CASE Abort(c)
      BY <2>2, ReturnStep DEF Abort
    <2>3. QED
      BY <1>1, <1>4, <2>1, <2>2, StoreRequestStep, CopyStep, RecordApprovalStep,
         RecordRejectionStep, RemoveRequestStep DEF Step
  <1>5. CASE UNCHANGED vars
    BY <1>5 DEF vars, TypeOK, ModelHistory, RequestLinks, CallLinks, CallLink,
       UniqueModelNames, PublishedWhatWasReviewed, OnePendingPerModel,
       ModelExists, RequestExists, PrivateSource
  <1>6. QED
    BY <1>1, <1>2, <1>3, <1>4, <1>5 DEF Next

\* The inductive invariant holds initially.
LEMMA InvInit == Init => IInv
  <1> SUFFICES ASSUME Init PROVE IInv
    OBVIOUS
  <1> USE DEF Init, UnusedModel, UnusedRequest, IdleCall
  <1>1. TypeOK
    BY DEF TypeOK, Model, Request, Call
  <1>2. PublishInv
    BY DEF ModelHistory, RequestLinks, RequestExists, CallLinks, CallLink
  <1>3. UniqueModelNames /\ PublishedWhatWasReviewed /\ OnePendingPerModel
    BY DEF UniqueModelNames, ModelExists, PublishedWhatWasReviewed,
           OnePendingPerModel
  <1>4. QED
    BY <1>1, <1>2, <1>3

\* The inductive invariant is an invariant.
LEMMA Inductive == Spec => []IInv
  BY InvInit, InvStep, PTL DEF Spec

-----------------------------------------------------------------------------
(* The theorems *)

\* Stores and handlers keep their types.
THEOREM TypeCorrect == Spec => []TypeOK
  <1>1. IInv => TypeOK
    OBVIOUS
  <1>2. QED
    BY <1>1, Inductive, PTL

\* The stores never hold two live models under one scope, namespace and name.
THEOREM NamesStayUnique == Spec => []UniqueModelNames
  <1>1. IInv => UniqueModelNames
    OBVIOUS
  <1>2. QED
    BY <1>1, Inductive, PTL

\* Any number of racing approvals leaves one live catalog copy of a request:
\* both copies would be public, without namespace, under its target name.
THEOREM OneCopyPerRequest == Spec => []AtMostOnePublishedCopy
  <1>1. IInv => AtMostOnePublishedCopy
    BY DEF AtMostOnePublishedCopy, ModelHistory, UniqueModelNames
  <1>2. QED
    BY <1>1, Inductive, PTL

\* The catalog entry an approval records carries the name and URI of the
\* request, whatever happened to the private model since it was opened.
THEOREM ApprovalIsFaithful == Spec => []PublishedWhatWasReviewed
  <1>1. IInv => PublishedWhatWasReviewed
    OBVIOUS
  <1>2. QED
    BY <1>1, Inductive, PTL

\* Publication never puts a URI that needs credentials into the catalog.
THEOREM CatalogStaysPublic == Spec => []PublishedIsPublic
  <1>1. IInv => PublishedIsPublic
    BY DEF PublishedIsPublic, ModelHistory
  <1>2. QED
    BY <1>1, Inductive, PTL

\* Rows and the locals of the handlers that read them stay in agreement, which
\* is why an approval publishes what was requested.
THEOREM RowsAndHandlersAgree == Spec => []PublishInv
  <1>1. IInv => PublishInv
    OBVIOUS
  <1>2. QED
    BY <1>1, Inductive, PTL

\* The memory store never holds two pending requests for one private model.
THEOREM OnePending == Spec => []OnePendingPerModel
  <1>1. IInv => OnePendingPerModel
    OBVIOUS
  <1>2. QED
    BY <1>1, Inductive, PTL


-----------------------------------------------------------------------------
(* The refinement of PublishReview *)

\* Memory stores, whose handlers do not end half-way, and no two handlers at
\* once.
OneAtATime == ~Postgres /\ \A c, d \in Calls : c = d

\* The request a handler is about to decide is still pending, and a pending
\* request has no copy in the catalog but the one about to be recorded.
SerialInv ==
    /\ \A c \in Calls :
        /\ calls[c].at \in {"fetch", "copy", "record", "reject"} =>
              requests[calls[c].req].status = "pending"
        /\ calls[c].at = "delete" => RequestExists(calls[c].req)
    /\ \A r \in RequestIds :
        requests[r].status \in {"unused", "pending"} => r \notin PublishedRequests

LEMMA SerialInit == Init => SerialInv
  BY PublishAssumption DEF Init, SerialInv, UnusedModel, UnusedRequest, IdleCall, PublishedRequests, RequestExists

HIDE DEF Rest, IInv, PublishInv

\* With one handler c, what is not yet recorded is c's request.
LEMMA OneUnrecorded ==
    ASSUME OneAtATime, NEW c \in Calls
    PROVE  Unrecorded = IF calls[c].at = "record" THEN {calls[c].req} ELSE {}
  BY DEF OneAtATime, Unrecorded

\* The same one step later.
LEMMA OneUnrecordedNext ==
    ASSUME OneAtATime, NEW c \in Calls
    PROVE  Unrecorded' = IF calls'[c].at = "record" THEN {calls'[c].req} ELSE {}
  BY DEF OneAtATime, Unrecorded

statuses == [r \in RequestIds |-> requests[r].status]

\* A row that is rewritten shows in the status of its request alone.
LEMMA StatusStep ==
    ASSUME TypeOK, NEW r \in RequestIds, NEW q, requests' = [requests EXCEPT ![r] = q]
    PROVE  statuses' = [statuses EXCEPT ![r] = q.status]
  BY DEF TypeOK, statuses

\* A step that touches no row, and no handler that is about to record.
LEMMA QuietStep ==
    ASSUME OneAtATime, IInv, SerialInv, UNCHANGED <<models, requests>>,
           NEW c \in Calls, calls[c].at # "record",
           NEW k, calls' = [calls EXCEPT ![c] = k], k.at # "record",
           k.at \in {"fetch", "copy", "reject"} => requests[k.req].status = "pending",
           k.at = "delete" => RequestExists(k.req)
    PROVE  SerialInv' /\ UNCHANGED <<statuses, PublishedRequests>>
  <1>1. Unrecorded = {} /\ Unrecorded' = {}
    BY OneUnrecorded, OneUnrecordedNext DEF IInv, TypeOK
  <1>2. UNCHANGED <<statuses, PublishedRequests>>
    BY <1>1 DEF statuses, PublishedRequests
  <1>3. ASSUME NEW d \in Calls
        PROVE  /\ calls'[d].at \in {"fetch", "copy", "record", "reject"} =>
                    requests'[calls'[d].req].status = "pending"
               /\ calls'[d].at = "delete" => RequestExists(calls[d].req)'
    <2>1. calls'[d] = k
      BY DEF OneAtATime, IInv, TypeOK
    <2>2. calls[d]' = k /\ requests' = requests
      BY <2>1
    <2> QED BY <2>2 DEF RequestExists
  <1> QED BY <1>2, <1>3 DEF SerialInv

LEMMA QuietReturn ==
    ASSUME OneAtATime, IInv, SerialInv, UNCHANGED <<models, requests>>,
           NEW c \in Calls, calls[c].at # "record", Return(c)
    PROVE  SerialInv' /\ UNCHANGED <<statuses, PublishedRequests>>
  <1>1. IdleCall.at = "idle"
    BY DEF IdleCall
  <1> QED BY <1>1, QuietStep DEF Return

\* The hub neither mints a copy nor touches a request or a handler.
LEMMA HubSerial ==
    ASSUME IInv, SerialInv, NEW u \in Users, HubStep(u)
    PROVE  SerialInv' /\ UNCHANGED <<statuses, PublishedRequests>>
  <1>1. UNCHANGED <<requests, calls>>
    BY DEF HubStep, CreateModel, DeleteModel
  <1>2. \A m \in ModelIds : models'[m].origin = models[m].origin
    <2>1. ASSUME NEW scope \in {"public", "private"}, NEW ns \in Namespaces \cup {None},
                 NEW name \in Names, NEW uri \in URIs, CreateModel(u, scope, ns, name, uri)
          PROVE  \A m \in ModelIds : models'[m].origin = models[m].origin
      BY <2>1 DEF CreateModel, IInv, TypeOK, PublishInv, ModelHistory
    <2>2. ASSUME NEW m \in ModelIds, DeleteModel(u, m)
          PROVE  \A n \in ModelIds : models'[n].origin = models[n].origin
      BY <2>2 DEF DeleteModel, IInv, TypeOK, UnusedModel
    <2> QED BY <2>1, <2>2 DEF HubStep
  <1>3. UNCHANGED <<statuses, PublishedRequests>>
    BY <1>1, <1>2 DEF statuses, PublishedRequests, Unrecorded
  <1> QED BY <1>1, <1>3 DEF SerialInv, RequestExists

\* A handler that begins has made the check its last step relies on.
LEMMA BeginSerial ==
    ASSUME OneAtATime, IInv, SerialInv, NEW c \in Calls, NEW u \in Users, CallStep(c, u)
    PROVE  SerialInv' /\ UNCHANGED <<statuses, PublishedRequests>>
  <1>1. ASSUME NEW m \in ModelIds, NEW target \in Names, BeginCreate(c, u, m, target)
        PROVE  SerialInv' /\ UNCHANGED <<statuses, PublishedRequests>>
    <2> DEFINE k == [IdleCall EXCEPT !.at = "create", !.user = u, !.model = m,
                                     !.ns = models[m].ns, !.uri = models[m].uri,
                                     !.target = target]
    <2>1. k.at = "create"
      BY DEF IdleCall
    <2>2. /\ calls[c].at = "idle" /\ UNCHANGED <<models, requests>>
          /\ calls' = [calls EXCEPT ![c] = k]
      BY <1>1 DEF BeginCreate
    <2> HIDE DEF k
    <2> QED BY <2>1, <2>2, QuietStep
  <1>2. ASSUME NEW r \in RequestIds, BeginApprove(c, u, r)
        PROVE  SerialInv' /\ UNCHANGED <<statuses, PublishedRequests>>
    <2> DEFINE k == [IdleCall EXCEPT !.at = "fetch", !.user = u, !.req = r,
                                     !.model = requests[r].model,
                                     !.target = requests[r].target]
    <2>1. k.at = "fetch" /\ k.req = r
      BY DEF IdleCall
    <2>2. /\ calls[c].at = "idle" /\ UNCHANGED <<models, requests>>
          /\ calls' = [calls EXCEPT ![c] = k] /\ requests[r].status = "pending"
      BY <1>2 DEF BeginApprove, MayReview
    <2> HIDE DEF k
    <2> QED BY <2>1, <2>2, QuietStep
  <1>3. ASSUME NEW r \in RequestIds, BeginReject(c, u, r)
        PROVE  SerialInv' /\ UNCHANGED <<statuses, PublishedRequests>>
    <2> DEFINE k == [IdleCall EXCEPT !.at = "reject", !.user = u, !.req = r]
    <2>1. k.at = "reject" /\ k.req = r
      BY DEF IdleCall
    <2>2. /\ calls[c].at = "idle" /\ UNCHANGED <<models, requests>>
          /\ calls' = [calls EXCEPT ![c] = k] /\ requests[r].status = "pending"
      BY <1>3 DEF BeginReject, MayReview
    <2> HIDE DEF k
    <2> QED BY <2>1, <2>2, QuietStep
  <1>4. ASSUME NEW r \in RequestIds, BeginDelete(c, u, r)
        PROVE  SerialInv' /\ UNCHANGED <<statuses, PublishedRequests>>
    <2> DEFINE k == [IdleCall EXCEPT !.at = "delete", !.user = u, !.req = r]
    <2>1. k.at = "delete" /\ k.req = r
      BY DEF IdleCall
    <2>2. /\ calls[c].at = "idle" /\ UNCHANGED <<models, requests>>
          /\ calls' = [calls EXCEPT ![c] = k] /\ RequestExists(r)
      BY <1>4 DEF BeginDelete
    <2> HIDE DEF k
    <2> QED BY <2>1, <2>2, QuietStep
  <1> QED BY <1>1, <1>2, <1>3, <1>4 DEF CallStep

\* A handler that ends by rewriting the row of request r, as one step of the
\* review: what it was about to record is published by it.
LEMMA RewriteSerial ==
    ASSUME OneAtATime, IInv, SerialInv, NEW c \in Calls, NEW r \in RequestIds, NEW q,
           UNCHANGED models, Return(c), requests' = [requests EXCEPT ![r] = q],
           calls[c].at = "record" => calls[c].req = r,
           q.status \in {"unused", "pending"} => r \notin PublishedRequests
                                                 /\ calls[c].at # "record"
    PROVE  /\ SerialInv'
           /\ statuses' = [statuses EXCEPT ![r] = q.status]
           /\ calls[c].at = "record" => PublishedRequests' = PublishedRequests \cup {r}
           /\ calls[c].at # "record" => PublishedRequests' = PublishedRequests
  <1>1. statuses' = [statuses EXCEPT ![r] = q.status]
    BY StatusStep DEF IInv
  <1>2. \A d \in Calls : calls'[d] = IdleCall
    BY DEF Return, OneAtATime, IInv, TypeOK
  <1>3. Unrecorded' = {}
    BY <1>2, OneUnrecordedNext DEF IdleCall
  <1>4. Unrecorded = IF calls[c].at = "record" THEN {r} ELSE {}
    BY OneUnrecorded
  <1>5. calls[c].at = "record" => \E m \in ModelIds : models[m].origin = r
    BY DEF IInv, PublishInv, CallLinks, CallLink
  <1>6. PublishedRequests' = IF calls[c].at = "record" THEN PublishedRequests \cup {r}
                             ELSE PublishedRequests
    BY <1>3, <1>4, <1>5 DEF PublishedRequests
  <1>7. ASSUME NEW s \in RequestIds, requests'[s].status \in {"unused", "pending"}
        PROVE  s \notin PublishedRequests'
    <2>1. CASE s = r
      BY <1>6, <1>7, <2>1 DEF IInv, TypeOK
    <2>2. CASE s # r
      BY <1>6, <1>7, <2>2 DEF IInv, TypeOK, SerialInv
    <2> QED BY <2>1, <2>2
  <1>8. SerialInv'
    BY <1>2, <1>7 DEF SerialInv, IdleCall
  <1> QED BY <1>1, <1>6, <1>8

\* What a step of the review is, seen from the requests.
ReviewStep ==
    \/ UNCHANGED <<statuses, PublishedRequests>>
    \/ \E r \in RequestIds :
        \/ /\ statuses[r] = "unused"
           /\ statuses' = [statuses EXCEPT ![r] = "pending"]
           /\ UNCHANGED PublishedRequests
        \/ /\ statuses[r] = "pending"
           /\ statuses' = [statuses EXCEPT ![r] = "approved"]
           /\ PublishedRequests' = PublishedRequests \cup {r}
        \/ /\ statuses[r] = "pending"
           /\ statuses' = [statuses EXCEPT ![r] = "rejected"]
           /\ UNCHANGED PublishedRequests
        \/ /\ statuses[r] \in {"pending", "approved", "rejected"}
           /\ statuses' = [statuses EXCEPT ![r] = "deleted"]
           /\ UNCHANGED PublishedRequests

\* The copy waits for its approval to be recorded.
LEMMA CopySerial ==
    ASSUME OneAtATime, IInv, SerialInv, NEW c \in Calls, CopyToCatalog(c)
    PROVE  SerialInv' /\ UNCHANGED <<statuses, PublishedRequests>>
  <1> DEFINE k == calls[c]
  <1>1. k.at = "copy" /\ UNCHANGED requests /\ k \in Call
    BY RowTypes DEF CopyToCatalog, IInv
  <1>2. CASE UNCHANGED models /\ Return(c)
    BY <1>1, <1>2, QuietReturn
  <1>3. ASSUME NEW m \in ModelIds, models[m].scope = "unused",
               models' = [models EXCEPT ![m] = [scope |-> "public", ns |-> None,
                             name |-> k.target, uri |-> k.uri, origin |-> k.req]],
               calls' = [calls EXCEPT ![c] = [@ EXCEPT !.at = "record", !.catalog = m]]
        PROVE  SerialInv' /\ UNCHANGED <<statuses, PublishedRequests>>
    <2>1. /\ requests[k.req].status = "pending" /\ k.req \in RequestIds
          /\ k.req \notin PublishedRequests
      BY <1>1 DEF SerialInv, IInv, PublishInv, CallLinks, CallLink
    <2>2. /\ calls'[c].at = "record" /\ calls'[c].req = k.req
      BY <1>1, <1>3 DEF IInv, TypeOK, Call
    <2>3. Unrecorded = {} /\ Unrecorded' = {k.req}
      BY <1>1, <2>2, OneUnrecorded, OneUnrecordedNext
    <2>4. /\ models[m].origin = None
          /\ \A n \in ModelIds : models'[n].origin = IF n = m THEN k.req ELSE models[n].origin
      BY <1>3 DEF IInv, TypeOK, PublishInv, ModelHistory
    <2>5. PublishedRequests' = PublishedRequests
      <3>1. \A r \in RequestIds : r # None
        BY PublishAssumption
      <3>2. \A r \in RequestIds : r # k.req =>
                ((\E n \in ModelIds : models'[n].origin = r)
                    <=> (\E n \in ModelIds : models[n].origin = r))
        BY <2>4, <3>1
      <3> QED BY <2>1, <2>3, <3>2 DEF PublishedRequests
    <2>6. UNCHANGED statuses
      BY <1>1 DEF statuses
    <2>7. \A d \in Calls : d = c
      BY DEF OneAtATime
    <2>8. SerialInv'
      BY <1>1, <2>1, <2>2, <2>5, <2>7 DEF SerialInv
    <2> QED BY <2>5, <2>6, <2>8
  <1> QED BY <1>2, <1>3 DEF CopyToCatalog

\* Each step of a handler leaves the review alone or is a step of it.
LEMMA HandlerSerial ==
    ASSUME OneAtATime, IInv, SerialInv, NEW c \in Calls, Step(c)
    PROVE  SerialInv' /\ ReviewStep
  <1> DEFINE k == calls[c]
             r == k.req
  <1>1. CASE StoreRequest(c)
    <2>1. k.at = "create" /\ Return(c) /\ UNCHANGED models
      BY <1>1 DEF StoreRequest
    <2>2. CASE UNCHANGED requests
      BY <2>1, <2>2, QuietReturn DEF ReviewStep
    <2>3. ASSUME NEW s \in RequestIds, NEW q, requests[s].status = "unused",
                 q.status = "pending", requests' = [requests EXCEPT ![s] = q]
          PROVE  SerialInv' /\ ReviewStep
      <3>1. s \notin PublishedRequests
        BY <2>3 DEF SerialInv
      <3>2. calls[c].at # "record"
        BY <2>1
      <3>3. /\ SerialInv' /\ statuses' = [statuses EXCEPT ![s] = q.status]
            /\ calls[c].at # "record" => PublishedRequests' = PublishedRequests
        BY <2>1, <2>3, <3>1, <3>2, RewriteSerial
      <3>4. statuses[s] = "unused"
        BY <2>3 DEF statuses
      <3> QED BY <2>3, <3>2, <3>3, <3>4 DEF ReviewStep
    <2>4. CASE ~UNCHANGED requests
      <3> DEFINE q == [UnusedRequest EXCEPT !.status = "pending", !.model = k.model,
                             !.ns = k.ns, !.uri = k.uri, !.target = k.target, !.by = k.user]
      <3>1. q.status = "pending"
        BY DEF UnusedRequest
      <3>2. PICK s \in RequestIds : /\ requests[s].status = "unused"
                                    /\ requests' = [requests EXCEPT ![s] = q]
        BY <1>1, <2>4 DEF StoreRequest
      <3> HIDE DEF q
      <3> QED BY <2>3, <3>1, <3>2
    <2> QED BY <2>2, <2>4
  <1>2. CASE FetchPrivate(c)
    <2>1. /\ k.at = "fetch" /\ UNCHANGED <<models, requests>> /\ k \in Call
          /\ requests[r].status = "pending"
      BY <1>2, RowTypes DEF FetchPrivate, IInv, SerialInv
    <2>2. CASE Return(c)
      BY <2>1, <2>2, QuietReturn DEF ReviewStep
    <2>3. CASE ~Return(c)
      <3> DEFINE m == k.model
                 n == [k EXCEPT !.at = "copy", !.ns = models[m].ns, !.uri = models[m].uri]
      <3>1. n.at = "copy" /\ n.req = r
        BY <2>1 DEF Call
      <3>2. calls' = [calls EXCEPT ![c] = n]
        BY <1>2, <2>3 DEF FetchPrivate
      <3> HIDE DEF n
      <3> QED BY <2>1, <3>1, <3>2, QuietStep DEF ReviewStep
    <2> QED BY <2>2, <2>3
  <1>3. CASE CopyToCatalog(c)
    BY <1>3, CopySerial DEF ReviewStep
  <1>4. CASE RecordApproval(c)
    <2> DEFINE q == [requests[r] EXCEPT !.status = "approved", !.catalog = k.catalog]
    <2>1. k.at = "record" /\ Return(c) /\ UNCHANGED models /\ r \in RequestIds
      BY <1>4 DEF RecordApproval, IInv, PublishInv, CallLinks, CallLink
    <2>2. requests[r].status = "pending" /\ RequestExists(r)
      BY <2>1 DEF SerialInv, RequestExists
    <2>3. requests' = [requests EXCEPT ![r] = q] /\ q.status = "approved"
      BY <1>4, <2>1, <2>2, RowTypes DEF RecordApproval, IInv, Request
    <2> HIDE DEF q
    <2>4. /\ SerialInv' /\ statuses' = [statuses EXCEPT ![r] = "approved"]
          /\ PublishedRequests' = PublishedRequests \cup {r}
      <3>1. /\ calls[c].at = "record" => calls[c].req = r
            /\ q.status \in {"unused", "pending"} => r \notin PublishedRequests
                                                 /\ calls[c].at # "record"
        BY <2>3
      <3>2. calls[c].at = "record"
        BY <2>1
      <3> HIDE DEF r, k
      <3>3. /\ SerialInv' /\ statuses' = [statuses EXCEPT ![r] = q.status]
            /\ calls[c].at = "record" => PublishedRequests' = PublishedRequests \cup {r}
        BY <2>1, <2>3, <3>1, RewriteSerial
      <3> QED BY <2>3, <3>2, <3>3
    <2>5. statuses[r] = "pending"
      BY <2>1, <2>2 DEF statuses
    <2> QED BY <2>1, <2>4, <2>5 DEF ReviewStep
  <1>5. CASE RecordRejection(c)
    <2> DEFINE q == [requests[r] EXCEPT !.status = "rejected"]
    <2>1. k.at = "reject" /\ Return(c) /\ UNCHANGED models /\ r \in RequestIds
      BY <1>5 DEF RecordRejection, IInv, PublishInv, CallLinks, CallLink
    <2>2. requests[r].status = "pending" /\ RequestExists(r)
      BY <2>1 DEF SerialInv, RequestExists
    <2>3. requests' = [requests EXCEPT ![r] = q] /\ q.status = "rejected"
      BY <1>5, <2>1, <2>2, RowTypes DEF RecordRejection, IInv, Request
    <2> HIDE DEF q
    <2>4. /\ SerialInv' /\ statuses' = [statuses EXCEPT ![r] = "rejected"]
          /\ PublishedRequests' = PublishedRequests
      <3>1. /\ calls[c].at # "record"
            /\ q.status \notin {"unused", "pending"}
        BY <2>1, <2>3
      <3> HIDE DEF r, k
      <3>2. /\ SerialInv' /\ statuses' = [statuses EXCEPT ![r] = q.status]
            /\ calls[c].at # "record" => PublishedRequests' = PublishedRequests
        BY <2>1, <2>3, <3>1, RewriteSerial
      <3> QED BY <2>3, <3>1, <3>2
    <2>5. statuses[r] = "pending"
      BY <2>1, <2>2 DEF statuses
    <2> QED BY <2>1, <2>4, <2>5 DEF ReviewStep
  <1>6. CASE RemoveRequest(c)
    <2> DEFINE q == [UnusedRequest EXCEPT !.status = "deleted", !.target = requests[r].target]
    <2>1. /\ k.at = "delete" /\ Return(c) /\ UNCHANGED models /\ r \in RequestIds
          /\ RequestExists(r)
      BY <1>6 DEF RemoveRequest, IInv, PublishInv, CallLinks, CallLink, SerialInv
    <2>2. requests' = [requests EXCEPT ![r] = q] /\ q.status = "deleted"
      BY <1>6, <2>1 DEF RemoveRequest, UnusedRequest
    <2> HIDE DEF q
    <2>3. /\ SerialInv' /\ statuses' = [statuses EXCEPT ![r] = "deleted"]
          /\ PublishedRequests' = PublishedRequests
      <3>1. /\ calls[c].at # "record"
            /\ q.status \notin {"unused", "pending"}
        BY <2>1, <2>2
      <3> HIDE DEF r, k
      <3>2. /\ SerialInv' /\ statuses' = [statuses EXCEPT ![r] = q.status]
            /\ calls[c].at # "record" => PublishedRequests' = PublishedRequests
        BY <2>1, <2>2, <3>1, RewriteSerial
      <3> QED BY <2>2, <3>1, <3>2
    <2>4. statuses[r] \in {"pending", "approved", "rejected"}
      BY <2>1 DEF statuses, RequestExists
    <2> QED BY <2>1, <2>3, <2>4 DEF ReviewStep
  <1>7. ~Abort(c)
    BY DEF Abort, OneAtATime
  <1> QED BY <1>1, <1>2, <1>3, <1>4, <1>5, <1>6, <1>7 DEF Step

LEMMA SerialStep ==
    ASSUME OneAtATime
    PROVE  IInv /\ SerialInv /\ [Next]_vars => SerialInv' /\ ReviewStep
  <1> SUFFICES ASSUME IInv, SerialInv, [Next]_vars PROVE SerialInv' /\ ReviewStep
    OBVIOUS
  <1>1. CASE UNCHANGED vars
    <2>1. UNCHANGED <<statuses, PublishedRequests>>
      BY <1>1 DEF vars, statuses, PublishedRequests, Unrecorded
    <2> QED BY <1>1, <2>1 DEF vars, SerialInv, RequestExists, ReviewStep
  <1> QED BY <1>1, HubSerial, BeginSerial, HandlerSerial DEF Next, ReviewStep

\* One review handler at a time, on the memory stores, is the one-step review
\* of PublishReview: only a pending request is decided, once, and what it
\* publishes is published by its approval, in the step that records it.
THEOREM SerialReviewsImplement ==
    ASSUME OneAtATime
    PROVE  Spec => ReviewSpec
  <1>1. Init => Review!Init
    BY PublishAssumption DEF Init, Review!Init, PublishedRequests, UnusedModel, UnusedRequest
  <1>2. ReviewStep => [Review!Next]_<<statuses, PublishedRequests>>
    BY DEF ReviewStep, statuses, Review!Next, Review!Open, Review!Approve, Review!Reject,
           Review!Remove
  <1> QED BY <1>1, <1>2, SerialInit, SerialStep, InvInit, InvStep, PTL
          DEF Spec, ReviewSpec, Review!Spec, statuses

=============================================================================
