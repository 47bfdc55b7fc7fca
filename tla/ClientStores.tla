---------------------------- MODULE ClientStores ----------------------------
(***************************************************************************)
(* The console's client-side stores: lists of the server's objects that    *)
(* the pages share, filled on first use and kept up to date by mutators    *)
(* that go through the API.  Each store is a record that says how its      *)
(* loader and its mutators treat the rows; the actions are the loaders'    *)
(* and mutators' steps, with every request and its answer apart.           *)
(* Source: frontend/src/data.                                              *)
(***************************************************************************)
EXTENDS Naturals

CONSTANTS
    Keys,        \* namespaces (for models and collections: scope and namespace)
    Home,        \* the key of a store that has one list for the cluster
    Items,       \* ids of objects
    KeyOf,       \* the namespace of an object
    MaxVersion,  \* bound: versions of an object, 0 is none
    MaxActs,     \* bound: what the user does, waiting for the answers
    MaxOverlap,  \* bound: what the user does without waiting
    Worlds       \* the circumstances to look at

Circumstances == {"in-turn", "in-order", "lossy", "offline"}

(* How a store treats its rows.                                            *)
(*   list:   what a list replaces: the rows of its namespace, all rows, or *)
(*           all rows though it lists one namespace                        *)
(*   flag:   when a key counts as loaded: from the request on, once it is  *)
(*           answered, while it is in flight, or by a shared promise       *)
(*   failed: a failed list is asked again, or is taken for an empty one    *)
(*   create, update, delete: what the mutator does to the rows when it is  *)
(*           answered; a mark is put on the row when it is sent            *)
Profile == [list   : {"slot", "all", "takes-over"},
            flag   : {"before", "after", "in-flight", "promise"},
            failed : {"asks-again", "half-set", "is-empty"},
            create : {"none", "reload", "add", "upsert"},
            update : {"none", "reload", "replace", "upsert", "local-first", "mark-undo", "mark"},
            delete : {"none", "reload", "filter"},
            status : BOOLEAN]

ASSUME StoresAssumption ==
    /\ Home \in Keys
    /\ KeyOf \in [Items -> Keys]
    /\ Items # {}
    /\ MaxVersion \in Nat \ {0} /\ MaxActs \in Nat /\ MaxOverlap \in 0..MaxActs
    /\ Worlds \subseteq [store : Profile, now : SUBSET Circumstances]

-----------------------------------------------------------------------------
(* The stores *)

\* A list per scope and namespace; the answers of create, import and upload
\* are put in front whatever is there.
Models == [list |-> "slot", flag |-> "before", failed |-> "asks-again",
           create |-> "add", update |-> "replace", delete |-> "filter", status |-> FALSE]

\* The collections page calls the API itself and tells the store the outcome.
Collections == [Models EXCEPT !.create = "upsert", !.update = "upsert"]

\* Every mutator of services and runtimes lists its namespace again.
InferenceServices == [Models EXCEPT !.create = "reload", !.update = "reload", !.delete = "reload"]
ServingRuntimes == InferenceServices

\* Lists of the cluster that no mutator of the console changes.
LLMConfigs == [list |-> "all", flag |-> "before", failed |-> "asks-again",
               create |-> "none", update |-> "none", delete |-> "none", status |-> FALSE]
DeploymentModes == LLMConfigs

\* Both lists of the loader swallow their failure.
TrainingRuntimes == [Models EXCEPT !.failed = "is-empty", !.create = "reload", !.update = "none"]
TrainJobs == [Models EXCEPT !.create = "reload", !.update = "none"]

Notebooks == InferenceServices

\* Deployments, StatefulSets, PVCs and Pods: create and update list again,
\* delete takes the row out.
Workloads == [InferenceServices EXCEPT !.delete = "filter"]
Deployments == Workloads

\* Services, ConfigMaps and Secrets.
ClusterResources == [Workloads EXCEPT !.update = "none"]

\* Gateways and HTTPRoutes are two lists under one key.
Gateways == [ClusterResources EXCEPT !.failed = "half-set"]

Users == [LLMConfigs EXCEPT !.update = "replace"]
Roles == [Models EXCEPT !.create = "upsert", !.update = "none"]
RoleBindings == Roles
Nodes == Users
GPUProfiles == [LLMConfigs EXCEPT !.create = "add", !.update = "replace", !.delete = "filter"]
StorageTargets == GPUProfiles

\* One list at a time, of the namespace asked for last.
Providers == [list |-> "takes-over", flag |-> "before", failed |-> "asks-again",
              create |-> "upsert", update |-> "none", delete |-> "filter", status |-> FALSE]

\* S3 credentials, GitLab configurations and PVCs of AI Storage: every visit
\* lists, except while a list of the namespace is in flight.
AIStorage == [list |-> "takes-over", flag |-> "in-flight", failed |-> "is-empty",
              create |-> "reload", update |-> "reload", delete |-> "reload", status |-> FALSE]

\* Node groups and caches, by one promise that callers share.
LocalModelCaches == [list |-> "all", flag |-> "promise", failed |-> "is-empty",
                     create |-> "reload", update |-> "none", delete |-> "filter", status |-> FALSE]

\* The catalog of components: the row shows Installing from the click on.
Installs == [list |-> "all", flag |-> "after", failed |-> "asks-again",
             create |-> "add", update |-> "mark-undo", delete |-> "filter", status |-> TRUE]
Versions   == [Installs EXCEPT !.update = "local-first"]
Reconciles == [Installs EXCEPT !.update = "mark"]
ImageRegistry == [LLMConfigs EXCEPT !.update = "replace"]

Stores == {Models, Collections, InferenceServices, ServingRuntimes, LLMConfigs, DeploymentModes,
           TrainingRuntimes, TrainJobs, Notebooks, Workloads, Deployments, ClusterResources, Gateways,
           Users, Roles, RoleBindings, Nodes, GPUProfiles, StorageTargets, Providers, AIStorage,
           LocalModelCaches, Installs, Versions, Reconciles, ImageRegistry}

-----------------------------------------------------------------------------
VARIABLES
    server,   \* the version of each object that the server has
    rows,     \* how many rows of the store show an object
    shown,    \* the version they show
    marked,   \* the rows that show work in progress
    loaded,   \* the keys that count as loaded
    filled,   \* the keys whose rows a list has put into the store
    visited,  \* the key of the page that is open
    calls,    \* the requests in flight
    sent,     \* how many were sent since there was none in flight
    acts,     \* what the user has done
    world     \* the store and the circumstances of this behaviour

vars == <<server, rows, shown, marked, loaded, filled, visited, calls, sent, acts, world>>

store   == world.store
InTurn  == "in-turn" \in world.now   \* the user waits for the answers
InOrder == "in-order" \in world.now  \* lists are answered in the order they were sent
Lossy   == "lossy" \in world.now     \* requests may fail
Offline == "offline" \in world.now   \* no backend: the prototype's mode

Lists == IF store.list = "all" THEN {Home} ELSE Keys
Slot(k) == IF store.list = "all" THEN Items ELSE {i \in Items : KeyOf[i] = k}
ListOf(i) == IF store.list = "all" THEN Home ELSE KeyOf[i]

Vers == 0..MaxVersion

\* A request: its number, whether the server has handled it, and what it read
\* or left there.
Call == [n : Nat, for : {"list", "status", "create", "update", "delete"}, key : Keys,
         item : Items, at : {"sent", "served"}, saw : [Items -> Vers]]

TypeOK ==
    /\ server \in [Items -> Vers]
    /\ rows \in [Items -> Nat]
    /\ shown \in [Items -> Vers]
    /\ marked \subseteq Items
    /\ loaded \subseteq Keys /\ filled \subseteq Keys
    /\ visited \subseteq Keys
    /\ calls \subseteq Call
    /\ sent \in Nat
    /\ acts \in 0..MaxActs
    /\ world \in Worlds

\* Without a backend the seeds are all there is.
Init ==
    /\ world \in Worlds
    /\ server \in [Items -> {0, 1}]
    /\ rows = [i \in Items |-> IF Offline THEN server[i] ELSE 0]
    /\ shown = [i \in Items |-> IF Offline THEN server[i] ELSE 0]
    /\ marked = {}
    /\ loaded = {}
    /\ filled = IF Offline THEN Keys ELSE {}
    /\ visited = {}
    /\ calls = {}
    /\ sent = 0
    /\ acts = 0

-----------------------------------------------------------------------------
(* Asking for a list *)

Quiet == calls = {}

\* A call is over; the numbers start again when it was the last one.
Over(c) ==
    /\ calls' = calls \ {c}
    /\ sent' = IF calls = {c} THEN 0 ELSE sent
ListInFlight(k) == \E c \in calls : c.for = "list" /\ c.key = k

Request(op, k, i) ==
    [n |-> sent + 1, for |-> op, key |-> k, item |-> i, at |-> "sent", saw |-> [j \in Items |-> 0]]

AnyItem == CHOOSE i \in Items : TRUE

\* Whether the loader asks: a key that counts as loaded is not asked again, a
\* promise in flight is shared.
Asks(k) == k \notin loaded /\ (store.flag = "promise" => ~ListInFlight(k))

\* The key counts as loaded before the answer, except where it does not.
Claimed(k, before) ==
    CASE store.flag \in {"after", "promise"} -> before
      [] store.flag = "before" /\ store.list = "takes-over" -> {k}
      [] OTHER -> before \cup {k}

\* A loader sends its request; others are the calls that stay in flight.
SendList(k, before, others) ==
    /\ calls' = others \cup {Request("list", k, AnyItem)}
    /\ sent' = sent + 1
    /\ loaded' = Claimed(k, before)

Ensure(k) ==
    IF Asks(k) THEN SendList(k, loaded, calls)
    ELSE UNCHANGED <<calls, sent, loaded>>

\* Reload forgets the key and ensures it; the catalog just lists again, and a
\* promise in flight is taken for the reload.
Reload(k, others) ==
    IF store.flag = "promise" /\ ListInFlight(k)
    THEN loaded' = loaded \ {k} /\ calls' = others /\ UNCHANGED sent
    ELSE SendList(k, IF store.flag = "after" THEN loaded ELSE loaded \ {k}, others)

\* The user acts: at any time, or when nothing is under way.
Acts ==
    /\ acts < IF InTurn THEN MaxActs ELSE MaxOverlap
    /\ acts' = acts + 1
    /\ InTurn => Quiet

\* A page of namespace k opens.
Visit(k) ==
    /\ Acts /\ ~Offline
    /\ k \in Lists
    /\ visited' = {k}
    /\ Ensure(k)
    /\ UNCHANGED <<server, rows, shown, marked, filled, world>>

\* The page's refresh button.
Refresh(k) ==
    /\ Acts /\ ~Offline
    /\ visited = {k}
    /\ Reload(k, calls)
    /\ UNCHANGED <<server, rows, shown, marked, filled, visited, world>>

-----------------------------------------------------------------------------
(* The mutators *)

\* The object is there, or is not, for the request to succeed.
Possible(op, i) == IF op = "create" THEN server[i] = 0 ELSE server[i] > 0

\* What the request leaves at the server.
Result(op, i) ==
    CASE op = "create" -> 1
      [] op = "update" -> IF server[i] < MaxVersion THEN server[i] + 1 ELSE server[i]
      [] op = "delete" -> 0

\* The user submits a form, or clicks a button of a row.
Offered(op, i) ==
    /\ store[op] # "none"
    /\ IF op = "create" THEN rows[i] = 0 ELSE rows[i] > 0
    /\ visited = {ListOf(i)} \/ Offline

\* A mutator sends its request; install and reconcile mark the row first, a
\* choice of version is shown at once.
Submit(op, i) ==
    /\ Acts /\ ~Offline
    /\ Offered(op, i)
    /\ calls' = calls \cup {Request(op, ListOf(i), i)}
    /\ sent' = sent + 1
    /\ marked' = IF op = "update" /\ store.update \in {"mark-undo", "mark"}
                 THEN marked \cup {i} ELSE marked
    /\ shown' = IF op = "update" /\ store.update = "local-first" /\ shown[i] < MaxVersion
                THEN [shown EXCEPT ![i] = @ + 1] ELSE shown
    /\ UNCHANGED <<server, rows, loaded, filled, visited, world>>

\* Without a backend the mutator changes the store and that is all.
Locally(op, i) ==
    /\ Acts /\ Offline
    /\ Offered(op, i)
    /\ server' = [server EXCEPT ![i] = Result(op, i)]
    /\ rows' = [rows EXCEPT ![i] = IF op = "delete" THEN 0 ELSE 1]
    /\ shown' = [shown EXCEPT ![i] = Result(op, i)]
    /\ UNCHANGED <<marked, loaded, filled, visited, calls, sent, world>>

\* The server handles a request.
Serve(c) ==
    /\ c.at = "sent"
    /\ c.for \in {"create", "update", "delete"} => Possible(c.for, c.item)
    /\ LET after == IF c.for \in {"list", "status"} THEN server
                    ELSE [server EXCEPT ![c.item] = Result(c.for, c.item)]
       IN  /\ server' = after
           /\ calls' = (calls \ {c}) \cup {[c EXCEPT !.at = "served", !.saw = after]}
    /\ UNCHANGED <<rows, shown, marked, loaded, filled, visited, sent, acts, world>>

-----------------------------------------------------------------------------
(* The answers *)

InItsOrder(c) ==
    InOrder => \A d \in calls : d.for = "list" => d.n >= c.n

\* The rows that a list of k replaces.
Replaced(k) == IF store.list = "slot" THEN Slot(k) ELSE Items

\* MUTANT of SetRows: the list is put in front of the rows it replaces.
SetRowsInFront(k, saw) ==
    /\ rows' = [i \in Items |-> IF i \in Slot(k) /\ saw[i] > 0 THEN rows[i] + 1 ELSE rows[i]]
    /\ shown' = [i \in Items |-> IF i \in Slot(k) THEN saw[i] ELSE shown[i]]
    /\ marked' = marked \ Replaced(k)

\* The store is given the rows of a list.
SetRows(k, saw) ==
    /\ rows' = [i \in Items |-> IF i \notin Replaced(k) THEN rows[i]
                                ELSE IF i \in Slot(k) /\ saw[i] > 0 THEN 1 ELSE 0]
    /\ shown' = [i \in Items |-> IF i \notin Replaced(k) THEN shown[i]
                                 ELSE IF i \in Slot(k) THEN saw[i] ELSE 0]
    /\ marked' = marked \ Replaced(k)

\* MUTANT of Settled: the entry of a list that is answered stays in the map.
SettledInFlight(k) == IF store.flag \in {"before", "in-flight"} THEN loaded ELSE loaded \cup {k}

\* The key once its list is answered.
Settled(k) ==
    CASE store.flag = "before" -> loaded
      [] store.flag = "in-flight" -> loaded \ {k}
      [] OTHER -> loaded \cup {k}

\* The catalog asks for the status of each row it was given.
StatusCalls(saw) ==
    IF store.status THEN {Request("status", Home, i) : i \in {j \in Items : saw[j] > 0}} ELSE {}

\* A list arrives.
Listed(c) ==
    /\ c.for = "list" /\ c.at = "served"
    /\ InItsOrder(c)
    /\ SetRows(c.key, c.saw)
    /\ filled' = IF store.list = "takes-over" THEN {c.key} ELSE filled \cup {c.key}
    /\ loaded' = Settled(c.key)
    /\ IF StatusCalls(c.saw) = {} THEN Over(c)
       ELSE calls' = (calls \ {c}) \cup StatusCalls(c.saw) /\ sent' = sent + 1
    /\ UNCHANGED <<server, visited, acts, world>>

\* MUTANT of ListFails: the key is not forgotten.
ListFailsLoaded(c) ==
    /\ c.for = "list" /\ Lossy
    /\ InItsOrder(c)
    /\ Over(c)
    /\ UNCHANGED <<server, rows, shown, marked, loaded, filled, visited, acts, world>>

\* A list fails: the key is forgotten, and one of two lists may have set its
\* rows; or the failure is taken for an empty list.
ListFails(c) ==
    /\ c.for = "list" /\ Lossy
    /\ InItsOrder(c)
    /\ Over(c)
    /\ \/ /\ store.failed # "is-empty"
          /\ loaded' = IF store.flag = "after" THEN loaded ELSE loaded \ {c.key}
          /\ \/ UNCHANGED <<rows, shown, marked>>
             \/ store.failed = "half-set" /\ c.at = "served" /\ SetRows(c.key, c.saw)
          /\ UNCHANGED filled
       \/ /\ store.failed = "is-empty"
          /\ SetRows(c.key, [i \in Items |-> 0])
          /\ filled' = IF store.list = "takes-over" THEN {} ELSE filled \ {c.key}
          /\ loaded' = Settled(c.key)
    /\ UNCHANGED <<server, visited, acts, world>>

\* A mutator changes the row of its object.
RowSet(i, n, v) ==
    /\ rows' = [rows EXCEPT ![i] = n]
    /\ shown' = [shown EXCEPT ![i] = IF n > 0 THEN v ELSE 0]
    /\ marked' = marked \ {i}

\* MUTANT of AnsweredRow: the answer of an update is not put into the row.
AnsweredRowKept(op, i, v) ==
    CASE store[op] = "add"    -> RowSet(i, rows[i] + 1, v)
      [] store[op] = "upsert" -> RowSet(i, 1, v)
      [] store[op] = "filter" -> RowSet(i, 0, 0)
      [] OTHER                -> RowSet(i, rows[i], shown[i])

\* What an answered mutator does to the row, where it does not list again.
AnsweredRow(op, i, v) ==
    CASE store[op] = "add"    -> RowSet(i, rows[i] + 1, v)
      [] store[op] = "upsert" -> RowSet(i, 1, v)
      [] store[op] = "filter" -> RowSet(i, 0, 0)
      [] OTHER                -> RowSet(i, rows[i], v)

\* A mutator's request is answered.
Answered(c) ==
    /\ c.for \in {"create", "update", "delete"} /\ c.at = "served"
    /\ \/ /\ store[c.for] = "reload"
          /\ Reload(c.key, calls \ {c})
          /\ UNCHANGED <<rows, shown, marked>>
       \/ /\ store[c.for] # "reload"
          /\ AnsweredRow(c.for, c.item, c.saw[c.item])
          /\ Over(c)
          /\ UNCHANGED loaded
    /\ UNCHANGED <<server, filled, visited, acts, world>>

\* It is refused, or fails before or after the server has handled it: the
\* mutator throws, an install first takes its mark away.
Fails(c) ==
    /\ c.for \in {"create", "update", "delete"}
    /\ Lossy \/ (c.at = "sent" /\ ~Possible(c.for, c.item))
    /\ Over(c)
    /\ marked' = IF c.for = "update" /\ store.update = "mark-undo" THEN marked \ {c.item} ELSE marked
    /\ UNCHANGED <<server, rows, shown, loaded, filled, visited, acts, world>>

\* The status of a component's row arrives, or fails and is left.
StatusAnswered(c) ==
    /\ c.for = "status"
    /\ Over(c)
    /\ \/ c.at = "served" /\ RowSet(c.item, rows[c.item], c.saw[c.item])
       \/ Lossy /\ UNCHANGED <<rows, shown, marked>>
    /\ UNCHANGED <<server, loaded, filled, visited, acts, world>>

-----------------------------------------------------------------------------
Answer == \E c \in calls :
    Serve(c) \/ Listed(c) \/ ListFails(c) \/ Answered(c) \/ Fails(c) \/ StatusAnswered(c)

Next ==
    \/ \E k \in Keys : Visit(k) \/ Refresh(k)
    \/ \E i \in Items, op \in {"create", "update", "delete"} : Submit(op, i) \/ Locally(op, i)
    \/ Answer

\* Every request is answered or fails in the end.
Spec == Init /\ [][Next]_vars /\ WF_vars(Answer)

-----------------------------------------------------------------------------
(* Properties *)

Fresh(i) == shown[i] = server[i] /\ rows[i] = IF server[i] > 0 THEN 1 ELSE 0

TakesOver == store.list = "takes-over"

\* A user who waits for each answer sees, whatever mix of lists, patches of
\* rows and reloads the store uses, each object of a listed namespace once and
\* in the version the server has.
CoherentInTurn ==
    InTurn /\ ~Lossy /\ Quiet => \A k \in filled, i \in Items : i \in Slot(k) => Fresh(i)

Reloads(op) == store[op] \in {"reload", "none"}

\* A store whose mutators all list again agrees with the server once all is
\* answered, however many clicks overlap, if lists are answered in the order
\* they were sent.  (A shared promise breaks this: a reload joins the list that
\* was sent before the change.)
ReloadsConverge ==
    /\ InOrder /\ ~Lossy /\ Quiet
    /\ Reloads("create") /\ Reloads("update") /\ Reloads("delete") /\ store.flag # "promise"
    => \A k \in filled, i \in Items : i \in Slot(k) => Fresh(i)

\* Rows and server agree once all is answered.
RowsConverge == CoherentInTurn /\ ReloadsConverge

\* An object has one row, also when a list that already has it overtakes the
\* answer of the request that created it; unless the store adds the answer
\* without looking (models, GPU profiles, storage targets, components) and the
\* user does not wait.
OneRowEach ==
    store.create # "add" \/ InTurn => \A i \in Items : rows[i] <= 1

\* A key that counts as loaded was listed or is being listed: a failed list is
\* never the last word on a namespace.  Not so where a failure passes for an
\* empty list, nor where the late list of another namespace takes over.
LoadedIsServed ==
    store.failed # "is-empty" /\ (TakesOver => InTurn /\ store.flag = "before")
    => \A k \in loaded : k \in filled \/ ListInFlight(k)

\* A row that shows an operation in progress has that operation in flight, so
\* that Installing goes away whatever becomes of the request.  (Reconcile does
\* not catch its failure.)
MarkIsBacked ==
    store.update # "mark" =>
        \A i \in marked : \E c \in calls : c.for = "update" /\ c.item = i

\* What a store says it has, or is doing, it has or is doing.
FlagsAreBacked == LoadedIsServed /\ MarkIsBacked

\* A page that is open gets its list, when requests do not fail: no flag,
\* promise or answer for another namespace keeps it from being asked and set.
PageFills ==
    \A k \in Keys :
        (visited = {k} /\ ~Lossy /\ (TakesOver => InTurn)) ~> (k \in filled \/ visited # {k})

\* data/aiStorage.ts: "We never silently swap the cached value between
\* namespaces": what the open page shows is not replaced by the list of a
\* namespace that the user has left.
NeverSwapped ==
    [][\A k \in Keys : visited = {k} /\ visited' = {k} /\ k \in filled => k \in filled']_vars

=============================================================================
