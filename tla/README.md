# TLA+ models of knaic

knaic is a console for AI workloads on a Kubernetes cluster: a Go backend
(`backend/cmd/knaic-api`, `backend/internal`) that the browser, the cluster's
API server, Helm, GitLab and an opencode sidecar all talk to, and a React
frontend over its REST API.  This directory holds TLA+ modules that model the
backend's stateful parts and the whole of the frontend's state (sign-in,
client-side stores, pages), TLC configurations that check them on small
instances, and TLAPS proofs of what matters most for instances of every size.

1. [How to run it](#how-to-run-it)
2. [The system](#the-system): components, state, interactions, what is hard
3. [The modules](#the-modules): what each models, checks and proves
4. [Bounds](#bounds), [Fairness](#fairness), [Proofs](#proofs)
5. [Disagreements between code and its documentation](#disagreements)
6. [Hazards without a property](#hazards-that-no-property-covers),
   [Not modelled](#not-modelled) and [Plan](#plan)

Paths and line numbers are those of `PROJECT.json`, which maps every
definition to the lines it models.  Paths below are relative to
`backend/internal` unless they start with `cmd/`, `deploy/` or `frontend/`.

## How to run it

    tlc -workers 2 -config PublishOverlap.cfg MCPublish.tla
    tlapm PublishProofs.tla

Every `.cfg` belongs to the `MC*` module that `PROJECT.json` names beside it.
`publish_race_reject` is meant to end with a counterexample: it shows a
disagreement between the code and what the code says of itself.  So are
`ComponentsRaceStatus.cfg`, `GitLabLostPattern.cfg`, `OpenCodeLostBounce.cfg`,
`SessionsReusedId.cfg`, `SignInLateCall.cfg` and `ClientStoresSwap.cfg`, which
are kept beside the runs of `PROJECT.json` and described under
[Disagreements](#disagreements).

## The system

Almost all state of the backend lives in its process, in maps under a mutex; with
`KNAIC_DB_URL` set, models, publish requests, collections and agent sessions
live in Postgres instead.  Handlers run one goroutine per request and hold no
lock between two store calls, so what is atomic is a store method or one API
call, and a handler is a sequence of them.

| Component | State it keeps | Operations | Modelled by |
|---|---|---|---|
| Model hub (`models`) | models by id; unique by scope, namespace, name | Create, Import, Upload, Patch, Delete, Seed | `Publish` |
| Publish workflow (`publish`) | requests with a status; each knows the model it asks to publish and the copy that was made | Create, Approve, Reject, Delete | `Publish`, `PublishReview` |
| Component catalog (`components`) | items with a status; a cluster snapshot cached for 5 s under a mutex | Install, Uninstall, Reconcile, Status, Import, Remove | `Components` |
| Agent workspace (`agentworkspace`) | none of its own: a Deployment, a Service, a PVC per user | Ensure, Delete, UpdateResources, Restart | `AgentWorkspace` |
| Playground providers and the sidecar's configuration (`playground/service.go`, `opencode_server.go`) | providers and their counter; `opencode.json`; the hash written last; the sidecar process | Create/Patch/Delete provider, EnsureConfig, RunAgent | `OpenCodeConfig` |
| Agent sessions (`playground/agent_*.go`) | sessions and messages, memory or Postgres; the sidecar's own sessions | create, delete, RunAgent | `AgentSessions` |
| AI Storage, GitLab (`aistorage/gitlab.go`) | none of its own: a branch, `.gitattributes`, the LFS store | GitLabUpload, GitLabDownload | `GitLabLFS` |
| Sign-in (`frontend/src/auth`, `api/client.ts`) | token set in localStorage shared by the tabs, pending login in sessionStorage, status of each document | bootstrap, login, callback, refresh, 401, retry, logout | `SignIn` |
| Client-side stores (`frontend/src/data`) | per store: rows, which keys count as loaded, marks of work in progress | list on first use, reload, create, update, delete | `ClientStores` |
| Pages (`frontend/src/pages`) | what is selected, rows or details, spinner, one dialog, one viewer | select, refresh, operate on a row, confirm, submit | `Screens`, `Pages` |
| Agent workspace page | phase, badge, grant, iframe, resize form; a poll timer and a grant timer | provision, poll, Restart, Resize | `WorkspacePage` |
| Playground pages | conversation and its streams; sessions, trace and runs | Send, Stop, Clear; select, new, delete, Run, Stop | `ChatPage`, `AgentPage` |
| AI Storage S3 and PVC, GPU profiles, inference, training, notebooks, administration, collections and seed, storage targets, authentication of the backend | Kubernetes objects, or one map each | create, edit, delete | pages and stores only, see [Not modelled](#not-modelled) |
| Chat proxies, MCP; Kubernetes access; resource browser, monitoring; start-up and routing | none | forwarding, lists, single API calls | not modelled |

### How the parts interact

- A publish handler calls the request store, then the model hub, then the
  request store again.  Nothing is held in between.  `Publish` therefore has
  both stores and the handlers in one module.
- `components.Service` changes the catalog, calls Helm with no lock held, and
  tells the detector to forget its snapshot; a Status request takes the
  detector's mutex for the length of a scan and changes the same catalog.
- Each change of a provider runs hooks (`cmd/knaic-api/main.go:310`) that
  start a goroutine; it takes the runner's mutex, renders the catalog into
  `opencode.json` on a volume shared with the sidecar, and sends the sidecar a
  SIGTERM so that it boots with the new file.  An agent turn does the same
  before it posts to the sidecar.  `OpenCodeConfig` has this; `AgentSessions`
  has what a turn does with its session.  They share `RunAgent`: each keeps
  the steps whose state it has, and treats the others as steps that may fail.
- Pages read stores and call their mutators, or call the API client with a
  request of their own; stores call the API client.  The client attaches the
  bearer token that `AuthContext` gave it and reports a 401 back, for which
  `AuthContext` drops the token set and begins a login; a token is renewed
  only by `bootstrap`, when a document loads or its user retries
  (`AuthContext.tsx:94-110`).  The header's namespace
  is in `AppContext`; the router mounts one page at a time.  `Screens` takes
  from a store only what the page sees of it: how a late list is kept out.
- `agentworkspace` and AI Storage hold no state.  What can go wrong is in the
  order of their requests to the API server and to GitLab.

### What is hard here

Handlers that check in one store call and write in another (publish); a
detection that overtakes an install (components); objects created in turn with
failures between them and optimistic concurrency on write (workspace);
goroutines that nothing orders and whose failures nobody retries (sidecar); a
restart that loses one half of a pair of related states and not the other
(providers in memory, sessions in Postgres, files on a volume); requests that
were carried out and answered with an error (GitLab).  In the browser: answers
that arrive after the user has gone elsewhere, lists that overtake the answers
of mutators, tabs that share one refresh token, timers that race with the
requests they start, streams that end after the next has begun.
`PROJECT.json` lists each under `hazards` at the line where it bites, with the
properties about it.

### What makes each part correct

- *Publish*: one review decides a request; an approval publishes exactly what
  was reviewed, once; the public catalog has public sources only.
- *Components*: an item follows its release; "Installing" is never the last
  word; a user sees their own action reflected.
- *Workspace*: a Deployment has its PVC and Service; an edit changes what was
  asked and no more; a Delete that succeeds leaves nothing.
- *Providers*: what the sidecar runs comes to be the catalog; a turn posts to
  a sidecar that knows its provider.
- *Sessions*: a session talks to its provider and remembers its conversation;
  nothing outlives it.
- *GitLab*: what has been uploaded can be downloaded; `.gitattributes` grows.
- *Sign-in*: no console without a token or with demo data; no error without a
  cause; no token set dropped without one; no endless spinner.
- *Stores*: what they show is what the server has once all is answered; a key
  that counts as loaded was listed.
- *Pages*: what is shown, sent and edited is of what is selected or was
  clicked, and up to date; no page stays empty, loading or busy.

## The modules

A component `X` has its module `X.tla`, a module `MCX.tla` with what its runs
instantiate, and `XProofs.tla` with its theorems; those about the pages of the
workspace and the playground are with those of the backend they talk to, in
`AgentWorkspaceProofs` and `PlaygroundProofs`.  In all of them `calls` (or
`turns`) holds the goroutines: `at` is the program counter, the other fields
are the locals that survive from one step to the next.  `Begin...` actions, or
those named after a handler, are the part of a handler before its first call to
another component; the actions after it are one critical section or one request each.
Definitions whose comment starts with *Mutant* or *MUTANT of* are deviations that a property
has been seen to catch; no specification uses them.

### Publish (`models`, `publish`)

State: `models` and `requests` are the two stores, a row per id that can be
minted (ids are random, so a deleted row leaves its id behind); `calls` the
publish handlers.  The hub's handlers make one store call and are one action
(`CreateModel`, `DeleteModel`); a publish handler is `BeginX` (the read and the
guards on what was read) and its writes: Approve is `BeginApprove`,
`FetchPrivate`, `CopyToCatalog`, `RecordApproval`.  `Postgres` chooses the
store; with it, `Abort` ends a handler anywhere (a cancelled context, a crash),
which the memory stores, living in the process, cannot show.  `Model.origin` is
a history variable: the request whose approval made the copy.

| Run | Shows |
|---|---|
| `publish_overlap` | two handlers at once, Postgres, aborts: rows and handlers agree (`PublishInv`), at most one live copy per request, an approval records the copy that was reviewed |
| `publish_serial` | one handler at a time, memory: one pending request per model, and the handlers implement `PublishReview` (a review is final, what is rejected is not in the catalog) |
| `publish_race_reject` | an approve and a reject overlap: the request ends rejected, its copy live (violation) |

`PublishReview` is the abstract specification: five statuses, every operation
one step, approval and publication the same event.  The mapping hides a copy
that a handler has made and not yet recorded (`Unrecorded`), so that
publication takes effect with the approval.  That names stay unique and
published copies public is proved for every size (below) and not run.

### Components (`components`)

State: `items` the catalog, `releases`/`manual`/`csv` the cluster (knaic's own
releases, other people's, OLM's), `snap` the cached scan, `calls`.  The mutex
`snapMu` is held from the first list call of a scan to the caching of its
result (`ScanRunning`), so `Invalidate` and other scans wait; `items` is under
the store's mutex, one action per store call.  Helm calls succeed, fail without
effect or fail with one (`leftover`, `gone`).  Either list of a scan may fail.
`Restart` loses the store and the snapshot, not the cluster; `OthersInstall`
and `OthersRemove` are the world outside.  `inTurn`, chosen in the initial
state of `TurnSpec`, says whether handlers run one at a time.

| Run | Shows |
|---|---|
| `components` | both worlds of `MCComponents`: overlapping requests in a cluster left alone, and requests in turn while others install and remove.  No item is stranded in Installing, a cached scan never predates a finished install or uninstall, Installing settles; in turn a Status reflects the actions before it and an installed component has its release |

The properties about scans leave out those whose Helm list failed (`helmErr`):
the code takes them for an empty cluster, see [Disagreements](#disagreements).

### AgentWorkspace (`agentworkspace`)

State: the Deployment with its phase and resources, the Service, the PVC with
phase and size; a deleted Deployment or PVC is `terminating` until its finalizer
is done.  Ensure is up to six API calls, Delete three, UpdateResources a read
and a write of the Deployment and of the PVC; `stale` says that the copy a
request holds has an old resourceVersion.  `Abort` is any API call that fails.
`world`, chosen in the initial state and kept, says which operations a
behaviour has and whether requests overlap; a property that is about workspaces
nobody deletes, or about requests in turn, is conditional on it.

| Run | Shows |
|---|---|
| `workspace` | with any call failing: a Deployment has its parts while nobody deletes, also when two Ensures overlap; resources change only to what an update in progress asks, also with everything overlapping; in turn a Delete that gets through leaves nothing live, also after one that failed half way |

### OpenCodeConfig (`playground/service.go`, `opencode_server.go`, `main.go`)

State: the catalog and its counter, the token, the file, the hash remembered
(`snapHash`: the content it is the hash of), the mutex, the goroutines, the
sidecar's phase and what it has loaded.  `EnsureConfig` is `Lock`, `Snapshot`
(which takes the service's mutex, hence a step of its own), `SkipWrite` or
`WriteConfig`, `Bounce`.  A turn starts with a copy of its provider and looks,
in `Snapshot`, whether the rendered snapshot covers it (`ensureSnapshotCovers`).
The sidecar boots, reads the file once, exits on SIGTERM, crashes, and is
started again by the kubelet.  `fails`, fixed per behaviour, says whether
writing the file or sending a signal may fail.

| Run | Shows |
|---|---|
| `opencode` | two goroutines beside the one of the start, two models, a restart, crashes: an up sidecar runs the file or is about to be signalled, a file behind the catalog has somebody about to replace it, a turn whose provider is unchanged finds it; once the catalog is left alone and nothing fails the sidecar comes to know it for good |

### AgentSessions (`playground/agent_*.go`, `RunAgent`)

State: providers by id (each with a number of its own, `made`, so that the id
can be told from what it stands for), sessions, messages (`log`), the turns,
and `history`, what each of the sidecar's sessions has seen.  A turn is
`RunAgent` (reads session and provider), `AppendUser`, `Ensure` (is there an
opencode session?), `Allocate`, `Persist`, `Post`, `AppendAnswer`.  `Restart`
ends the turns and loses the providers; sessions survive in Postgres only; a
new pod also loses `history`.  `world` says: Postgres or memory; whether a
session may have two turns in flight; whether a restart may be a new pod;
whether storing the opencode session's id may fail.

| Run | Shows |
|---|---|
| `sessions` | three turns in two sessions in four worlds: a session that is not there has no messages, whatever overlaps; with the memory store a turn talks to the provider its session was created with; in turn, a turn is posted where all that was answered before is known |

### GitLabLFS (`aistorage/gitlab.go`)

State: the branch, the patterns of its `.gitattributes` by line (or none), the LFS
store, the uploads.  An upload is one action per HTTP request: the batch call,
the transfer, POST and then PUT of the file (the code tries to create, and on
any error to update), the read of `.gitattributes`, its POST and PUT.  The read
returns the first `Limit` lines, what 64 KiB hold (`gitlab.go:715`), or fewer
when the body is cut off, whose error the code drops; what is written back is what
was read and one line.  A request in
`Failing` may be answered with an error whether it was carried out or not.
`Download` is the answer of `GitLabDownload`, an operator over the state.
`GitLabLFSTurns` adds `inTurn`: uploads one at a time, whose reads of
`.gitattributes` neither fail nor are cut off, or uploads as they come.

| Run | Shows |
|---|---|
| `gitlab` | two uploads, overlapping or in turn, every request failing in any way: each file is downloaded with its content except an empty LFS one; an LFS upload that answers ok is in `.gitattributes` at that moment; in turn no pattern of a `.gitattributes` of at most `Limit` lines is lost |

Excepted, because the code does not keep it: patterns are lost when uploads
overlap, when the read of `.gitattributes` fails or is cut off, and past 64 KiB
by an LFS upload that does not find its path in what it read, also when it runs alone.

### SignIn (`frontend/src/auth`, `api/client.ts`, `api/auth.ts`, `data/reset.ts`)

State: `stored` (localStorage `knaic:auth:tokens`, one for all tabs), what the
provider and knaic-api would say of each token set (`fresh`, `live`,
`refreshable`), and per tab the document (`page`, `url`, `status`, `bearer`,
`runs`, ...).  A run is an async function of `AuthProvider` suspended in an
`await`: `prepare login`, `refresh`, `whoami`, `prepare callback`, `exchange`
and so on, and what follows each `await` is one action.  A tab's `pending` is its
sessionStorage `knaic:auth:pkce`.  A token may expire or be revoked at any
time; the calls of pages are in `calls` and bring 401s, late ones included.
`world`: one tab or two, requests that fail, reloads, the double mount of
React.StrictMode, bursts (several calls with one token in flight), dev bypass.

| Run | Shows |
|---|---|
| `sign_in` | four worlds: an authenticated document has a token or is on its way to a login; an error is shown only where something failed; a code is exchanged once; with one tab the stored token set is dropped only at logout, when knaic-api does not accept it, or when its own renewal is refused or fails; no document stays on the spinner |

What the properties except, because the code does not keep it: `bootstrap` drops a
set within 30 seconds of its end not only when the provider refuses to renew it, but
on any request of the renewal that fails, though a retry might have renewed it
(`AuthContext.tsx:103`); with two tabs the
loser of a refresh race removes the token set that the winner has stored, and a
second late 401 can drop a set adopted by a retry (`DroppedForCause` is about
one tab, `ShownWithToken` about one tab or no bursts); with bursts the 401 of a
second call removes the login that the first has begun, so that its callback
is refused (`oidc.ts:67`): `ErrorIsEarned` is about worlds without bursts.  A
retry on the URL of a callback that was used stays in the error.

### ClientStores (`frontend/src/data`)

A store is a record that says what a list replaces, when a key counts as
loaded, what a failed list leaves, and what each mutator does to the rows; 26
such profiles, from models to the image registry, instantiate one set of
actions: `Visit`, `Submit`, `Serve` (the server handles a request), `Listed`,
`ListFails`, `Answered`, `Fails`.  Several stores share a profile where their
code does the same; `map` gives each its lines.  `world` is a store and
circumstances: a user who waits, lists answered in the order they were sent,
failing requests, no backend.

| Run | Shows |
|---|---|
| `client_stores` | every store in five worlds: rows and server agree once all is answered, for a user who waits (`CoherentInTurn`) and, where every mutator lists again, for one who does not (`ReloadsConverge`); an object has one row; a key that counts as loaded was listed and a mark has its request (`FlagsAreBacked`); an open page gets its list |

Excepted: stores that add the answer of a creation without a look at its id, when
the user does not wait (`OneRowEach`); stores that take a failed list for an
empty one, or one namespace's late list for another's (`LoadedIsServed`,
`PageFills`); Reconcile, which does not catch its failure (`MarkIsBacked`).

### Screens, Pages (`frontend/src/pages`)

A page is one or more panels.  A panel's *profile* says where its contents come
from, what keeps late answers out (rows filtered by namespace, a cleanup that
cancels), whether a new key empties it, what a failed read leaves, how its
spinner is cleared, and whether it polls.  An *operation's* profile says what
namespace its request names (the row's, that of the moment of the click, that of the moment it is
sent), how it is opened (click, confirmation, form, editor that first reads),
what success does to the panel, what failure does to the dialog, and whether it sends a
change or the whole object.  `Pages` has the profiles of 62 panels, each mapped to the
effect, and of their operations, each mapped to its handler; `Screens` has the actions.
What the pages have in common, in whatever else they differ, is the operator
`Careful`: tables over a store are filtered; a panel whose effect cancels its
request is not listed again by an operation; a spinner that masks is that of
the request that counts; a stray read that fails empties; every change is
shown; a confirmation fixes its
namespace; what only reads is sent at once, and names the row's namespace where
rows of another may be on show.
The rows of a namespace are one versioned entry: all a property asks is
whose they are and how old.  A YAML view whose read fails opens, in the code, with
text made from the row (`Deployments.tsx:51`); in the model it stays closed:
that text is of the row that was clicked, which is what the properties ask of it.

| Run | Shows |
|---|---|
| `screens` | every panel with each of its operations, in four worlds (waiting; waiting with failures; not waiting with failures; a namespace that is chosen late): contents and viewers are those of what is selected or was clicked; requests go to the row that was clicked; rows and the forms filled from them are up to date; no page spins or stays empty |

Each property names its exceptions, which are what the code does: the YAML
editors of inference services and serving runtimes save into the namespace
selected when they are saved (`InferenceServices.tsx:171,184`,
`ServingRuntimes.tsx:60-87`); a new namespace is first read with the project of the old one
(`GitLabProjects.tsx:74`); late answers fill the S3 browser, the tree of a
model and the GitLab viewer (`S3Browser.tsx:88-102`, `ModelDetail.tsx:112`);
a PVC viewer is made ready by the answer to another click
(`PVCManager.tsx:113`); forms that send back everything undo changes made since
(`S3Secrets.tsx:223`, `Namespaces.tsx:221`, `Users.tsx:92`); the registry's form is
filled at mount, before the answer (`Registry.tsx:49`); a failed read leaves the
skeleton of `InferenceServiceDetail.tsx:162` for good; the form of
`Deployments.tsx:174` can be sent twice.

### WorkspacePage, ChatPage, AgentPage

The pages with a flow of their own.  `MCAgentPages` composes them as the router
does: `mounted` picks one, and the others do not move.

- `WorkspacePage`: the Deployment (revision, replica, ready pod), the page's
  phase, badge, grant, iframe and form, and its requests, each sent, served
  and answered.  Minutes are counted only in worlds with prompt answers, where
  they decide when a grant is due and a cookie ends.  `world`: answers prompt or
  late, failures, a gap between old and new pod, changes from elsewhere.  A
  grant answered after the page has left "ready" changes nothing that is modelled.
- `ChatPage`: bubbles, and the streams whose chunks go to the last of them;
  Stop aborts an open stream at once and an opening one later.
- `AgentPage`: the server's sessions, the list, selection, trace, and jobs:
  effects that read (`visit`, `show`), operations (`new`, `remove`, `refresh`)
  and runs, each a sequence of requests.

| Run | Shows |
|---|---|
| `agent_pages` | the workspace page: badge and body agree, the iframe is on the current pod with a valid cookie, what is typed stays while the workspace runs and answers come before the next poll, the page opens in the end.  Chat: chunks land in their own bubble, Stop is offered while there is something to stop, replies end.  Agent: list, selection and trace are those of the namespace and the session, runs end |

What the code does not keep, and the properties except: in a rolling update the
old pod counts as Running and the iframe is opened on it; the resize form is
filled anew by every answer (`AgentWorkspace.tsx:353`), so by polls while the
workspace starts, and while it runs by a second poll that was in flight when the
first made the page ready (:61-65): `TypedStays` is about answers that come
before the next poll;
an error is final, with the Restart button disabled that the hint at :249
recommends (:187); Enter sends while a reply is streamed (`Chat.tsx:158`), Clear
is never disabled, and a chunk for an empty conversation throws with no
error boundary above (`Chat.tsx:70,126`); the late end of an aborted stream
clears the flag of the next; the trace that shows an agent's error is
overwritten by the read of the effect (`Agent.tsx:217-222`); deleting a session
relies on the click bubbling to the row (`Agent.tsx:153`); Stop while a session is being
created lets two runs overlap (`Agent.tsx:345`), each selecting its own session at its
end; a run's list is of the namespace it began in (`Agent.tsx:122`).

## Bounds

| Bound | Value | Why it is enough |
|---|---|---|
| `Publish`: `Calls` | 2 (1 in `publish_serial`) | every race found or excluded is between two handlers; the hub's one-step handlers interleave besides them |
| `Publish`: `ModelIds`, `RequestIds` | 3, 2 | a private model and the copies of two approvals; two requests for it |
| `Publish`: users, names, URIs | a member and an admin; one name; two public URIs and a private one (one public in the other runs) | both branches of every gate; two URIs tell the copy of one model from that of its successor; one name, so that every name collides |
| `Components`: `Calls`, catalog | 2; one built-in, one imported | an install and a Status of one item, or of two |
| `AgentWorkspace`: `Calls`, `Sizes`, `Specs` | 2; two sizes; four updates | two tabs; single-field updates and one that sets all, to the other value or back |
| `OpenCodeConfig`: `Calls`, `Models`, `MaxId`, `MaxRestarts` | 2 (and `main`); 2; 1; 1 | the races are between changes of one provider (create, patch, delete) and its turns; the second model is what a patch changes to |
| `AgentSessions`: `Turns`, `Sessions`, `MaxId`, `MaxMade`, `MaxRestarts` | 3; 2; 2; 2; 1 | two turns to build a history and one to miss it; an id that a restart gives to a second provider |
| `GitLabLFS`: paths, globs, blobs, `Calls`, `Limit` | 2, 2, 2 (one empty), 2, 2 | two uploads with patterns of their own beside those that were there; a file as long as is read, to which an upload adds a line, so that the next does not see all |
| `SignIn`: `Tabs`, `MaxTokens`, `MaxLogins`, `MaxReloads` | 2; 2; 2; 1 | a token set of an earlier visit and its successor, which is what two tabs or two 401s can disagree about; a login and the one after it |
| `ClientStores`: `Keys`, `Items`, `MaxVersion`, `MaxActs`, `MaxOverlap` | 2; 2; 2; 4 in turn; 3 at once | a namespace and the one that the user left; an object in each, created, changed, deleted and listed; three requests suffice for a list, a mutation and a list that overtakes it |
| `Screens`: `Keys`, `MaxActs`, `MaxVer` | 2; 2; 3 | the key that was left and the one come to; open and confirm are one act each, a second submit of a form counts too; versions before, after and from elsewhere |
| `WorkspacePage`: `MaxClicks`, `MaxHasty`, `MaxPolls`, `MaxEvents`, `Life`, `MintEvery` | 2; 1; 2; 1; 3; 2 | Restart and Resize overlapping; two polls in flight to be answered out of order; three and two minutes keep the order of ten and nine |
| `ChatPage`: `MaxTurns`, `MaxChunks` | 3; 1 | a stream, its successor, and one after a stop of the first; one chunk to land astray |
| `AgentPage`: `MaxSessions`, `MaxAgentActs`, `MaxHastyActs`, `MaxJobs` | 2; 3; 2; 3 | a stored session and a created one; two overlapping runs and a deletion; hasty users under failures get two acts to keep the run in minutes |

Counters (`token`, `restarts`, `made`, `counter`) stop at their bound by a
guard of the action that increments them.  Symmetry is used in runs with
neither liveness properties nor constants that are told apart.  Deadlock
checking is off only where a behaviour ends by design: in `Publish` all ids may
be used up, in `AgentSessions` all turns done.

## Fairness

- `Components`: weak fairness of each goroutine's own steps (`Continue`): the
  Go scheduler runs it, Helm calls are made with `Wait = false` and return.
  Strong fairness of the steps that need `snapMu` (`Lock`): other requests may
  take it over and over, but a `sync.Mutex` hands over to a waiter that has
  starved for a millisecond.  No fairness of requests, expiry, restarts or the
  world outside.
- `OpenCodeConfig`: the same for the runner's mutex and its holders, and weak
  fairness of the kubelet (`Start`, `Load`, `Exit`): a container with
  `restartPolicy: Always` is started again, and a process that was sent a SIGTERM ends.  None
  for crashes, so that they stop is not assumed; `Converges` only says what an
  up sidecar runs.
- `SignIn`: weak fairness of each tab's `Progress`: effects run, requests are
  answered or fail, the browser follows a `location.assign`.  None of the
  user, of the provider's decisions or of expiry: the identity provider's page may
  be left open for ever, which `Settles` counts as settled.
- `ClientStores`, `Screens`: a request that was sent is answered or fails
  (`fetch` settles); the user need not do anything.
- `AgentPagesFairness`: as long as its page is mounted the poll's timer fires,
  requests of each kind are answered, a pod becomes ready, a stream goes on or
  ends.  The conjuncts are separate because an endless poll must not stand
  for the answer to another request.
- The other modules state safety only.

## Proofs

Proved by TLAPS for every value of the constants that satisfies the module's
named assumption (`PublishAssumption`, `ComponentsAssumption`,
`WorkspaceAssumption`, `WorkspacePageAssumption`, `ConfigAssumption`,
`ChatPageAssumption`, `AgentPageAssumption`, `SessionsAssumption`,
`LFSAssumption`, `SignInAssumption`, `StoresAssumption`,
`ScreensAssumption`), hence for any number
of users, ids, goroutines, tabs, objects and acts.  The assumptions say that
sentinels (`None`, `Same`) are neither ordinary values nor sets of them, that
subsets are subsets, that bounds are numbers, and that the page of the
workspace asks for a new grant before the old one has ended (`MintEvery <
Life`; nine minutes and ten in the code).  Some theorems have a hypothesis of
their own, named where they are described: `OneAtATime`, `ConsoleStores` and
`CarefulPanels`.

`InTurn` theorems are about a specification that chooses, once for each
behaviour, whether requests run one at a time (`inTurn` in `Components` and
`GitLabLFSTurns`), or about the worlds of one in which users wait.

| Module | Is about | Theorems |
|---|---|---|
| `PublishProofs` | `Publish`, `PublishReview` | `TypeCorrect`, `NamesStayUnique`, `OneCopyPerRequest`, `ApprovalIsFaithful`, `CatalogStaysPublic`, `RowsAndHandlersAgree`, `OnePending`, `SerialReviewsImplement` |
| `ComponentsProofs` | `Components` | `TypeCorrect`, `InstallingAlwaysOwned`, `SnapshotsSeeActions`, `InstalledAlwaysBackedInTurn`, `StatusReflectsActionsInTurn` |
| `AgentWorkspaceProofs` | `AgentWorkspace`, `WorkspacePage` | `TypeCorrect`, `PartsPresent`, `OnlyAsked`, `DeleteLeavesNothingAlone`, `PageAgrees`, `TypedTextStays` |
| `PlaygroundProofs` | `OpenCodeConfig`, `ChatPage`, `AgentPage` | `TypeCorrect`, `SidecarRunsFile`, `FileGetsCatalog`, `TurnsCovered`, `ChunksInPlace`, `AgentPageAgrees` |
| `AgentSessionsProofs` | `AgentSessions` | `TypeCorrect`, `NothingOutlivesItsSession`, `SameProvider`, `HistoryInherited` |
| `GitLabLFSProofs` | `GitLabLFS`, `GitLabLFSTurns` | `TypeCorrect`, `UploadsCanBeDownloaded`, `OkMeansMarked`, `PatternsSurviveInTurn` |
| `ConsoleProofs` | `SignIn`, `Screens`, `Pages` | `TypeCorrect`, `SeedsGoFirst`, `ConsolesHaveTokens`, `ErrorsAreEarned`, `CredentialsAreKept`; `PagesShowTheirOwn`, `PagesActOnTheirRows`, `PagesAreLatestInTurn`, `ConsolePagesAreCareful` |
| `ClientStoresProofs` | `ClientStores` | `TypeCorrect`, `OneRowAlways`, `MarkAlwaysBacked`, `LoadedAlwaysServed`, `FlagsAlwaysBacked`, `RowsCohereInTurn`, `RowsAlwaysConverge` |

Each defines an inductive invariant (`IInv`, and for later theorems one that
includes it or stands on it), proves that it holds initially and that each
action keeps it, one lemma per action or group of actions, and derives its
theorems with one temporal step.  None of the properties is inductive as it
stands; what is added is the argument:

- **Publish.**  What Approve records three store calls after its check is right
  only because its locals still agree with the rows they were read from.
  `PublishInv` says so: a copy carries its request's target and a public URI
  (`ModelHistory`), a request the URI of its private model (`RequestLinks`),
  and a handler at each program counter what it read (`CallLinks`) - as long as
  the rows exist, since they may be deleted meanwhile.

  `SerialReviewsImplement` is the refinement: `Spec => ReviewSpec`, under the mapping
  that hides a copy not yet recorded, `ASSUME OneAtATime` (memory
  stores and one handler).  Every step maps to a step of the review or to a
  stutter; `RecordApproval` is the one that maps to its approval.  It
  needs that the request a handler is about to decide is still pending, and
  that a pending request has no other copy (`SerialInv`).  The hypothesis is
  what the code needs: `publish_race_reject` is a counterexample for two
  handlers, and with Postgres a handler that is cut off after the copy leaves a
  published request pending.
- **Components.**  `SnapshotsSeeActions` needs `ScansSeeActions`, the same of
  the scans still running: a scan that began before a Helm call is cached after
  it, and it is the mutex that keeps the handler from passing its invalidation
  in between.  In turn (`TurnInv`) a scan that is applied shows the releases as
  knaic's own calls have left them (`UpToDate`), unless its Helm list failed, and then it
  shows none of them (`Empty`); and a handler knows at each step what its Helm call
  has done (`Knows`).
- **AgentWorkspace.**  `EnsureProgress` says which objects exist at each point
  of an Ensure; `FreshCopies` that a copy which is not stale equals the
  Deployment, hence a write that the API server accepts changes only the fields
  that it asks for; `DeleteProgress` that a Delete that runs alone has removed
  what is behind it.
- **WorkspacePage.**  `PageInv`: every answer says how the workspace is
  (`AnswersTell`), and phase, badge, grant and iframe follow it
  (`BadgeAgrees`, `GrantsWhenReady`); every revision is owed to a click or an event
  (`RevisionsCounted`).  With prompt answers one request is in flight and the
  cookie has more left than the next grant is away (`OneInFlight`); where also
  the old pod goes first and nobody else changes the Deployment, who has been told that the
  workspace runs has been told of the pod that is there (`PodsAreCurrent`).
- **OpenCodeConfig.**  The mutex has one holder, which alone is between `Lock`
  and `Unlock` (`LockHeld`); the hash is that of the file (`HashIsFile`); the
  snapshot of a goroutine about to write is of the catalog of now or followed
  by another (`SnapshotsFollowed`); and what a turn whose provider is unchanged
  still knows of it (`TurnsKnown`).
- **ChatPage.**  `ChatInv`: for a user who waits and a Stop that aborts at once
  there is one stream, and the last bubble is its reply's (`OneStream`); for any
  user Stop is offered only while a stream is not aborted.
- **AgentPage.**  `AgentInv` has three layers, each for weaker circumstances
  than the next.  Whatever happens, each message in the store is owed to an act
  and what the page shows has been there (`Paid`), and the one reading under
  way is of the selected session (`ReadsSelected`).  If no request fails, a
  trace that has events of another session is about to be replaced: a run or a
  reading is under way, or the session they are of has a run, or is gone
  (`TraceOwed`).  If the user also waits, there is one errand at a time, and the
  list, selection and store are what its stage says (`WaitsItOut`, `Stage`).
- **AgentSessions.**  The provider of a live session is remembered with its
  number, ids above the counter are free, and both are lost together with the
  memory store.  For `HistoryInherited` (`CalmInv`): a session has one turn in
  flight; the opencode session that its row names has seen all that was answered; a
  turn goes on in that session, which is created once and for a turn that has
  yet to ask.
- **GitLabLFS.**  A pointer on the branch, or about to be committed, has its
  content in the LFS store.  In turn, what an upload is about to write has
  every pattern that is there (`SawPatterns`), provided `.gitattributes` was
  read to its end: the request did not fail, the body was not cut off, and
  there are at most `Limit` lines.
- **SignIn.**  Until a document has shown the console (its demo data is in the
  stores) no page calls knaic-api and one function of `AuthProvider` is under way at
  most (`Orderly`); the rest follows from which one it is.  Afterwards that is
  so in worlds without bursts; with one tab and late answers a console either
  holds the stored token set or has dropped it (`Alone`).  For the errors: a
  callback is refused only in a document that has seen trouble (`Calm`), and
  for the codes: the logins that tabs have begun are their own (`LoginsApart`).
- **Screens.**  For any number of keys, acts and versions, and for every
  careful panel, of which the 62 are a few.  `PagesOK` starts from what is in
  flight.  Numbers: each act sends one request more at most, so a free number
  is left (`Numbered`).  Contents: a read that is still current is of the
  selected key, at most one is current where the effect cancels, and a mask is
  on as long as it is (`Held`); a fixed key stays (`Fixed`).  Operations: a
  request, and one that the open dialog or editor would send now, goes to the
  row's namespace (`RowsOK`); the requests of one act are of one row, and the
  open viewer's are of its own (`ViewersOK`).  A user who waits has one thing
  under way, and a dialog is busy exactly as long as its request is (`OneThing`);
  if besides nothing fails, answers and rows are the latest or a list is owed,
  and so is what forms were filled with (`Latest`).

  The hypothesis `CarefulPanels` says that the panels are `Careful`, and that a
  user waits for answers only once the namespaces are known.  Its clauses are
  what steps of the proof ask for; `ConsolePagesAreCareful` proves that the panels of `Pages`,
  with any of their operations, meet it, panel by panel.  A page that lists
  again from an effect that cancels, or that reads for a viewer from a form, is
  outside the theorems.
- **ClientStores.**  For every profile a store could have, not only the 26.
  For one row, a list in flight of a user who waits is alone; for what counts
  as loaded, a key leaves `loaded` before its list leaves `calls`.  In turn
  (`TurnInv`), what was read at the server is what the server has (`SawAll`) and
  a row that is out of date has a call that puts it right (`Mended`).  For
  `RowsAlwaysConverge`, where nobody waits, a list that arrives is right about
  each object or is not the last word (`ListsCatchUp`).  Its hypothesis
  `ConsoleStores` is that the stores are those of the console: one that listed again
  after each mutator and also asked for the status of each row would not
  converge, and none of the 26 does both (`StatusIsAdded`).

Type invariants of the modules with proofs are proved, and left out of their
runs; those of `Screens` and of the three pages are conjuncts of an
invariant that is run and proved (`ShowsItsOwn`, `WorkspacePageInv`, `ChatPageInv`,
`AgentPageInv`).

Only model-checked: liveness (`InstallingSettles`, `Converges`, `Settles`,
`PageFills`, `PanelSettles`, `PagesProgress`), which is out of the prover's
reach under fairness.  Every invariant and every action property of the runs
is stated by a theorem.
Proved and not run: the type invariants, that names stay unique, and that published
copies are public.

## Disagreements

The first is the run `publish_race_reject`, with the quotation in
`PROJECT.json`; each of the others has the configuration that it names and ends in a
counterexample of the one property there:

1. *Approve and Reject race* (`publish/service.go:183`): the status is checked in one store
   call and set in another; a request ends rejected and published.
2. *A Status undoes an install* (`components/detect.go:182`,
   `ComponentsRaceStatus.cfg`): a scan taken
   before an install is applied after it.
3. *A lost signal stays lost* (`playground/opencode_server.go:175`,
   `OpenCodeLostBounce.cfg`): the hash is remembered
   before the sidecar has been signalled.
4. *Provider ids are reused* (`playground/service.go:128`,
   `SessionsReusedId.cfg`): numbered from 1 in
   each process, while sessions in Postgres keep them.
5. *Patterns of `.gitattributes` get lost* (`aistorage/gitlab.go:711`,
   `GitLabLostPattern.cfg`): read, extended and written back without naming
   the commit that was read.
6. *A late 401 spoils the login it did not begin*
   (`frontend/src/auth/oidc.ts:67`, `SignInLateCall.cfg`): of several calls
   that are refused, the second removes the pending login, and the callback is
   taken for a foreign one; `frontend/README.md:47` has a refused call start a login.
7. *AI Storage swaps namespaces* (`frontend/src/data/aiStorage.ts:57`,
   `ClientStoresSwap.cfg`): the late list of a namespace that was left
   takes the place of the open one's, whose page then shows nothing, since the hooks
   (:34-47) only give out their own namespace's rows; the comment at :6 says that
   the cached value is never swapped.

The models show more, each seen as a counterexample when the condition named here is
dropped:

- An owner's withdrawal deletes a request that was decided after its check
  (`publish/service.go:205`).
- An approval that stops after the copy was made leaves a pending request
  whose next approval finds the name taken (`publish/service.go:163`).
- The Installing test of DetectOne reads a copy taken before the scan
  (`components/detect.go:136`): a Status started before an install overwrites
  the item while the install runs.
- A failed Helm list is taken for an empty cluster (`components/detect.go:86`
  stores `helmErr`, which nothing reads): `ReflectsActions` without its
  `helmErr` conjunct.
- Reconcile of a component that was detected in an operator's namespace marks it
  Failed, and a later Install goes to that namespace (`components/service.go:127`).
- An Ensure while the PVC of an earlier Delete terminates takes it for the new
  one (`agentworkspace/service.go:230`), although the comment at :110 has Ensure
  create what is missing: `LiveDeploymentHasParts` without its condition.
- Two overlapping first turns of a session have an opencode session created each
  (`playground/opencode_server.go:266`): `HistoryKept` with `"overlap"`.  A
  new pod forgets a session whose id is stored: `HistoryKept` with `"new-pods"`,
  against `agent_types.go:81`.
- Any error of reading `.gitattributes` is taken for an empty file
  (`aistorage/gitlab.go:713`), and POST-then-PUT writes one without the earlier
  patterns: `PatternsKept` with `"readAttrs"` in `Failing`.
- An upload that runs alone truncates a `.gitattributes` of more than 64 KiB: it
  writes back the part it has read (`aistorage/gitlab.go:715,723`).  So does one
  whose read is cut off, since the error is dropped: `KeepsPatterns` without
  `Len(attrs) <= Limit`, and `PatternsKept` as above, against "appends" at :705.
- An upload whose `.gitattributes` fails answers with an error
  (`aistorage/gitlab.go:471`), where the comment at :705 calls that step best effort.
- An empty file uploaded as LFS is never downloaded (`aistorage/gitlab.go:751`
  takes size 0 for no pointer, against the comment at :757): `FilesDownload`
  without its exception.

Read in the code and not in a model: `Ready` of the sidecar runner and
`SetTotals` of the registry are never called; grants are signed with a secret of the
process and end with it; the frontend asks for
`/api/v1/components/status?name=` where the router has `/{name}/status`.

## Hazards that no property covers

`PROJECT.json` lists the hazards that properties are about.  Those found in the
code beside them, and why they have none:

- *Backend, in a modelled component, where the code plainly does it:* a failed Helm list is
  taken for an empty cluster (`components/detect.go:86`), a Status overwrites
  an item that is being installed (`detect.go:136`), overlapping actions on one
  item (`components/service.go:65`); an unreadable `.gitattributes` is taken
  for an empty one (`aistorage/gitlab.go:713`), and a long one is cut to 64 KiB
  (`:715`); nobody waits for the sidecar to
  come up (`opencode_server.go:128`, `:487`), overlapping first turns create two
  opencode sessions (`:266`), the storing of an id fails unnoticed (`:287`); an
  approval that stops half way (`publish/service.go:163`); an Ensure meets what
  an earlier Delete is still removing (`agentworkspace/service.go:230`).  The models
  have these steps; a property would be false, and the conditions of the
  properties that are stated name them.
- *Backend, in a part that is not modelled:* a Secret is deleted though taking
  it off its ServiceAccount failed (`aistorage/s3.go:159`); an edit of a GPU
  profile that overlaps a deletion makes it anew (`gpu/profiles.go:206`); stop,
  resume and edit write back the object they read
  (`inference/service.go:308`); objects of an AI gateway are created in turn
  (`inference/gateway.go:600`); the older of two lists of admins may be cached
  last (`auth/admin.go:108`); a user's request writes IsPlatformAdmin over what
  an administrator set (`admin/service.go:579`); a seed that stopped half way
  is not continued (`models/seed.go:78`); a list of models is cached after the
  change of its provider (`playground/service.go:439`); Patch does not refuse
  a name that is taken (`storage/store.go:190`).
- *Frontend:* Reconcile marks the row and does not catch its failure
  (`data/components.ts:308`), and a reload during a load is given the old
  promise (`data/localModelCache.ts:59`): `MarkIsBacked` and
  `ReloadsConverge` except them.  Not in the model: the downloads that are
  added to a total of the store's (`data/models.ts:283`), the replacement of
  the cluster's providers (`data/playground.ts:89`), the fields that an edited
  Deployment loses (`data/workloads.ts:410`).

## Not modelled

- Rendering, parsing, templates and charts, HTTP details, logging: properties
  do not depend on them.  Model ids, blobs and patterns are model values.
- `models.Patch` (readme, tags, download counts) and `PatchVersion` of
  components: no property reads what they change.
- Of the backend: S3 credentials and PVC viewers, GPU profiles, inference
  services, gateways and model caches, training, notebooks, administration,
  collections and seed, storage targets, the admin resolver.  Their pages and
  client-side stores are modelled; their handlers are one to three requests over
  Kubernetes objects, or a map under a mutex.
- The reverse proxy of the workspace, the forwarding of chats, provider
  discovery, the resource browser, monitoring, the authorizer: single requests
  with no state between them.
- The opencode command-line runner, which replaces the sidecar in development:
  one process per turn and nothing kept.
- Of the frontend: the prototype without a backend, except as the circumstance
  "offline" of the stores and the chat; fields, columns, filters, wording and
  layout of pages; a log viewer's stream; the choice of provider, skills and
  parameters in the playground; fixtures.

## Plan

In this order, each with its runs and, where it says so, its theorems:

1. `Resources`: the handlers that are a sequence of requests over Kubernetes
   objects (S3 credentials, PVC viewers, GPU profiles, inference services, AI
   gateways, model cache, notebooks, training jobs, namespaces with quota and
   bindings): partial failure, stale copies, objects left behind.  One abstract
   store of objects with resourceVersions, one module per family of handlers
   over it.
2. `Users` and `AdminResolver`: Observe against Patch, the cached list of
   admins with overlapping refreshes.
3. Pure algorithms as operators: the projections of `k8sres`, quantities and GPU
   shares in `gpu` and `monitoring`, against reference definitions.

The runs stay few (a dozen) and the modules broad, so that each run asks about
a whole family of handlers, stores or pages.
