----------------------------- MODULE Components -----------------------------
(***************************************************************************)
(* The component catalog: an in-memory table of the platform's add-ons     *)
(* (KServe, ...), the handlers that install, uninstall and upgrade them    *)
(* with Helm, and the detector that reads their state off the cluster      *)
(* through a 5-second snapshot cache.                                      *)
(* Source: backend/internal/components.                                    *)
(*                                                                         *)
(* A handler goroutine is SEVERAL critical sections: Store methods hold    *)
(* the store's mutex, a scan holds snapMu from its first list call to the  *)
(* moment it is cached, Helm calls hold neither.  calls[c] is goroutine c  *)
(* with its program counter and the copy of the component it works on.     *)
(***************************************************************************)
EXTENDS Naturals, FiniteSets

CONSTANTS
    Builtin,     \* catalog entries
    Embedded,    \* those whose chart is compiled in (charts.Has)
    Importable,  \* names an admin may import
    SystemNs,    \* systemNamespace, where installs go by default
    ForeignNs,   \* namespaces where others install operators and charts
    Calls,       \* bound: requests in flight at once
    None         \* no namespace, no snapshot, no component

Names      == Builtin \cup Importable
Namespaces == {SystemNs} \cup ForeignNs

ASSUME ComponentsAssumption ==
    /\ Embedded \subseteq Builtin
    /\ Builtin \cap Importable = {}
    /\ None \notin Names \cup Namespaces

VARIABLES
    items,     \* Store.items
    releases,  \* the releases called knaic-<name>, per name and namespace
    manual,    \* where somebody else's release of the chart is, or None
    csv,       \* where a matching OLM ClusterServiceVersion is, or None
    snap,      \* Detector.snap, None when missing or expired
    calls,     \* the handlers in flight
    inTurn     \* whether requests run one at a time, in this behaviour

cluster == <<releases, manual, csv>>
vars == <<items, cluster, snap, calls>>

Item == [status    : {"Absent", "NotInstalled", "Installing", "Installed", "Failed"},
         ns        : Namespaces,
         managedBy : {"", "knaic", "OLM", "manual"}]

\* What one scan lists: matches are by chart name, aliases included.  helmErr
\* and csvErr are stored and not read; the properties look at the first.
Snapshot == [helmErr : BOOLEAN,
             knaic  : [Names -> SUBSET Namespaces],
             manual : [Names -> ForeignNs \cup {None}],
             csv    : [Names -> ForeignNs \cup {None}]]

\* "installed": there, its Install reported success.  "leftover": there, its
\* Install reported an error.  "gone": it vanished other than by a successful
\* Uninstall.  "none": never installed, or uninstalled.
ReleaseState == {"none", "installed", "leftover", "gone"}

\* skip: the copy's status was Installing when DetectOne read it.
Call == [at   : {"idle", "mark", "helm", "invalidate", "finish", "fail",
                 "snapshot", "listed", "apply"},
         op   : {"", "install", "uninstall", "reconcile", "status"},
         comp : Names \cup {None},
         ns   : Namespaces,
         skip : BOOLEAN,
         seen : Snapshot]

NoHits == [helmErr |-> FALSE,
           knaic  |-> [n \in Names |-> {}],
           manual |-> [n \in Names |-> None],
           csv    |-> [n \in Names |-> None]]

IdleCall == [at |-> "idle", op |-> "", comp |-> None, ns |-> SystemNs,
             skip |-> FALSE, seen |-> NoHits]

Entry(status) == [status |-> status, ns |-> SystemNs, managedBy |-> ""]

Catalog == [n \in Names |-> Entry(IF n \in Builtin THEN "NotInstalled" ELSE "Absent")]

TypeOK ==
    /\ items \in [Names -> Item]
    /\ releases \in [Names \X Namespaces -> ReleaseState]
    /\ manual \in [Names -> ForeignNs \cup {None}]
    /\ csv \in [Names -> ForeignNs \cup {None}]
    /\ snap \in Snapshot \cup {None}
    /\ calls \in [Calls -> Call]

\* A cold store over a cluster nobody has touched yet.
Init ==
    /\ items = Catalog
    /\ releases = [r \in Names \X Namespaces |-> "none"]
    /\ manual = [n \in Names |-> None]
    /\ csv = [n \in Names |-> None]
    /\ snap = None
    /\ calls = [c \in Calls |-> IdleCall]

-----------------------------------------------------------------------------
(* Install, Uninstall, Reconcile *)

Present(n) == items[n].status # "Absent"
Released(n, ns) == releases[<<n, ns>>] \in {"installed", "leftover"}

Goto(c, at) == calls' = [calls EXCEPT ![c] = [@ EXCEPT !.at = at]]
Return(c)   == calls' = [calls EXCEPT ![c] = IdleCall]

\* Store.Update: nothing happens to a name that is no longer there.
Update(n, item) == items' = IF Present(n) THEN [items EXCEPT ![n] = item] ELSE items

\* The guards read the copy Store.Get returns; the namespace it holds is the
\* one the Helm call will use.
Start(c, op, n, at) ==
    /\ calls[c].at = "idle"
    /\ calls' = [calls EXCEPT ![c] =
                    [IdleCall EXCEPT !.at = at, !.op = op, !.comp = n,
                                     !.ns = items[n].ns]]
    /\ UNCHANGED <<items, cluster, snap>>

BeginInstall(c, n) ==
    /\ items[n].status \notin {"Absent", "Installed"}
    /\ n \in Embedded
    /\ Start(c, "install", n, "mark")

BeginUninstall(c, n) ==
    /\ items[n].status = "Installed"
    /\ items[n].managedBy = "knaic"
    /\ Start(c, "uninstall", n, "mark")

\* Reconcile does not mark the item Installing.
BeginReconcile(c, n) ==
    /\ items[n].status = "Installed"
    /\ n \in Embedded
    /\ Start(c, "reconcile", n, "helm")

MarkInstalling(c) ==
    /\ calls[c].at = "mark"
    /\ LET n == calls[c].comp IN Update(n, [items[n] EXCEPT !.status = "Installing"])
    /\ Goto(c, "helm")
    /\ UNCHANGED <<cluster, snap>>

SetRelease(c, state) ==
    releases' = [releases EXCEPT ![<<calls[c].comp, calls[c].ns>>] = state]

\* helm install: refuses a name in use; fails with or without a release left.
HelmInstall(c) ==
    /\ calls[c].at = "helm" /\ calls[c].op = "install"
    /\ \/ /\ ~Released(calls[c].comp, calls[c].ns)
          /\ SetRelease(c, "installed")
          /\ Goto(c, "invalidate")
       \/ /\ ~Released(calls[c].comp, calls[c].ns)
          /\ SetRelease(c, "leftover")
          /\ Goto(c, "fail")
       \/ UNCHANGED releases /\ Goto(c, "fail")
    /\ UNCHANGED <<items, manual, csv, snap>>

\* helm uninstall: an error may come after the release record was purged.
HelmUninstall(c) ==
    /\ calls[c].at = "helm" /\ calls[c].op = "uninstall"
    /\ \/ /\ Released(calls[c].comp, calls[c].ns)
          /\ SetRelease(c, "none")
          /\ Goto(c, "invalidate")
       \/ /\ Released(calls[c].comp, calls[c].ns)
          /\ SetRelease(c, "gone")
          /\ Goto(c, "fail")
       \/ UNCHANGED releases /\ Goto(c, "fail")
    /\ UNCHANGED <<items, manual, csv, snap>>

\* helm upgrade without --install: the release must exist, and stays.
HelmUpgrade(c) ==
    /\ calls[c].at = "helm" /\ calls[c].op = "reconcile"
    /\ \/ Released(calls[c].comp, calls[c].ns) /\ Goto(c, "finish")
       \/ Goto(c, "fail")
    /\ UNCHANGED <<items, cluster, snap>>

\* A scan holds snapMu between its two list calls.
ScanRunning == \E c \in Calls : calls[c].at = "listed"

\* Mutant: forgets to drop the snapshot.
InvalidateNothing(c) ==
    /\ calls[c].at = "invalidate"
    /\ ~ScanRunning
    /\ Goto(c, "finish")
    /\ UNCHANGED <<items, cluster, snap>>

\* invalidateSnapshot, after a Helm call that succeeded.
Invalidate(c) ==
    /\ calls[c].at = "invalidate"
    /\ ~ScanRunning
    /\ snap' = None
    /\ Goto(c, "finish")
    /\ UNCHANGED <<items, cluster>>

Outcome(call) ==
    LET old == items[call.comp] IN
    CASE call.op = "install"   -> [status |-> "Installed", ns |-> call.ns,
                                   managedBy |-> "knaic"]
      [] call.op = "uninstall" -> [old EXCEPT !.status = "NotInstalled",
                                              !.managedBy = ""]
      [] OTHER                 -> [old EXCEPT !.status = "Installed"]

Finish(c) ==
    /\ calls[c].at = "finish"
    /\ Update(calls[c].comp, Outcome(calls[c]))
    /\ Return(c)
    /\ UNCHANGED <<cluster, snap>>

\* Mutant: an error path that returns without settling the status.
FailSilently(c) ==
    /\ calls[c].at = "fail"
    /\ Return(c)
    /\ UNCHANGED <<items, cluster, snap>>

Fail(c) ==
    /\ calls[c].at = "fail"
    /\ LET n == calls[c].comp IN Update(n, [items[n] EXCEPT !.status = "Failed"])
    /\ Return(c)
    /\ UNCHANGED <<cluster, snap>>

-----------------------------------------------------------------------------
(* Status: DetectOne and the snapshot cache *)

BeginStatus(c, n) ==
    /\ calls[c].at = "idle"
    /\ Present(n)
    /\ calls' = [calls EXCEPT ![c] =
                    [IdleCall EXCEPT !.at = "snapshot", !.op = "status", !.comp = n,
                                     !.skip = (items[n].status = "Installing")]]
    /\ UNCHANGED <<items, cluster, snap>>

UseCached(c) ==
    /\ calls[c].at = "snapshot"
    /\ ~ScanRunning
    /\ snap # None
    /\ calls' = [calls EXCEPT ![c] = [@ EXCEPT !.at = "apply", !.seen = snap]]
    /\ UNCHANGED <<items, cluster, snap>>

\* Mutant: lists the system namespace only.
ListSystemReleases(c) ==
    /\ calls[c].at = "snapshot"
    /\ ~ScanRunning
    /\ snap = None
    /\ calls' = [calls EXCEPT ![c] =
            [@ EXCEPT !.at = "listed",
                      !.seen = [NoHits EXCEPT
                        !.knaic = [n \in Names |-> {ns \in {SystemNs} : Released(n, ns)}],
                        !.manual = manual]]]
    /\ UNCHANGED <<items, cluster, snap>>

\* helm list --all --all-namespaces; an error leaves the index empty.
ListReleases(c) ==
    /\ calls[c].at = "snapshot"
    /\ ~ScanRunning
    /\ snap = None
    /\ \E failed \in BOOLEAN :
        calls' = [calls EXCEPT ![c] =
            [@ EXCEPT !.at = "listed",
                      !.seen = IF failed THEN [NoHits EXCEPT !.helmErr = TRUE] ELSE
                        [NoHits EXCEPT
                            !.knaic = [n \in Names |-> {ns \in Namespaces : Released(n, ns)}],
                            !.manual = manual]]]
    /\ UNCHANGED <<items, cluster, snap>>

\* The CSV list, then the scan is cached, errors and all.
ListCSVs(c) ==
    /\ calls[c].at = "listed"
    /\ \E failed \in BOOLEAN :
        LET hits == IF failed THEN NoHits.csv ELSE csv
            seen == [calls[c].seen EXCEPT !.csv = hits]
        IN /\ snap' = seen
           /\ calls' = [calls EXCEPT ![c] = [@ EXCEPT !.at = "apply", !.seen = seen]]
    /\ UNCHANGED <<items, cluster>>

\* The detector's priorities: OLM, then knaic's release, then any other.
Detected(n, seen, item) ==
    \/ /\ seen.csv[n] # None
       /\ item = [status |-> "Installed", ns |-> seen.csv[n], managedBy |-> "OLM"]
    \/ /\ seen.csv[n] = None
       /\ \E ns \in seen.knaic[n] :
            item = [status |-> "Installed", ns |-> ns, managedBy |-> "knaic"]
    \/ /\ seen.csv[n] = None /\ seen.knaic[n] = {}
       /\ seen.manual[n] # None
       /\ item = [status |-> "Installed", ns |-> seen.manual[n], managedBy |-> "manual"]
    \/ /\ seen.csv[n] = None /\ seen.knaic[n] = {} /\ seen.manual[n] = None
       /\ item = Entry("NotInstalled")

\* DetectOne leaves an item alone if it was Installing WHEN IT WAS READ.
Apply(c) ==
    /\ calls[c].at = "apply"
    /\ \/ calls[c].skip /\ UNCHANGED items
       \/ /\ ~calls[c].skip
          /\ \E item \in Item : /\ Detected(calls[c].comp, calls[c].seen, item)
                                /\ Update(calls[c].comp, item)
    /\ Return(c)
    /\ UNCHANGED <<cluster, snap>>

\* snapTTL has passed; a scan under way writes its own expiry.
Expire ==
    /\ snap # None
    /\ snap' = None
    /\ UNCHANGED <<items, cluster, calls>>

-----------------------------------------------------------------------------
(* Import, Remove; the world outside *)

Import(n, ns) ==
    /\ n \in Importable
    /\ ~Present(n)
    /\ items' = [items EXCEPT ![n] = [Entry("NotInstalled") EXCEPT !.ns = ns]]
    /\ UNCHANGED <<cluster, snap, calls>>

Remove(n) ==
    /\ n \in Importable
    /\ Present(n)
    /\ items' = [items EXCEPT ![n] = Entry("Absent")]
    /\ UNCHANGED <<cluster, snap, calls>>

\* Others install and remove their own charts and operators.
OthersInstall(n) ==
    /\ \/ /\ \E ns \in ForeignNs : manual' = [manual EXCEPT ![n] = ns]
          /\ UNCHANGED csv
       \/ /\ \E ns \in ForeignNs : csv' = [csv EXCEPT ![n] = ns]
          /\ UNCHANGED manual
    /\ UNCHANGED <<items, releases, snap, calls>>

OthersRemove(n) ==
    /\ \/ manual' = [manual EXCEPT ![n] = None] /\ UNCHANGED <<releases, csv>>
       \/ csv' = [csv EXCEPT ![n] = None] /\ UNCHANGED <<releases, manual>>
       \/ /\ \E ns \in Namespaces :
                /\ Released(n, ns)
                /\ releases' = [releases EXCEPT ![<<n, ns>>] = "gone"]
          /\ UNCHANGED <<manual, csv>>
    /\ UNCHANGED <<items, snap, calls>>

\* The backend restarts: a cold store, the cluster as it was.
Restart ==
    /\ items' = Catalog
    /\ snap' = None
    /\ calls' = [c \in Calls |-> IdleCall]
    /\ UNCHANGED cluster

-----------------------------------------------------------------------------

Begin(c, n) ==
    \/ BeginInstall(c, n)
    \/ BeginUninstall(c, n)
    \/ BeginReconcile(c, n)
    \/ BeginStatus(c, n)

Continue(c) ==
    \/ MarkInstalling(c)
    \/ HelmInstall(c)
    \/ HelmUninstall(c)
    \/ HelmUpgrade(c)
    \/ Finish(c)
    \/ Fail(c)
    \/ ListCSVs(c)
    \/ Apply(c)

Lock(c) ==
    \/ Invalidate(c)
    \/ UseCached(c)
    \/ ListReleases(c)

Outside(n) ==
    \/ \E ns \in Namespaces : Import(n, ns)
    \/ Remove(n)
    \/ OthersInstall(n)
    \/ OthersRemove(n)

Next ==
    \/ \E c \in Calls, n \in Names : Begin(c, n)
    \/ \E c \in Calls : Continue(c) \/ Lock(c)
    \/ \E n \in Names : Outside(n)
    \/ Expire
    \/ Restart

Spec == Init /\ [][Next]_vars

\* Goroutines are scheduled and Helm calls (Wait = false) return; a goroutine
\* that waits for snapMu gets it in the end, as sync.Mutex starves nobody.
Fairness == \A c \in Calls : WF_vars(Continue(c)) /\ SF_vars(Lock(c))

\* The handlers that have not returned.
Busy == {c \in Calls : calls[c].at # "idle"}

\* A console whose user waits for each request, or one whose users do not.
TurnInit == Init /\ inTurn \in BOOLEAN

TurnNext ==
    /\ Next
    /\ inTurn => \A c, d \in Busy' : c = d
    /\ UNCHANGED inTurn

TurnSpec == TurnInit /\ [][TurnNext]_<<vars, inTurn>>

-----------------------------------------------------------------------------
(* What holds in every interleaving *)

\* A handler runs for a named component; only install and uninstall mark it.
CallsNamed ==
    \A c \in Calls :
        /\ calls[c].at # "idle" => calls[c].comp \in Names
        /\ calls[c].at = "mark" => calls[c].op \in {"install", "uninstall"}

\* This handler has marked item n Installing and will settle it.
Owns(call, n) ==
    /\ call.comp = n
    /\ call.op \in {"install", "uninstall"}
    /\ call.at \in {"helm", "invalidate", "finish", "fail"}

\* An item is Installing only while the install or uninstall that set it is
\* still running: no order of handlers, detections, removals and restarts
\* strands it in the state the UI shows as busy.
InstallingIsOwned ==
    \A n \in Names : items[n].status = "Installing" =>
        \E c \in Calls : Owns(calls[c], n)

\* Goroutine c has changed this release and not yet dropped the snapshot.
Pending(op, n, ns) ==
    \E c \in Calls : /\ calls[c].at = "invalidate" /\ calls[c].op = op
                     /\ calls[c].comp = n /\ calls[c].ns = ns

\* A scan agrees with what knaic's own successful Helm calls did.
Agrees(knaic) ==
    \A n \in Names, ns \in Namespaces :
        /\ releases[<<n, ns>>] = "installed" /\ ns \notin knaic[n]
            => Pending("install", n, ns)
        /\ releases[<<n, ns>>] = "none" /\ ns \in knaic[n]
            => Pending("uninstall", n, ns)

\* "Called after install/uninstall so the user sees their action reflected
\* immediately": once a successful handler is past invalidateSnapshot, no
\* cached scan predates it, although a scan may straddle the Helm call.
SnapshotSeesActions ==
    snap # None /\ ~snap.helmErr => Agrees(snap.knaic)

\* With the scans that still run: the inductive form.
ScansSeeActions ==
    /\ SnapshotSeesActions
    /\ \A c \in Calls : calls[c].at = "listed" /\ ~calls[c].seen.helmErr =>
                            Agrees(calls[c].seen.knaic)

-----------------------------------------------------------------------------
(* What holds when requests do not overlap *)

\* No install, uninstall or upgrade of this component is in flight.
Settled(n) ==
    \A c \in Calls : calls[c].comp = n => calls[c].op = "status"

\* "so the user sees their action reflected immediately", "the Helm release
\* state on the cluster is the source of truth": once its handlers are done, a
\* Status request that could list the releases never reports a component gone
\* whose Install succeeded and whose release is there, nor installed by knaic
\* one it has uninstalled.
ReflectsActions ==
    \A c \in Calls :
        LET n == calls[c].comp IN
        Apply(c) /\ ~calls[c].seen.helmErr /\ Settled(n) /\ items'[n] # items[n] =>
            /\ items'[n].status = "NotInstalled" =>
                \A ns \in Namespaces : releases[<<n, ns>>] # "installed"
            /\ items'[n].managedBy = "knaic" =>
                releases[<<n, items'[n].ns>>] # "none"

StatusReflectsActions == [][ReflectsActions]_vars

\* It does when requests run one at a time; a detection that straddles an
\* install or uninstall undoes what the handler wrote.
StatusReflectsInTurn == [][inTurn => ReflectsActions]_vars

\* A component shown as installed by knaic has, or lost behind knaic's back,
\* a release where it is said to be.
InstalledIsBacked ==
    \A n \in Names :
        /\ items[n].status = "Installed"
        /\ items[n].managedBy = "knaic"
        => releases[<<n, items[n].ns>>] # "none"

\* So it is when requests run one at a time, whatever others do in the cluster.
BackedInTurn == inTurn => InstalledIsBacked

-----------------------------------------------------------------------------

\* Installing is never the last word, whatever Helm answers and however the
\* detector's lock is contended.
InstallingSettles ==
    \A n \in Names :
        items[n].status = "Installing" ~> items[n].status # "Installing"

=============================================================================
