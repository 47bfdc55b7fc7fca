-------------------------- MODULE ComponentsProofs --------------------------
(* Proofs about Components, for any catalog, any namespaces and any number  *)
(* of overlapping requests.                                                 *)
EXTENDS Components, TLAPS

\* The inductive invariant.
IInv == TypeOK /\ CallsNamed /\ InstallingIsOwned /\ ScansSeeActions

-----------------------------------------------------------------------------
(* Types *)

\* The empty locals and the empty scan are well typed.
LEMMA IdleTypes == IdleCall \in Call /\ NoHits \in Snapshot
  BY DEF IdleCall, Call, NoHits, Snapshot, Names, Namespaces

\* A fresh catalog entry is an item.
LEMMA EntryTypes ==
    ASSUME NEW status \in {"Absent", "NotInstalled"}
    PROVE  Entry(status) \in Item
  BY DEF Entry, Item, Namespaces

\* A goroutine's locals, field by field.
LEMMA CallTypes ==
    ASSUME TypeOK, NEW c \in Calls
    PROVE  /\ calls[c] \in Call
           /\ calls[c].ns \in Namespaces
           /\ calls[c].seen \in Snapshot
  BY DEF TypeOK, Call

\* Moving the program counter changes nothing else.
LEMMA GotoTypes ==
    ASSUME NEW old \in Call,
           NEW at \in {"helm", "invalidate", "finish", "fail", "apply"},
           NEW k, k = [old EXCEPT !.at = at]
    PROVE  /\ k \in Call /\ k.at = at
           /\ k.op = old.op /\ k.comp = old.comp /\ k.ns = old.ns
  BY DEF Call

\* A goroutine that moves on keeps the types of the handlers' locals.
LEMMA MoveTypes ==
    ASSUME TypeOK, NEW c \in Calls, NEW k \in Call,
           calls' = [calls EXCEPT ![c] = k]
    PROVE  calls' \in [Calls -> Call]
  BY DEF TypeOK

\* Store.Update with an item keeps the type of the store.
LEMMA UpdateTypes ==
    ASSUME TypeOK, NEW n \in Names, NEW item \in Item, Update(n, item)
    PROVE  items' \in [Names -> Item]
  BY DEF TypeOK, Update

-----------------------------------------------------------------------------
(* Steps of one goroutine that touch neither the store nor the cluster *)

\* A goroutine with new locals k leaves the others alone; who owned an
\* Installing item still does, provided k owns what the old locals owned.
LEMMA OwnedKept ==
    ASSUME TypeOK, InstallingIsOwned, NEW c \in Calls, NEW k,
           calls' = [calls EXCEPT ![c] = k], UNCHANGED items,
           \A n \in Names : Owns(calls[c], n) => Owns(k, n)
    PROVE  InstallingIsOwned'
  <1>1. \A d \in Calls : calls'[d] = IF d = c THEN k ELSE calls[d]
    BY DEF TypeOK
  <1>2. \A n \in Names, d \in Calls : Owns(calls[d], n) => Owns(calls'[d], n)
    BY <1>1
  <1>3. QED
    BY <1>2 DEF InstallingIsOwned, Owns

\* A goroutine that is not about to invalidate and does not start a scan
\* leaves every scan in agreement with Helm.
LEMMA ScansKept ==
    ASSUME TypeOK, ScansSeeActions, NEW c \in Calls, NEW k,
           calls' = [calls EXCEPT ![c] = k], UNCHANGED <<releases, snap>>,
           calls[c].at # "invalidate", k.at # "listed"
    PROVE  ScansSeeActions'
  <1>1. \A d \in Calls : calls'[d] = IF d = c THEN k ELSE calls[d]
    BY DEF TypeOK
  <1>2. \A d \in Calls : calls[d].at = "invalidate" => calls'[d] = calls[d]
    BY <1>1
  <1>3. \A d \in Calls : calls'[d].at = "listed" => calls'[d] = calls[d]
    BY <1>1
  <1>4. QED
    BY <1>2, <1>3 DEF ScansSeeActions, SnapshotSeesActions, Agrees, Pending

\* New locals k that name a component keep CallsNamed.
LEMMA NamedKept ==
    ASSUME TypeOK, CallsNamed, NEW c \in Calls, NEW k,
           calls' = [calls EXCEPT ![c] = k],
           k.at # "idle" => k.comp \in Names,
           k.at = "mark" => k.op \in {"install", "uninstall"}
    PROVE  CallsNamed'
  BY DEF TypeOK, CallsNamed

\* All of the above, for a step that only moves goroutine c to locals k.
LEMMA LocalStep ==
    ASSUME IInv, NEW c \in Calls, NEW k \in Call,
           calls' = [calls EXCEPT ![c] = k], UNCHANGED <<items, cluster, snap>>,
           calls[c].at # "invalidate", k.at # "listed",
           k.at # "idle" => k.comp \in Names,
           k.at = "mark" => k.op \in {"install", "uninstall"},
           \A n \in Names : Owns(calls[c], n) => Owns(k, n)
    PROVE  IInv'
  <1>1. UNCHANGED <<releases, manual, csv>>
    BY DEF cluster
  <1>2. TypeOK'
    BY <1>1, MoveTypes DEF IInv, TypeOK
  <1>3. QED
    BY <1>1, <1>2, OwnedKept, ScansKept, NamedKept DEF IInv


\* A request begins: the goroutine takes a copy.
LEMMA BeginStep ==
    ASSUME IInv, NEW c \in Calls, NEW n \in Names, Begin(c, n)
    PROVE  IInv'
  <1>0. items[n].ns \in Namespaces
    BY DEF IInv, TypeOK, Item
  <1>1. ASSUME NEW op \in {"install", "uninstall", "reconcile"},
               NEW at \in {"mark", "helm"},
               at = "mark" => op \in {"install", "uninstall"},
               Start(c, op, n, at)
        PROVE  IInv'
    <2> DEFINE k == [IdleCall EXCEPT !.at = at, !.op = op, !.comp = n,
                                     !.ns = items[n].ns]
    <2>1. k \in Call /\ k.at = at /\ k.op = op /\ k.comp = n
      BY <1>0, IdleTypes DEF Call, IdleCall
    <2>2. calls' = [calls EXCEPT ![c] = k] /\ UNCHANGED <<items, cluster, snap>>
      BY <1>1 DEF Start
    <2>3. calls[c].at = "idle"
      BY <1>1 DEF Start
    <2>4. \A m \in Names : ~Owns(calls[c], m)
      BY <2>3 DEF Owns
    <2> HIDE DEF k
    <2>5. QED
      BY <1>1, <2>1, <2>2, <2>3, <2>4, LocalStep
  <1>2. ASSUME BeginStatus(c, n) PROVE IInv'
    <2> DEFINE k == [IdleCall EXCEPT !.at = "snapshot", !.op = "status", !.comp = n,
                                     !.skip = (items[n].status = "Installing")]
    <2>1. k \in Call /\ k.at = "snapshot" /\ k.comp = n
      BY IdleTypes DEF Call, IdleCall
    <2>2. calls' = [calls EXCEPT ![c] = k] /\ UNCHANGED <<items, cluster, snap>>
      BY <1>2 DEF BeginStatus
    <2>3. calls[c].at = "idle"
      BY <1>2 DEF BeginStatus
    <2>4. \A m \in Names : ~Owns(calls[c], m)
      BY <2>3 DEF Owns
    <2> HIDE DEF k
    <2>5. QED
      BY <2>1, <2>2, <2>3, <2>4, LocalStep
  <1>3. QED
    BY <1>1, <1>2 DEF Begin, BeginInstall, BeginUninstall, BeginReconcile

-----------------------------------------------------------------------------
(* Helm calls *)

\* A release that changes hands: only a success that is now pending may make
\* it "installed" or "none".
LEMMA HelmStep ==
    ASSUME IInv, NEW c \in Calls,
           HelmInstall(c) \/ HelmUninstall(c) \/ HelmUpgrade(c)
    PROVE  IInv'
  <1>0. /\ calls[c].at = "helm" /\ UNCHANGED <<items, manual, csv, snap>>
        /\ TypeOK /\ CallsNamed /\ InstallingIsOwned /\ ScansSeeActions
    BY DEF HelmInstall, HelmUninstall, HelmUpgrade, IInv, cluster
  <1>1. PICK at \in {"invalidate", "finish", "fail"} : Goto(c, at)
    BY DEF HelmInstall, HelmUninstall, HelmUpgrade
  <1> DEFINE k == [calls[c] EXCEPT !.at = at]
             r == <<calls[c].comp, calls[c].ns>>
  <1>2. /\ k \in Call /\ k.at = at /\ k.op = calls[c].op
        /\ k.comp = calls[c].comp /\ k.ns = calls[c].ns
    <2>1. calls[c] \in Call
      BY <1>0, CallTypes
    <2> HIDE DEF r
    <2>2. QED
      BY <2>1, GotoTypes
  <1>3. calls' = [calls EXCEPT ![c] = k]
    BY <1>1 DEF Goto
  <1>4. \A n \in Names : Owns(calls[c], n) => Owns(k, n)
    BY <1>2 DEF Owns
  <1>5. /\ releases' \in [Names \X Namespaces -> ReleaseState]
        /\ \A p \in Names \X Namespaces : p # r => releases'[p] = releases[p]
        /\ releases'[r] # releases[r] /\ releases'[r] = "installed"
             => k.at = "invalidate" /\ k.op = "install"
        /\ releases'[r] # releases[r] /\ releases'[r] = "none"
             => k.at = "invalidate" /\ k.op = "uninstall"
    <2>1. CASE UNCHANGED releases
      BY <2>1, <1>0 DEF TypeOK
    <2>2. r \in Names \X Namespaces
      BY <1>0, CallTypes DEF CallsNamed
    <2>3. ASSUME NEW state \in ReleaseState, SetRelease(c, state)
          PROVE  /\ releases' \in [Names \X Namespaces -> ReleaseState]
                 /\ \A p \in Names \X Namespaces : p # r => releases'[p] = releases[p]
                 /\ releases'[r] = state
      BY <1>0, <2>2, <2>3 DEF SetRelease, TypeOK
    <2>4. CASE HelmInstall(c)
      <3>1. \/ UNCHANGED releases
            \/ SetRelease(c, "installed") /\ Goto(c, "invalidate")
            \/ SetRelease(c, "leftover")
        BY <2>4 DEF HelmInstall
      <3>2. ASSUME Goto(c, "invalidate") PROVE at = "invalidate"
        BY <1>0, <1>1, <3>2 DEF Goto, TypeOK, Call
      <3>3. k.op = "install"
        BY <1>2, <2>4 DEF HelmInstall
      <3> HIDE DEF k, r
      <3>4. QED
        BY <1>2, <2>1, <2>3, <3>1, <3>2, <3>3 DEF ReleaseState
    <2>5. CASE HelmUninstall(c)
      <3>1. \/ UNCHANGED releases
            \/ SetRelease(c, "none") /\ Goto(c, "invalidate")
            \/ SetRelease(c, "gone")
        BY <2>5 DEF HelmUninstall
      <3>2. ASSUME Goto(c, "invalidate") PROVE at = "invalidate"
        BY <1>0, <1>1, <3>2 DEF Goto, TypeOK, Call
      <3>3. k.op = "uninstall"
        BY <1>2, <2>5 DEF HelmUninstall
      <3> HIDE DEF k, r
      <3>4. QED
        BY <1>2, <2>1, <2>3, <3>1, <3>2, <3>3 DEF ReleaseState
    <2>6. CASE HelmUpgrade(c)
      BY <2>1, <2>6 DEF HelmUpgrade, cluster
    <2>7. QED
      BY <2>4, <2>5, <2>6
  <1> HIDE DEF k
  <1>6. TypeOK'
    BY <1>0, <1>2, <1>3, <1>5, MoveTypes DEF TypeOK
  <1>7. CallsNamed' /\ InstallingIsOwned'
    BY <1>0, <1>2, <1>3, <1>4, NamedKept, OwnedKept DEF CallsNamed
  <1>8. ScansSeeActions'
    <2>1. \A d \in Calls : calls'[d] = IF d = c THEN k ELSE calls[d]
      BY <1>0, <1>3 DEF TypeOK
    <2>2. \A d \in Calls : calls[d].at = "invalidate" => calls'[d] = calls[d]
      BY <1>0, <2>1
    <2>3. \A d \in Calls : calls'[d].at = "listed" => calls'[d] = calls[d]
      BY <1>2, <2>1
    <2>4. ASSUME NEW knaic, Agrees(knaic), NEW n \in Names, NEW ns \in Namespaces
          PROVE  /\ releases'[<<n, ns>>] = "installed" /\ ns \notin knaic[n]
                      => Pending("install", n, ns)'
                 /\ releases'[<<n, ns>>] = "none" /\ ns \in knaic[n]
                      => Pending("uninstall", n, ns)'
      <3>1. CASE releases'[<<n, ns>>] = releases[<<n, ns>>]
        BY <2>2, <2>4, <3>1 DEF Agrees, Pending
      <3>2. CASE releases'[<<n, ns>>] # releases[<<n, ns>>]
        <4>1. n = calls[c].comp /\ ns = calls[c].ns
          BY <1>5, <3>2
        <4>2. QED
          BY <1>2, <1>5, <2>1, <3>2, <4>1 DEF Pending
      <3>3. QED
        BY <3>1, <3>2
    <2>5. SnapshotSeesActions'
      <3> SUFFICES ASSUME ~snap'.helmErr, snap' # None, NEW n \in Names,
                          NEW ns \in Namespaces
                   PROVE  /\ releases'[<<n, ns>>] = "installed" /\ ns \notin snap'.knaic[n]
                               => Pending("install", n, ns)'
                          /\ releases'[<<n, ns>>] = "none" /\ ns \in snap'.knaic[n]
                               => Pending("uninstall", n, ns)'
        BY DEF SnapshotSeesActions, Agrees, Pending
      <3>1. Agrees(snap.knaic)
        BY <1>0 DEF ScansSeeActions, SnapshotSeesActions
      <3>2. QED
        BY <1>0, <2>4, <3>1
    <2>6. ASSUME NEW d \in Calls, calls'[d].at = "listed", ~calls'[d].seen.helmErr
          PROVE  Agrees(calls[d].seen.knaic)'
      <3> SUFFICES ASSUME NEW n \in Names, NEW ns \in Namespaces
                   PROVE  /\ releases'[<<n, ns>>] = "installed"
                               /\ ns \notin calls'[d].seen.knaic[n]
                               => Pending("install", n, ns)'
                          /\ releases'[<<n, ns>>] = "none"
                               /\ ns \in calls'[d].seen.knaic[n]
                               => Pending("uninstall", n, ns)'
        BY DEF Agrees, Pending
      <3>1. calls'[d] = calls[d] /\ Agrees(calls[d].seen.knaic)
        BY <1>0, <2>3, <2>6 DEF ScansSeeActions
      <3>2. QED
        BY <2>4, <3>1
    <2>7. QED
      BY <2>5, <2>6 DEF ScansSeeActions
  <1>9. QED
    BY <1>6, <1>7, <1>8 DEF IInv

-----------------------------------------------------------------------------
(* Steps that write the store *)

\* A goroutine updates item n and moves to locals k: if it makes the item
\* Installing it owns it from then on, and it gives up only what it settles.
LEMMA StoreStep ==
    ASSUME IInv, NEW c \in Calls, NEW k \in Call, NEW n \in Names,
           NEW item \in Item,
           Update(n, item), calls' = [calls EXCEPT ![c] = k],
           UNCHANGED <<cluster, snap>>,
           calls[c].at # "invalidate", k.at \notin {"listed", "mark"},
           k.at # "idle" => k.comp \in Names,
           item.status = "Installing" => Owns(k, n),
           \A m \in Names \ {n} : Owns(calls[c], m) => Owns(k, m)
    PROVE  IInv'
  <1>1. UNCHANGED <<releases, manual, csv>>
    BY DEF cluster
  <1>2. TypeOK'
    BY <1>1, MoveTypes, UpdateTypes DEF IInv, TypeOK
  <1>3. CallsNamed' /\ ScansSeeActions'
    BY <1>1, ScansKept, NamedKept DEF IInv
  <1>4. InstallingIsOwned'
    <2>1. \A d \in Calls : calls'[d] = IF d = c THEN k ELSE calls[d]
      BY DEF IInv, TypeOK
    <2>2. \A m \in Names \ {n} : items'[m] = items[m]
      BY DEF IInv, TypeOK, Update
    <2>3. \A m \in Names \ {n}, d \in Calls : Owns(calls[d], m) => Owns(calls'[d], m)
      BY <2>1
    <2>4. items'[n].status = "Installing" => Owns(calls'[c], n)
      <3>1. Present(n) => items'[n] = item
        BY DEF IInv, TypeOK, Update
      <3>2. ~Present(n) => items'[n].status = "Absent"
        BY DEF Update, Present
      <3>3. QED
        BY <2>1, <3>1, <3>2
    <2>5. \A m \in Names \ {n} : items'[m].status = "Installing"
                                  => \E d \in Calls : Owns(calls'[d], m)
      BY <2>2, <2>3 DEF IInv, InstallingIsOwned
    <2>6. \A m \in Names : items'[m].status = "Installing"
                                  => \E d \in Calls : Owns(calls'[d], m)
      BY <2>4, <2>5
    <2>7. QED
      BY <2>6 DEF InstallingIsOwned, Owns
  <1>5. QED
    BY <1>2, <1>3, <1>4 DEF IInv

\* The writes of the handlers: marking, finishing and failing.
LEMMA HandlerStep ==
    ASSUME IInv, NEW c \in Calls, MarkInstalling(c) \/ Finish(c) \/ Fail(c)
    PROVE  IInv'
  <1> DEFINE n == calls[c].comp
  <1>0. /\ calls[c] \in Call /\ calls[c].ns \in Namespaces /\ n \in Names
        /\ items[n] \in Item
        /\ calls[c].at \in {"mark", "finish", "fail"}
    BY CallTypes DEF IInv, TypeOK, CallsNamed, MarkInstalling, Finish, Fail
  <1>1. \A m \in Names \ {n} : ~Owns(calls[c], m)
    BY DEF Owns
  <1>2. CASE MarkInstalling(c)
    <2> DEFINE k == [calls[c] EXCEPT !.at = "helm"]
               item == [items[n] EXCEPT !.status = "Installing"]
    <2>1. item \in Item
      BY <1>0 DEF Item
    <2>2. calls[c].op \in {"install", "uninstall"} /\ calls[c].at = "mark"
      BY <1>2 DEF IInv, CallsNamed, MarkInstalling
    <2>3. /\ k \in Call /\ k.at = "helm" /\ k.comp = n
          /\ k.op = calls[c].op
      BY <1>0, GotoTypes
    <2>4. Owns(k, n)
      BY <2>2, <2>3 DEF Owns
    <2>5. /\ Update(n, item) /\ calls' = [calls EXCEPT ![c] = k]
          /\ UNCHANGED <<cluster, snap>>
      BY <1>2 DEF MarkInstalling, Goto
    <2> HIDE DEF k, item, n
    <2>6. QED
      BY <1>0, <1>1, <2>1, <2>2, <2>3, <2>4, <2>5, StoreStep
  <1>3. ASSUME NEW item \in Item, item.status # "Installing",
               Update(n, item), Return(c), UNCHANGED <<cluster, snap>>
        PROVE  IInv'
    <2>1. IdleCall \in Call /\ IdleCall.at = "idle"
      BY IdleTypes DEF IdleCall
    <2>2. calls' = [calls EXCEPT ![c] = IdleCall]
      BY <1>3 DEF Return
    <2> HIDE DEF n
    <2>3. QED
      BY <1>0, <1>1, <1>3, <2>1, <2>2, StoreStep
  <1>4. CASE Finish(c)
    <2>1. Outcome(calls[c]) \in Item /\ Outcome(calls[c]).status # "Installing"
      BY <1>0 DEF Outcome, Item
    <2>2. QED
      BY <1>3, <1>4, <2>1 DEF Finish
  <1>5. CASE Fail(c)
    <2>1. /\ [items[n] EXCEPT !.status = "Failed"] \in Item
          /\ [items[n] EXCEPT !.status = "Failed"].status = "Failed"
      BY <1>0 DEF Item
    <2>2. QED
      BY <1>3, <1>5, <2>1 DEF Fail
  <1>6. QED
    BY <1>2, <1>4, <1>5

\* Detection never results in Installing.
LEMMA DetectedStatus ==
    ASSUME NEW n, NEW seen, NEW item, Detected(n, seen, item)
    PROVE  item.status # "Installing"
  <1>1. ASSUME NEW ns, NEW by, NEW status \in {"Installed", "NotInstalled"},
               item = [status |-> status, ns |-> ns, managedBy |-> by]
        PROVE  item.status # "Installing"
    BY <1>1
  <1>2. QED
    BY <1>1 DEF Detected, Entry

\* A detection is a write of the store that never claims an item.
LEMMA ApplyStep ==
    ASSUME IInv, NEW c \in Calls, Apply(c)
    PROVE  IInv'
  <1> DEFINE n == calls[c].comp
  <1>1. /\ n \in Names /\ calls[c].at = "apply" /\ UNCHANGED <<cluster, snap>>
    BY DEF IInv, CallsNamed, Apply
  <1>2. IdleCall \in Call /\ IdleCall.at = "idle"
    BY IdleTypes DEF IdleCall
  <1>3. calls' = [calls EXCEPT ![c] = IdleCall]
    BY DEF Apply, Return
  <1>4. \A m \in Names : ~Owns(calls[c], m)
    BY <1>1 DEF Owns
  <1>5. CASE UNCHANGED items
    BY <1>1, <1>2, <1>3, <1>4, <1>5, LocalStep
  <1>6. ASSUME NEW item \in Item, Detected(n, calls[c].seen, item), Update(n, item)
        PROVE  IInv'
    <2>1. item.status # "Installing"
      BY <1>6, DetectedStatus
    <2> HIDE DEF n
    <2>2. QED
      BY <1>1, <1>2, <1>3, <1>4, <1>6, <2>1, StoreStep
  <1>7. QED
    BY <1>5, <1>6 DEF Apply

-----------------------------------------------------------------------------
(* The snapshot cache *)

\* While no release changes and nobody invalidates, what agreed still does.
LEMMA StillAgrees ==
    ASSUME UNCHANGED releases,
           \A d \in Calls : calls[d].at = "invalidate" => calls'[d] = calls[d],
           NEW knaic, Agrees(knaic), NEW n \in Names, NEW ns \in Namespaces
    PROVE  /\ releases'[<<n, ns>>] = "installed" /\ ns \notin knaic[n]
                => Pending("install", n, ns)'
           /\ releases'[<<n, ns>>] = "none" /\ ns \in knaic[n]
                => Pending("uninstall", n, ns)'
  <1>1. ASSUME NEW op, Pending(op, n, ns) PROVE Pending(op, n, ns)'
    BY <1>1 DEF Pending
  <1>2. releases'[<<n, ns>>] = releases[<<n, ns>>]
    OBVIOUS
  <1>3. /\ releases[<<n, ns>>] = "installed" /\ ns \notin knaic[n]
             => Pending("install", n, ns)
        /\ releases[<<n, ns>>] = "none" /\ ns \in knaic[n]
             => Pending("uninstall", n, ns)
    BY DEF Agrees
  <1>4. QED
    BY <1>1, <1>2, <1>3

\* What the invalidation, a scan and a cached read do to the invariant.
LEMMA SnapshotStep ==
    ASSUME IInv, NEW c \in Calls,
           Invalidate(c) \/ UseCached(c) \/ ListReleases(c) \/ ListCSVs(c)
    PROVE  IInv'
  <1>0. /\ TypeOK /\ CallsNamed /\ InstallingIsOwned /\ ScansSeeActions
        /\ calls[c] \in Call /\ calls[c].seen \in Snapshot
        /\ UNCHANGED <<items, releases, manual, csv>>
    BY CallTypes DEF IInv, cluster, Invalidate, UseCached, ListReleases, ListCSVs
  <1>1. CASE Invalidate(c)
    <2> DEFINE k == [calls[c] EXCEPT !.at = "finish"]
    <2>1. /\ k \in Call /\ k.at = "finish" /\ k.comp = calls[c].comp
          /\ k.op = calls[c].op
      BY <1>0, GotoTypes
    <2>2. /\ calls' = [calls EXCEPT ![c] = k] /\ snap' = None
          /\ calls[c].at = "invalidate"
          /\ \A d \in Calls : calls[d].at # "listed"
      BY <1>1 DEF Invalidate, Goto, ScanRunning
    <2>3. \A n \in Names : Owns(calls[c], n) => Owns(k, n)
      BY <2>1, <2>2 DEF Owns
    <2> HIDE DEF k
    <2>4. TypeOK'
      BY <1>0, <2>1, <2>2, MoveTypes DEF TypeOK
    <2>5. CallsNamed' /\ InstallingIsOwned'
      BY <1>0, <2>1, <2>2, <2>3, NamedKept, OwnedKept DEF CallsNamed
    <2>6. \A d \in Calls : calls'[d].at # "listed"
      BY <1>0, <2>1, <2>2 DEF TypeOK
    <2>7. ScansSeeActions'
      BY <2>2, <2>6 DEF ScansSeeActions, SnapshotSeesActions
    <2>8. QED
      BY <2>4, <2>5, <2>7 DEF IInv
  <1>2. CASE UseCached(c)
    <2> DEFINE k == [calls[c] EXCEPT !.at = "apply", !.seen = snap]
    <2>1. snap \in Snapshot
      BY <1>0, <1>2 DEF UseCached, TypeOK
    <2>2. k \in Call /\ k.at = "apply" /\ k.comp = calls[c].comp
      BY <1>0, <2>1 DEF Call
    <2>3. /\ calls' = [calls EXCEPT ![c] = k] /\ UNCHANGED <<items, cluster, snap>>
          /\ calls[c].at = "snapshot" /\ calls[c].comp \in Names
      BY <1>0, <1>2 DEF UseCached, CallsNamed
    <2>4. \A n \in Names : ~Owns(calls[c], n)
      BY <2>3 DEF Owns
    <2> HIDE DEF k
    <2>5. QED
      BY <2>2, <2>3, <2>4, LocalStep
  <1>3. CASE ListReleases(c)
    <2> DEFINE now == [NoHits EXCEPT
                        !.knaic = [n \in Names |-> {ns \in Namespaces : Released(n, ns)}],
                        !.manual = manual]
    <2> DEFINE none == [NoHits EXCEPT !.helmErr = TRUE]
    <2>1. PICK failed \in BOOLEAN :
            calls' = [calls EXCEPT ![c] =
                [@ EXCEPT !.at = "listed", !.seen = IF failed THEN none ELSE now]]
      BY <1>3 DEF ListReleases
    <2> DEFINE seen == IF failed THEN none ELSE now
               k == [calls[c] EXCEPT !.at = "listed", !.seen = seen]
    <2>2. /\ now \in Snapshot /\ none \in Snapshot /\ none.helmErr
          /\ now.knaic = [n \in Names |-> {ns \in Namespaces : Released(n, ns)}]
      BY <1>0, IdleTypes DEF TypeOK, Snapshot
    <2>3. seen \in Snapshot
      BY <2>2, IdleTypes
    <2>4. ~seen.helmErr => seen.knaic = [n \in Names |-> {ns \in Namespaces : Released(n, ns)}]
      <3>1. seen = none \/ seen = now
        OBVIOUS
      <3> HIDE DEF now, none, seen
      <3>2. QED
        BY <2>2, <3>1
    <2> HIDE DEF now, none, seen
    <2>5. k \in Call /\ k.at = "listed" /\ k.comp = calls[c].comp /\ k.seen = seen
      BY <1>0, <2>3 DEF Call
    <2>6. /\ calls' = [calls EXCEPT ![c] = k] /\ snap' = snap
          /\ calls[c].at = "snapshot" /\ calls[c].comp \in Names /\ snap = None
      BY <1>0, <1>3, <2>1 DEF ListReleases, CallsNamed, seen
    <2>7. \A n \in Names : ~Owns(calls[c], n)
      BY <2>6 DEF Owns
    <2> HIDE DEF k
    <2>8. TypeOK'
      BY <1>0, <2>5, <2>6, MoveTypes DEF TypeOK
    <2>9. CallsNamed' /\ InstallingIsOwned'
      BY <1>0, <2>5, <2>6, <2>7, NamedKept, OwnedKept
    <2>10. \A d \in Calls : calls'[d] = IF d = c THEN k ELSE calls[d]
      BY <1>0, <2>6 DEF TypeOK
    <2>11. \A d \in Calls : calls[d].at = "invalidate" => calls'[d] = calls[d]
      BY <2>6, <2>10
    <2>12. ASSUME NEW d \in Calls, calls'[d].at = "listed", ~calls'[d].seen.helmErr
           PROVE  Agrees(calls[d].seen.knaic)'
      <3>1. CASE d = c
        <4>1. calls'[d].seen.knaic = [n \in Names |-> {ns \in Namespaces : Released(n, ns)}]
          BY <2>4, <2>5, <2>10, <2>12, <3>1
        <4>2. QED
          BY <1>0, <4>1 DEF Agrees, Released
      <3>2. CASE d # c
        <4>1. calls'[d] = calls[d] /\ Agrees(calls[d].seen.knaic)
          BY <1>0, <2>10, <2>12, <3>2 DEF ScansSeeActions
        <4> SUFFICES ASSUME NEW n \in Names, NEW ns \in Namespaces
                   PROVE  /\ releases'[<<n, ns>>] = "installed" /\ ns \notin calls'[d].seen.knaic[n]
                               => Pending("install", n, ns)'
                          /\ releases'[<<n, ns>>] = "none" /\ ns \in calls'[d].seen.knaic[n]
                               => Pending("uninstall", n, ns)'
          BY DEF Agrees, Pending
        <4>2. QED
          BY <1>0, <2>11, <4>1, StillAgrees
      <3>3. QED
        BY <3>1, <3>2
    <2>13. ScansSeeActions'
      BY <2>6, <2>12 DEF ScansSeeActions, SnapshotSeesActions
    <2>14. QED
      BY <2>8, <2>9, <2>13 DEF IInv
  <1>4. CASE ListCSVs(c)
    <2>1. PICK failed \in BOOLEAN :
            LET hits == IF failed THEN NoHits.csv ELSE csv
                seen == [calls[c].seen EXCEPT !.csv = hits]
            IN /\ snap' = seen
               /\ calls' = [calls EXCEPT ![c] = [@ EXCEPT !.at = "apply", !.seen = seen]]
      BY <1>4 DEF ListCSVs
    <2> DEFINE hits == IF failed THEN NoHits.csv ELSE csv
               seen == [calls[c].seen EXCEPT !.csv = hits]
               k == [calls[c] EXCEPT !.at = "apply", !.seen = seen]
    <2>2. hits \in [Names -> ForeignNs \cup {None}]
      BY <1>0, IdleTypes DEF TypeOK, Snapshot
    <2> HIDE DEF hits
    <2>3. seen \in Snapshot /\ seen.knaic = calls[c].seen.knaic
                           /\ seen.helmErr = calls[c].seen.helmErr
      BY <1>0, <2>2 DEF Snapshot
    <2>4. snap' = seen /\ calls' = [calls EXCEPT ![c] = k]
      BY <2>1 DEF hits
    <2> HIDE DEF seen
    <2>5. k \in Call /\ k.at = "apply" /\ k.comp = calls[c].comp
      BY <1>0, <2>3 DEF Call
    <2>6. calls[c].at = "listed" /\ calls[c].comp \in Names
      BY <1>0, <1>4 DEF ListCSVs, CallsNamed
    <2>7. \A n \in Names : ~Owns(calls[c], n)
      BY <2>6 DEF Owns
    <2> HIDE DEF k
    <2>8. TypeOK'
      BY <1>0, <2>3, <2>4, <2>5, MoveTypes DEF TypeOK
    <2>9. CallsNamed' /\ InstallingIsOwned'
      BY <1>0, <2>4, <2>5, <2>6, <2>7, NamedKept, OwnedKept
    <2>10. \A d \in Calls : calls'[d] = IF d = c THEN k ELSE calls[d]
      BY <1>0, <2>4 DEF TypeOK
    <2>11. \A d \in Calls : calls[d].at = "invalidate" => calls'[d] = calls[d]
      BY <2>6, <2>10
    <2>12. SnapshotSeesActions'
      <3> SUFFICES ASSUME ~snap'.helmErr, NEW n \in Names, NEW ns \in Namespaces
                 PROVE  /\ releases'[<<n, ns>>] = "installed" /\ ns \notin snap'.knaic[n]
                             => Pending("install", n, ns)'
                        /\ releases'[<<n, ns>>] = "none" /\ ns \in snap'.knaic[n]
                             => Pending("uninstall", n, ns)'
        BY DEF SnapshotSeesActions, Agrees, Pending
      <3>1. Agrees(calls[c].seen.knaic)
        BY <1>0, <2>3, <2>4, <2>6 DEF ScansSeeActions
      <3>2. snap'.knaic = calls[c].seen.knaic
        BY <2>3, <2>4
      <3>3. QED
        BY <1>0, <2>11, <3>1, <3>2, StillAgrees
    <2>13. \A d \in Calls : calls'[d].at = "listed" => calls'[d] = calls[d]
      BY <2>5, <2>10
    <2>14. ASSUME NEW d \in Calls, calls'[d].at = "listed", ~calls'[d].seen.helmErr
           PROVE  Agrees(calls[d].seen.knaic)'
      <3> SUFFICES ASSUME NEW n \in Names, NEW ns \in Namespaces
                 PROVE  /\ releases'[<<n, ns>>] = "installed" /\ ns \notin calls'[d].seen.knaic[n]
                             => Pending("install", n, ns)'
                        /\ releases'[<<n, ns>>] = "none" /\ ns \in calls'[d].seen.knaic[n]
                             => Pending("uninstall", n, ns)'
        BY DEF Agrees, Pending
      <3>1. calls'[d] = calls[d] /\ Agrees(calls[d].seen.knaic)
        BY <1>0, <2>13, <2>14 DEF ScansSeeActions
      <3>2. QED
        BY <1>0, <2>11, <3>1, StillAgrees
    <2>15. QED
      BY <2>8, <2>9, <2>12, <2>14 DEF IInv, ScansSeeActions
  <1>5. QED
    BY <1>1, <1>2, <1>3, <1>4

-----------------------------------------------------------------------------
(* Everything else *)

\* A step that leaves the goroutines alone, drops or keeps the snapshot, and
\* lets releases only vanish.
LEMMA QuietStep ==
    ASSUME IInv, UNCHANGED calls, snap' = snap \/ snap' = None, TypeOK',
           \A r \in Names \X Namespaces : releases'[r] \in {releases[r], "gone"},
           \A n \in Names : items'[n].status = "Installing"
                => items[n].status = "Installing"
    PROVE  IInv'
  <1>1. CallsNamed'
    BY DEF IInv, CallsNamed
  <1>2. InstallingIsOwned'
    BY DEF IInv, InstallingIsOwned, Owns
  <1>3. \A n \in Names, ns \in Namespaces : releases'[<<n, ns>>] \in {releases[<<n, ns>>], "gone"}
    OBVIOUS
  <1>4. ScansSeeActions'
    BY <1>3 DEF IInv, ScansSeeActions, SnapshotSeesActions, Agrees, Pending
  <1>5. QED
    BY <1>1, <1>2, <1>4 DEF IInv

\* Imports, removals and the world outside.
LEMMA OutsideStep ==
    ASSUME IInv, NEW n \in Names, Outside(n)
    PROVE  IInv'
  <1>0. TypeOK
    BY DEF IInv
  <1>1. ASSUME NEW ns \in Namespaces, Import(n, ns) PROVE IInv'
    <2>1. /\ [Entry("NotInstalled") EXCEPT !.ns = ns] \in Item
          /\ [Entry("NotInstalled") EXCEPT !.ns = ns].status = "NotInstalled"
      BY DEF Entry, Item
    <2>2. TypeOK' /\ UNCHANGED <<releases, snap, calls>>
      BY <1>0, <1>1, <2>1 DEF TypeOK, Import, cluster
    <2>3. \A m \in Names : items'[m].status = "Installing" => items[m].status = "Installing"
      BY <1>0, <1>1, <2>1 DEF Import, TypeOK
    <2>4. QED
      BY <2>2, <2>3, QuietStep
  <1>2. CASE Remove(n)
    <2>1. Entry("Absent") \in Item /\ Entry("Absent").status = "Absent"
      BY DEF Entry, Item, Namespaces
    <2>2. TypeOK' /\ UNCHANGED <<releases, snap, calls>>
      BY <1>0, <1>2, <2>1 DEF TypeOK, Remove, cluster
    <2>3. \A m \in Names : items'[m].status = "Installing" => items[m].status = "Installing"
      BY <1>0, <1>2, <2>1 DEF Remove, TypeOK
    <2>4. QED
      BY <2>2, <2>3, QuietStep
  <1>3. CASE OthersInstall(n)
    <2>1. TypeOK' /\ UNCHANGED <<items, releases, snap, calls>>
      BY <1>0, <1>3 DEF TypeOK, OthersInstall
    <2>2. QED
      BY <2>1, QuietStep
  <1>4. CASE OthersRemove(n)
    <2>1. TypeOK' /\ UNCHANGED <<items, snap, calls>>
      BY <1>0, <1>4 DEF TypeOK, OthersRemove, ReleaseState
    <2>2. \A r \in Names \X Namespaces : releases'[r] \in {releases[r], "gone"}
      BY <1>0, <1>4 DEF TypeOK, OthersRemove
    <2>3. QED
      BY <2>1, <2>2, QuietStep
  <1>5. QED
    BY <1>1, <1>2, <1>3, <1>4 DEF Outside

\* The initial state, and the state after a restart.
LEMMA Fresh ==
    /\ Init => IInv
    /\ IInv /\ Restart => IInv'
  <1>1. Catalog \in [Names -> Item] /\ \A n \in Names : Catalog[n].status # "Installing"
    BY EntryTypes DEF Catalog, Entry
  <1>2. IdleCall \in Call /\ IdleCall.at = "idle"
    BY IdleTypes DEF IdleCall
  <1>3. ASSUME Init PROVE IInv
    <2>1. TypeOK
      BY <1>1, <1>2, <1>3 DEF Init, TypeOK, ReleaseState
    <2>2. CallsNamed /\ InstallingIsOwned /\ ScansSeeActions
      BY <1>1, <1>2, <1>3 DEF Init, CallsNamed, InstallingIsOwned, ScansSeeActions,
                              SnapshotSeesActions
    <2>3. QED
      BY <2>1, <2>2 DEF IInv
  <1>4. ASSUME IInv, Restart PROVE IInv'
    <2>1. TypeOK'
      BY <1>1, <1>2, <1>4 DEF IInv, Restart, TypeOK, cluster
    <2>2. CallsNamed' /\ InstallingIsOwned' /\ ScansSeeActions'
      BY <1>1, <1>2, <1>4 DEF Restart, CallsNamed, InstallingIsOwned, ScansSeeActions,
                              SnapshotSeesActions
    <2>3. QED
      BY <2>1, <2>2 DEF IInv
  <1>5. QED
    BY <1>3, <1>4

\* Every step of the specification keeps the invariant.
LEMMA InvStep == IInv /\ [Next]_vars => IInv'
  <1> SUFFICES ASSUME IInv, [Next]_vars PROVE IInv'
    OBVIOUS
  <1>1. ASSUME NEW c \in Calls, Continue(c) \/ Lock(c) PROVE IInv'
    BY <1>1, HelmStep, HandlerStep, ApplyStep, SnapshotStep DEF Continue, Lock
  <1>2. CASE Expire
    <2>1. TypeOK' /\ snap' = None /\ UNCHANGED <<items, releases, calls>>
      BY <1>2 DEF IInv, TypeOK, Expire, cluster
    <2>2. QED
      BY <2>1, QuietStep
  <1>3. CASE UNCHANGED vars
    <2>1. TypeOK' /\ UNCHANGED <<items, releases, snap, calls>>
      BY <1>3 DEF IInv, TypeOK, vars, cluster
    <2>2. QED
      BY <2>1, QuietStep
  <1>4. QED
    BY <1>1, <1>2, <1>3, BeginStep, OutsideStep, Fresh DEF Next

\* The invariant is one.
LEMMA Inductive == Spec => []IInv
  BY Fresh, InvStep, PTL DEF Spec

-----------------------------------------------------------------------------
(* The theorems *)

\* The catalog, the snapshots and the handlers keep their types.
THEOREM TypeCorrect == Spec => []TypeOK
  <1>1. IInv => TypeOK
    BY DEF IInv
  <1>2. QED
    BY <1>1, Inductive, PTL

\* No overlap of requests leaves an item Installing with nobody to settle it.
THEOREM InstallingAlwaysOwned == Spec => []InstallingIsOwned
  <1>1. IInv => InstallingIsOwned
    BY DEF IInv
  <1>2. QED
    BY <1>1, Inductive, PTL

\* After invalidateSnapshot, no cached scan predates the Helm call it follows:
\* a scan that straddles the call is cached before the lock is released, and
\* the invalidation waits for the lock.
THEOREM SnapshotsSeeActions == Spec => []SnapshotSeesActions
  <1>1. IInv => SnapshotSeesActions
    BY DEF IInv, ScansSeeActions
  <1>2. QED
    BY <1>1, Inductive, PTL


-----------------------------------------------------------------------------
(* Requests in turn *)

\* A scan whose Helm list failed shows no release of knaic's.
Empty(scan) == scan.helmErr => \A n \in Names : scan.knaic[n] = {}

\* A scan shows the releases as knaic's own calls have left them.
UpToDate(scan) ==
    ~scan.helmErr =>
        \A n \in Names, ns \in Namespaces :
            /\ releases[<<n, ns>>] = "installed" => ns \in scan.knaic[n]
            /\ releases[<<n, ns>>] = "none" => ns \notin scan.knaic[n]

\* What a handler that runs alone knows at each of its steps.
Knows(call) ==
    /\ call.at \in {"mark", "invalidate"} => call.op \in {"install", "uninstall"}
    /\ call.at \in {"helm", "finish"} => call.op \in {"install", "uninstall", "reconcile"}
    /\ call.at = "apply" => UpToDate(call.seen)
    /\ call.op = "uninstall" /\ call.at = "helm" => items[call.comp].status # "Installed"
    /\ call.op = "install" /\ call.at \in {"invalidate", "finish"} =>
           releases[<<call.comp, call.ns>>] # "none"
    /\ call.op = "reconcile" /\ call.at \in {"helm", "finish"} =>
           call.comp \in Embedded /\ items[call.comp].status = "Installed"
    /\ Empty(call.seen)

OneBusy  == \A c, d \in Calls : calls[c].at # "idle" /\ calls[d].at # "idle" => c = d
AllKnow  == \A c \in Calls : Knows(calls[c])
SnapFull == snap # None => Empty(snap)

Turns == OneBusy /\ AllKnow /\ SnapFull /\ InstalledIsBacked

\* The inductive invariant for requests in turn.
TurnInv == IInv /\ (inTurn => Turns)

\* The goroutine that moves to locals k is the only one.
LEMMA AloneStep ==
    ASSUME TurnInv, inTurn, TurnNext, NEW c \in Calls, NEW k,
           calls' = [calls EXCEPT ![c] = k], calls[c].at # "idle" \/ k.at # "idle",
           Knows(k)'
    PROVE  OneBusy' /\ AllKnow'
  <1>1. \A d \in Calls : calls'[d] = IF d = c THEN k ELSE calls[d]
    BY DEF TurnInv, IInv, TypeOK
  <1>2. OneBusy'
    BY DEF TurnNext, Busy, OneBusy
  <1>3. \A d \in Calls \ {c} : calls'[d] = calls[d] /\ calls[d].at = "idle"
    <2>1. CASE calls[c].at # "idle"
      BY <1>1, <2>1 DEF TurnInv, Turns, OneBusy
    <2>2. CASE k.at # "idle"
      BY <1>1, <1>2, <2>2 DEF OneBusy
    <2>3. QED
      BY <2>1, <2>2
  <1>4. \A d \in Calls \ {c} : Knows(calls[d])'
    BY <1>3 DEF TurnInv, Turns, AllKnow, Knows
  <1>5. QED
    BY <1>1, <1>2, <1>4 DEF AllKnow

\* While goroutine c is at another step nobody else is about to invalidate.
LEMMA NothingPending ==
    ASSUME TurnInv, inTurn, NEW c \in Calls, calls[c].at \notin {"idle", "invalidate"}
    PROVE  \A op, n, ns : ~Pending(op, n, ns)
  BY DEF TurnInv, Turns, OneBusy, Pending

LEMMA TurnBegin ==
    ASSUME TurnInv, inTurn, TurnNext, NEW c \in Calls, NEW n \in Names, Begin(c, n)
    PROVE  Turns'
  <1>1. PICK idle : idle = IdleCall
    OBVIOUS
  <1>2. idle \in Call /\ Empty(idle.seen)
    BY <1>1, IdleTypes DEF IdleCall, NoHits, Empty
  <1>3. UNCHANGED <<items, releases, snap>>
    BY DEF Begin, BeginInstall, BeginUninstall, BeginReconcile, BeginStatus, Start, cluster
  <1>4. ASSUME NEW op \in {"install", "uninstall", "reconcile"}, NEW at \in {"mark", "helm"},
               at = "mark" => op \in {"install", "uninstall"},
               at = "helm" => op = "reconcile" /\ n \in Embedded /\ items[n].status = "Installed",
               Start(c, op, n, at)
        PROVE  OneBusy' /\ AllKnow'
    <2>1. PICK k : k = [idle EXCEPT !.at = at, !.op = op, !.comp = n, !.ns = items[n].ns]
      OBVIOUS
    <2>2. k.at = at /\ k.op = op /\ k.comp = n /\ k.seen = idle.seen
      BY <1>2, <2>1 DEF Call
    <2>3. calls' = [calls EXCEPT ![c] = k]
      BY <1>1, <1>4, <2>1 DEF Start
    <2>4. Knows(k)'
      BY <1>2, <1>3, <1>4, <2>2 DEF Knows, Empty
    <2>5. QED
      BY <2>2, <2>3, <2>4, AloneStep
  <1>5. ASSUME BeginStatus(c, n) PROVE OneBusy' /\ AllKnow'
    <2>1. PICK k : k = [idle EXCEPT !.at = "snapshot", !.op = "status", !.comp = n,
                                    !.skip = (items[n].status = "Installing")]
      OBVIOUS
    <2>2. k.at = "snapshot" /\ k.op = "status" /\ k.comp = n /\ k.seen = idle.seen
      BY <1>2, <2>1 DEF Call
    <2>3. calls' = [calls EXCEPT ![c] = k]
      BY <1>1, <1>5, <2>1 DEF BeginStatus
    <2>4. Knows(k)'
      BY <1>2, <2>2 DEF Knows, Empty
    <2>5. QED
      BY <2>2, <2>3, <2>4, AloneStep
  <1>6. OneBusy' /\ AllKnow'
    BY <1>4, <1>5 DEF Begin, BeginInstall, BeginUninstall, BeginReconcile
  <1>7. SnapFull' /\ InstalledIsBacked'
    BY <1>3 DEF TurnInv, Turns, SnapFull, Empty, InstalledIsBacked
  <1>8. QED
    BY <1>6, <1>7 DEF Turns

\* Store.Update of item n: the other items stay, and a name that is gone stays
\* gone.
LEMMA UpdateRow ==
    ASSUME TypeOK, NEW n \in Names, NEW item \in Item, Update(n, item)
    PROVE  /\ \A m \in Names \ {n} : items'[m] = items[m]
           /\ items'[n] = item \/ (items'[n].status = "Absent" /\ items' = items)
  BY DEF TypeOK, Update, Present

\* An item that is not shown as installed by knaic needs no release.
LEMMA BackedUpdate ==
    ASSUME TypeOK, InstalledIsBacked, UNCHANGED releases,
           NEW n \in Names, NEW item \in Item, Update(n, item),
           item.status = "Installed" /\ item.managedBy = "knaic" =>
               releases[<<n, item.ns>>] # "none"
    PROVE  InstalledIsBacked'
  <1>1. /\ \A m \in Names \ {n} : items'[m] = items[m]
        /\ items'[n] = item \/ items'[n].status = "Absent"
    BY UpdateRow
  <1>2. QED
    BY <1>1 DEF InstalledIsBacked


\* What a detection reports is what its scan shows.
LEMMA DetectedRow ==
    ASSUME NEW n, NEW scan, NEW item \in Item, Detected(n, scan, item)
    PROVE  /\ item.status = "NotInstalled" => scan.knaic[n] = {}
           /\ item.managedBy = "knaic" => item.ns \in scan.knaic[n] /\ item.ns \in Namespaces
  <1>1. item.ns \in Namespaces
    BY DEF Item
  <1>2. ASSUME NEW status, NEW ns, NEW by, item = [status |-> status, ns |-> ns, managedBy |-> by]
        PROVE  item.status = status /\ item.ns = ns /\ item.managedBy = by
    BY <1>2
  <1>3. CASE scan.csv[n] # None /\ item = [status |-> "Installed", ns |-> scan.csv[n], managedBy |-> "OLM"]
    BY <1>2, <1>3
  <1>4. ASSUME NEW ns \in scan.knaic[n],
               item = [status |-> "Installed", ns |-> ns, managedBy |-> "knaic"]
        PROVE  item.status = "Installed" /\ item.ns \in scan.knaic[n]
    BY <1>2, <1>4
  <1>5. CASE item = [status |-> "Installed", ns |-> scan.manual[n], managedBy |-> "manual"]
    BY <1>2, <1>5
  <1>6. CASE scan.knaic[n] = {} /\ item = Entry("NotInstalled")
    <2>1. item.managedBy = ""
      BY <1>6 DEF Entry
    <2>2. QED
      BY <1>6, <2>1
  <1>7. QED
    BY <1>1, <1>3, <1>4, <1>5, <1>6 DEF Detected

\* The writes of the handlers.
LEMMA TurnHandler ==
    ASSUME TurnInv, inTurn, TurnNext, NEW c \in Calls,
           MarkInstalling(c) \/ Finish(c) \/ Fail(c) \/ Apply(c)
    PROVE  Turns'
  <1>1. PICK n : n = calls[c].comp
    OBVIOUS
  <1>2. PICK old : old = calls[c]
    OBVIOUS
  <1>3. PICK idle : idle = IdleCall
    OBVIOUS
  <1>4. PICK row : row = items[n]
    OBVIOUS
  <1>5. /\ old \in Call /\ n \in Names /\ row \in Item /\ n = old.comp /\ old.ns \in Namespaces
        /\ old.seen \in Snapshot /\ old.at \in {"mark", "finish", "fail", "apply"}
    BY <1>1, <1>2, <1>4, CallTypes DEF TurnInv, IInv, TypeOK, CallsNamed, MarkInstalling, Finish,
                                       Fail, Apply
  <1>6. TypeOK /\ InstalledIsBacked /\ Knows(old) /\ SnapFull
    BY <1>2 DEF TurnInv, IInv, Turns, AllKnow
  <1>7. UNCHANGED <<releases, snap>>
    BY DEF MarkInstalling, Finish, Fail, Apply, cluster
  <1>8. SnapFull'
    BY <1>6, <1>7 DEF SnapFull, Empty
  <1>9. idle.at = "idle" /\ idle.op = "" /\ Empty(idle.seen)
    BY <1>3 DEF IdleCall, NoHits, Empty
  <1>10. Return(c) => OneBusy' /\ AllKnow'
    <2>1. Knows(idle)'
      BY <1>9 DEF Knows, Empty
    <2>2. calls[c].at # "idle"
      BY <1>2, <1>5
    <2>3. QED
      BY <1>3, <2>1, <2>2, AloneStep DEF Return
  <1>11. CASE MarkInstalling(c)
    <2>1. PICK item : item = [row EXCEPT !.status = "Installing"]
      OBVIOUS
    <2>2. item \in Item /\ item.status = "Installing"
      BY <1>5, <2>1 DEF Item
    <2>3. Update(n, item)
      BY <1>1, <1>4, <1>11, <2>1 DEF MarkInstalling
    <2>4. InstalledIsBacked'
      BY <1>5, <1>6, <1>7, <2>2, <2>3, BackedUpdate
    <2>5. items'[n].status # "Installed"
      BY <1>5, <1>6, <2>2, <2>3, UpdateRow
    <2>6. PICK k : k = [old EXCEPT !.at = "helm"]
      OBVIOUS
    <2>7. k.at = "helm" /\ k.op = old.op /\ k.comp = n /\ k.seen = old.seen
      BY <1>5, <2>6 DEF Call
    <2>8. old.op \in {"install", "uninstall"}
      BY <1>2, <1>6, <1>11 DEF Knows, MarkInstalling
    <2>9. Knows(k)'
      BY <1>6, <2>5, <2>7, <2>8 DEF Knows, Empty
    <2>10. calls' = [calls EXCEPT ![c] = k]
      BY <1>2, <1>11, <2>6 DEF MarkInstalling, Goto
    <2>11. QED
      BY <1>8, <2>4, <2>7, <2>9, <2>10, AloneStep DEF Turns
  <1>12. CASE Finish(c)
    <2>1. PICK item : item = Outcome(old)
      OBVIOUS
    <2>2. old.op \in {"install", "uninstall", "reconcile"} /\ old.at = "finish"
      BY <1>2, <1>6, <1>12 DEF Knows, Finish
    <2>3. Outcome(old) = CASE old.op = "install"   -> [status |-> "Installed", ns |-> old.ns,
                                                       managedBy |-> "knaic"]
                           [] old.op = "uninstall" -> [row EXCEPT !.status = "NotInstalled",
                                                                  !.managedBy = ""]
                           [] OTHER                -> [row EXCEPT !.status = "Installed"]
      BY <1>4, <1>5 DEF Outcome
    <2>4. item \in Item /\ (item.status = "Installed" /\ item.managedBy = "knaic"
                                => releases[<<n, item.ns>>] # "none")
      <3>1. CASE old.op = "install"
        <4>1. item = [status |-> "Installed", ns |-> old.ns, managedBy |-> "knaic"]
          BY <2>1, <2>3, <3>1
        <4>2. item.ns = old.ns /\ item \in Item
          BY <1>5, <4>1 DEF Item
        <4>3. releases[<<n, old.ns>>] # "none"
          BY <1>5, <1>6, <2>2, <3>1 DEF Knows
        <4>4. QED
          BY <4>2, <4>3
      <3>2. CASE old.op = "uninstall"
        <4>1. item = [row EXCEPT !.status = "NotInstalled", !.managedBy = ""]
          BY <2>1, <2>3, <3>2
        <4>2. item \in Item /\ item.status = "NotInstalled"
          BY <1>5, <4>1 DEF Item
        <4>3. QED
          BY <4>2
      <3>3. CASE old.op = "reconcile"
        <4>1. item = [row EXCEPT !.status = "Installed"]
          BY <2>1, <2>3, <3>3
        <4>2. row.status = "Installed"
          BY <1>4, <1>5, <1>6, <2>2, <3>3 DEF Knows
        <4>3. item \in Item /\ item.ns = row.ns /\ item.managedBy = row.managedBy
          BY <1>5, <4>1 DEF Item
        <4>4. row.managedBy = "knaic" => releases[<<n, row.ns>>] # "none"
          BY <1>4, <1>5, <1>6, <4>2 DEF InstalledIsBacked
        <4>5. QED
          BY <4>3, <4>4
      <3>4. QED
        BY <2>2, <3>1, <3>2, <3>3
    <2>5. Update(n, item) /\ Return(c)
      BY <1>1, <1>2, <1>12, <2>1 DEF Finish
    <2>6. InstalledIsBacked'
      BY <1>5, <1>6, <1>7, <2>4, <2>5, BackedUpdate
    <2>7. QED
      BY <1>8, <1>10, <2>5, <2>6 DEF Turns
  <1>13. CASE Fail(c)
    <2>1. PICK item : item = [row EXCEPT !.status = "Failed"]
      OBVIOUS
    <2>2. item \in Item /\ item.status = "Failed"
      BY <1>5, <2>1 DEF Item
    <2>3. Update(n, item) /\ Return(c)
      BY <1>1, <1>4, <1>13, <2>1 DEF Fail
    <2>4. InstalledIsBacked'
      BY <1>5, <1>6, <1>7, <2>2, <2>3, BackedUpdate
    <2>5. QED
      BY <1>8, <1>10, <2>3, <2>4 DEF Turns
  <1>14. CASE Apply(c)
    <2>1. Return(c) /\ old.at = "apply" /\ UpToDate(old.seen) /\ Empty(old.seen)
      BY <1>2, <1>6, <1>14 DEF Apply, Knows
    <2>2. CASE UNCHANGED items
      BY <1>6, <1>7, <1>8, <1>10, <2>1, <2>2 DEF InstalledIsBacked, Turns
    <2>3. CASE ~UNCHANGED items
      <3>1. PICK item \in Item : Detected(n, old.seen, item) /\ Update(n, item)
        BY <1>1, <1>2, <1>14, <2>3 DEF Apply
      <3>2. item.managedBy = "knaic" => item.ns \in old.seen.knaic[n] /\ item.ns \in Namespaces
        BY <3>1, DetectedRow
      <3>3. item.managedBy = "knaic" => releases[<<n, item.ns>>] # "none"
        BY <1>5, <2>1, <3>2 DEF UpToDate, Empty
      <3>4. InstalledIsBacked'
        BY <1>5, <1>6, <1>7, <3>1, <3>3, BackedUpdate
      <3>5. QED
        BY <1>8, <1>10, <2>1, <3>4 DEF Turns
    <2>4. QED
      BY <2>2, <2>3
  <1>15. QED
    BY <1>11, <1>12, <1>13, <1>14

\* The Helm calls, and the snapshot that is dropped after them.
LEMMA TurnHelm ==
    ASSUME TurnInv, inTurn, TurnNext, NEW c \in Calls,
           HelmInstall(c) \/ HelmUninstall(c) \/ HelmUpgrade(c) \/ Invalidate(c)
    PROVE  Turns'
  <1>1. PICK old : old = calls[c]
    OBVIOUS
  <1>2. PICK r : r = <<old.comp, old.ns>>
    OBVIOUS
  <1>3. /\ old \in Call /\ old.comp \in Names /\ old.ns \in Namespaces
        /\ old.at \in {"helm", "invalidate"}
    BY <1>1, CallTypes DEF TurnInv, IInv, TypeOK, CallsNamed, HelmInstall, HelmUninstall,
                           HelmUpgrade, Invalidate
  <1>4. TypeOK /\ InstalledIsBacked /\ Knows(old) /\ SnapFull
    BY <1>1 DEF TurnInv, IInv, Turns, AllKnow
  <1>5. UNCHANGED items /\ snap' \in {snap, None}
    BY DEF HelmInstall, HelmUninstall, HelmUpgrade, Invalidate, cluster
  <1>6. SnapFull'
    BY <1>4, <1>5 DEF SnapFull, Empty
  <1>7. r \in Names \X Namespaces /\ releases \in [Names \X Namespaces -> ReleaseState]
    BY <1>2, <1>3, <1>4 DEF TypeOK
  <1>8. ASSUME NEW state, SetRelease(c, state)
        PROVE  releases' = [releases EXCEPT ![r] = state]
    BY <1>1, <1>2, <1>8 DEF SetRelease
  <1>9. ASSUME NEW at \in {"finish", "invalidate", "fail"}, Goto(c, at),
               at = "finish" => old.op \in {"install", "uninstall", "reconcile"},
               at = "invalidate" => old.op \in {"install", "uninstall"},
               old.op = "install" /\ at # "fail" => releases'[r] # "none",
               old.op = "reconcile" /\ at = "finish" =>
                   old.comp \in Embedded /\ items[old.comp].status = "Installed"
        PROVE  OneBusy' /\ AllKnow'
    <2>1. PICK k : k = [old EXCEPT !.at = at]
      OBVIOUS
    <2>2. k.at = at /\ k.op = old.op /\ k.comp = old.comp /\ k.ns = old.ns /\ k.seen = old.seen
      BY <1>3, <2>1 DEF Call
    <2>3. calls' = [calls EXCEPT ![c] = k] /\ calls[c].at # "idle"
      BY <1>1, <1>3, <1>9, <2>1 DEF Goto
    <2>4. Knows(k)'
      BY <1>2, <1>4, <1>5, <1>9, <2>2 DEF Knows, Empty
    <2>5. QED
      BY <2>3, <2>4, AloneStep
  <1>10. CASE HelmInstall(c)
    <2>1. old.op = "install"
      BY <1>1, <1>10 DEF HelmInstall
    <2>2. \/ releases' = [releases EXCEPT ![r] = "installed"] /\ Goto(c, "invalidate")
          \/ releases' = [releases EXCEPT ![r] = "leftover"] /\ Goto(c, "fail")
          \/ releases' = releases /\ Goto(c, "fail")
      BY <1>8, <1>10 DEF HelmInstall
    <2>3. OneBusy' /\ AllKnow'
      BY <1>7, <1>9, <2>1, <2>2
    <2>4. \A p \in Names \X Namespaces : releases'[p] = "none" => releases[p] = "none"
      BY <1>7, <2>2
    <2>5. \A n \in Names : items[n].ns \in Namespaces
      BY <1>4 DEF TypeOK, Item
    <2>6. InstalledIsBacked'
      BY <1>4, <1>5, <2>4, <2>5 DEF InstalledIsBacked
    <2>7. QED
      BY <1>6, <2>3, <2>6 DEF Turns
  <1>11. CASE HelmUninstall(c)
    <2>1. old.op = "uninstall" /\ old.at = "helm"
      BY <1>1, <1>11 DEF HelmUninstall
    <2>2. \/ releases' = [releases EXCEPT ![r] = "none"] /\ Goto(c, "invalidate")
          \/ releases' = [releases EXCEPT ![r] = "gone"] /\ Goto(c, "fail")
          \/ releases' = releases /\ Goto(c, "fail")
      BY <1>8, <1>11 DEF HelmUninstall
    <2>3. OneBusy' /\ AllKnow'
      BY <1>9, <2>1, <2>2
    <2>4. items[old.comp].status # "Installed"
      BY <1>4, <2>1 DEF Knows
    <2>5. \A p \in Names \X Namespaces : releases'[p] = "none" => releases[p] = "none" \/ p = r
      BY <1>7, <2>2
    <2>6. \A n \in Names : items[n].ns \in Namespaces
      BY <1>4 DEF TypeOK, Item
    <2>7. \A n \in Names, ns \in Namespaces : <<n, ns>> = r => n = old.comp
      BY <1>2
    <2>8. InstalledIsBacked'
      BY <1>4, <1>5, <2>4, <2>5, <2>6, <2>7 DEF InstalledIsBacked
    <2>9. QED
      BY <1>6, <2>3, <2>8 DEF Turns
  <1>12. CASE HelmUpgrade(c)
    <2>1. /\ old.op = "reconcile" /\ old.at = "helm" /\ releases' = releases
          /\ Goto(c, "finish") \/ Goto(c, "fail")
      BY <1>1, <1>12 DEF HelmUpgrade, cluster
    <2>2. old.comp \in Embedded /\ items[old.comp].status = "Installed"
      BY <1>4, <2>1 DEF Knows
    <2>3. OneBusy' /\ AllKnow'
      BY <1>9, <2>1, <2>2
    <2>4. InstalledIsBacked'
      BY <1>4, <1>5, <2>1 DEF InstalledIsBacked
    <2>5. QED
      BY <1>6, <2>3, <2>4 DEF Turns
  <1>13. CASE Invalidate(c)
    <2>1. old.at = "invalidate" /\ releases' = releases /\ Goto(c, "finish")
      BY <1>1, <1>13 DEF Invalidate, cluster
    <2>2. /\ old.op \in {"install", "uninstall"}
          /\ old.op = "install" => releases[r] # "none"
      BY <1>2, <1>4, <2>1 DEF Knows
    <2>3. OneBusy' /\ AllKnow'
      BY <1>9, <2>1, <2>2
    <2>4. InstalledIsBacked'
      BY <1>4, <1>5, <2>1 DEF InstalledIsBacked
    <2>5. QED
      BY <1>6, <2>3, <2>4 DEF Turns
  <1>14. QED
    BY <1>10, <1>11, <1>12, <1>13


\* The scan, by one goroutine that runs alone.
LEMMA TurnScan ==
    ASSUME TurnInv, inTurn, TurnNext, NEW c \in Calls,
           UseCached(c) \/ ListReleases(c) \/ ListCSVs(c)
    PROVE  Turns'
  <1>1. PICK old : old = calls[c]
    OBVIOUS
  <1>2. /\ old \in Call /\ old.at \in {"snapshot", "listed"} /\ old.seen \in Snapshot
    BY <1>1, CallTypes DEF TurnInv, IInv, UseCached, ListReleases, ListCSVs
  <1>3. TypeOK /\ InstalledIsBacked /\ Knows(old) /\ SnapFull /\ ScansSeeActions
    BY <1>1 DEF TurnInv, IInv, Turns, AllKnow
  <1>4. UNCHANGED <<items, releases>>
    BY DEF UseCached, ListReleases, ListCSVs, cluster
  <1>5. InstalledIsBacked'
    BY <1>3, <1>4 DEF InstalledIsBacked
  <1>6. \A op, n, ns : ~Pending(op, n, ns)
    BY <1>1, <1>2, NothingPending
  <1>7. ASSUME NEW scan, ~scan.helmErr => Agrees(scan.knaic)
        PROVE  UpToDate(scan)
    BY <1>6, <1>7 DEF UpToDate, Agrees
  <1>8. ASSUME NEW at \in {"listed", "apply"}, NEW scan, Empty(scan),
               at = "apply" => UpToDate(scan),
               calls' = [calls EXCEPT ![c] = [@ EXCEPT !.at = at, !.seen = scan]]
        PROVE  OneBusy' /\ AllKnow'
    <2>1. PICK k : k = [old EXCEPT !.at = at, !.seen = scan]
      OBVIOUS
    <2>2. k.at = at /\ k.op = old.op /\ k.seen = scan
      BY <1>2, <2>1 DEF Call
    <2>3. calls' = [calls EXCEPT ![c] = k]
      BY <1>1, <1>8, <2>1
    <2>4. UpToDate(scan)' = UpToDate(scan)
      BY <1>4 DEF UpToDate
    <2>5. Knows(k)'
      BY <1>8, <2>2, <2>4 DEF Knows, Empty
    <2>6. QED
      BY <1>8, <2>2, <2>3, <2>5, AloneStep
  <1>9. CASE UseCached(c)
    <2>1. PICK scan : scan = snap
      OBVIOUS
    <2>2. snap # None /\ snap' = snap
      BY <1>9 DEF UseCached
    <2>3. Empty(scan)
      BY <1>3, <2>1, <2>2 DEF SnapFull
    <2>4. UpToDate(scan)
      BY <1>3, <1>7, <2>1, <2>2 DEF ScansSeeActions, SnapshotSeesActions
    <2>5. calls' = [calls EXCEPT ![c] = [@ EXCEPT !.at = "apply", !.seen = scan]]
      BY <1>9, <2>1 DEF UseCached
    <2>6. OneBusy' /\ AllKnow'
      BY <1>8, <2>3, <2>4, <2>5
    <2>7. SnapFull'
      BY <1>3, <2>2 DEF SnapFull, Empty
    <2>8. QED
      BY <1>5, <2>6, <2>7 DEF Turns
  <1>10. CASE ListReleases(c)
    <2>1. PICK failed \in BOOLEAN :
            calls' = [calls EXCEPT ![c] = [@ EXCEPT !.at = "listed",
                !.seen = IF failed THEN [NoHits EXCEPT !.helmErr = TRUE] ELSE
                    [NoHits EXCEPT
                        !.knaic = [n \in Names |-> {ns \in Namespaces : Released(n, ns)}],
                        !.manual = manual]]]
      BY <1>10 DEF ListReleases
    <2>2. PICK scan : scan = IF failed THEN [NoHits EXCEPT !.helmErr = TRUE] ELSE
                    [NoHits EXCEPT
                        !.knaic = [n \in Names |-> {ns \in Namespaces : Released(n, ns)}],
                        !.manual = manual]
      OBVIOUS
    <2>3. Empty(scan)
      BY <2>2 DEF Empty, NoHits
    <2>4. calls' = [calls EXCEPT ![c] = [@ EXCEPT !.at = "listed", !.seen = scan]]
      BY <2>1, <2>2
    <2>5. OneBusy' /\ AllKnow'
      BY <1>8, <2>3, <2>4
    <2>6. SnapFull'
      BY <1>3, <1>10 DEF ListReleases, SnapFull, Empty
    <2>7. QED
      BY <1>5, <2>5, <2>6 DEF Turns
  <1>11. CASE ListCSVs(c)
    <2>1. PICK failed \in BOOLEAN :
            LET hits == IF failed THEN NoHits.csv ELSE csv
                seen == [calls[c].seen EXCEPT !.csv = hits]
            IN /\ snap' = seen
               /\ calls' = [calls EXCEPT ![c] = [@ EXCEPT !.at = "apply", !.seen = seen]]
      BY <1>11 DEF ListCSVs
    <2>2. PICK scan : scan = [old.seen EXCEPT !.csv = IF failed THEN NoHits.csv ELSE csv]
      OBVIOUS
    <2>3. snap' = scan /\ calls' = [calls EXCEPT ![c] = [@ EXCEPT !.at = "apply", !.seen = scan]]
      BY <1>1, <2>1, <2>2
    <2>4. scan.helmErr = old.seen.helmErr /\ scan.knaic = old.seen.knaic
      BY <1>2, <2>2 DEF Snapshot
    <2>5. Empty(scan)
      BY <1>3, <2>4 DEF Knows, Empty
    <2>6. UpToDate(scan)
      BY <1>1, <1>3, <1>7, <1>11, <2>4 DEF ScansSeeActions, ListCSVs
    <2>7. OneBusy' /\ AllKnow'
      BY <1>8, <2>3, <2>5, <2>6
    <2>8. SnapFull'
      BY <2>3, <2>5 DEF SnapFull, Empty
    <2>9. QED
      BY <1>5, <2>7, <2>8 DEF Turns
  <1>12. QED
    BY <1>9, <1>10, <1>11

\* What others do, imports and removals, the cache that expires.
LEMMA TurnOutside ==
    ASSUME TurnInv, inTurn, (\E n \in Names : Outside(n)) \/ Expire \/ UNCHANGED vars
    PROVE  Turns'
  <1>1. TypeOK /\ InstalledIsBacked /\ SnapFull /\ OneBusy /\ AllKnow /\ CallsNamed
    BY DEF TurnInv, IInv, Turns
  <1>2. calls' = calls /\ snap' \in {snap, None}
    BY DEF Outside, Import, Remove, OthersInstall, OthersRemove, Expire, vars
  <1>3. OneBusy' /\ SnapFull'
    BY <1>1, <1>2 DEF OneBusy, SnapFull, Empty
  <1>4. /\ releases' \in [Names \X Namespaces -> ReleaseState]
        /\ \A p \in Names \X Namespaces : releases'[p] \in {releases[p], "gone"}
    BY <1>1 DEF TypeOK, Outside, Import, Remove, OthersInstall, OthersRemove, Expire, vars, cluster,
                ReleaseState
  <1>5. \A n \in Names : \/ items'[n] = items[n]
                         \/ n \in Importable /\ items'[n].status # "Installed"
    <2>1. ASSUME NEW m \in Names, NEW ns \in Namespaces, Import(m, ns)
          PROVE  m \in Importable /\ \E row : row.status # "Installed" /\ items' = [items EXCEPT ![m] = row]
      <3>1. PICK row : row = [Entry("NotInstalled") EXCEPT !.ns = ns]
        OBVIOUS
      <3>2. row.status = "NotInstalled"
        BY <3>1 DEF Entry
      <3>3. QED
        BY <2>1, <3>1, <3>2 DEF Import
    <2>2. ASSUME NEW m \in Names, Remove(m)
          PROVE  m \in Importable /\ \E row : row.status # "Installed" /\ items' = [items EXCEPT ![m] = row]
      <3>1. Entry("Absent").status = "Absent"
        BY DEF Entry
      <3>2. QED
        BY <2>2, <3>1 DEF Remove
    <2>3. \/ items' = items
          \/ \E m \in Importable : \E row : row.status # "Installed" /\ items' = [items EXCEPT ![m] = row]
      BY <2>1, <2>2 DEF Outside, OthersInstall, OthersRemove, Expire, vars
    <2>4. QED
      BY <1>1, <2>3 DEF TypeOK
  <1>6. InstalledIsBacked'
    <2>1. \A n \in Names : items[n].ns \in Namespaces
      BY <1>1 DEF TypeOK, Item
    <2>2. \A n \in Names, ns \in Namespaces : releases'[<<n, ns>>] = "none" => releases[<<n, ns>>] = "none"
      BY <1>4
    <2>3. QED
      BY <1>1, <1>5, <2>1, <2>2 DEF InstalledIsBacked
  <1>7. ASSUME NEW c \in Calls PROVE Knows(calls[c])'
    <2>1. PICK k : k = calls[c]
      OBVIOUS
    <2>2. k \in Call /\ Knows(k) /\ k.ns \in Namespaces /\ (k.at # "idle" => k.comp \in Names)
      BY <1>1, <2>1, CallTypes DEF AllKnow, CallsNamed
    <2>3. \A n \in Names, ns \in Namespaces : releases'[<<n, ns>>] \in {releases[<<n, ns>>], "gone"}
      BY <1>4
    <2>4. UpToDate(k.seen) => UpToDate(k.seen)'
      BY <2>3 DEF UpToDate
    <2>5. k.comp \in Embedded => k.comp \notin Importable
      BY ComponentsAssumption
    <2>6. k.comp \in Names => \/ items'[k.comp] = items[k.comp]
                              \/ k.comp \in Importable /\ items'[k.comp].status # "Installed"
      BY <1>5
    <2>7. k.comp \in Names =>
              releases'[<<k.comp, k.ns>>] \in {releases[<<k.comp, k.ns>>], "gone"}
      BY <2>2, <2>3
    <2>8. Knows(k)'
      BY <2>2, <2>4, <2>5, <2>6, <2>7 DEF Knows, Empty
    <2>9. QED
      BY <1>2, <2>1, <2>8
  <1>8. QED
    BY <1>3, <1>6, <1>7 DEF Turns, AllKnow

\* A backend that has just started: the catalog shows nothing as installed.
LEMMA TurnFresh ==
    ASSUME items = Catalog, snap = None, calls = [c \in Calls |-> IdleCall]
    PROVE  Turns
  <1>1. \A n \in Names : Catalog[n].status # "Installed"
    BY DEF Catalog, Entry
  <1>2. PICK idle : idle = IdleCall
    OBVIOUS
  <1>3. idle.at = "idle" /\ idle.op = "" /\ Empty(idle.seen)
    BY <1>2 DEF IdleCall, NoHits, Empty
  <1>4. \A c \in Calls : calls[c] = idle
    BY <1>2
  <1>5. Knows(idle)
    BY <1>3 DEF Knows
  <1>6. OneBusy /\ AllKnow
    BY <1>3, <1>4, <1>5 DEF OneBusy, AllKnow
  <1>7. SnapFull /\ InstalledIsBacked
    BY <1>1 DEF SnapFull, InstalledIsBacked
  <1>8. QED
    BY <1>6, <1>7 DEF Turns

LEMMA TurnRestart ==
    ASSUME Restart
    PROVE  Turns'
  <1>1. \A n \in Names : Catalog[n].status # "Installed"
    BY DEF Catalog, Entry
  <1>2. PICK idle : idle = IdleCall
    OBVIOUS
  <1>3. idle.at = "idle" /\ idle.op = "" /\ Empty(idle.seen)
    BY <1>2 DEF IdleCall, NoHits, Empty
  <1>4. \A c \in Calls : calls'[c] = idle
    BY <1>2 DEF Restart
  <1>5. Knows(idle)'
    BY <1>3 DEF Knows, Empty
  <1>6. OneBusy' /\ AllKnow'
    BY <1>3, <1>4, <1>5 DEF OneBusy, AllKnow
  <1>7. SnapFull' /\ InstalledIsBacked'
    BY <1>1 DEF SnapFull, InstalledIsBacked, Restart
  <1>8. QED
    BY <1>6, <1>7 DEF Turns

LEMMA TurnStep == TurnInv /\ [TurnNext]_<<vars, inTurn>> => TurnInv'
  <1> SUFFICES ASSUME TurnInv, [TurnNext]_<<vars, inTurn>> PROVE TurnInv'
    OBVIOUS
  <1>1. inTurn' = inTurn /\ [Next]_vars
    BY DEF TurnNext
  <1>2. IInv'
    BY <1>1, InvStep DEF TurnInv
  <1>3. ASSUME inTurn PROVE Turns'
    <2>1. CASE UNCHANGED vars
      BY <1>3, <2>1, TurnOutside
    <2>2. ASSUME TurnNext, NEW c \in Calls, Continue(c) \/ Lock(c) PROVE Turns'
      BY <1>3, <2>2, TurnHandler, TurnHelm, TurnScan DEF Continue, Lock
    <2>3. CASE TurnNext
      BY <1>3, <2>2, <2>3, TurnBegin, TurnOutside, TurnRestart DEF TurnNext, Next
    <2>4. QED
      BY <2>1, <2>3
  <1>4. QED
    BY <1>1, <1>2, <1>3 DEF TurnInv

LEMMA TurnStart == TurnInit => TurnInv
  <1>1. TurnInit => IInv
    BY Fresh DEF TurnInit
  <1>2. TurnInit => Turns
    BY TurnFresh DEF TurnInit, Init
  <1>3. QED
    BY <1>1, <1>2 DEF TurnInv

\* When requests run one at a time, a component that is shown as installed by
\* knaic has its release, or has lost it behind knaic's back, for any catalog
\* and whatever others do in the cluster between two steps of a request.
THEOREM InstalledAlwaysBackedInTurn == TurnSpec => []BackedInTurn
  <1>1. TurnInv => BackedInTurn
    BY DEF TurnInv, Turns, BackedInTurn
  <1>2. QED
    BY <1>1, TurnStart, TurnStep, PTL DEF TurnSpec

\* What a detection finds once it runs alone.
LEMMA TurnReflects ==
    ASSUME TurnInv, inTurn
    PROVE  ReflectsActions
  <1> SUFFICES ASSUME NEW c \in Calls, NEW n, n = calls[c].comp, Apply(c),
                      ~calls[c].seen.helmErr, items'[n] # items[n]
               PROVE  /\ items'[n].status = "NotInstalled" =>
                          \A ns \in Namespaces : releases[<<n, ns>>] # "installed"
                      /\ items'[n].managedBy = "knaic" =>
                          releases[<<n, items'[n].ns>>] # "none"
    BY DEF ReflectsActions
  <1>1. PICK scan : scan = calls[c].seen
    OBVIOUS
  <1>2. /\ n \in Names /\ scan \in Snapshot /\ TypeOK
        /\ UpToDate(scan) /\ ~scan.helmErr
    BY <1>1, CallTypes DEF TurnInv, IInv, CallsNamed, Turns, AllKnow, Knows, Apply
  <1>3. PICK item \in Item : Detected(n, scan, item) /\ Update(n, item)
    BY <1>1 DEF Apply
  <1>4. items'[n] = item
    BY <1>2, <1>3, UpdateRow
  <1>5. /\ item.status = "NotInstalled" => scan.knaic[n] = {}
        /\ item.managedBy = "knaic" => item.ns \in scan.knaic[n] /\ item.ns \in Namespaces
    BY <1>3, DetectedRow
  <1>6. QED
    BY <1>2, <1>4, <1>5 DEF UpToDate

\* When requests run one at a time, a detection that could list the releases
\* reports what the installs and uninstalls before it have done.
THEOREM StatusReflectsActionsInTurn == TurnSpec => StatusReflectsInTurn
  <1>1. TurnInv => (inTurn => ReflectsActions)
    BY TurnReflects
  <1>2. TurnInv /\ [TurnNext]_<<vars, inTurn>> => [inTurn => ReflectsActions]_vars
    BY <1>1
  <1>3. QED
    BY <1>2, TurnStart, TurnStep, PTL DEF TurnSpec, StatusReflectsInTurn

=============================================================================
