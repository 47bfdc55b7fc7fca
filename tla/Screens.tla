------------------------------- MODULE Screens -------------------------------
(***************************************************************************)
(* The console's pages as panels.  A panel reads a list or a detail for    *)
(* the key that is selected (the namespace of the header, a bucket, a      *)
(* branch, a time range), shows it, and offers operations on what it       *)
(* shows, some behind a confirmation or a form.  How a panel guards itself *)
(* against late answers, empties itself, reports failures, aims its        *)
(* requests and lists again is its profile, given in module Pages; the     *)
(* actions are the user's, the requests' and their answers'.               *)
(* Source: frontend/src/pages, layouts, context.                           *)
(***************************************************************************)
EXTENDS Naturals

CONSTANTS
    Keys,     \* namespaces, or what else selects the contents of a panel
    None,     \* nothing is selected, closed, carried
    MaxActs,  \* bound: what the user does
    MaxVer,   \* bound: versions of what a key names; 0 is what is shown before any answer
    ScreenWorlds    \* the panels and circumstances to look at

ScreenCircumstances == {"in-turn", "lossy", "settling"}

(* An operation of a panel.                                                *)
(*   aim:     its request names the namespace of the row that was clicked, *)
(*            the key when it was clicked, or the key when it is sent      *)
(*   opens:   it is sent by the click, after modal.confirm, from a form,   *)
(*            from a form of the page itself, or from an editor that opens *)
(*            on what a read of its own brings                             *)
(*   then:    what success does to the panel; "elsewhere" changes nothing  *)
(*            that the panel lists, "shown", "opened" and "saved" only     *)
(*            read                                                         *)
(*   fails:   whether a failed one closes its confirmation                 *)
(*   once:    its button waits for the answer                              *)
(*   carries: a change, or the whole as it was when the form was filled    *)
Operation ==
    [aim : {"row", "opened", "page"},
     opens : {"at-once", "confirm", "form", "inline", "fetched", "fetched-or-built"},
     then : {"store", "captured", "patch", "nothing", "elsewhere", "shown", "opened", "saved"},
     fails : {"closes", "stays"}, once : BOOLEAN, carries : {"change", "as-opened", "as-mounted"}]

(* A panel.                                                                *)
(*   from:    a store of many keys, a store of one key at a time, or state *)
(*            of the page                                                  *)
(*   guard:   what keeps a late answer out: rows are filtered by their     *)
(*            key, the effect's cleanup cancels its request                *)
(*   blank:   a new key empties the panel before its answer is there       *)
(*   failed:  a failed read leaves, empties or replaces the contents       *)
(*   spinner: cleared by every answer or by the current one, or shown as   *)
(*            long as there is nothing else; masks: in the contents' place *)
(*   empty:   whether there may be nothing selected, and what that leaves  *)
(*   again:   the read is sent again without a new key (poll, refresh)     *)
(*   by:      what the key is: the namespace, the page's choice, or fixed  *)
(*   stray:   a new namespace is first read with the choice made in the    *)
(*            old one                                                      *)
Panel ==
    [from : {"store", "slot", "own"}, guard : SUBSET {"filter", "cancel"}, blank : BOOLEAN,
     failed : {"keeps", "empties", "stands-in"},
     spinner : {"none", "always-cleared", "if-current", "until-filled"}, masks : BOOLEAN,
     empty : {"never", "keeps", "empties"}, again : BOOLEAN,
     by : {"namespace", "selection", "nothing"}, stray : BOOLEAN, ops : SUBSET Operation]

(* What the pages of the console have in common, in whatever else they     *)
(* differ: tables over a store are filtered; a panel whose effect cancels  *)
(* its request is not listed again by an operation; a spinner that masks   *)
(* is that of the request that counts; a stray read that fails empties;    *)
(* every change is shown; a confirmation fixes its namespace; what only    *)
(* reads is sent at once; and operations name the row's namespace where    *)
(* rows of another may be on show.                                         *)
Careful(p) ==
    /\ p.from # "own" => "filter" \in p.guard
    /\ "cancel" \in p.guard => p.from = "own" /\ \A op \in p.ops : op.then \notin {"store", "captured"}
    /\ p.masks => p.spinner = "if-current" /\ "cancel" \in p.guard
    /\ p.stray => p.failed = "empties"
    /\ \A op \in p.ops :
        /\ op.then # "nothing"
        /\ op.opens = "confirm" => op.aim # "page"
        /\ op.then \in {"shown", "opened"} => op.opens = "at-once"
        /\ p.by # "nothing" => /\ p.guard = {"cancel"} => op.aim = "row"
                               /\ p.guard = {} /\ p.failed = "keeps" /\ op.then \in {"shown", "opened"} => op.aim = "row"

ASSUME ScreensAssumption ==
    /\ None \notin Keys /\ None \notin Nat
    /\ MaxActs \in Nat /\ MaxVer \in Nat \ {0}
    /\ ScreenWorlds \subseteq [panel : Panel, now : SUBSET ScreenCircumstances]

VARIABLES
    key,     \* what is selected
    server,  \* the version of what a key names
    view,    \* what the panel holds: versions of keys
    spin,    \* the page's loading flag
    dialog,  \* the open confirmation, form or editor
    viewer,  \* the open viewer
    calls,   \* the requests in flight
    acts,    \* what the user has done
    settled, \* the sign-in has chosen the namespace
    screenWorld    \* the panel and the circumstances of this behaviour

screenVars == <<key, server, view, spin, dialog, viewer, calls, acts, settled, screenWorld>>

panel    == screenWorld.panel
InTurn   == "in-turn" \in screenWorld.now    \* the user waits for the answers
Misses   == "lossy" \in screenWorld.now      \* requests may fail
Settling == "settling" \in screenWorld.now   \* the page is used before the namespaces are known

Selections == IF panel.empty = "never" THEN Keys ELSE Keys \cup {None}

Vers == 0..MaxVer

Numbers == 0..(2 * MaxActs + 3)  \* bound: requests in flight

\* What the panel shows of a key, or a stand-in for it.
Entry == [of : Keys, ver : Vers, real : BOOLEAN]

\* An open dialog: its operation, the row and the key it was opened on, which
\* of the user's acts that was, the version it was filled with.
Dialog == [op : Operation, row : Keys, page : Keys, id : Nat, ver : Vers, busy : BOOLEAN]

\* An open viewer: the row and act it was opened by, the key and the act
\* whose answer it shows.
Viewer == [row : Keys, id : Nat, key : Keys \cup {None}, got : Nat \cup {None}]

\* A request: a read of the panel and whether its effect is still current,
\* the read of an editor, or an operation and what it carries.
Request ==
    [n : Numbers, kind : {"read", "stray", "fetch", "op"}, op : Operation \cup {None}, key : Keys, page : Keys,
     row : Keys, id : Nat, base : Vers \cup {None}, live : BOOLEAN, at : {"sent", "served"}, saw : Vers]

Closed == None

ScreenTypeOK ==
    /\ key \in Selections
    /\ server \in [Keys -> Vers]
    /\ view \subseteq Entry
    /\ spin \in BOOLEAN
    /\ dialog \in Dialog \cup {Closed}
    /\ viewer \in Viewer \cup {Closed}
    /\ calls \subseteq Request
    /\ acts \in 0..MaxActs
    /\ settled \in BOOLEAN
    /\ screenWorld \in ScreenWorlds

\* What the user sees: of a filtered table, the rows of the namespace; while a
\* spinner masks it, or with nothing selected, nothing.
Shown ==
    IF (panel.masks /\ spin) \/ key = None THEN {}
    ELSE IF "filter" \in panel.guard THEN {e \in view : e.of = key} ELSE view

Reads == {c \in calls : c.kind \in {"read", "stray"}}
Quiet == calls = {}

-----------------------------------------------------------------------------
(* Reading *)

Free(i) == \A c \in calls : c.n # i

\* A number that no request in flight has.
Fresh == CHOOSE i \in Numbers \ {0} : Free(i) /\ \A j \in 1..(i - 1) : ~Free(j)

ReadOf(k) ==
    [n |-> Fresh, kind |-> "read", op |-> None, key |-> k, page |-> k, row |-> k, id |-> 0,
     base |-> None, live |-> TRUE, at |-> "sent", saw |-> 0]

\* The cleanup of an effect cancels its request, where it does.
Cancelled(cs) ==
    IF "cancel" \in panel.guard
    THEN {IF c.kind = "read" THEN [c EXCEPT !.live = FALSE] ELSE c : c \in cs} ELSE cs

HasFlag == panel.spinner \in {"always-cleared", "if-current"}

\* MUTANT of Needs: nothing is listed while any list is under way.
NeedsIdle(k) ==
    \/ panel.from = "own"
    \/ (panel.from = "store" => \A e \in view : e.of # k) /\ Reads = {}

\* A store lists a namespace that it has not listed; one that holds a single
\* namespace lists at every visit; neither while that list is under way.
Needs(k) ==
    \/ panel.from = "own"
    \/ /\ panel.from = "store" => \A e \in view : e.of # k
       /\ \A c \in Reads : c.key # k

\* The panel asks for key k, next to the calls that stay.
Ask(k, others) ==
    /\ calls' = others \cup {ReadOf(k)}
    /\ spin' = HasFlag

\* A new namespace, with the choice made in the old one, and then its own.
AskTwice(k, others) ==
    /\ calls' = others \cup {[ReadOf(k) EXCEPT !.kind = "stray", !.n = 0], ReadOf(k)}
    /\ spin' = HasFlag

\* The effects of a new key.
Effect(k) ==
    /\ key' = k
    /\ view' = IF panel.from = "own" /\ (panel.blank \/ (k = None /\ panel.empty = "empties")) THEN {} ELSE view
    /\ viewer' = IF panel.from = "own" THEN Closed ELSE viewer
    /\ IF k = None \/ ~Needs(k) THEN calls' = Cancelled(calls) /\ UNCHANGED spin
       ELSE IF panel.stray /\ key # None THEN AskTwice(k, Cancelled(calls))
       ELSE Ask(k, Cancelled(calls))

\* The page is mounted.
ScreenInit ==
    /\ screenWorld \in ScreenWorlds
    /\ key \in Selections
    /\ server = [k \in Keys |-> 1]
    /\ view = {} /\ dialog = Closed /\ viewer = Closed
    /\ acts = 0
    /\ calls = {[n |-> 1, kind |-> "read", op |-> None, key |-> k, page |-> k, row |-> k, id |-> 0,
                 base |-> None, live |-> TRUE, at |-> "sent", saw |-> 0] : k \in {key} \ {None}}
    /\ spin = (key # None /\ HasFlag)
    /\ settled = ~(Settling /\ panel.by = "namespace")

\* A dialog masks the page, and so does the viewer of a table.
Unmasked == dialog = Closed /\ (viewer # Closed => panel.from = "own")

Acts ==
    /\ acts < MaxActs
    /\ acts' = acts + 1
    /\ InTurn => Quiet
    /\ Unmasked

\* The user selects.
Select(k) ==
    /\ Acts
    /\ panel.by # "nothing"
    /\ k \in Selections \ {key}
    /\ Effect(k)
    /\ UNCHANGED <<server, dialog, settled, screenWorld>>

\* The namespaces arrive, and the stored one may not be among them.
Settle(k) ==
    /\ ~settled
    /\ settled' = TRUE
    /\ IF k = key THEN UNCHANGED <<key, view, viewer, calls, spin>> ELSE Effect(k)
    /\ UNCHANGED <<server, dialog, acts, screenWorld>>

\* The panel polls, or its refresh button is clicked.
Again ==
    /\ Acts
    /\ panel.again /\ key # None
    /\ Ask(key, Cancelled(calls))
    /\ UNCHANGED <<key, server, view, dialog, viewer, settled, screenWorld>>

-----------------------------------------------------------------------------
(* Operations *)

Fetches(op) == op.opens \in {"fetched", "fetched-or-built"}
Changes(op) == op.then \in {"store", "captured", "patch", "nothing"}

\* The namespace that a request names, of an operation clicked on a row when
\* opened was selected.
Target(op, row, opened) ==
    CASE op.aim = "row" -> row [] op.aim = "opened" -> opened [] op.aim = "page" -> key

Sends(kind, op, row, opened, id, base) ==
    /\ calls' = calls \cup
          {[ReadOf(Target(op, row, opened)) EXCEPT
              !.kind = kind, !.op = op, !.row = row, !.id = id, !.base = base,
              !.page = IF op.opens = "confirm" \/ op.aim = "opened" THEN opened ELSE key]}

Carried(op, ver) ==
    CASE op.carries = "change" -> None [] op.carries = "as-opened" -> ver [] op.carries = "as-mounted" -> 0

\* The user clicks an operation of a row that is shown.
Click(op, e) ==
    /\ Acts
    /\ key # None
    /\ IF op.opens \in {"confirm", "form"}
       THEN /\ dialog' = [op |-> op, row |-> e.of, page |-> key, id |-> acts', ver |-> e.ver, busy |-> FALSE]
            /\ UNCHANGED calls
       ELSE /\ IF Fetches(op) THEN Sends("fetch", op, e.of, key, acts', e.ver)
               ELSE Sends("op", op, e.of, key, acts', Carried(op, e.ver))
            /\ UNCHANGED dialog
    /\ viewer' = IF op.then = "opened" THEN [row |-> e.of, id |-> acts', key |-> None, got |-> None] ELSE viewer
    /\ UNCHANGED <<key, server, view, spin, settled, screenWorld>>

\* The user confirms, or submits the form, and submits it again where nothing
\* keeps the button from it.
Submit ==
    /\ dialog # Closed /\ key # None
    /\ IF dialog.busy THEN ~dialog.op.once /\ ~InTurn /\ acts < MaxActs /\ acts' = acts + 1 ELSE UNCHANGED acts
    /\ Sends("op", dialog.op, dialog.row, dialog.page, dialog.id, Carried(dialog.op, dialog.ver))
    /\ dialog' = [dialog EXCEPT !.busy = TRUE]
    /\ UNCHANGED <<key, server, view, spin, viewer, settled, screenWorld>>

\* The user closes it, be it while the answer is under way.
Dismiss ==
    /\ dialog # Closed
    /\ InTurn => ~dialog.busy
    /\ dialog' = Closed
    /\ UNCHANGED <<key, server, view, spin, viewer, calls, acts, settled, screenWorld>>

\* The user closes the viewer.
CloseViewer ==
    /\ viewer # Closed
    /\ viewer' = Closed
    /\ UNCHANGED <<key, server, view, spin, dialog, calls, acts, settled, screenWorld>>

-----------------------------------------------------------------------------
(* The server and its answers *)

IsEdit(c) == c.kind = "op" /\ Changes(c.op)

\* The server handles a request.
Serve(c) ==
    /\ c.at = "sent" /\ c.kind # "stray"
    /\ IsEdit(c) => server[c.key] < MaxVer
    /\ server' = IF IsEdit(c) THEN [server EXCEPT ![c.key] = @ + 1] ELSE server
    /\ calls' = (calls \ {c}) \cup {[c EXCEPT !.at = "served", !.saw = server'[c.key]]}
    /\ UNCHANGED <<key, view, spin, dialog, viewer, acts, settled, screenWorld>>

Over(c) == calls' = calls \ {c}

\* The contents of a key, in a store of many next to those of the others.
With(k, v, real) ==
    (IF panel.from = "store" THEN {e \in view : e.of # k} ELSE {})
        \cup {[of |-> k, ver |-> v, real |-> real]}

\* MUTANT of Accepted: the answer does not look at the cleanup's flag.
AcceptedLate(c) == TRUE

Accepted(c) == "cancel" \in panel.guard => c.live

Cleared(c) == IF panel.spinner = "if-current" /\ ~c.live THEN spin ELSE FALSE

\* A read is answered.
Arrives(c) ==
    /\ c.kind = "read" /\ c.at = "served"
    /\ view' = IF Accepted(c) THEN With(c.key, c.saw, TRUE) ELSE view
    /\ spin' = Cleared(c)
    /\ Over(c)
    /\ UNCHANGED <<key, server, dialog, viewer, acts, settled, screenWorld>>

\* A read fails, and one with a choice that the namespace does not have always.
ReadFails(c) ==
    /\ c.kind = "stray" \/ (c.kind = "read" /\ Misses)
    /\ view' = IF ~Accepted(c) \/ panel.failed = "keeps" THEN view
               ELSE IF panel.failed = "empties" THEN {e \in view : panel.from = "store" /\ e.of # c.key}
               ELSE With(c.key, 0, FALSE)
    /\ spin' = Cleared(c)
    /\ Over(c)
    /\ UNCHANGED <<key, server, dialog, viewer, acts, settled, screenWorld>>

\* An editor opens on what its read has brought, or on what the page builds.
OpensEditor(c, ver) ==
    dialog' = [op |-> c.op, row |-> c.row, page |-> c.page, id |-> c.id, ver |-> ver, busy |-> FALSE]

EditorOpens(c) ==
    /\ c.kind = "fetch" /\ c.at = "served"
    /\ OpensEditor(c, c.saw)
    /\ Over(c)
    /\ UNCHANGED <<key, server, view, spin, viewer, acts, settled, screenWorld>>

EditorFails(c) ==
    /\ c.kind = "fetch" /\ Misses
    /\ IF c.op.opens = "fetched-or-built" THEN OpensEditor(c, c.base) ELSE UNCHANGED dialog
    /\ Over(c)
    /\ UNCHANGED <<key, server, view, spin, viewer, acts, settled, screenWorld>>

\* A confirmation closes itself; a form closes whichever is open.
CloseOf(c) ==
    dialog' = IF dialog = Closed \/ c.op.opens \in {"at-once", "inline"} \/ (c.op.opens = "confirm" /\ dialog.id # c.id)
              THEN dialog ELSE Closed

\* What the panel does when its operation has succeeded.
Follows(c) ==
    IF c.op.then \in {"store", "captured"} THEN Ask(c.page, calls \ {c}) /\ UNCHANGED view
    ELSE /\ view' = IF c.op.then = "patch"
                     THEN {IF e.of = c.key THEN [e EXCEPT !.ver = c.saw] ELSE e : e \in view} ELSE view
         /\ Over(c)
         /\ UNCHANGED spin

\* What the viewer shows then.
Shows(c) ==
    viewer' = CASE c.op.then = "shown" -> [row |-> c.row, id |-> c.id, key |-> c.key, got |-> c.id]
                [] c.op.then = "opened" /\ viewer # Closed -> [viewer EXCEPT !.key = c.key, !.got = c.id]
                [] OTHER -> viewer

\* An operation is answered.
Done(c) ==
    /\ c.kind = "op" /\ c.at = "served"
    /\ Follows(c) /\ CloseOf(c) /\ Shows(c)
    /\ UNCHANGED <<key, server, acts, settled, screenWorld>>

\* It fails, or the server refuses it: a form stays open with its input.  The
\* text that a YAML view makes up from its row is not modelled.
OpFails(c) ==
    /\ c.kind = "op"
    /\ Misses \/ (c.at = "sent" /\ IsEdit(c) /\ server[c.key] = MaxVer)
    /\ Over(c)
    /\ dialog' = IF dialog = Closed \/ dialog.id # c.id THEN dialog
                 ELSE IF c.op.fails = "stays" THEN [dialog EXCEPT !.busy = FALSE] ELSE Closed
    /\ viewer' = IF c.op.then = "opened" THEN Closed ELSE viewer
    /\ UNCHANGED <<key, server, view, spin, acts, settled, screenWorld>>

-----------------------------------------------------------------------------
AnswerRead == \E c \in Reads : Serve(c) \/ Arrives(c) \/ ReadFails(c)

AnswerOther == \E c \in calls \ Reads : Serve(c) \/ EditorOpens(c) \/ EditorFails(c) \/ Done(c) \/ OpFails(c)

ScreenNext ==
    \/ \E k \in Keys \cup {None} : Select(k)
    \/ \E k \in Keys : Settle(k)
    \/ Again
    \/ \E op \in panel.ops, e \in Shown : Click(op, e)
    \/ Submit
    \/ Dismiss
    \/ CloseViewer
    \/ AnswerRead
    \/ AnswerOther

\* Every request is answered or fails in the end.
ScreenSpec == ScreenInit /\ [][ScreenNext]_screenVars /\ WF_screenVars(AnswerRead) /\ WF_screenVars(AnswerOther)

-----------------------------------------------------------------------------
(* Properties *)

\* Late answers are kept out, whatever the user does meanwhile.
Guarded == panel.guard # {} \/ panel.by = "nothing"

\* A failed read may leave what was there.
Keeps == Misses /\ panel.failed = "keeps"

\* A page shows what is selected: contents of another key are there only
\* until the read of the selected one is answered, and only in a page that
\* neither filters its rows, nor empties itself, nor masks them by its
\* spinner; or after that read failed.  Of the pages that let late answers in
\* this is so when the user waits for the answers.
ShowsItsKey ==
    Guarded \/ InTurn =>
        \A e \in Shown :
            \/ e.of = key
            \/ "filter" \notin panel.guard /\ ~panel.blank
                 /\ (Keeps \/ (~panel.masks /\ \E c \in Reads : c.key = key /\ c.live))

\* A request goes to the namespace of the row that the user clicked: through
\* confirmations, forms and answers that arrive late, and also when the
\* namespace changes under an open confirmation.  Excepted are the forms that
\* read the namespace as they are sent, while the namespaces are still to
\* come, and pages that let late rows in, or keep those of another namespace
\* after a failure, and do not name the row's.
ActsOnItsRow ==
    \A c \in calls \ Reads :
        \/ c.key = c.row
        \/ c.op.aim = "page" /\ (Settling \/ (~InTurn /\ Fetches(c.op))) /\ c.op.opens \notin {"at-once", "confirm"}
        \/ ~Guarded /\ (~InTurn \/ Keeps) /\ c.op.aim # "row"

\* When a user who waits for the answers has got them all, and none failed,
\* the page shows the latest version of what is selected: no operation
\* forgets to list again what it has changed.  (A stray read may empty it.)
ShowsLatest ==
    InTurn /\ ~Misses /\ ~panel.stray /\ Quiet /\ key # None =>
        {e \in Shown : e.of = key} = {[of |-> key, ver |-> server[key], real |-> TRUE]}

\* A form that sends back all it was filled with was filled with the version
\* that it replaces, when the user waits for the answers: through lists and
\* patches of earlier operations, the edits of one user build on each other.
\* (The registry's form is filled before anything was read.)
EditsBuildOnLatest ==
    InTurn /\ ~Misses =>
        \A c \in calls :
            IsEdit(c) /\ c.at = "sent" /\ c.op.carries = "as-opened" => c.base = server[c.key]

\* What a viewer shows is of the row that was clicked; and, if the user waits
\* for the answers, a viewer that was opened before its answer was there is
\* made ready by that answer and no other.
ViewerHasItsOwn ==
    viewer # Closed /\ viewer.got # None =>
        /\ viewer.key = viewer.row \/ (~Guarded /\ ~InTurn) \/ viewer.got # viewer.id
        /\ InTurn => viewer.got = viewer.id

\* Contents and viewers of a page are those of what is selected or was clicked.
ShowsItsOwn == ScreenTypeOK /\ ShowsItsKey /\ ViewerHasItsOwn

\* Rows, and the forms that are filled from them, are up to date.
LatestInTurn == ShowsLatest /\ EditsBuildOnLatest

\* A page that says it is loading waits for an answer: no cancelled, failed or
\* overtaken read leaves it spinning.  (A page that takes what is missing for
\* what is still to come does spin on after a failure.)
SpinnerIsBacked ==
    LET loading == IF panel.spinner = "until-filled" THEN key # None /\ Shown = {} /\ ~Misses ELSE spin
    IN loading => \E c \in Reads : panel.spinner = "if-current" => c.live

\* If no request fails, a page that stays on a key comes to show it, however
\* the user went back and forth before; a page that lets late answers in, or
\* whose store holds one namespace at a time, if the user waits.
PanelFills ==
    []<>(\/ Misses \/ panel.stray \/ key = None
         \/ (~Guarded \/ panel.from = "slot") /\ ~InTurn
         \/ \E e \in view : e.of = key /\ e.real)

\* No page stays loading, and none stays empty.
PanelSettles == []SpinnerIsBacked /\ PanelFills

=============================================================================
