---------------------------- MODULE WorkspacePage ----------------------------
(***************************************************************************)
(* The page of a user's agent workspace: it provisions the workspace,      *)
(* polls it until its pod runs, trades the token for the proxy's cookie    *)
(* and opens the iframe; Restart and Resize roll the pod meanwhile.        *)
(* Source: frontend/src/pages/agent-workspace, api/agentWorkspace.ts.      *)
(***************************************************************************)
EXTENDS Naturals, FiniteSets

CONSTANTS
    MaxClicks,       \* bound: restarts and resizes
    MaxHasty,        \* bound: those and the events below, where answers may be late
    MaxPolls,        \* bound: polls, and what they lead to, in flight
    MaxEvents,       \* bound: what befalls the workspace from elsewhere
    Life,            \* minutes that a grant's cookie is valid (10)
    MintEvery,       \* minutes between two grants (9)
    WorkspaceWorlds  \* the circumstances to look at

WorkspaceCircumstances == {"prompt", "lossy", "gap", "others"}

ASSUME WorkspacePageAssumption ==
    /\ MaxClicks \in Nat /\ MaxHasty \in Nat /\ MaxPolls \in Nat /\ MaxEvents \in Nat
    /\ Life \in Nat /\ MintEvery \in Nat \ {0} /\ MintEvery < Life
    /\ WorkspaceWorlds \subseteq SUBSET WorkspaceCircumstances

VARIABLES
    deployment, \* the Deployment: its template's revision, whether it has a replica, the ready pod's revision
    phase,     \* what the page is in
    badge,     \* the status of the workspace it holds
    grant,     \* grantReady
    cookie,    \* minutes that the cookie is still valid
    due,       \* minutes until the next grant is asked for
    frame,     \* the revision that the iframe was opened on
    form,      \* the resize form
    requests,  \* in flight
    clicks,
    events,
    circumstances

workspaceVars ==
    <<deployment, phase, badge, grant, cookie, due, frame, form, requests, clicks, events, circumstances>>

Prompt == "prompt" \in circumstances  \* answers come before the next poll, minute or click
Fails  == "lossy" \in circumstances   \* requests may fail
Gap    == "gap" \in circumstances     \* the old pod is gone before the new one is ready
Others == "others" \in circumstances  \* the Deployment is scaled, deleted or restarted elsewhere

Statuses  == {"Running", "Starting", "Stopped"}
Revisions == 0..(MaxClicks + MaxEvents + 2)

\* No iframe; an open one is on a revision, or on none that answers (0).
NoFrame == [open |-> FALSE, on |-> 0]

Numbering == 0..(MaxPolls + MaxClicks + 4)

\* A request: its number, its kind, and what the server has
\* answered.
Request ==
    [n : Numbering, kind : {"get-or-create", "create", "poll", "mint", "restart", "resize"},
     at : {"sent", "served"}, got : Statuses \cup {"not-found", "ok"}]

WorkspaceTypeOK ==
    /\ deployment \in [exists : BOOLEAN, rev : Revisions, scaled : BOOLEAN, ready : Revisions]
    /\ phase \in {"init", "starting", "ready", "unavailable", "error"}
    /\ badge \in Statuses \cup {"none"}
    /\ grant \in BOOLEAN
    /\ cookie \in 0..Life /\ due \in 0..MintEvery
    /\ frame \in [open : BOOLEAN, on : Revisions]
    /\ form \in {"closed", "clean", "typed"}
    /\ requests \subseteq Request
    /\ clicks \in 0..MaxClicks /\ events \in 0..MaxEvents
    /\ circumstances \in WorkspaceWorlds

-----------------------------------------------------------------------------
(* The Deployment *)

Status ==
    IF ~deployment.exists THEN "not-found"
    ELSE IF ~deployment.scaled THEN "Stopped"
    ELSE IF deployment.ready # 0 THEN "Running" ELSE "Starting"

\* A new template; a rolling update keeps the old pod ready until the new is.
Rolled(d) == [d EXCEPT !.rev = @ + 1, !.ready = IF Gap THEN 0 ELSE @]

\* A new Deployment.
Created(d) == [exists |-> TRUE, rev |-> d.rev + 1, scaled |-> TRUE, ready |-> 0]

\* The pod of the current template is ready.
PodReady ==
    /\ deployment.exists /\ deployment.scaled /\ deployment.ready # deployment.rev
    /\ deployment' = [deployment EXCEPT !.ready = deployment.rev]
    /\ UNCHANGED <<phase, badge, grant, cookie, due, frame, form, requests, clicks, events, circumstances>>

\* Within the bound for late answers.
Leisure == Prompt \/ clicks + events < MaxHasty

\* Somebody else scales, restarts or deletes the workspace.
Elsewhere ==
    /\ Others /\ events < MaxEvents /\ Leisure
    /\ deployment.exists
    /\ events' = events + 1
    /\ deployment' \in {[deployment EXCEPT !.scaled = ~@, !.ready = 0], Rolled(deployment),
                    [deployment EXCEPT !.exists = FALSE, !.ready = 0]}
    /\ UNCHANGED <<phase, badge, grant, cookie, due, frame, form, requests, clicks, circumstances>>

-----------------------------------------------------------------------------
(* The page *)

\* phaseForStatus, of the statuses that the service has.
PhaseOf(status) ==
    CASE status = "Running" -> "ready" [] status = "Starting" -> "starting" [] status = "Stopped" -> "unavailable"

InFlight(kind) == {r \in requests : r.kind = kind}

FreeNumber == CHOOSE i \in Numbering : \A r \in requests : r.n # i

Sent(kind) == [n |-> FreeNumber, kind |-> kind, at |-> "sent", got |-> "ok"]

\* An iframe that is opened now.
Opened == [open |-> TRUE, on |-> deployment.ready]

\* The effects of a phase p, when the requests rs stay: the grant is asked for
\* on entry to ready and dropped, with the iframe, on leaving it; a grant that
\* is answered after that changes the cookie only, and is left out.
Enter(p, rs) ==
    /\ phase' = p
    /\ IF p = phase THEN requests' = rs /\ UNCHANGED <<grant, due, frame>>
       ELSE /\ grant' = FALSE
            /\ frame' = NoFrame
            /\ due' = IF p = "ready" THEN MintEvery ELSE 0
            /\ requests' = {r \in rs : r.kind # "mint"} \cup {Sent("mint") : x \in {p} \cap {"ready"}}

\* apply: a status is taken in, and the resize form is filled again.
Apply(status, rs) ==
    /\ badge' = status
    /\ Enter(PhaseOf(status), rs)

Refilled == IF form = "closed" THEN "closed" ELSE "clean"

\* The page is mounted.
WorkspaceInit ==
    /\ circumstances \in WorkspaceWorlds
    /\ deployment \in {[exists |-> e, rev |-> 1, scaled |-> TRUE, ready |-> y] : e \in {TRUE}, y \in {0, 1}}
                    \cup {[exists |-> FALSE, rev |-> 0, scaled |-> TRUE, ready |-> 0]}
    /\ phase = "init" /\ badge = "none"
    /\ grant = FALSE /\ cookie = 0 /\ due = 0
    /\ frame = NoFrame /\ form = "closed"
    /\ requests = {[n |-> 0, kind |-> "get-or-create", at |-> "sent", got |-> "ok"]}
    /\ clicks = 0 /\ events = 0

\* MUTANT of Polling: only an error stops it.
PollingOnceReady == phase # "error"

\* Every three seconds, until the workspace runs or an error is shown.
Polling == phase \notin {"ready", "error"}

Poll ==
    /\ Polling
    /\ Prompt => requests = {}
    /\ Cardinality(UNION {InFlight(k) : k \in {"poll", "get-or-create", "create"}}) < MaxPolls
    /\ requests' = requests \cup {Sent("poll")}
    /\ UNCHANGED <<deployment, phase, badge, grant, cookie, due, frame, form, clicks, events, circumstances>>

\* A minute passes, counted where answers are prompt: the cookie ages and the
\* grant is asked for anew in time.
Tick ==
    /\ Prompt /\ requests = {}
    /\ cookie > 0 \/ due > 0
    /\ cookie' = IF cookie = 0 THEN 0 ELSE cookie - 1
    /\ IF due = 1 THEN requests' = {Sent("mint")} /\ due' = MintEvery
       ELSE due' = (IF due = 0 THEN 0 ELSE due - 1) /\ UNCHANGED requests
    /\ UNCHANGED <<deployment, phase, badge, grant, frame, form, clicks, events, circumstances>>

\* Restart and Resize are offered.
Offered == phase \notin {"init", "error"} /\ form = "closed"

MayClick == clicks < MaxClicks /\ Leisure

Clicks(kind) ==
    /\ MayClick
    /\ Prompt => requests = {}
    /\ InFlight(kind) = {}
    /\ clicks' = clicks + 1
    /\ Enter("starting", requests \cup {Sent(kind)})

\* MUTANT of ClickRestart: the page stays as it is until the answer is there.
ClickRestartInPlace ==
    /\ Offered /\ MayClick
    /\ Prompt => requests = {}
    /\ InFlight("restart") = {}
    /\ clicks' = clicks + 1
    /\ requests' = requests \cup {Sent("restart")}
    /\ UNCHANGED <<deployment, phase, badge, grant, cookie, due, frame, form, events, circumstances>>

ClickRestart ==
    /\ Offered
    /\ Clicks("restart")
    /\ UNCHANGED <<deployment, badge, cookie, form, events, circumstances>>

\* The form is open while the resize is under way, and after it has failed.
SubmitResize ==
    /\ form # "closed"
    /\ Clicks("resize")
    /\ UNCHANGED <<deployment, badge, cookie, form, events, circumstances>>

\* The user opens the form, types into it, or closes it.
EditForm ==
    /\ form' \in (CASE form = "closed" -> {"clean"} [] form = "clean" -> {"typed", "closed"} [] form = "typed" -> {"closed"})
    /\ form = "closed" => Offered /\ MayClick
    /\ UNCHANGED <<deployment, phase, badge, grant, cookie, due, frame, requests, clicks, events, circumstances>>

-----------------------------------------------------------------------------
(* The server and its answers *)

\* The server handles a request.
ServeRequest(r) ==
    /\ r.at = "sent"
    /\ deployment' = CASE r.kind = "create" /\ ~deployment.exists               -> Created(deployment)
                   [] r.kind \in {"restart", "resize"} /\ deployment.exists -> Rolled(deployment)
                   [] OTHER                                             -> deployment
    /\ cookie' = IF r.kind = "mint" THEN Life ELSE cookie
    /\ requests' = (requests \ {r}) \cup {[r EXCEPT !.at = "served", !.got = IF r.kind = "mint" THEN "ok" ELSE Status']}
    /\ UNCHANGED <<phase, badge, grant, due, frame, form, clicks, events, circumstances>>

Answers(r, kinds) == r.kind \in kinds /\ r.at = "served"

\* MUTANT of StatusAnswered: a poll does not create what it does not find.
StatusAnsweredUncreated(r) ==
    /\ Answers(r, {"get-or-create", "create", "poll"})
    /\ IF r.got # "not-found" THEN Apply(r.got, requests \ {r}) /\ form' = Refilled
       ELSE /\ IF r.kind = "poll" THEN Enter("init", requests \ {r})
               ELSE requests' = (requests \ {r}) \cup {Sent("create")} /\ UNCHANGED <<phase, grant, due, frame>>
            /\ UNCHANGED <<badge, form>>
    /\ UNCHANGED <<deployment, cookie, clicks, events, circumstances>>

\* ensure and refresh: what is not there is created, by a second request.
StatusAnswered(r) ==
    /\ Answers(r, {"get-or-create", "create", "poll"})
    /\ IF r.got # "not-found" THEN Apply(r.got, requests \ {r}) /\ form' = Refilled
       ELSE /\ IF r.kind = "poll" THEN Enter("init", (requests \ {r}) \cup {Sent("get-or-create")})
               ELSE requests' = (requests \ {r}) \cup {Sent("create")} /\ UNCHANGED <<phase, grant, due, frame>>
            /\ UNCHANGED <<badge, form>>
    /\ UNCHANGED <<deployment, cookie, clicks, events, circumstances>>

\* The iframe opens once there is a cookie.
MintAnswered(r) ==
    /\ Answers(r, {"mint"})
    /\ requests' = requests \ {r}
    /\ grant' = TRUE
    /\ frame' = IF grant THEN frame ELSE Opened
    /\ UNCHANGED <<deployment, phase, badge, cookie, due, form, clicks, events, circumstances>>

\* The answer of an operation counts as Starting, whatever it says.
OperationAnswered(r) ==
    /\ Answers(r, {"restart", "resize"})
    /\ IF r.got = "not-found" THEN Enter("error", requests \ {r}) /\ UNCHANGED <<badge, form>>
       ELSE /\ Apply("Starting", requests \ {r})
            /\ form' = IF r.kind = "resize" THEN "closed" ELSE Refilled
    /\ UNCHANGED <<deployment, cookie, clicks, events, circumstances>>

\* A request fails, before or after the server has handled it: the page shows
\* the error, and asks no more.
RequestFails(r) ==
    /\ Fails
    /\ Enter("error", requests \ {r})
    /\ UNCHANGED <<deployment, badge, cookie, form, clicks, events, circumstances>>

-----------------------------------------------------------------------------
AnswerRequest(kinds) ==
    \E r \in requests :
        /\ r.kind \in kinds
        /\ ServeRequest(r) \/ StatusAnswered(r) \/ MintAnswered(r) \/ OperationAnswered(r) \/ RequestFails(r)

WorkspaceNext ==
    \/ PodReady \/ Elsewhere
    \/ Poll \/ Tick
    \/ ClickRestart \/ EditForm \/ SubmitResize
    \/ AnswerRequest({"get-or-create", "create"}) \/ AnswerRequest({"poll"})
    \/ AnswerRequest({"mint"}) \/ AnswerRequest({"restart", "resize"})

\* The page on its own.
WorkspaceSpec == WorkspaceInit /\ [][WorkspaceNext]_workspaceVars

-----------------------------------------------------------------------------
(* Properties *)

\* The badge in the header and the body of the page come from one answer: when
\* nothing but polls and grants are in flight and no error is shown, the phase
\* is that of the status shown, however answers, clicks and deletions mix.
BadgeAgrees ==
    (\A r \in requests : r.kind \in {"poll", "mint"}) /\ phase # "error" =>
        badge # "none" /\ phase = PhaseOf(badge)

\* The iframe never outlives the pod it was opened on: after Restart and Resize
\* it is there again only once it reaches the new pod.  So it is if answers
\* come before the next poll and the old pod is gone before the new one is
\* ready; a rolling update counts the old pod as Running, and the iframe may be
\* opened on it.
FrameOnCurrentPod == Prompt /\ Gap /\ ~Others /\ frame.open => frame.on = deployment.rev

\* The iframe has a valid cookie, through restarts and failures, as long as
\* grants are answered within the minute: the interval of the effect and the
\* life of the cookie fit.
CookieIsValid == Prompt /\ frame.open => cookie > 0

\* Header, body and iframe of the page agree with each other, with the cookie
\* and with the Deployment.
WorkspacePageInv == WorkspaceTypeOK /\ BadgeAgrees /\ FrameOnCurrentPod /\ CookieIsValid

\* What is typed into the resize form stays while the workspace runs, if each
\* answer comes before the next poll: none is then in flight.  The code does
\* not keep it otherwise: every answer fills the form anew, so polls do while
\* the workspace starts, and so does, while it runs, the answer of a second poll
\* that was sent before the first one's made the page ready.
TypedStays == [][Prompt /\ phase = "ready" /\ form = "typed" => form' # "clean"]_workspaceVars

\* The page opens the workspace in the end: provisioned when there is none,
\* again after restarts, and after a deletion noticed by a poll.  An error is
\* final, but there is none unless requests fail or what is restarted is gone.
PageOpens ==
    []<>(frame.open \/ ~deployment.scaled \/ (phase = "error" /\ (Fails \/ Others)))

=============================================================================
