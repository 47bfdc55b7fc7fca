------------------------------- MODULE SignIn -------------------------------
(***************************************************************************)
(* The console's sign-in: AuthProvider's bootstrap, OIDC code flow, token  *)
(* refresh, 401 handling, retry and logout, in tabs that share             *)
(* localStorage, with every await a step of its own and answers arriving   *)
(* in any order.                                                           *)
(* Source: frontend/src/auth (AuthContext.tsx, oidc.ts), api/client.ts,    *)
(* api/auth.ts, data/reset.ts.                                             *)
(***************************************************************************)
EXTENDS Naturals

CONSTANTS
    Tabs,        \* tabs of one browser
    MaxTokens,   \* bound: token sets the identity provider issues
    MaxLogins,   \* bound: logins begun
    MaxReloads,  \* bound: reloads of a tab by its user
    Worlds       \* the circumstances to look at

Circumstances == {"dev-bypass", "one-tab", "lossy", "strict", "reloads", "bursts"}

ASSUME SignInAssumption ==
    /\ MaxTokens \in Nat /\ MaxLogins \in Nat /\ MaxReloads \in Nat
    /\ Worlds \subseteq SUBSET Circumstances

VARIABLES
    stored,       \* localStorage knaic:auth:tokens (0: none)
    fresh,        \* token sets whose expiresAt is more than 30 s away
    live,         \* access tokens knaic-api accepts
    refreshable,  \* token sets with a refresh token the provider accepts
    issued,       \* how many token sets there have been
    logins,       \* how many logins were begun
    exchanged,    \* logins whose code was sent to the token endpoint
    tab,          \* the tabs
    world         \* the circumstances of this behaviour

vars == <<stored, fresh, live, refreshable, issued, logins, exchanged, tab, world>>

DevBypass == "dev-bypass" \in world  \* knaic-api accepts calls without a token
OneTab    == "one-tab" \in world     \* the browser has one tab
Lossy     == "lossy" \in world       \* requests may fail
Reloads   == "reloads" \in world     \* the user may reload a page
Bursts    == "bursts" \in world      \* several calls with one token are in flight
Strict    == "strict" \in world      \* React.StrictMode of a development build

Tokens == 1..MaxTokens

\* An async function of AuthProvider suspended in an await; tok: the token
\* set it works with.
Suspended == [at : {"prepare-login", "prepare-refresh", "refresh", "whoami",
                    "prepare-callback", "exchange", "whoami-after-callback"},
              tok : 0..MaxTokens]

\* page, leaving: the document and the location.assign that will replace it;
\* url: the login whose code, or error (denied), the query string carries; asked: the login the
\* provider is asked for; pending: sessionStorage knaic:auth:pkce; effects:
\* the mount effects to run; ready: configRef and discoveryRef are filled;
\* seeds: the prototype's data is in the stores; calls: the tokens of the
\* pages' calls in flight; trouble: something failed in this document.
Tab == [page : {"closed", "app", "idp"}, leaving : {"no", "idp", "home"},
        url : 0..MaxLogins, denied : BOOLEAN, asked : 0..MaxLogins, pending : 0..MaxLogins,
        status : {"loading", "authenticated", "redirecting", "error"},
        mode : {"dev-bypass", "oidc"}, bearer : 0..MaxTokens, mounted : BOOLEAN,
        booted : BOOLEAN, redirecting : BOOLEAN, ready : BOOLEAN, seeds : BOOLEAN,
        runs : SUBSET Suspended, calls : SUBSET (0..MaxTokens),
        trouble : BOOLEAN, reloads : 0..MaxReloads]

TypeOK ==
    /\ stored \in 0..MaxTokens
    /\ fresh \subseteq Tokens /\ live \subseteq Tokens /\ refreshable \subseteq Tokens
    /\ issued \in 0..MaxTokens
    /\ logins \in 0..MaxLogins
    /\ exchanged \subseteq 0..MaxLogins
    /\ tab \in [Tabs -> Tab]
    /\ world \in Worlds

\* The document as it is before the effects of AuthProvider run.
Loaded(t, url, denied) ==
    [tab[t] EXCEPT !.page = "app", !.leaving = "no", !.url = url, !.denied = denied, !.asked = 0,
                   !.status = "loading", !.mode = "oidc", !.bearer = 0,
                   !.mounted = FALSE, !.booted = FALSE, !.redirecting = FALSE, !.ready = FALSE,
                   !.seeds = TRUE, !.runs = {}, !.calls = {}, !.trouble = FALSE]

\* A browser that may hold the token set of an earlier visit.
Init ==
    /\ world \in Worlds
    /\ stored \in {0, 1} \cap 0..MaxTokens
    /\ issued = stored
    /\ fresh \in SUBSET (1..stored)
    /\ live \in SUBSET (1..stored) /\ fresh \subseteq live
    /\ refreshable \in SUBSET (1..stored)
    /\ logins = 0
    /\ exchanged = {}
    /\ tab = [t \in Tabs |->
                [page |-> "closed", leaving |-> "no", url |-> 0, denied |-> FALSE, asked |-> 0,
                 pending |-> 0, status |-> "loading", mode |-> "oidc", bearer |-> 0,
                 mounted |-> FALSE, booted |-> FALSE, redirecting |-> FALSE,
                 ready |-> FALSE, seeds |-> TRUE, runs |-> {}, calls |-> {},
                 trouble |-> FALSE, reloads |-> 0]]

-----------------------------------------------------------------------------
(* The browser *)

tokenVars == <<fresh, live, refreshable, issued>>

\* The user opens the console in a tab.
Open(t) ==
    /\ tab[t].page = "closed"
    /\ OneTab => \A u \in Tabs : tab[u].page = "closed"
    /\ tab' = [tab EXCEPT ![t] = Loaded(t, 0, FALSE)]
    /\ UNCHANGED <<stored, tokenVars, logins, exchanged, world>>

\* The user reloads the page: same URL, sessionStorage kept, memory lost.
Reload(t) ==
    /\ tab[t].page = "app" /\ tab[t].leaving = "no"
    /\ Reloads /\ tab[t].reloads < MaxReloads
    /\ tab' = [tab EXCEPT ![t] = [Loaded(t, tab[t].url, tab[t].denied) EXCEPT
                                     !.reloads = tab[t].reloads + 1,
                                     !.trouble = tab[t].url # 0]]
    /\ UNCHANGED <<stored, tokenVars, logins, exchanged, world>>

\* The navigation that location.assign asked for replaces the document.
Leave(t) ==
    /\ tab[t].leaving # "no"
    /\ tab' = [tab EXCEPT ![t] = IF tab[t].leaving = "home" THEN Loaded(t, 0, FALSE)
                                 ELSE [tab[t] EXCEPT !.page = "idp", !.leaving = "no",
                                                     !.runs = {}, !.calls = {}]]
    /\ UNCHANGED <<stored, tokenVars, logins, exchanged, world>>

\* The provider redirects to /auth/callback, with a code or with an error.
Return(t, ok) ==
    /\ tab[t].page = "idp"
    /\ tab' = [tab EXCEPT ![t] = [Loaded(t, tab[t].asked, ~ok) EXCEPT !.trouble = ~ok]]
    /\ UNCHANGED <<stored, tokenVars, logins, exchanged, world>>

\* Time passes: the browser's margin of 30 s puts fresh before live.
Expire(k) ==
    /\ \/ fresh' = fresh \ {k} /\ k \in fresh /\ UNCHANGED <<live, refreshable>>
       \/ live' = live \ {k} /\ k \in live \ fresh /\ UNCHANGED <<fresh, refreshable>>
       \/ refreshable' = refreshable \ {k} /\ k \in refreshable /\ UNCHANGED <<fresh, live>>
    /\ UNCHANGED <<stored, issued, logins, exchanged, tab, world>>

-----------------------------------------------------------------------------
(* AuthProvider *)

\* The middleware of knaic-api, dev bypass or OIDC.
Accepts(k) == DevBypass \/ k \in live

Run(at, k) == [at |-> at, tok |-> k]

\* startLogin up to its first await, in tab record r.
StartLogin(r) ==
    IF r.redirecting THEN r
    ELSE [r EXCEPT !.redirecting = TRUE, !.status = "redirecting",
                   !.runs = r.runs \cup {Run("prepare-login", 0)}]

\* clearAndLogin: the token set and the pending login go, then startLogin.
ClearAndLogin(t, r) ==
    /\ stored' = 0
    /\ tab' = [tab EXCEPT ![t] = StartLogin([r EXCEPT !.bearer = 0, !.pending = 0])]

\* The query string has a state, with a code or an error.
IsCallbackPath(r) == r.url # 0

HasUsableAccessToken(k) == k \in fresh

\* bootstrap up to its first await.
Bootstrap(r) ==
    IF IsCallbackPath(r) THEN [r EXCEPT !.runs = r.runs \cup {Run("prepare-callback", 0)}]
    ELSE IF stored # 0 /\ ~HasUsableAccessToken(stored)
         THEN [r EXCEPT !.runs = r.runs \cup {Run("prepare-refresh", stored)}]
         ELSE [r EXCEPT !.bearer = stored, !.runs = r.runs \cup {Run("whoami", stored)}]

BootEffect(r) ==
    IF r.booted THEN r ELSE Bootstrap([r EXCEPT !.booted = TRUE])

\* The mount effects of a document, which a development build runs twice.
MountEffect(t) ==
    /\ tab[t].page = "app" /\ ~tab[t].mounted
    /\ LET r == BootEffect([tab[t] EXCEPT !.mounted = TRUE])
       IN tab' = [tab EXCEPT ![t] = IF Strict THEN BootEffect(r) ELSE r]
    /\ UNCHANGED <<stored, tokenVars, logins, exchanged, world>>

\* Run k of tab t is resumed.
Resumed(t, k) == [tab[t] EXCEPT !.runs = tab[t].runs \ {k}]

Suspends(t, at, k) == k \in tab[t].runs /\ k.at = at

Failing(r) == [r EXCEPT !.status = "error", !.trouble = TRUE]

\* loadAuthConfig and loadDiscovery, which keep what they load.
PrepareSucceeds(t) == tab[t].ready \/ ~DevBypass
PrepareFails(t)    == ~tab[t].ready /\ (Lossy \/ DevBypass)

\* Mutant: keeps the pending login it finds.
BeginLoginOnce(t, k) ==
    /\ Suspends(t, "prepare-login", k)
    /\ PrepareSucceeds(t)
    /\ logins < MaxLogins
    /\ logins' = logins + 1
    /\ tab' = [tab EXCEPT ![t] = [Resumed(t, k) EXCEPT
                  !.ready = TRUE, !.asked = logins + 1, !.leaving = "idp",
                  !.pending = IF tab[t].pending # 0 THEN tab[t].pending ELSE logins + 1]]
    /\ UNCHANGED <<stored, tokenVars, exchanged, world>>

\* beginOIDCLogin: a new pending login, and away to the provider.
BeginLogin(t, k) ==
    /\ Suspends(t, "prepare-login", k)
    /\ PrepareSucceeds(t)
    /\ logins < MaxLogins
    /\ logins' = logins + 1
    /\ tab' = [tab EXCEPT ![t] = [Resumed(t, k) EXCEPT
                  !.ready = TRUE, !.pending = logins + 1, !.asked = logins + 1,
                  !.leaving = "idp"]]
    /\ UNCHANGED <<stored, tokenVars, exchanged, world>>

\* Mutant: no catch.
LoginFailsUncaught(t, k) ==
    /\ Suspends(t, "prepare-login", k)
    /\ PrepareFails(t)
    /\ tab' = [tab EXCEPT ![t] = Resumed(t, k)]
    /\ UNCHANGED <<stored, tokenVars, logins, exchanged, world>>

LoginFails(t, k) ==
    /\ Suspends(t, "prepare-login", k)
    /\ PrepareFails(t)
    /\ tab' = [tab EXCEPT ![t] = [Failing(Resumed(t, k)) EXCEPT !.redirecting = FALSE]]
    /\ UNCHANGED <<stored, tokenVars, logins, exchanged, world>>

PreparedRefresh(t, k) ==
    /\ Suspends(t, "prepare-refresh", k)
    /\ PrepareSucceeds(t)
    /\ tab' = [tab EXCEPT ![t] = [Resumed(t, k) EXCEPT
                  !.ready = TRUE,
                  !.runs = Resumed(t, k).runs \cup {Run("refresh", k.tok)}]]
    /\ UNCHANGED <<stored, tokenVars, logins, exchanged, world>>

\* Mutant: the token is stored, and not set for the calls.
RefreshedUnset(t, k) ==
    /\ Suspends(t, "refresh", k)
    /\ k.tok \in refreshable
    /\ issued < MaxTokens
    /\ issued' = issued + 1
    /\ fresh' = fresh \cup {issued + 1}
    /\ live' = live \cup {issued + 1}
    /\ refreshable' = (refreshable \ {k.tok}) \cup {issued + 1}
    /\ stored' = issued + 1
    /\ tab' = [tab EXCEPT ![t] = [Resumed(t, k) EXCEPT
                  !.runs = Resumed(t, k).runs \cup {Run("whoami", issued + 1)}]]
    /\ UNCHANGED <<logins, exchanged, world>>

\* The provider takes the refresh token back and issues the next set.
Refreshed(t, k) ==
    /\ Suspends(t, "refresh", k)
    /\ k.tok \in refreshable
    /\ issued < MaxTokens
    /\ issued' = issued + 1
    /\ fresh' = fresh \cup {issued + 1}
    /\ live' = live \cup {issued + 1}
    /\ refreshable' = (refreshable \ {k.tok}) \cup {issued + 1}
    /\ stored' = issued + 1
    /\ tab' = [tab EXCEPT ![t] = [Resumed(t, k) EXCEPT
                  !.bearer = issued + 1,
                  !.runs = Resumed(t, k).runs \cup {Run("whoami", issued + 1)}]]
    /\ UNCHANGED <<logins, exchanged, world>>

\* No refresh token, a refused one, or no answer: a new login.
RefreshFails(t, k) ==
    /\ \/ Suspends(t, "prepare-refresh", k) /\ PrepareFails(t)
       \/ Suspends(t, "refresh", k) /\ (k.tok \notin refreshable \/ Lossy)
    /\ ClearAndLogin(t, Resumed(t, k))
    /\ UNCHANGED <<tokenVars, logins, exchanged, world>>

\* finishCallback up to the exchange: the code belongs to the login this tab
\* began, which is forgotten before the code is used.
CheckCallback(t, k) ==
    /\ Suspends(t, "prepare-callback", k)
    /\ PrepareSucceeds(t)
    /\ ~tab[t].denied /\ tab[t].pending = tab[t].url
    /\ exchanged' = exchanged \cup {tab[t].url}
    /\ tab' = [tab EXCEPT ![t] = [Resumed(t, k) EXCEPT
                  !.ready = TRUE, !.pending = 0,
                  !.runs = Resumed(t, k).runs \cup {Run("exchange", 0)}]]
    /\ UNCHANGED <<stored, tokenVars, logins, world>>

CallbackFails(t, k) ==
    /\ \/ Suspends(t, "prepare-callback", k) /\ PrepareFails(t)
       \/ Suspends(t, "exchange", k) /\ Lossy
    /\ tab' = [tab EXCEPT ![t] = Failing(Resumed(t, k))]
    /\ UNCHANGED <<stored, tokenVars, logins, exchanged, world>>

\* An error in the query string, or a state that is not this tab's.
CallbackRefused(t, k) ==
    /\ Suspends(t, "prepare-callback", k)
    /\ PrepareSucceeds(t)
    /\ tab[t].denied \/ tab[t].pending # tab[t].url
    /\ tab' = [tab EXCEPT ![t] = [Resumed(t, k) EXCEPT !.ready = TRUE, !.status = "error"]]
    /\ UNCHANGED <<stored, tokenVars, logins, exchanged, world>>

Exchanged(t, k) ==
    /\ Suspends(t, "exchange", k)
    /\ issued < MaxTokens
    /\ issued' = issued + 1
    /\ fresh' = fresh \cup {issued + 1}
    /\ live' = live \cup {issued + 1}
    /\ refreshable' = refreshable \cup {issued + 1}
    /\ stored' = issued + 1
    /\ tab' = [tab EXCEPT ![t] = [Resumed(t, k) EXCEPT
                  !.bearer = issued + 1,
                  !.runs = Resumed(t, k).runs \cup {Run("whoami-after-callback", issued + 1)}]]
    /\ UNCHANGED <<logins, exchanged, world>>

AsksWhoAmI(t, k) ==
    /\ k \in tab[t].runs
    /\ k.at \in {"whoami", "whoami-after-callback"}

ClearSeeds(r) == [r EXCEPT !.seeds = FALSE]

\* The seeds go, the console is shown, the callback's URL is replaced.
Show(r, k) ==
    [ClearSeeds(r) EXCEPT !.status = "authenticated",
              !.mode = IF k.at = "whoami-after-callback" \/ k.tok # 0 THEN "oidc"
                       ELSE "dev-bypass",
              !.url = IF k.at = "whoami-after-callback" THEN 0 ELSE r.url]

Admitted(t, k) ==
    /\ AsksWhoAmI(t, k)
    /\ Accepts(k.tok)
    /\ tab' = [tab EXCEPT ![t] = Show(Resumed(t, k), k)]
    /\ UNCHANGED <<stored, tokenVars, logins, exchanged, world>>

\* Mutant: any failure of whoami is taken for a 401.
RefusedOrFailed(t, k) ==
    /\ AsksWhoAmI(t, k)
    /\ ~Accepts(k.tok) \/ Lossy
    /\ ClearAndLogin(t, Resumed(t, k))
    /\ UNCHANGED <<tokenVars, logins, exchanged, world>>

\* A 401 of bootstrap's own call, which skips the handler.
Refused(t, k) ==
    /\ AsksWhoAmI(t, k)
    /\ ~Accepts(k.tok)
    /\ ClearAndLogin(t, Resumed(t, k))
    /\ UNCHANGED <<tokenVars, logins, exchanged, world>>

WhoAmIFails(t, k) ==
    /\ AsksWhoAmI(t, k)
    /\ Lossy
    /\ tab' = [tab EXCEPT ![t] = Failing(Resumed(t, k))]
    /\ UNCHANGED <<stored, tokenVars, logins, exchanged, world>>

-----------------------------------------------------------------------------
(* The console that is shown, and the buttons *)

\* AuthGate shows the pages, or a status screen that has buttons on an error.
Gate(t)         == tab[t].page = "app" /\ tab[t].status = "authenticated"
SignInFailed(t) == tab[t].page = "app" /\ tab[t].status = "error"

\* A page calls knaic-api with the token in memory.
Call(t) ==
    /\ Gate(t)
    /\ tab[t].bearer \notin tab[t].calls
    /\ tab' = [tab EXCEPT ![t] = [tab[t] EXCEPT !.calls = tab[t].calls \cup {tab[t].bearer}]]
    /\ UNCHANGED <<stored, tokenVars, logins, exchanged, world>>

\* A call with token c is answered; others that carry it may be left.
Answered(t, c, last) ==
    IF last THEN [tab[t] EXCEPT !.calls = tab[t].calls \ {c}] ELSE tab[t]

Answer(t, c) ==
    /\ Accepts(c) \/ Lossy
    /\ tab' = [tab EXCEPT ![t] = Answered(t, c, TRUE)]
    /\ UNCHANGED <<stored, tokenVars, logins, exchanged, world>>

\* request's 401: the handler of AuthProvider, then the page sees an ApiError.
Unauthorized(t, c, last) ==
    /\ ~Accepts(c)
    /\ ClearAndLogin(t, Answered(t, c, last))
    /\ UNCHANGED <<tokenVars, logins, exchanged, world>>

Login(t) ==
    /\ SignInFailed(t)
    /\ tab' = [tab EXCEPT ![t] = StartLogin(tab[t])]
    /\ UNCHANGED <<stored, tokenVars, logins, exchanged, world>>

\* Boots again with the URL as it is; bootstrap sets no guard of its own.
Retry(t) ==
    /\ SignInFailed(t)
    /\ tab' = [tab EXCEPT ![t] = Bootstrap([tab[t] EXCEPT
                  !.status = "loading", !.booted = FALSE, !.redirecting = FALSE])]
    /\ UNCHANGED <<stored, tokenVars, logins, exchanged, world>>

Logout(t) ==
    /\ Gate(t)
    /\ stored' = 0
    /\ tab' = [tab EXCEPT ![t] = [tab[t] EXCEPT
                  !.bearer = 0, !.pending = 0, !.status = "redirecting",
                  !.leaving = "home"]]
    /\ UNCHANGED <<tokenVars, logins, exchanged, world>>

-----------------------------------------------------------------------------

Resume(t, k) ==
    \/ BeginLogin(t, k) \/ LoginFails(t, k)
    \/ PreparedRefresh(t, k) \/ Refreshed(t, k) \/ RefreshFails(t, k)
    \/ CheckCallback(t, k) \/ CallbackRefused(t, k) \/ CallbackFails(t, k)
    \/ Exchanged(t, k)
    \/ Admitted(t, k) \/ Refused(t, k) \/ WhoAmIFails(t, k)

Next ==
    \/ \E t \in Tabs :
        \/ Open(t) \/ Reload(t) \/ Leave(t) \/ MountEffect(t)
        \/ \E ok \in BOOLEAN : Return(t, ok)
        \/ \E k \in tab[t].runs : Resume(t, k)
        \/ Call(t)
        \/ \E c \in tab[t].calls : Answer(t, c) \/ \E last \in {TRUE, ~Bursts} : Unauthorized(t, c, last)
        \/ Login(t) \/ Retry(t) \/ Logout(t)
    \/ \E k \in Tokens : Expire(k)

Progress(t) == MountEffect(t) \/ Leave(t) \/ \E k \in tab[t].runs : Resume(t, k)

\* Effects run, requests are answered or fail, navigations happen; users,
\* clocks and pages owe nothing.
Spec == Init /\ [][Next]_vars /\ \A t \in Tabs : WF_vars(Progress(t))

-----------------------------------------------------------------------------
(* Properties *)

\* The console is only shown when the prototype's demo data has left the
\* stores of this document (clearSeedStoresForApiMode precedes setStatus).
ShownWithoutSeeds ==
    \A t \in Tabs : tab[t].status = "authenticated" => ~tab[t].seeds

\* The console of an OIDC user either has a bearer token for its calls or is
\* already on its way to a new login, whatever 401s arrive late. (Another tab's
\* token set, adopted by a retry, can be dropped by a second late 401.)
ShownWithToken ==
    OneTab \/ ~Bursts => \A t \in Tabs :
        (tab[t].status = "authenticated" /\ tab[t].mode = "oidc" /\ tab[t].bearer = 0)
        => \/ tab[t].leaving # "no" \/ tab[t].page # "app"
           \/ \E k \in tab[t].runs : k.at = "prepare-login"

\* "Sign in failed" is shown only if something failed in this document: a
\* callback is not refused for a login that this tab began and completed. So it
\* is while a token has one call in flight.
ErrorIsEarned ==
    ~Bursts => \A t \in Tabs : tab[t].status = "error" => tab[t].trouble

\* The same, when a page had several calls in flight: completeOIDCCallback's
\* "OIDC callback state does not match this session" is for foreign callbacks.
OwnCallbackAccepted ==
    \A t \in Tabs : tab[t].status = "error" => tab[t].trouble

\* A code is sent to the token endpoint once, across reloads and retries.
CodeUsedOnce ==
    [][\A t \in Tabs : \A k \in tab'[t].runs \ tab[t].runs :
          k.at = "exchange" => tab[t].url \notin exchanged]_vars

\* bootstrap was renewing the stored set, which is about to end, and gives up:
\* the provider refuses, or a request of the renewal fails.
RenewalEnds(t) ==
    /\ stored \notin fresh
    /\ \E k \in tab[t].runs \ tab'[t].runs : k.at \in {"prepare-refresh", "refresh"} /\ k.tok = stored

\* With one tab, a stored token set is dropped only at logout, when knaic-api
\* does not accept it, or when its own renewal ends without a new one, be it
\* that a request of the renewal failed.  A set that is accepted and not being
\* renewed survives every other failure and every late answer.
DroppedForCause ==
    [][OneTab /\ stored # 0 /\ stored' = 0 =>
          \/ ~Accepts(stored)
          \/ \E t \in Tabs : RenewalEnds(t)
          \/ \E t \in Tabs : tab'[t].leaving = "home" /\ tab[t].leaving = "no"]_vars

\* Codes and token sets are neither used twice nor thrown away.
CredentialsKept == CodeUsedOnce /\ DroppedForCause

Unsettled(t) ==
    tab[t].page = "app" /\ tab[t].status \in {"loading", "redirecting"}

Settled(t) ==
    \/ tab[t].page # "app" \/ tab[t].status \in {"authenticated", "error"}
    \/ logins = MaxLogins \/ issued = MaxTokens

\* The spinner is not for ever: a document that is booting or redirecting
\* shows the console, an error, or gives way to the provider.
Settles == \A t \in Tabs : Unsettled(t) ~> Settled(t)

=============================================================================
